\* One handler at a time, nothing fails: a moderator deletes a member's comment with one of the admin below.
SPECIFICATION Spec
CONSTANTS
    w1 = w1
    w2 = w2
    ann = ann
    mod = mod
    adm = adm
    NoComment = NoComment
    Users = {ann, mod, adm}
    Moderators = {mod}
    Admins = {adm}
    Threads = {1}
    ThreadAuthor <- OwnerOf
    Mentioned <- NamedIn
    Contents = {"text"}
    Workers = {w1}
    Handlers = {"create", "delete"}
    Faults = {}
    MaxComment = 2
    MaxRequests = 3
    MaxRestarts = 0
CHECK_DEADLOCK FALSE
PROPERTY StaffContentIsKept
