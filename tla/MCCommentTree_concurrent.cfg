\* Two handlers at a time, mentions of the author of a thread, restores, lookups of the thread
\* that fail, and a restart of the service.
SPECIFICATION Spec
CONSTANTS
    w1 = w1
    w2 = w2
    ann = ann
    mod = mod
    adm = adm
    NoComment = NoComment
    Users = {ann, mod}
    Moderators = {mod}
    Admins = {}
    Threads = {1, 2}
    ThreadAuthor <- OwnerOf
    Mentioned <- NamedIn
    Contents = {"@ann"}
    Workers = {w1, w2}
    Handlers = {"create", "edit", "delete", "restore"}
    Faults = {"lookup", "restart"}
    MaxComment = 3
    MaxRequests = 4
    MaxRestarts = 1
SYMMETRY Symmetry
CHECK_DEADLOCK FALSE
INVARIANT TypeOK
INVARIANT WellFounded
INVARIANT OnlyRacesOrphan
INVARIANT ShownIsCounted
INVARIANT ThreadAuthorToldOnce
PROPERTY DeletesUnderAuthority
