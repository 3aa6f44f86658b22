\* Two handlers at a time, edits of title, tags and status, broadcasts that are lost; the service may
\* restart in the middle.
SPECIFICATION Spec
CONSTANTS
    w1 = w1
    w2 = w2
    bob = bob
    adm = adm
    NoRow = NoRow
    Users = {bob, adm}
    Moderators = {bob}
    Admins = {adm}
    Communities = {"c"}
    CommunityOwner <- Bobs
    Values <- TextValues
    Workers = {w1, w2}
    Handlers = {"create", "edit", "delete", "like", "report", "review"}
    Faults = {"lose_news", "restart"}
    MaxThread = 1
    MaxReport = 2
    MaxRequests = 5
    MaxRestarts = 1
SYMMETRY Symmetry
CHECK_DEADLOCK FALSE
INVARIANT TypeOK
INVARIANT MisledForCause
INVARIANT OnlyOwnRivalsMisinform
INVARIANT OnlyRacesDuplicateReport
INVARIANT NobodyIsLeftOut
PROPERTY DeadStayDead
