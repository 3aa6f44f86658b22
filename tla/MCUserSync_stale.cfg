\* Two handlers at a time, nothing fails: a copy stays stale.
SPECIFICATION Spec
CONSTANTS
    w1 = w1
    w2 = w2
    NoRow = NoRow
    Services = {"thread"}
    Resilient = {}
    Workers = {w1, w2}
    Names = {"alice", "bob"}
    BootName = "alice"
    Roles = {"member", "admin"}
    Avatars = {"none", "pic"}
    NoAvatar = "none"
    Handlers = {"register", "role", "status"}
    Faults = {}
    MaxUser = 2
    MaxRequests = 3
    MaxRestarts = 1
CHECK_DEADLOCK FALSE
INVARIANT UpdatesKeepCopiesFresh
