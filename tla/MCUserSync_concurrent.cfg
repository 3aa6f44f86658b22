\* Two handlers at a time, everything that can fail does.
SPECIFICATION Spec
CONSTANTS
    w1 = w1
    w2 = w2
    NoRow = NoRow
    Services = {"thread"}
    Resilient = {}
    Workers = {w1, w2}
    Names = {"alice", "bob"}
    BootName = "alice"
    Roles = {"member", "admin"}
    Avatars = {"none", "pic"}
    NoAvatar = "none"
    Handlers = {"register", "profile", "upload", "role", "status", "delete", "init_admin"}
    Faults = {"lose", "restart", "crash"}
    MaxUser = 3
    MaxRequests = 3
    MaxRestarts = 1
SYMMETRY Symmetry
CHECK_DEADLOCK FALSE
INVARIANT TypeOK
INVARIANT CopiesWereAuthoritative
INVARIANT CaughtUpIsReplay
INVARIANT LastEventIsHeld
INVARIANT DeletionNoticeIsTrue
PROPERTY OnlyStatusLiftsBan
