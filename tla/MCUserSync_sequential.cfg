\* One handler at a time and a reliable broker; services restart.
SPECIFICATION FairSpec
CONSTANTS
    w1 = w1
    w2 = w2
    NoRow = NoRow
    Services = {"thread", "notification"}
    Resilient = {"notification"}
    Workers = {w1}
    Names = {"alice", "bob"}
    BootName = "alice"
    Roles = {"member", "admin"}
    Avatars = {"none", "pic"}
    NoAvatar = "none"
    Handlers = {"register", "profile", "upload", "role", "status"}
    Faults = {"crash"}
    MaxUser = 2
    MaxRequests = 3
    MaxRestarts = 1
CHECK_DEADLOCK FALSE
INVARIANT QuietCopiesAreFresh
PROPERTY EventuallyInAgreement
