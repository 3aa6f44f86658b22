\* Tabs of two people, a broadcast or notices, an emitter, and all that can fail.
SPECIFICATION FairSpec
CONSTANTS
    Users = {"ann", "bob"}
    NoUser = "nobody"
    Everyone = "everyone"
    Nobody = "sync"
    Emitters = {"emitter"}
    Faults = {"db", "restart"}
    MaxLog = 2
    MaxSockets = 2
    MaxRequests = 1
    MaxRestarts = 1
CHECK_DEADLOCK FALSE
INVARIANT TypeOK
INVARIANT RegistryIsTrue
INVARIANT GhostsAreTorn
INVARIANT OncePerRun
INVARIANT NothingSkipped
PROPERTY EveryoneHears
PROPERTY RefinesInbox
PROPERTY NoticesArrive
