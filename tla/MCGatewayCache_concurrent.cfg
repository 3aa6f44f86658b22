\* Two handlers, every fault; a page of threads with its counts of replies and one of comments,
\* both of which a new comment changes.
SPECIFICATION FairSpec
CONSTANTS
    w1 = w1
    w2 = w2
    Nobody = Nobody
    NoEntry = NoEntry
    Missing = Missing
    Workers = {w1, w2}
    Clients = {"ann"}
    Pages = {"list", "comments"}
    PathOf <- Paths
    Shows <- Sources
    Called <- Calls
    Personal = {"comments"}
    Writes = {"comment"}
    WritePath <- WritePaths
    Changes <- Targets
    Tables = {"threads", "comments", "accounts"}
    Synced = {"accounts"}
    Faults = {"redis", "call", "timeout", "stop"}
    TTL = 2
    MaxVersion = 1
INVARIANT TypeOK
INVARIANT StaleForCause
PROPERTY StaleEntriesExpire
