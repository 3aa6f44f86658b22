\* One handler at a time, two readers of a page that says what each of them likes.
SPECIFICATION Spec
CONSTANTS
    w1 = w1
    w2 = w2
    Nobody = Nobody
    NoEntry = NoEntry
    Missing = Missing
    Workers = {w1}
    Clients = {"ann", "bob"}
    Pages = {"list", "comments"}
    PathOf <- Paths
    Shows <- Sources
    Called <- Calls
    Personal = {"comments"}
    Writes = {"comment"}
    WritePath <- WritePaths
    Changes <- Targets
    Tables = {"threads", "comments", "accounts"}
    Synced = {}
    Faults = {}
    TTL = 1
    MaxVersion = 1
INVARIANT ResponseIsForItsReader
