\* Two tokens, of which a request may carry one in its cookie and another in its header.
SPECIFICATION Spec
CONSTANTS
    Addresses = {a1}
    Buckets = {"read"}
    Limit <- MCLimit
    NoKey = NoKey
    Tokens = {t1, t2}
    NoToken = NoToken
    Handlers = {h1, h2}
    Second = 2
    Window = 2
    Life = 4
    MaxTime = 2
    MaxRequests = 2
    MaxOutages = 0
SYMMETRY Symmetry
CHECK_DEADLOCK FALSE
PROPERTY EveryRequestIsChecked
