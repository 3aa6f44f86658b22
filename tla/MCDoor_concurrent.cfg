\* One token, one address, a limit of one per client, two requests at a time, and Redis fails
\* once and may come back with less than it had.
SPECIFICATION Spec
CONSTANTS
    Addresses = {a1}
    Buckets = {"read"}
    Limit <- MCLimit
    NoKey = NoKey
    Tokens = {t1}
    NoToken = NoToken
    Handlers = {h1, h2}
    Second = 2
    Window = 2
    Life = 2
    MaxTime = 5
    MaxRequests = 2
    MaxOutages = 1
SYMMETRY Symmetry
CHECK_DEADLOCK FALSE
INVARIANT TypeOK
INVARIANT LimitHolds
PROPERTY RefusedForCause
PROPERTY LogoutHolds
