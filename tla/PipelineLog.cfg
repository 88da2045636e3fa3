\* Two requests with a key; a handler may panic.
SPECIFICATION PSpec
CONSTANTS
    Requests = {r1, r2}
    r1 = r1
    r2 = r2
    Keys = {k1}
    k1 = k1
    BadKeys = {}
    NoKey = NoKey
    Routes = {"api"}
    Burst = 2
    MaxTicks = 0
INVARIANT SomePromiseKept
CHECK_DEADLOCK FALSE
