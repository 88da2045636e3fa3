\* Two requests, perhaps with one key, on one limiter or on two.
SPECIFICATION PSpec
CONSTANTS
    Requests = {r1, r2}
    r1 = r1
    r2 = r2
    Keys = {k1}
    k1 = k1
    BadKeys = {x1}
    x1 = x1
    NoKey = NoKey
    Routes = {"api", "speech"}
    Burst = 1
    MaxTicks = 1
INVARIANTS InFlightGauge ObservedAsAnswered HandlerPaid KeyBudget
PROPERTY AlwaysAnswered
CHECK_DEADLOCK FALSE
