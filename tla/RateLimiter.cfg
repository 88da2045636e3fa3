\* Two keys, bursts of two, half a token per tick: full again after four ticks.
SPECIFICATION RLSpec
CONSTANTS
    Keys = {k1, k2}
    k1 = k1
    k2 = k2
    Burst = 2
    Rate = 1
    Token = 2
    Second = 2
    CleanEvery = 2
    StaleAfter = 4
    MaxTime = 7
INVARIANTS WindowBound HeadersHonest IdleBounded
PROPERTY ImplementsTokenBucket
