\* Two backends and two concurrent requests, up to the signal.
INIT GInit
NEXT GNext
CONSTANTS
    ChatBackends = {b1, b2}
    TTSBackends = {}
    b1 = b1
    b2 = b2
    Requests = {r1, r2}
    r1 = r1
    r2 = r2
    Kinds = {"chat"}
    NoBackend = NoBackend
    RRMod = 2
    FailThreshold = 1
    MaxFailures = 1
CONSTRAINT UntilSignal
SYMMETRY BackendAndRequestSymmetry
INVARIANTS InFlightExact SelectionDefined ChoiceJustified ProbedBeforeTraffic
