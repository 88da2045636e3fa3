\* One backend and two requests, a stream among them, through the whole life cycle.
SPECIFICATION GSpec
CONSTANTS
    ChatBackends = {b1}
    TTSBackends = {}
    b1 = b1
    Requests = {r1, r2}
    r1 = r1
    r2 = r2
    Kinds = {"models", "stream"}
    NoBackend = NoBackend
    RRMod = 2
    FailThreshold = 1
    MaxFailures = 1
PROPERTIES ShutdownEnds RequestAnswered
