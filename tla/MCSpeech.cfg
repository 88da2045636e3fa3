\* Three backends, one of them without an adapter, two requests.
SPECIFICATION SpSpec
CONSTANTS
    TTSBackends = {"kokoro", "kokoro-hd", "kokoro-lite"}
    Adapterless = {"kokoro-lite"}
    Models <- MCModels
    Extends <- MCExtends
    DefaultModel = "kokoro"
    NoBackend = NoBackend
    Requests = {r1, r2}
    r1 = r1
    r2 = r2
    RRMod = 2
SYMMETRY RequestSymmetry
INVARIANTS SpeechInFlight ModelDecides DecisionsAccounted
