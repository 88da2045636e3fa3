\* A chat backend and Kokoro, which two failed probes degrade.
SPECIFICATION KSpec
CONSTANTS
    ChatBackends = {ollama}
    TTSBackends = {kokoro}
    ollama = ollama
    kokoro = kokoro
    KokoroName = kokoro
    FailThreshold = 2
    MaxFailures = 2
    MaxAbandoned = 1
    MaxDirect = 1
INVARIANTS VerdictIsExact FailedLoadIsFinal
PROPERTIES StarvedForGood RoutingFollowsLoad CallEnds
