\* One name for a chat and a TTS service, and a chat backend with its own.
SPECIFICATION WSpec
CONSTANTS
    ChatBackends = {local, mlx}
    TTSBackends = {local}
    local = local
    mlx = mlx
    FailThreshold = 3
    MaxFailures = 4
INVARIANTS VerdictIsShared
PROPERTIES VerdictFollows StopEnds
