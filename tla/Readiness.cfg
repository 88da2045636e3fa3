\* Two chat backends whose verdict follows every probe, one health check after another.
SPECIFICATION RSpec
CONSTANTS
    ChatBackends = {mlx, ollama}
    TTSBackends = {}
    mlx = mlx
    ollama = ollama
    FailThreshold = 1
    MaxFailures = 1
    Checks = {c1}
    c1 = c1
INVARIANTS AnswersJustified
PROPERTIES GaugeHeals CheckAnswered
