\* Every pair of edits, with every kind of key file.
SPECIFICATION BSpec
CONSTANTS
    Unset = Unset
    Garbage = Garbage
    NaN = NaN
    Infinity = Infinity
    Texts <- MCTexts
    FileEdits <- MCFileEdits
    EnvEdits <- MCEnvEdits
    KeyFiles <- MCKeyFiles
    MaxEdits = 2
INVARIANTS ListeningSound RegistriesAsConfigured CrashWasAsked
PROPERTIES ListeningIsWatched
