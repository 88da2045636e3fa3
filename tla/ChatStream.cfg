\* Up to four upstream lines of every kind.
SPECIFICATION SSpec
CONSTANT MaxLines = 4
INVARIANTS EventsFaithful SuccessIsComplete
PROPERTY StreamEnds
