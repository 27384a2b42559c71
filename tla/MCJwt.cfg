SPECIFICATION Spec
CONSTANTS
    IntMax = 7
    LongMax = 63
    Tick = 2
    Leeways <- SomeLeeways
    Tokens <- AllTokens
    MaxNow = 40
INVARIANT TypeOK
INVARIANT AcceptsItsWindow
PROPERTY NoSecondLife
