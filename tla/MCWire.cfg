SPECIFICATION Spec
CONSTANTS
    UserIDs = {}
    RoleIDs = {}
    IntMax = 3
    LongMax = 15
    PlainMax = 10
    Spellings <- MCSpellings
    MaxRows = 2
INVARIANT TypeOK
INVARIANT NamesWhatItSpells
INVARIANT AnswersAgree
PROPERTY OthersUntouched
