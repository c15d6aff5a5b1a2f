SPECIFICATION Spec
CONSTANTS
    Attrs <- Basic
    Values <- Three
    Names <- Two
    Braced <- SomeMail
    Start <- Single
    Keys <- SessionKeys
    Reliable = TRUE
    MaxWrites = 1
    MaxOthers = 1
INVARIANT TypeOK
PROPERTY EditTakesOneValue
