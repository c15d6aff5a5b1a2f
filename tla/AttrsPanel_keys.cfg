SPECIFICATION Spec
CONSTANTS
    Lower <- LowerCase
    Schemas <- Published
    Entries <- Read
    Rank <- Order
    Jump = 3
    Sizes <- Windows
    MaxEdit = 1
    StartsEmpty = FALSE
INVARIANTS
    TypeOK
    SelectedOnScreen
    NothingLost
    ClassesTopDown
    SchemaAsDefined
PROPERTY
    ToggleStays
