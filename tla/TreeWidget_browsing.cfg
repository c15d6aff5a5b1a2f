SPECIFICATION Spec
CONSTANTS
    Count = 3
    Sup <- Three
    Base = 1
    Page = 2
    Heights <- Windows
    MaxResults = 1
INVARIANTS
    TypeOK
    VisibleMatchesTree
    SelectedOnScreen
    NoLoop
    OneGroup
