CONSTANTS
    Ops <- Everything
    MaxRequests = 2
SPECIFICATION FairSpec
INVARIANTS
    TypeOK
    KeyboardNotLocked
    LoadingCoversWorker
    ConnExclusive
PROPERTIES
    CancelIsKept
    PanelNeverGoesBack
    LoadingEnds
    SlotEmptied
    RefreshFollows
    QuitEnds
