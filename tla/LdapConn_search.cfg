SPECIFICATION FairSpec
CONSTANTS
    Count = 3
    PagingSizes <- Pagings
    SizeLimits <- Limits
    MaxNotices = 2
INVARIANTS
    NoEntryTwice
    NothingLeftOpen
    CallbackIsTold
PROPERTIES
    Answers
    SearchEnds
