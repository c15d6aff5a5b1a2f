SPECIFICATION Spec
CONSTANTS
    Attrs <- All
    Values <- Two
    Names <- Two
    Braced <- Numbered
    Start <- Mixed
    Keys <- AttributeKeys
    Reliable = TRUE
    MaxWrites = 1
    MaxOthers = 0
INVARIANTS PanelMatchesDirectory PanelIsCurrent
