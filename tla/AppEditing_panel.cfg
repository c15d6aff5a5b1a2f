SPECIFICATION Spec
CONSTANTS
    Attrs <- Brackets
    Values <- Two
    Names <- Two
    Braced <- Numbered
    Start <- Plain
    Keys <- GotoKeys
    Reliable = TRUE
    MaxWrites = 1
    MaxOthers = 0
PROPERTY PanelWriteGoesToShownEntry
