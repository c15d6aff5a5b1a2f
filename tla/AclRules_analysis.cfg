SPECIFICATION Spec
CHECK_DEADLOCK FALSE
CONSTANTS
    Values <- AllValues
    MaxRules = 3
    MaxClauses = 2
    DNs <- Three
    Users <- Bound
    Attrs <- Names
    Selectors <- Strength
    Cut <- CutDNs
INVARIANTS
    DeadNeverDecides
    RewriteKeepsAccess
