CONSTANTS
    Ops <- DeleteAndExpand
    MaxRequests = 2
SPECIFICATION Spec
INVARIANTS
    TreeExclusive
