SPECIFICATION Spec
CONSTANTS
    Commands <- MCCommands
    RcFiles <- MCRcFiles
    FilterFiles <- MCFilterFiles
    RootDSEs <- MCRootDSEs
    Default <- Defaults
INVARIANTS ValuesAsGiven AuthAsAsked TlsFirst  AskedIsDone
CHECK_DEADLOCK FALSE
