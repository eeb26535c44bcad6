CONSTANTS
    Contexts <- MCContexts
    Stubs    <- MCStubs
    Modules  <- MCModules
    Reader    <- Read
    Analyzer  <- Analyze
    Formatter <- Formatted
    MaxCalls = 3

SPECIFICATION Spec

INVARIANTS
    TypeOK
    Grouping
    AcceptedIsSound

PROPERTY FmtIsFaithful

CHECK_DEADLOCK FALSE
