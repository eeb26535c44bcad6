CONSTANTS
    Contexts <- ClaimContexts
    Stubs    <- MCStubs
    Modules  <- MCModules
    Reader    <- Read
    Analyzer  <- Analyze
    Formatter <- Formatted
    MaxCalls = 3

SPECIFICATION Spec

PROPERTY FmtIsSafe

CHECK_DEADLOCK FALSE
