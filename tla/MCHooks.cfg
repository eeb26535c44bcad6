CONSTANTS
    h1 = h1
    h2 = h2
    h3 = h3
    Hook = {h1, h2, h3}
    Configs <- MCConfigs
SPECIFICATION Spec
INVARIANTS
    IInv
    OwedInOrder
PROPERTIES
    FailureStopsHooks
    KeepsPromise
    RunEnds
