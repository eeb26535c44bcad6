CONSTANTS
    user = user
    dir = dir
    file = file
    Resource <- MCResource
    Within <- MCWithin
    Plans <- ThreeSteps
    Targets <- MCTargets
SPECIFICATION Spec
INVARIANTS
    IInv
    NothingMissed
    VerdictIsTrue
PROPERTIES
    KeepsSchedule
    RunEnds
