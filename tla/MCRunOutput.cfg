CONSTANTS
    Lane <- MCLane
    Plan <- MCPlan
    HookSteps <- MCHookSteps
    MaxChanges = 1
    Buffer = 2
    MaxShown = 1
    Height = 3
SPECIFICATION Spec
INVARIANTS
    IInv
    BlocksInOrder
    EndsInOrder
    RegionIsTrue
PROPERTY CommandEnds
