CONSTANTS
    Value <- Values
    Configs <- KindConfigs
    Worlds <- KindWorlds
    Edits <- KindEdits
    MaxRuns = 3
    MaxEdits = 1
SPECIFICATION Spec
INVARIANTS
    IInv
    Converges
    ChangesAreReal
    HealsUnlessStuck
PROPERTIES
    StepsTakeCare
