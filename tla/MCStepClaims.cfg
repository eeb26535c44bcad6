CONSTANTS
    Value <- Values
    Configs <- PlanConfigs
    Worlds <- EverydayWorlds
    Edits <- KindEdits
    MaxRuns = 1
    MaxEdits = 0
SPECIFICATION ApplySpec
INVARIANT ImmediateConvergence
