CONSTANTS
    a = a
    b = b
    c = c
    Op = {a, b, c}
    Graphs <- ThreeOpGraphs
SPECIFICATION Spec
INVARIANTS
    IInv
    ExecutesOnceInOrder
    ReportIsSound
PROPERTIES
    KeepsSchedule
    StepEnds
