CONSTANTS
    Caller = {c1, c2, c3}
    Session = {s1}
    NoSession = NoSession
    Max = 2
    MaxTries = 1
SPECIFICATION Spec
INVARIANTS
    IInv
    StreamsApart
    ServerLimit
    NothingLeaks
PROPERTY EveryCommandEnds
