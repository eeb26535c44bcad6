CONSTANTS
    Name = {n1, n2}
    Id = {i1}
    NoId = NoId
    NoName = NoName
    Unknown = Unknown
    Proc = {p1, p2}
    MaxChanges = 2
SPECIFICATION Spec
INVARIANTS
    IInv
    CacheIsHonest
SYMMETRY Symmetry
CHECK_DEADLOCK FALSE
