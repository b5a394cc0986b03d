CONSTANTS
    t1 = t1
    t2 = t2
    a = a
    b = b
    Self = Self
    Null = Null
    Tops <- MCTops1
    Kids <- MCKids
    NBuckets = 1
    MaxIno = 5
    MaxDiskOps = 2
    MaxRaces = 0
    QCap = 4
SPECIFICATION Spec
CHECK_DEADLOCK FALSE
INVARIANTS
    WalkNextLive
