CONSTANTS
    t1 = t1
    t2 = t2
    a = a
    b = b
    Self = Self
    Null = Null
    Tops <- MCTops2
    Kids <- MCKids
    NBuckets = 1
    MaxIno = 4
    MaxDiskOps = 1
    MaxRaces = 1
    QCap = 1
SPECIFICATION Spec
CHECK_DEADLOCK FALSE
INVARIANTS
    TypeOK
    ChainsWellFormed
