CONSTANTS
    Req = {r1}
    Names = {a, b}
    DirSelf = DirSelf
    NoReq = NoReq
    MaxSend = 3
    MaxDiskOps = 2
SPECIFICATION Spec
CHECK_DEADLOCK FALSE
INVARIANTS TypeOK ViewConsistent EndExistFirst NoEventWhileBlocked
PROPERTIES Converges
