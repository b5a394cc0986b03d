CONSTANTS
    MaxReq = 2
    CacheTimeouts = {2, 5}
    RemotePolling = TRUE
    MaxPeerEvents = 3
    MaxLate = 1
    MaxRetryInterval = 1
    RetryInterval = 3
    PathMax = 4
    NameChars <- MCNameChars
    Nums <- MCNums
    MsgBufSiz = 3000
    MaxMsgSiz = 300
    ReadSizes = {1, 5, 100}
    HistReqs = {1}
    HistNames <- MCHistNames
    HistLen = 1
    MaxInFlight = 1
SPECIFICATION Spec
CHECK_DEADLOCK FALSE
INVARIANTS
    AppEventsDelivered
