CONSTANTS
    BUF_SIZE = 3
    SockBuf = 1
    ReqLen = 2
    RespLen = 4
    Rounds = 2
    HalfDuplex = TRUE
    Conn = {c1, c2}
    NFd = 4
    MaxClients = 3
    MaxFail = 1
SPECIFICATION WorkerSpec
INVARIANTS
    TypeOK
    StreamIntegrity
    PendingIsArmed
    MgrTypeOK
    SocketsOwned
PROPERTIES
    Delivery
    StopFrees
    EndsForItsOwn
    ImplementsConnPool
CHECK_DEADLOCK FALSE
