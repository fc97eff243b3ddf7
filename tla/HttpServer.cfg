CONSTANTS
    c1 = c1
    c2 = c2
    Client <- clients
    Says <- says
    Worker = {w1}
    NFd = 2
    max_requests = 0
    READ_BUFFER_SIZE = 2
    HdrLen = 3
    FileLen = 1
    SockBuf = 5
    MaxPieces = 3
SPECIFICATION FairSpec
INVARIANTS TypeOK OneHolder NoLeftovers
PROPERTIES LingerKept Answered
CHECK_DEADLOCK FALSE
