CONSTANTS
    c1 = c1
    c2 = c2
    Client <- clients
    Says <- says
    Worker = {w1}
    NFd = 1
    max_requests = 1
    READ_BUFFER_SIZE = 3
    HdrLen = 2
    FileLen = 4
    SockBuf = 3
    MaxPieces = 1
SPECIFICATION Spec
PROPERTIES ResponseComplete
CHECK_DEADLOCK FALSE
