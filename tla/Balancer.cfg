CONSTANTS
    N = 2
    MaxConn = 2
    MaxClients = 3
    MaxEnds = 1
    MaxCrash = 1
    MaxStale = 1
SPECIFICATION FairSpec
INVARIANTS TypeOK JobsBacked StopsLast
PROPERTIES Shutdown
CHECK_DEADLOCK FALSE
