SPECIFICATION FairSpec
CONSTANTS
    N = 3
    Clients = 2
    Requests <- requests
    Cuts = {2, 5, 6}
    BUFFER_SIZE = 6
    MaxStops = 1
INVARIANTS
    TypeOK
    InTurn
    Programs
PROPERTY Answered
CHECK_DEADLOCK FALSE
