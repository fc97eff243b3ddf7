CONSTANTS
    USER_LIMIT = 2
    MaxClients = 3
    MaxTexts = 2
    MaxInputs = 4
SPECIFICATION RoomFairSpec
INVARIANTS Registered NoEcho
PROPERTIES StopsLast Shutdown
CHECK_DEADLOCK FALSE
