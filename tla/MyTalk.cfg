SPECIFICATION FairSpec
CONSTANTS
    USER_LIMIT = 3
    MaxConnects = 4
    MaxWords = 2
    MaxLeaves = 2
INVARIANTS
    Slots
    Usable
    Foreign
PROPERTY Removed
CHECK_DEADLOCK FALSE
