CONSTANTS
    Messages <- messages
    ContentLength = 4
    READ_BUFFER_SIZE = 16
SPECIFICATION ParserSpec
INVARIANTS BodiesComplete
CHECK_DEADLOCK FALSE
