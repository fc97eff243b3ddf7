CONSTANTS
    Worker = {w1, w2}
    Producer = {main}
    Request = {r1, r2, r3, r4}
    Idle = Idle
    max_requests = 1
    MaxEintr = 1
    Messages <- messages
    ContentLength = 4
    READ_BUFFER_SIZE = 16
SPECIFICATION PartsSpec
INVARIANTS
    TypeOK
    NoStrandedRequest
    Agrees
PROPERTIES
    ImplementsTaskQueue
    EveryRequestServed
CHECK_DEADLOCK FALSE
