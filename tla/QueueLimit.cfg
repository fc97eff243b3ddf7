CONSTANTS
    Worker = {w1, w2}
    Producer = {main}
    Request = {r1, r2, r3, r4}
    Idle = Idle
    max_requests = 1
    MaxEintr = 1
SPECIFICATION Spec
PROPERTIES ImplementsDocumentedQueue
CHECK_DEADLOCK FALSE
