CONSTANTS
    Timer = {t1, t2, t3, t4}
    N = 3
    TI = 1
    Timeouts = {0, 2, 3, 7}
    Again = {0, 3, 4}
    cap = 1
    Delay = {0, 1, 2}
    MaxTime = 3
SPECIFICATION TimersSpec
INVARIANTS
    Linked
    OnTime
    HeapTypeOK
    HeapOrder
PROPERTY NoneLeft
