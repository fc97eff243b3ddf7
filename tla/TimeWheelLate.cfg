CONSTANTS
    Timer = {t1, t2, t3, t4}
    N = 3
    TI = 1
    Timeouts = {0, 2, 3, 7}
    Again = {0, 3, 4}
SPECIFICATION Spec
INVARIANT AlwaysOnTime
