CONSTANTS
    w1 = w1
    w2 = w2
    p1 = p1
    p2 = p2
    Worker = {w1, w2}
    Process = {p1, p2}
    Msg = {m1, m2, m3}
    Owner <- TwoWorkers
SPECIFICATION Spec
INVARIANT NoMessageLost
CHECK_DEADLOCK FALSE
