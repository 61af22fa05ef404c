CONSTANTS
    k1 = k1
    m1 = m1
    p1 = p1
    p2 = p2
    t1 = t1
    t2 = t2
    NoThread = NoThread
    NoKey = NoKey
    Producers = {p1, p2}
    Threads = {t1, t2}
    MaxWorkers = 2
    Keys = {k1}
    Ops = {"insert"}
    Priorities = {"critical"}
    Models = {m1}
    Registered = {m1}
    MaxQueue = 3
    BatchSize = 2
    MaxRetries = 2
    MaxWrites = 3
    Faults = {"raise", "commit"}
    Control = {"stop", "restart", "clear"}
SPECIFICATION Spec
INVARIANTS TypeOK  InOrder
SYMMETRY ThreadSymmetry
CHECK_DEADLOCK FALSE
