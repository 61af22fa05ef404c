CONSTANTS
    k1 = k1
    m1 = m1
    m2 = m2
    p1 = p1
    p2 = p2
    t1 = t1
    t2 = t2
    NoThread = NoThread
    NoKey = NoKey
    Producers = {p1, p2}
    Threads = {t1, t2}
    MaxWorkers = 1
    Keys = {k1}
    Ops = {"update", "upsert"}
    Priorities = {"normal"}
    Models = {m1, m2}
    Registered = {m1}
    MaxQueue = 4
    BatchSize = 2
    MaxRetries = 2
    MaxWrites = 2
    Faults = {"raise", "commit"}
    Control = {"stop", "slow", "restart"}
SPECIFICATION LiveSpec
PROPERTIES AckedSettles
CHECK_DEADLOCK FALSE
