CONSTANTS
    i1 = i1
    i2 = i2
    s1 = s1
    t1 = t1
    NoId = NoId
    Ids = {i1, i2}
    MaxStarts = 3
    Stoppers = {s1}
    TaskIds = {t1}
    Execs = {1, 2, 3}
    MaxTasks = 3
    MaxKeep = 1
    MaxOps = 1
    P = P
    Q = Q
    F = F
    G = G
    MaxAgents = 1
SPECIFICATION Spec
PROPERTIES CronHolds SchedulerHolds WorkflowHolds LoopHolds
CHECK_DEADLOCK FALSE
