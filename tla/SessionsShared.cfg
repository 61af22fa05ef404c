CONSTANTS
    a = a
    b = b
    c1 = c1
    c2 = c2
    w1 = w1
    Keys = {a, b}
    L1Max = 1
    Clients = {c1}
    Workers = {w1}
    MaxWrites = 1
    Faults = {}
    MaxRecords = 1
    QueueSize = 2
    Configs = {c1, c2}
    Defaults = c1
    Bad = Bad
    Gone = Gone
    MaxEdits = 1
    s1 = s1
    s2 = s2
    Sessions = {s1, s2}
    Rows = {a, b}
    Unsaved = Unsaved
    Pool = "static"
    Limit = 1
    MaxRuns = 2
    MaxResets = 0
    Schema = 2
    MaxCommits = 1
SPECIFICATION Spec
INVARIANT SessionsKeep
CHECK_DEADLOCK FALSE
