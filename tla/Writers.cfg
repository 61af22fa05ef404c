CONSTANTS
    a = a
    b = b
    c1 = c1
    c2 = c2
    w1 = w1
    w2 = w2
    Keys = {a, b}
    L1Max = 1
    Clients = {c1}
    Workers = {w1, w2}
    MaxWrites = 2
    Faults = {"crash", "disk"}
    MaxRecords = 4
    QueueSize = 2
    Configs = {c1, c2}
    Defaults = c1
    Bad = Bad
    Gone = Gone
    MaxEdits = 3
    s1 = s1
    s2 = s2
    s3 = s3
    Sessions = {s1, s2, s3}
    Rows = {a, b}
    Unsaved = Unsaved
    Pool = "queue"
    Limit = 2
    MaxRuns = 4
    MaxResets = 1
    Schema = 2
    MaxCommits = 2
SPECIFICATION Spec
PROPERTIES TieredHolds AuditHolds ConfigHolds 
CHECK_DEADLOCK FALSE
