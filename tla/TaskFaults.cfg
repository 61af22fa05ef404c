CONSTANTS
    o1 = o1
    o2 = o2
    o3 = o3
    s1 = s1
    q1 = q1
    Owners = {o1, o2, o3}
    NoOwner = NoOwner
    NoTask = NoTask
    MaxId = 1
    Slots = {s1}
    Requests = {q1}
    AttemptLimits = {1, 2}
    MaxTries = 2
    MaxGen = 2
    SingleProcess = TRUE
    Env = {"crash", "stop", "expire", "delete", "dberror"}
SPECIFICATION Spec
INVARIANTS TypeOK AttemptBound LeaseFollowsStatus NoRerunAfterSuccess
PROPERTIES KeepsPromise
SYMMETRY OwnerSymmetry
CHECK_DEADLOCK FALSE
