CONSTANTS
    o1 = o1
    o2 = o2
    s1 = s1
    q1 = q1
    Owners = {o1, o2}
    NoOwner = NoOwner
    NoTask = NoTask
    MaxId = 2
    Slots = {s1}
    Requests = {q1}
    AttemptLimits = {2}
    MaxTries = 1
    MaxGen = 1
    SingleProcess = FALSE
    Env = {"crash", "delete", "stop"}
SPECIFICATION Spec
INVARIANTS OneRunPerRow
PROPERTIES CancelBeatsClaim
SYMMETRY OwnerSymmetry
CHECK_DEADLOCK FALSE
