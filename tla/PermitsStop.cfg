CONSTANTS
    c1 = c1
    c2 = c2
    f1 = f1
    k1 = k1
    NoKey = NoKey
    Nobody = Nobody
    Callers = {c1, c2}
    Titles = {f1}
    MaxRequests = 1
    Window = 2
    Ttl = 1
    MaxTries = 2
    ApiKeys = {k1}
    MaxVersion = 0
    MaxCalls = 3
SPECIFICATION LiveSpec
PROPERTY LookupEnds
CHECK_DEADLOCK FALSE
