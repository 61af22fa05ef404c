CONSTANTS
    T = T
    A = A
    B = B
    p = p
    q = q
    Procs = {p, q}
    Target = 2
    Columns = {T, A, B}
    Adds <- MCAdds
    Brings <- MCBrings
    Before <- MCBefore
    MaxLives = 3
    c1 = c1
    c2 = c2
    quark = quark
    general = general
    tmdb = tmdb
    Types = {quark, general, tmdb}
    Common = {quark, general}
    Callers = {p, q}
    None = None
    MaxMade = 5
    Clients = {c1, c2}
    Requests = 2
    Seconds = 3
    Block = 2
    CleanupInterval = 2
    X = X
    Y = Y
    I = I
    J = J
    MaxLost = 1
    a = a
    b = b
    c = c
    Keys = {a, b, c}
    L1Max = 2
    L2Max = 2
    L1Ttl = 1
    L2Ttl = 2
    MaxSets = 2
    Quark = Quark
    Link = Link
    Playback = Playback
    Names = {a}
    MaxSize = 2
    MaxVersion = 2
    Getters = {p}
    Users = {a}
    Passwords = {p, q}
    ApiKey = Quark
    MaxAttempts = 2
    LockTime = 2
    AccessTtl = 2
    RefreshTtl = 2
    Medium = 1
    High = 1
    Few = 1
    Many = 2
    MaxEvents = 2
    MaxIds = 2
    MaxFaults = 1
    t1 = t1
    t2 = t2
    t3 = t3
    Nobody = Nobody
    Askers = {t1, t2, t3}
    Films = {a}
    MaxRequests = 2
    Window = 2
    Ttl = 2
    MaxTries = 2
    ApiKeys = {p}
    NoKey = NoKey
    MaxCalls = 4
SPECIFICATION Services
INVARIANTS MigrationHolds  LibraryHolds CachesHold  AlertsHold
PROPERTIES LifecycleHolds LimitHolds LevelsHold
CHECK_DEADLOCK FALSE
