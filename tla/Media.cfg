CONSTANTS
    b1 = b1
    f1 = f1
    f2 = f2
    n1 = n1
    n2 = n2
    n3 = n3
    NoFile = NoFile
    Names = {n1, n2}
    MaxSuffix = 2
    Sidecars = {"srt"}
    MoreNames = {n1, n2, n3}
    FewerSuffixes = 1
    Files = {f1, f2}
    Batches = {b1}
    Faults = {"crash", "move", "others"}
    p = p
    q = q
    d1 = d1
    d2 = d2
    d3 = d3
    s1 = s1
    None = None
    Empty = Empty
    Paths = {p, q}
    Fids = {d1, d2, d3}
    Scans = {s1}
    c1 = c1
    c2 = c2
    Callers = {c1, c2}
    U = U
    V = V
    LinkTtl = 2
    ProbeTtl = 2
    MaxProbes = 1
    Threshold = 2
    StickyTtl = 2
    SegmentTtl = 1
    Lib = Lib
    X = X
    Y = Y
    v1 = v1
    v2 = v2
    j1 = j1
    j2 = j2
    Jobs = {j1, j2}
    MaxNumber = 2
    Part = Part
    a = a
    b = b
    Drive = {d1, d3}
    Shared = {d3}
    PageSize = 1
    MaxAttempts = 2
    MaxChecks = 1
    MaxOps = 1
    MaxChanges = 1
    ByPath = ByPath
    Changes = 2
SPECIFICATION Media
INVARIANTS VideosKept PlannedRestores NothingLeftBehind ClassicKeepsFiles AllClosed
PROPERTIES AddressesLead RedirectsHold ScrapeKeepsFiles DriveHolds
CHECK_DEADLOCK FALSE
