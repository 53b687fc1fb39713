SPECIFICATION ServicesSpec
CONSTANTS
    Requesters = {"c1", "l1", "l2"}
    Listers = {"l1", "l2"}
    MaxPages = 3
    MaxDiscoveryPages = 2
    MaxJunk = 1
    NoRequester = "none"
    MaxSessionIds = 4
    MaxAppends = 4
    MaxWriteFaults = 1
    MaxStops = 2
    Gateways = {g1, g2}
    Executions = {e1, e2}
    Bindings = {b1, b2}
    MaxAdmissions = 3
    MaxExecCrashes = 2
    NoRow = NoRow
    Gates = {d1, d2}
    ReleaseIds = {r1}
    ExpiresAt = 1
    MaxClock = 1
    MaxReleases = 2
    MaxStorageFaults = 1
    Window = 2
    MinCalls = 3
    DenyNum = 2
    DenyDen = 3
    MaxInstant = 4
    MaxCounted = 4
    MaxLifts = 2
    Clients = {a1, a2, a3}
    RateWindow = 2
    Limit = 2
    MaxClients = 2
    MaxTime = 4
    MaxRequests = 5
    Starters = {s1, s2}
    Digests = {x1, x2}
    MaxStarts = 3
    Seed = Seed
    t1 = t1
    t2 = t2
    t3 = t3
    i1 = i1
    i2 = i2
    Instances = {i1, i2}
    Tasks = {t1, t2, t3}
    Home <- TwoProcesses
    Sessions = {"s1", "s2", "s3"}
    First = "s1"
    MaxLevel = 1
    MaxResets = 1
    MaxFaults = 1
    Workers = 2
    NoState = NoState
    NoTask = NoTask
INVARIANTS
    ReplyAttribution
    OneChild
    AckedIsDurable
    InterruptedReported
    ExecutedAtMostOnce
    DisclosedOnce
    WindowExact
    RateExact
    PairSound
    NoStaleFold
    ResetAtomic
PROPERTIES
    StoredRatchet
    TransactionEnds
