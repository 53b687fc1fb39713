SPECIFICATION TrafficSpec
CONSTANTS
    c1 = c1
    c2 = c2
    s1 = s1
    s2 = s2
    lookup = lookup
    export = export
    Calls = {c1, c2}
    Tools = {lookup, export}
    Servers = {s1, s2}
    ServerOf <- TheServers
    LevelOf <- TheLevels
    Ceiling <- TheCeilings
    ReplyCeiling = 0
    MaxLevel = 1
    Pinned = {s1}
    Declared <- TheClasses
    Modes <- TheModes
    MaxReloads = 1
    MaxLost = 2
    NoTool = NoTool
    NoCall = NoCall
    k1 = k1
    h1 = h1
    h2 = h2
    NoTask = NoTask
    GatewayCalls = {k1}
    Handlers = {h1, h2}
    Operations = {"close", "reset", "trip", "unblock", "shutdown"}
    KillSwitchEnabled = TRUE
    BlockedAtStart = FALSE
    AuditMayFail = FALSE
    AttestationMayFail = FALSE
    CleanupMayFail = TRUE
INVARIANTS OneTerminal HonestDisposition
PROPERTIES   GatedTransport CallsFinish EndpointsFinish
