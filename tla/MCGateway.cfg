SPECIFICATION GatewaySpec
SYMMETRY GatewaySymmetry
CONSTANTS
    c1 = c1
    c2 = c2
    h1 = h1
    h2 = h2
    h3 = h3
    NoTask = NoTask
    Calls = {c1, c2}
    Handlers = {h1, h2, h3}
    Operations = {"close", "reset", "trip", "unblock", "shutdown"}
    KillSwitchEnabled = TRUE
    BlockedAtStart = TRUE
    AuditMayFail = FALSE
    AttestationMayFail = TRUE
    CleanupMayFail = FALSE
INVARIANTS
    TypeOK
    DrainedBeforeTransition
    SealHasCause
    UntrippedChainFrozen
    UntrippedPendingNamesSession
    FaultlessBlockStopsAdmission
PROPERTIES
    EffectsAccounted
    NoWriteAfterStoresClosed
    GateImplemented
