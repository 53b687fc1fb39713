SPECIFICATION Spec
SYMMETRY TaskSymmetry
CONSTANTS
    c1 = c1
    h1 = h1
    h2 = h2
    NoTask = NoTask
    Calls = {c1}
    Handlers = {h1, h2}
    Operations = {"close", "trip"}
    KillSwitchEnabled = TRUE
    BlockedAtStart = FALSE
    AuditMayFail = FALSE
    AttestationMayFail = FALSE
    CleanupMayFail = TRUE
INVARIANTS
    BlockStopsAdmission
