SPECIFICATION KeysAndPolicySpec
CONSTANTS
    k1 = k1
    k2 = k2
    k3 = k3
    k4 = k4
    p1 = p1
    p2 = p2
    Procs = {p1, p2}
    Codes = {"c1", "c2"}
    Policies = {"a", "b"}
    SigningKeys = {k1, k2, k3, k4}
    MaxBlobs = 2
    MaxDeaths = 2
    MaxEdits = 2
    NoStore = NoStore
    NoProc = NoProc
    NoKey = NoKey
    NoGate = NoGate
    Unwritten = Unwritten
    Sentinel = Sentinel
    Hashes = {"v1", "v2", "w2", "v3"}
    PolicyBundles <- TheBundles
    VersionOf <- TheVersions
    PolicyKeys = {"a", "b", "x"}
    First = "a"
    Second = "b"
    StatementFiles <- TheStatements
    PolicyModes <- ThePolicyModes
    MaxWrites = 3
    MaxRestarts = 1
    NoPolicyKey = NoPolicyKey
    NoBundle = NoBundle
    Absent = Absent
    NoSigner = NoSigner
    Self = Self
    Peer = Peer
    Decisions = {"allow", "advisory_deny", "step_up"}
    MaxTrailCalls = 2
    MaxTrailResets = 1
    MaxPolicyReloads = 1
INVARIANTS
    GateClosed
    HeldKeyCurrent
    Restartable
    TrustedEvaluation
    IssuedEvidenceVerifies
    VerifiedEvidenceBound
PROPERTIES
    KeyContinuity
    ResealCatchesUp
    GatewayStartsAgain
    NoDowngrade
    PolicyTakesEffect
CHECK_DEADLOCK FALSE
