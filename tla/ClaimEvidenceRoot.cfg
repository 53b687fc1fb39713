SPECIFICATION ClaimSpec
CONSTANTS
    Absent = Absent
    NoSigner = NoSigner
    Self = Self
    Peer = Peer
    Decisions = {"allow"}
    MaxTrailCalls = 1
    MaxTrailResets = 1
    MaxPolicyReloads = 1
INVARIANT ChainRootAttested
CHECK_DEADLOCK FALSE
