SPECIFICATION PipelineSpec
CONSTANTS
    c1 = c1
    c2 = c2
    s1 = s1
    s2 = s2
    lookup = lookup
    export = export
    Calls = {c1, c2}
    Tools = {lookup, export}
    Servers = {s1, s2}
    ServerOf <- TheServers
    LevelOf <- TheLevels
    Ceiling <- TheCeilings
    ReplyCeiling = 0
    MaxLevel = 1
    Pinned = {s1}
    Declared <- TheClasses
    Modes <- PlainMode
    MaxReloads = 1
    MaxLost = 2
    NoTool = NoTool
    NoCall = NoCall
INVARIANT DeniedCallRecorded
CHECK_DEADLOCK FALSE
