SPECIFICATION AuditSpec
CONSTANTS
    MaxSessionIds = 2
    MaxAppends = 3
    MaxWriteFaults = 0
    MaxStops = 1
INVARIANT OnlyInterruptedReported
CHECK_DEADLOCK FALSE
