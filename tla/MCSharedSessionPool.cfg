SPECIFICATION SharedSpec
CONSTANTS
    t1 = t1
    t2 = t2
    t3 = t3
    i1 = i1
    i2 = i2
    Instances = {i1}
    Tasks = {t1, t2, t3}
    Home <- OneProcess
    Sessions = {"s1", "s2"}
    First = "s1"
    MaxLevel = 0
    MaxResets = 0
    MaxFaults = 0
    Workers = 2
    NoState = NoState
    NoTask = NoTask
PROPERTY TransactionEnds
CHECK_DEADLOCK FALSE
