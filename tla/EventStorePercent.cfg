SPECIFICATION Spec
CONSTANTS
    s1 = s1
    s2 = s2
    cli = cli
    None = None
    Task = Task
    Sessions <- TwoSessions
    Commands = {cli}
    HostOf <- OneHost
    Freshnesses <- CurrentOrReused
    Maximum = 3
    Retain = 2
    MaxOperations = 4
    MaxOverlapping = 0
INVARIANT PercentAlwaysFits
CHECK_DEADLOCK FALSE
