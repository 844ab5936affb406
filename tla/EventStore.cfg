SPECIFICATION Spec
CONSTANTS
    s1 = s1
    s2 = s2
    cli = cli
    None = None
    Task = Task
    Sessions <- TwoSessions
    Commands = {cli}
    HostOf <- OneHost
    Freshnesses <- CurrentOrReused
    Maximum = 3
    Retain = 1
    MaxOperations = 4
    MaxOverlapping = 2
INVARIANTS TypeOK OwnOrder LostByRetentionOnly NumbersUnique RatingAgrees
PROPERTIES WorkKeepsRating
\* The instance stops when its operations are used up.
CHECK_DEADLOCK FALSE
