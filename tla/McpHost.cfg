SPECIFICATION HostSpec
CONSTANTS
    p1 = p1
    p2 = p2
    user = user
    host = host
    Nobody = Nobody
    NoSession = NoSession
    Processes <- TwoProcesses
    Clients <- UserAndHost
    KindsOf <- StopAndHost
    Major <- OneMajor
    Sessions = {s1}
    LateOpen = FALSE
    Overlap = FALSE
    SlowPing = FALSE
    MaxCrashes = 1
CONSTRAINT HostAloneOpens
INVARIANTS Discoverable NothingLeft PendingTracked
PROPERTIES StartSucceeds DisconnectedEnds
\* The instance stops when its processes and its clients are used up.
CHECK_DEADLOCK FALSE
