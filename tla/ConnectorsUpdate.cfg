SPECIFICATION Spec
CONSTANTS
    r1 = r1
    r2 = r2
    Repository <- TwoRepositories
    Descriptor = {"d1", "d2"}
    FirstDescriptor = "d1"
    HostDirectories = {"central"}
    MaxRunning = 1
    MaxEdits = 0
    MaxFaults = 0
    MaxUpgrades = 1
PROPERTIES AntigravityConnectSucceeds
\* The instance stops when its upgrade is used up.
CHECK_DEADLOCK FALSE
