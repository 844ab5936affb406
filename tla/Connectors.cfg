SPECIFICATION Spec
CONSTANTS
    r1 = r1
    r2 = r2
    Repository <- TwoRepositories
    Descriptor = {"d1", "d2"}
    FirstDescriptor = "d1"
    HostDirectories = {"central"}
    MaxRunning = 1
    MaxEdits = 1
    MaxFaults = 1
    MaxUpgrades = 1
SYMMETRY Worktrees
CONSTRAINT TwoDisturbances
INVARIANTS OwnEntryProven InstalledStaysVerified RetainedWhileDepended
PROPERTIES RolledBackRestores UserContentKept
\* The instance stops when its faults, edits and upgrades are used up.
CHECK_DEADLOCK FALSE
