SPECIFICATION Spec
CONSTANTS
    c1 = c1
    c2 = c2
    c3 = c3
    Commands <- ThreeCommands
    MaxVersion = 3
    MaxFaults = 1
    MaxCrashes = 1
SYMMETRY Symmetric
INVARIANTS OneStore MigrationLeavesNothing AcknowledgedKept FinishedRemoved
