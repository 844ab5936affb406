SPECIFICATION Spec
CONSTANTS
    a = a
    b = b
    p1 = p1
    p2 = p2
    Procs <- TwoProcs
    Serialized <- TwoProcs
    Entries <- AllEntries
    Work <- HalfWork
    Reports <- OneEntryReports
    FinalReports <- NoOrOneEntry
    MaxTask = 2
    MaxCp = 3
    MaxGit = 1
    Faults <- EveryFault
SYMMETRY Symmetric
INVARIANTS AllocatedIdFree CountCovered
PROPERTIES ImplementsLedger RevisionMonotone
