SPECIFICATION Spec
CONSTANTS
    a = a
    b = b
    p1 = p1
    p2 = p2
    Procs <- TwoProcs
    Serialized = {}
    Entries <- AllEntries
    Work <- HalfWork
    Reports <- OneEntryReports
    FinalReports <- JustEmpty
    MaxTask = 2
    MaxCp = 2
    MaxGit = 2
    Faults <- RecoverableFaults
SYMMETRY Symmetric
CONSTRAINT OneSecond
INVARIANTS LatestResumable ReusedMeansUnchanged ArchiveHasFinal
PROPERTIES HistoryImmutable RemovedOnlyWhenArchived
