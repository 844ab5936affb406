SPECIFICATION ResumeSpec
CONSTANTS
    a = a
    b = b
    service = service
    Procs <- ServiceOnly
    Serialized <- ServiceOnly
    Entries <- AllEntries
    Work <- HalfWork
    Reports <- OneEntryReports
    FinalReports <- JustEmpty
    MaxTask = 2
    MaxCp = 2
    MaxGit = 1
    Faults <- FaultKinds
    Requests <- LatestOrFirst
INVARIANTS RecordedIsFound FinishableAgain
