SPECIFICATION FairSpec
CONSTANTS
    c1 = c1
    c2 = c2
    c3 = c3
    c4 = c4
    c5 = c5
    r1 = r1
    r2 = r2
    NoCall = NoCall
    Calls <- FiveCalls
    Repositories <- TwoRepositories
    RepositoryOf <- FourAndOne
INVARIANTS MutualExclusion TailsForgotten
PROPERTIES ImplementsMutex EveryCallRuns
CHECK_DEADLOCK FALSE
