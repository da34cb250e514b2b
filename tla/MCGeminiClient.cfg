SPECIFICATION FairSpec
CONSTANTS
    Call = {"sentence", "other sentence", "report"}
    Client = {"classifier", "reporter"}
    ClientOf <- MCClientOf
    Workers = 2
    MaxRetries = 2
    Text <- MCText
    Fault <- MCFault
    LocalFault <- MCLocalFault
    TimedOut = TimedOut
INVARIANTS
    TypeOK
    OnlyBadTextRetried
    EndsAsLastSeen
    OneJobPerCall
    AbandonedOnThreadsOnly
PROPERTY KeepsPromise
