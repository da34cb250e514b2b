SPECIFICATION Spec
CONSTANTS
    Call = {"sentence", "report"}
    Client = {"classifier", "reporter"}
    ClientOf <- MCClientOf
    Workers = 1
    MaxRetries = 2
    Text <- MCText
    Fault <- MCFaultWithModel
    LocalFault <- MCLocalFault
    TimedOut = TimedOut
INVARIANT RateLimitMeansRateLimit
