SPECIFICATION FairSpec
CONSTANTS
    MinDay = 0
    Today = 5
    Lookback = 2
    NoDate = NoDate
    Request = {r1, r2, r3}
    Query <- Queries
    Diaries <- TwoDiaries
    PoolSize = 2
    RateLimit = 2
    None = None
INVARIANTS
    TypeOK
    ConnectionsAccounted
    MockStandsIn
PROPERTIES
    AnswersAsRelied
    ImplementsPromise
