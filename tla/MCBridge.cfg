SPECIFICATION FairSpec
CONSTANTS
    MinDay = 0
    Today = 5
    Lookback = 2
    NoDate = NoDate
    Request = {r1, r2}
    Address = {a1, a2}
    Report <- EveryReport
    Upload <- EveryUpload
    Diaries <- EveryDiary
    Scenes <- EveryScene
    Hybrid = TRUE
    RateLimit = 1
    MaxItems = 1
    NoRequest = NoRequest
INVARIANTS
    TypeOK
    GeminiPaidWithCause
    ReportDescribesDiary
    NotFoundMeansNotThere
    PromptIsWhatWasAsked
    ReportShowsWhatWasAsked
PROPERTY EveryRequestAnswered
