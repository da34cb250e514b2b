SPECIFICATION Spec
CONSTANTS
    ReflectionMinWords = 3
    Vocabulary <- FewWords
    Marks <- SpaceOrStop
    Titles <- FewTitles
    MaxTokens = 3
    MaxLines = 3
INVARIANTS
    EveryWordKept
    TaskStaysWhole
    CuesKeepFindings
PROPERTY WritingKeepsFindings
CHECK_DEADLOCK FALSE
