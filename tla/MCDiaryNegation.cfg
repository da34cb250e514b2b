SPECIFICATION Spec
CONSTANTS
    ReflectionMinWords = 3
    Vocabulary <- Denials
    Marks <- SpaceOrStop
    Titles <- FewTitles
    MaxTokens = 3
    MaxLines = 3
INVARIANT NegationTrapsCaught
CHECK_DEADLOCK FALSE
