CONSTANTS
    plain = plain
    loud = loud
    general = general
    sadness = sadness
    Text <- MCText
    Spelling = {plain, loud}
    Subcategory <- MCSubcategory
    Uncategorized <- uncategorized
    Foreign = {general, sadness}
    FallbackPair = general
    Malformed = Malformed
    High <- MCHigh
    Medium <- MCMedium
    Legacy <- MCLegacy
    BySize <- MCBySize
    Payload <- MCPayload
    Journal <- MCJournal
    Mode = {"legacy", "hybrid", "keywords_only"}
    DefaultMaxSize = 2
    ConfiguredSize = 1
    NoVerdict = NoVerdict
    NoDate = NoDate
    EmptyEntry = EmptyEntry
SPECIFICATION Spec
INVARIANT ConfiguredSizeRespected
