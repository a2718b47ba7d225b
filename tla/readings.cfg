\* MIME structures of depth two, answers of three words, all other inputs there are.
SPECIFICATION BoundedSpec
CONSTANTS
    Depth = 2
    MaxWords = 3
CHECK_DEADLOCK FALSE
INVARIANTS
    PartsAreNumbered
    NothingElseIsKeptBack
    MarkHidesMessage
    ShapeDoesNotMatter
    OtherAccountsSurvive
