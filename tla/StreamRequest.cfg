SPECIFICATION FairSpec
CONSTANTS
    MaxTokens = 3
    MaxCitations = 2
    MemoryLimit = 1
    ResponseLimit = 2
INVARIANTS
    AnswerAccounted
PROPERTIES
    SseSpec
    StreamEnds
CHECK_DEADLOCK FALSE
