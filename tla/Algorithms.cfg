SPECIFICATION AlgorithmsSpec
CONSTANTS
    None = None
    RecentTurnLimit = 2
    CharacterBudget = 13
    SeparatorSize = 1
    Sizes = {1, 6}
    SummarySizes = {0, 3, 9}
    MaxLength = 6
    Envelope = 2
    Wrapping = 2
    MarkerSize = 2
    PlanItemLists <- MCPlanItemLists
    OfferingSets <- MCOfferingSets
    SchedulePreferences <- MCSchedulePreferences
    MaxCombinations = 5
    CoursePlans <- MCCoursePlans
    PlanProfiles <- MCPlanProfiles
    RecordLists <- MCRecordLists
    Programs <- MCPrograms
    Profiles <- MCProfiles
    Character <- MCCharacter
    MaxText = 6
    Sentence <- MCSentence
    Invented <- MCInvented
    MaxSentences = 2
    Confidence = {40, 60, 90}
    Thresholds = {75, 95}
    LocalLimit = 1
    Paragraphs <- MCParagraphs
    ChunkSize = 5
    ChunkOverlap = 2
    ChunkTables <- MCChunkTables
    TopK = 2
    LabelSize = 1
    ContextBudget = 11
    Memories = 2
    Category = {"goal", "plan"}
    PageSize = 1
    MaxStamp = 3
    MaxReads = 3
INVARIANTS
    ChunksKeepText
    FoundUnlessCrowded
    ShownFillsBudget
    WindowAgrees
    BatchIsFull
    FeasibleIffPossible
    OrderKept
    CreditsAgree
    FreedomNeverHurts
    SentencesAreCuts
    GatesAgree
    ShownIsStored
PROPERTIES
    LeavesForGood
CHECK_DEADLOCK FALSE
