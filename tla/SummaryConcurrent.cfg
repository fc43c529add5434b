SPECIFICATION Spec
CONSTANTS
    r1 = r1
    r2 = r2
    r3 = r3
    r4 = r4
    Request <- ThreeRequests
    Sizes = {1}
    RecentTurnLimit = 1
    CharacterBudget = 5
    SeparatorSize = 1
    TriggerSize = 1
    MaxMessages = 6
    MaxOpen = 3
    MaxDeletes = 1
INVARIANTS
    FoldedOnce
PROPERTIES
    RollingSpec
CHECK_DEADLOCK FALSE
