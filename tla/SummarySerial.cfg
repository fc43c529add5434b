SPECIFICATION Spec
CONSTANTS
    r1 = r1
    r2 = r2
    r3 = r3
    r4 = r4
    Request <- FourRequests
    Sizes = {1}
    RecentTurnLimit = 1
    CharacterBudget = 5
    SeparatorSize = 1
    TriggerSize = 3
    MaxMessages = 8
    MaxOpen = 1
    MaxDeletes = 0
SYMMETRY Symmetry
INVARIANTS
    NothingForgotten
    SummarisedLeftWindow
CHECK_DEADLOCK FALSE
