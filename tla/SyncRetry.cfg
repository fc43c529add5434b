SPECIFICATION Spec
SYMMETRY Symmetry
CONSTANTS
    None = None
    h1 = h1
    h2 = h2
    s1 = s1
    s2 = s2
    a = a
    b = b
    d1 = d1
    d2 = d2
    Handler = {h1, h2}
    MaxRequests = 5
    Slot = {s1, s2}
    MaxWrites = 3
    RequestId = {a, b}
    Device = {d1, d2}
    ScopeChoices <- Scopes
    MaxCopies = 1
INVARIANT AdvancesOnce
CHECK_DEADLOCK FALSE
