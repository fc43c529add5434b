SPECIFICATION Spec
CONSTANTS
    u1 = u1
    u2 = u2
    p1 = p1
    p2 = p2
    r1 = r1
    r2 = r2
    None = None
    User = {u1, u2}
    Password = {p1, p2}
    Request = {r1, r2}
    HistoryDepth = 1
    MaxTokens = 3
    Handler = {r1, r2}
    Cooldown = 1
    Lifetime = 3
    MaxDeliveries = 2
    MaxTries = 2
    MaxContacts = 2
    MaxChallenges = 2
    MaxCodes = 3
    MaxClock = 3
    MaxLost = 1
    MaxRequests = 4
    Person = {u1, u2}
    Call = {r1, r2}
    MaxRows = 4
INVARIANTS
    EndedStaysEnded
    LiveStaysLive
    VerifiedByOwnCode
    PostsBounded
    FriendsAgreed
SYMMETRY Symmetry
CHECK_DEADLOCK FALSE
