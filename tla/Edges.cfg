SPECIFICATION Spec
CONSTANTS
    l1 = l1
    a1 = a1
    a2 = a2
    n1 = n1
    n2 = n2
    None = None
    Reader = {l1}
    MinutesPerDay = 2
    MaxRetries = 2
    MaxNotices = 2
    MaxLost = 1
    Uploader = {a1, a2}
    Name = {n1, n2}
    MaxAttachments = 2
    MaxFiles = 4
    MaxSends = 3
    MaxOpens = 2
INVARIANTS
    AcceptedOnce
    AttachmentsBacked
    AnswersOwnQuestion
PROPERTIES
    ExternalSettles
    StreamingEnds
CHECK_DEADLOCK FALSE
