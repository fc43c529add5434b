SPECIFICATION Spec
CONSTANTS
    t1 = t1
    t2 = t2
    t3 = t3
    e1 = e1
    e2 = e2
    s1 = s1
    s2 = s2
    x = x
    y = y
    k1 = k1
    k2 = k2
    c1 = c1
    c2 = c2
    c3 = c3
    None = None
    Task <- TwoTasks
    Editor <- OneEditor
    Saver <- Nobody
    Category <- TwoCategories
    Slug <- OneSlug
    Content <- ThreeTexts
    Similar <- ChainOfTexts
    MaxRows = 2
    MaxCandidates = 2
    MaxSaves = 0
INVARIANTS
    KeysUnique
PROPERTIES
    ManualTextKept
    NoResurrection
CHECK_DEADLOCK FALSE
