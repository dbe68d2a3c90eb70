SPECIFICATION FairSpec
CONSTANTS
    r1 = r1
    r2 = r2
    m1 = m1
    m2 = m2
    s1 = s1
    s2 = s2
    c1 = c1
    c2 = c2
    None = None
    Reqs = {r1, r2}
    MemIds = {m1, m2}
    Spaces = {s1}
    Contents = {c1, c2}
    Similar <- MCSimilarSelf
    Related <- MCRelatedNone
    Ops = {"create", "delete", "batch"}
    Kinds = {}
    Faults = FALSE
    MaxNow = 0
    MaxVersion = 2
    MaxAccess = 0
PROPERTIES EveryRequestAnswered
CHECK_DEADLOCK FALSE
