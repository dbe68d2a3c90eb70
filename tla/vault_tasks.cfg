SPECIFICATION Spec
CONSTANTS
    r1 = r1
    r2 = r2
    m1 = m1
    m2 = m2
    s1 = s1
    s2 = s2
    c1 = c1
    c2 = c2
    None = None
    Reqs = {r1}
    MemIds = {m1}
    Spaces = {s1}
    Contents = {c1, c2}
    Similar <- MCSimilarSelf
    Related <- MCRelatedNone
    Ops = {"create", "get", "update", "enrich", "delete", "batch"}
    Kinds = {"enrich", "l2"}
    Faults = TRUE
    MaxNow = 1
    MaxVersion = 2
    MaxAccess = 1
SYMMETRY MCSymmetry
PROPERTIES MergeKeepsKeys DeletedStaysDeleted
CHECK_DEADLOCK FALSE
