SPECIFICATION Spec
CONSTANTS
    None = None
    Artifacts = {c1, p1, p2}
    ChatFiles = {c1}
    Deleters = {d1, d2}
    Sizes = {1, 2}
    MaxFile = 2
    MaxTotal = 3
    UrlTTL = 1
    MaxNow = 2
    Backend = "local_fs"
    Faults = TRUE
SYMMETRY Symmetry
INVARIANTS ArtifactInv QuotaHeld LiveUrlStreams DeletedIsGone
CHECK_DEADLOCK FALSE
