SPECIFICATION Spec
CONSTANTS
    None = None
    MaxEps = 4
    Sessions = {"s1", "s2"}
    Links <- McLinks
    MinEpisodes = 2
    HashTop = 2
    Contexts <- McContexts
    Limit = 2
    Backends = {"local", "platform"}
    Tasks = {t1, t2}
    Mixes <- McMixes
SYMMETRY Symmetry
INVARIANTS LibraryInv RecallFollowsRows SupersededLinked CacheHitIsExact
PROPERTY StoreSpec
CHECK_DEADLOCK FALSE
