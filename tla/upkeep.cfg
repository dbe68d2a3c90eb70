SPECIFICATION SegSpec
CONSTANTS
    None = None
    MaxId = 3
    Chats = {1}
    Concepts = {3}
    MaxDay = 2
    MaxWeight = 2
    Retentions = {2}
    DefaultDays = 1
    BatchSize = 1
    Modes = {"aaak", "concept"}
    SlowModes = {"concept"}
    Texts = {"x", "y"}
    Limits = {1, 2}
    Passes = {"worker", "trigger"}
    Readers = {r1, r2}
    MaxFails = 1
    MaxRequests = 2
    Mixes <- McMixes
    SegChats = {1, 2}
    SegMems = {3, 4}
    Source <- McSource
    Hash <- McHash
    Homes = {"work", "kora"}
    Home = "work"
    Staging = {"kora"}
    Slugs = {"deal", "deals", "ops"}
    Near <- McNear
    Proposals <- McProposals
    MinItems = 2
    MaxEdits = 3
INVARIANTS MaintenanceInv CompressedExact WalkExact
PROPERTIES RetentionEnforced TagsSettled
CHECK_DEADLOCK FALSE
