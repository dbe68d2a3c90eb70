SPECIFICATION FairSpec
CONSTANTS
    None = None
    Mems = {m1, m2}
    SummaryThreshold = 1
    SummaryMinNew = 1
    GroqMin = 3
    SynthThreshold = 1
    SynthMinNew = 1
    LlmEnabled = TRUE
    Gates = TRUE
    Concepts = TRUE
    Deletes = TRUE
    Faults = TRUE
INVARIANTS LocksMatch
PROPERTIES NeverDowngraded SummaryNeverOlder EveryPipelineEnds
CHECK_DEADLOCK FALSE
