SPECIFICATION Spec
CONSTANTS
    None = None
    Mems = {m1, m2, m3, m4, m5}
    SummaryThreshold = 2
    SummaryMinNew = 3
    GroqMin = 5
    SynthThreshold = 2
    SynthMinNew = 1
    LlmEnabled = TRUE
    Gates = FALSE
    Concepts = FALSE
    Deletes = FALSE
    Faults = FALSE
SYMMETRY Symmetry
PROPERTIES NovelRunWrites
CHECK_DEADLOCK FALSE
