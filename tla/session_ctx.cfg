SPECIFICATION Spec
CONSTANTS
    None = None
    Items <- McItems
    Kind <- McKind
    SourceTurn <- McSourceTurn
    Asks <- McAsks
    Size <- McSize
    Workloads <- McWorkloads
    Requests = {r1, r2}
    Tails = {1}
    Budgets = {2, 4}
    BatchSize = 2
    MaxItems = 2
    RawBudget = 2
    GroqMin = 5
    Threshold = 2
INVARIANTS SessionInv ContextComplete RehydrationHonest
PROPERTIES DebounceSkipsOnlySeen
SYMMETRY RequestsAreAlike
CHECK_DEADLOCK FALSE
