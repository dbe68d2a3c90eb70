SPECIFICATION GatewaySpec
CONSTANTS
    None = None
    Agents = {"a1", "a2"}
    Scopes = {"read", "write"}
    Namespaces = {"n1", "n2"}
    RuleIds = {k1, k2}
    RuleValues <- McRuleValues
    Asked <- McAsked
    Evals = {e1, e2}
    Resolvers = {x1, x2}
    Claimers = {c1, c2}
    TTL = 1
    MaxNow = 2
    Workloads = {"rules", "consents", "memory", "redis", "search", "audit"}
    Writers = {w1, w2, w3}
    Actions = {"create", "delete"}
    Details = {"d1", "d2"}
    VerifyLimit = 2
    Mems = {1, 2, 3}
    Texts = {"near", "far"}
    Sim <- McSim
    Worded = {"far"}
    Tier <- McTier
    Foreign = {3}
    Candidates = 2
    Requested <- McRequested
    Extractions <- McExtractions
    MaxWrites = 3
SYMMETRY Symmetry
PROPERTY FirstMatchWins
INVARIANTS GatewayInv ListingAgrees AnswersExact ChainHonest
CHECK_DEADLOCK FALSE
