---------------------------- MODULE MCAgentGateway ----------------------------
(* Instances of AgentGateway for TLC. *)
EXTENDS AgentGateway

Body(agent, scopes, filter, till, action, priority) ==
    [agent |-> agent, scopes |-> scopes, filter |-> filter, from |-> 0, till |-> till,
     action |-> action, priority |-> priority, active |-> TRUE]

\* An allow and a deny of equal priority, a wider rule behind them, a daytime
\* consent rule and a rule that was switched off.
McRuleValues ==
    {Body("a1", {"read"}, {"n1"}, 24, "allow", 1),
     Body(None, {"read"}, None, 24, "deny", 1),
     Body(None, Scopes, {"n1"}, 24, "allow", 2),
     Body("a1", Scopes, None, 12, "jit", 1),
     [Body(None, Scopes, None, 24, "allow", 1) EXCEPT !.active = FALSE]}

Request(agent, scope, ns, hour) == [agent |-> agent, scope |-> scope, ns |-> ns, hour |-> hour]

\* Inside and outside each rule's agent, scope, namespace and window, and the
\* user's own request.
McAsked ==
    {Request("a1", "read", "n1", 0), Request("a1", "read", "n1", 12), Request("a1", "write", "n2", 0),
     Request("a1", "write", None, 12), Request("a2", "read", "n1", 12), Request("a2", "write", "n1", 0),
     Request("a2", "read", None, 0), Request(None, "write", "n1", 0)}

\* A content that matches by meaning and by words, one by words alone.
McSim    == [near |-> 2, far |-> 1]
McTier   == [m \in Mems |-> IF m = 1 THEN "L2" ELSE "L1"]

Ask(mode, offset, limit, tier, min) ==
    [mode |-> mode, offset |-> offset, limit |-> limit, tier |-> tier, min |-> min]

McRequested ==
    {Ask("hybrid", 0, 3, None, 0), Ask("hybrid", 1, 1, "L1", 2), Ask("fts", 0, 2, None, 0),
     Ask("fts", 1, 1, "L1", 0), Ask("count", 0, 2, None, 0), Ask("sum", 0, 1, None, 0),
     Ask("list", 0, 1, None, 0)}

\* Items that repeat a phrase, have none, and have no number.
Item(phrase, value) == [phrase |-> phrase, value |-> value]
McExtractions ==
    {<<>>, <<Item("y", None), Item("x", 2), Item("y", 1)>>, <<Item("", 2), Item("x", 1), Item("x", 1)>>}

Symmetry == Permutations(Writers) \cup Permutations(Evals)
=============================================================================
