----------------------------- MODULE AgentAccess -----------------------------
(***************************************************************************)
(* What an agent may do (backend/services/gatekeeper_service.py, the       *)
(* routes of backend/api/routes/permissions.py) and how an agent is let in *)
(* (backend/services/pair_service.py).  Every guarded operation evaluates  *)
(* the user's permission rules as they are when it reads them; a rule with *)
(* action "jit" leaves a consent request for the user to resolve before it *)
(* expires.  Rule changes, evaluations, resolutions and claims of a pair   *)
(* code interleave at their awaits.                                        *)
(*                                                                         *)
(* A request is an agent, a scope, a namespace or None, and the hour of    *)
(* the day; a rule's filter is the set of requests it matches by scope and *)
(* namespace glob.                                                         *)
(***************************************************************************)
EXTENDS Integers, FiniteSets, FiniteSetsExt

CONSTANTS
    Agents,     \* registered agents
    Scopes,     \* requested scopes
    Namespaces, \* requested namespaces
    RuleIds,    \* permission rules the user may create
    RuleValues, \* the bodies those rules may have
    Asked,      \* the requests callers make
    Evals,      \* concurrent evaluations
    Resolvers,  \* concurrent resolutions of a consent request
    Claimers,   \* concurrent claims of the pair code
    TTL,        \* lifetime of a consent request and of a pair code
    MaxNow,     \* bound on the clock
    Workloads,  \* the mixes of callers this instance explores
    None

\* Fields of a rule body.  agent = None is the wildcard; scopes is what its
\* scope string matches ("memory:*" and "admin:*" match several); filter is
\* what its glob matches, or None; from and till are its time window.
RuleBody ==
    [agent : Agents \cup {None}, scopes : SUBSET Scopes, filter : SUBSET Namespaces \cup {None},
     from : 0..24, till : 0..24, action : {"allow", "deny", "jit"}, priority : Nat,
     active : BOOLEAN]

Requests ==
    [agent : Agents \cup {None}, scope : Scopes, ns : Namespaces \cup {None}, hour : {0, 12}]

ASSUME AccessAssumption ==
    /\ RuleValues \subseteq RuleBody /\ Asked \subseteq Requests
    /\ None \notin Agents \cup Namespaces \cup RuleIds
    /\ IsFiniteSet(RuleIds) /\ IsFiniteSet(Evals)
    /\ TTL \in Nat /\ MaxNow \in Nat
    /\ Workloads \subseteq {"rules", "consents", "memory", "redis", "search", "audit"}

VARIABLES
    load,     \* the callers of this behaviour
    rules,    \* the user's PermissionRule rows
    eval,     \* each evaluation
    stats,    \* denied, read and write counters of the agents, summed
    decided,  \* history: evaluations that were decided without consent
    consent,  \* the ConsentRequest each evaluation left, if it committed
    res,      \* each resolution
    pair,     \* the pair code's record
    claim,    \* each claim of the code
    now       \* the clock

vars == <<load, rules, eval, stats, decided, consent, res, pair, claim, now>>

Outcomes == {"allowed", "denied", "jit_pending"}
Resolved == {"approved", "denied", "timeout"}
Consents == [status : {"none", "pending"} \cup Resolved, expires : 0..MaxNow + TTL]

NoConsent == [status |-> "none", expires |-> 0]
Idle      == [pc |-> "idle", q |-> None, outcome |-> None]
Answered  == [Idle EXCEPT !.pc = "done"]

TypeOK ==
    /\ load \in Workloads
    /\ rules \in [RuleIds -> RuleValues \cup {None}]
    /\ eval \in [Evals -> [pc : {"idle", "stats", "jit", "own", "done"},
                            q : Asked \cup {None}, outcome : Outcomes \cup {None}]]
    /\ stats \in 0..Cardinality(Evals) /\ decided \in 0..Cardinality(Evals)
    /\ consent \in [Evals -> Consents]
    /\ res \in [Resolvers -> [pc : {"idle", "read", "done"}, e : Evals \cup {None},
                              status : Resolved \cup {None}]]
    /\ pair \in [state : {"none", "open", "claimed"}, exp : 0..MaxNow + TTL]
    /\ claim \in [Claimers -> {"idle", "loaded", "granted", "refused"}]
    /\ now \in 0..MaxNow

Init ==
    /\ load \in Workloads
    /\ rules = [r \in RuleIds |-> None]
    /\ eval = [e \in Evals |-> Idle]
    /\ stats = 0 /\ decided = 0
    /\ consent = [e \in Evals |-> NoConsent]
    /\ res = [x \in Resolvers |-> [pc |-> "idle", e |-> None, status |-> None]]
    /\ pair = [state |-> "none", exp |-> 0]
    /\ claim = [c \in Claimers |-> "idle"]
    /\ now = 0

Tick ==
    /\ load \notin {"rules", "search"} /\ now < MaxNow
    /\ now' = now + 1
    /\ UNCHANGED <<load, rules, eval, stats, decided, consent, res, pair, claim>>

-----------------------------------------------------------------------------
(* Rules                                                                   *)

\* create_rule and update_rule.
PutRule(r, body) ==
    /\ load \in {"rules", "consents"}
    /\ rules[r] # body
    /\ rules' = [rules EXCEPT ![r] = body]
    /\ UNCHANGED <<load, eval, stats, decided, consent, res, pair, claim, now>>

DeleteRule(r) ==
    /\ load \in {"rules", "consents"} /\ rules[r] # None
    /\ rules' = [rules EXCEPT ![r] = None]
    /\ UNCHANGED <<load, eval, stats, decided, consent, res, pair, claim, now>>

-----------------------------------------------------------------------------
(* evaluate                                                                *)

MatchesAgent(b, q)     == b.agent \in {None, q.agent}
MatchesScope(b, q)     == q.scope \in b.scopes
MatchesNamespace(b, q) == b.filter = None \/ q.ns = None \/ q.ns \in b.filter
MatchesConditions(b, q) == b.from <= q.hour /\ q.hour < b.till

Matches(b, q) ==
    /\ MatchesAgent(b, q) /\ MatchesScope(b, q)
    /\ MatchesNamespace(b, q) /\ MatchesConditions(b, q)

\* The rows are ordered by priority alone: rules of equal priority come in
\* any order.
Ordered(S) ==
    {o \in [1..Cardinality(S) -> S] :
        /\ \A i, j \in DOMAIN o : i < j => o[i] # o[j]
        /\ \A i \in 1..Cardinality(S) - 1 :
              rules[o[i]].priority <= rules[o[i + 1]].priority}

Active == {r \in RuleIds : rules[r] # None /\ rules[r].active}

MutFirstMatch(order, q) ==
    LET hits == {i \in DOMAIN order : MatchesAgent(rules[order[i]], q)
                                      /\ MatchesScope(rules[order[i]], q)}
    IN IF hits = {} THEN None ELSE order[Min(hits)]

\* The loop stops at the first rule that matches.
FirstMatch(order, q) ==
    LET hits == {i \in DOMAIN order : Matches(rules[order[i]], q)}
    IN IF hits = {} THEN None ELSE order[Min(hits)]

\* Requests of the user's own browser have no agent and pass; the others
\* read the rules once and decide by what they read.
Evaluate(e, q, order) ==
    LET r == FirstMatch(order, q)
        action == IF r = None THEN "deny" ELSE rules[r].action
    IN /\ load \in {"rules", "consents"} /\ eval[e].pc = "idle"
       /\ order \in Ordered(Active)
       /\ eval' = [eval EXCEPT ![e] =
            IF q.agent = None
            THEN [pc |-> "own", q |-> q, outcome |-> "allowed"]
            ELSE IF action = "jit"
            THEN [pc |-> "jit", q |-> q, outcome |-> "jit_pending"]
            ELSE [pc |-> "stats", q |-> q,
                  outcome |-> IF action = "allow" THEN "allowed" ELSE "denied"]]
       /\ UNCHANGED <<load, rules, stats, decided, consent, res, pair, claim, now>>

MutCountDecision(e) ==
    /\ eval[e].pc = "stats"
    /\ stats' = 1 /\ decided' = decided + 1
    /\ eval' = [eval EXCEPT ![e] = Answered]
    /\ UNCHANGED <<load, rules, consent, res, pair, claim, now>>

\* _increment_agent_stats adds one in a transaction of its own, which
\* outlives the request.
CountDecision(e) ==
    /\ eval[e].pc = "stats"
    /\ stats' = stats + 1 /\ decided' = decided + 1
    /\ eval' = [eval EXCEPT ![e] = Answered]
    /\ UNCHANGED <<load, rules, consent, res, pair, claim, now>>

\* The time until which the user may answer.
Expiry == now + TTL

\* The consent request commits with the request that needs it: the evaluate
\* route and the MCP tools answer normally, the REST routes raise and roll
\* it back.
LeaveConsent(e, commits) ==
    /\ eval[e].pc = "jit"
    /\ consent' = IF commits
                  THEN [consent EXCEPT ![e] = [NoConsent EXCEPT !.status = "pending",
                                                                !.expires = Expiry]]
                  ELSE consent
    /\ eval' = [eval EXCEPT ![e] = Answered]
    /\ UNCHANGED <<load, rules, stats, decided, res, pair, claim, now>>

\* The user's own request was never held.
AnswerOwn(e) ==
    /\ eval[e].pc = "own"
    /\ eval' = [eval EXCEPT ![e] = Answered]
    /\ UNCHANGED <<load, rules, stats, decided, consent, res, pair, claim, now>>

-----------------------------------------------------------------------------
(* resolve_consent                                                         *)

Resolution(c, approved) ==
    IF now > c.expires THEN "timeout" ELSE IF approved THEN "approved" ELSE "denied"

\* The row is read and, if it is pending, the answer made at once.
ResolveRead(x, e, approved) ==
    /\ load = "consents" /\ res[x].pc = "idle"
    /\ consent[e].status = "pending"
    /\ res' = [res EXCEPT ![x] = [pc |-> "read", e |-> e,
                                  status |-> Resolution(consent[e], approved)]]
    /\ UNCHANGED <<load, rules, eval, stats, decided, consent, pair, claim, now>>

\* The flush and the commit: the status is not tested again, so that of two
\* resolvers that read the row the last one's answer stays.
ResolveWrite(x) ==
    /\ res[x].pc = "read"
    /\ consent' = [consent EXCEPT ![res[x].e].status = res[x].status]
    /\ res' = [res EXCEPT ![x].pc = "done"]
    /\ UNCHANGED <<load, rules, eval, stats, decided, pair, claim, now>>

-----------------------------------------------------------------------------
(* Pair codes                                                              *)

\* Where the pair codes are kept: in Redis, or in the process.
Redis == load = "redis"

StartPair ==
    /\ load \in {"memory", "redis"} /\ pair.state = "none" /\ pair.exp = 0
    /\ pair' = [state |-> "open", exp |-> now + TTL]
    /\ UNCHANGED <<load, rules, eval, stats, decided, consent, res, claim, now>>

Claimable == pair.state = "open" /\ now <= pair.exp

\* mark_claimed.  In memory the record is shared, and it is tested and
\* flipped with no await between; with Redis it is read, then written back.
ClaimLoad(c) ==
    /\ load \in {"memory", "redis"} /\ claim[c] = "idle" /\ pair.exp > 0
    /\ claim' = [claim EXCEPT ![c] = IF ~Claimable THEN "refused"
                                     ELSE IF Redis THEN "loaded" ELSE "granted"]
    /\ pair' = IF Claimable /\ ~Redis THEN [pair EXCEPT !.state = "claimed"] ELSE pair
    /\ UNCHANGED <<load, rules, eval, stats, decided, consent, res, now>>

ClaimSave(c) ==
    /\ claim[c] = "loaded"
    /\ claim' = [claim EXCEPT ![c] = "granted"]
    /\ pair' = [pair EXCEPT !.state = "claimed"]
    /\ UNCHANGED <<load, rules, eval, stats, decided, consent, res, now>>

\* delete_pair after a claim, and the expiry of the record.
DropPair ==
    /\ pair.state = "claimed" \/ (pair.state = "open" /\ now > pair.exp)
    /\ pair' = [pair EXCEPT !.state = "none"]
    /\ UNCHANGED <<load, rules, eval, stats, decided, consent, res, claim, now>>

-----------------------------------------------------------------------------

Next ==
    \/ \E r \in RuleIds : DeleteRule(r) \/ \E body \in RuleValues : PutRule(r, body)
    \/ \E e \in Evals :
          \/ \E q \in Asked, order \in Ordered(Active) : Evaluate(e, q, order)
          \/ CountDecision(e) \/ AnswerOwn(e)
          \/ \E commits \in BOOLEAN : LeaveConsent(e, commits)
    \/ \E x \in Resolvers :
          \/ \E e \in Evals, approved \in BOOLEAN : ResolveRead(x, e, approved)
          \/ ResolveWrite(x)
    \/ StartPair \/ DropPair \/ Tick
    \/ \E c \in Claimers : ClaimLoad(c) \/ ClaimSave(c)

Spec == Init /\ [][Next]_vars

-----------------------------------------------------------------------------
(* Properties                                                              *)

\* What evaluation e decides follows from the matching rules of the smallest
\* priority number.
DecidedByRules(e) ==
    eval[e].pc = "idle" /\ eval'[e].q # None =>
        LET M == {rules[r] : r \in {r \in Active : Matches(rules[r], eval'[e].q)}}
            top == {b.action : b \in {b \in M : \A c \in M : b.priority <= c.priority}}
            outcome == eval'[e].outcome
        IN \/ eval'[e].q.agent = None
           \/ outcome = "allowed" /\ "allow" \in top
           \/ outcome = "jit_pending" /\ "jit" \in top
           \/ outcome = "denied" /\ (top = {} \/ "deny" \in top)

\* "first-match wins" and "Default-deny posture": an agent's request is
\* allowed only when, among the rules it reads, some matching allow rule has
\* no matching rule of a smaller priority number before it; it is held only
\* by such a consent rule, and denied only by such a deny rule or when no
\* rule matches.
FirstMatchWins == [][\A e \in Evals : DecidedByRules(e)]_vars

\* BUG-004: every decision is counted once, however many evaluations of the
\* same agent run at the same time and whatever becomes of their requests.
StatsExact == stats = decided

\* Only answered evaluations are counted, one that has not begun asks for
\* nothing, and a resolution that has read knows its consent request, which
\* is not taken back.
CallersKnown ==
    /\ decided <= Cardinality({e \in Evals : eval[e].pc = "done"})
    /\ \A e \in Evals : eval[e].pc = "idle" => eval[e].q = None
    /\ \A x \in Resolvers :
          res[x].pc # "idle" => /\ res[x].e \in Evals /\ res[x].status \in Resolved
                                /\ consent[res[x].e].status # "none"

\* A claim that was granted has taken the code; only Redis lets a claim load
\* it first, and more than one be granted.
ClaimsKnown ==
    /\ \A c \in Claimers : claim[c] = "granted" => pair.state # "open" /\ pair.exp > 0
    /\ \A c \in Claimers : claim[c] = "loaded" => Redis /\ pair.exp > 0
    /\ ~Redis => \A c, d \in Claimers : claim[c] = "granted" /\ claim[d] = "granted" => c = d

AccessInv == TypeOK /\ StatsExact /\ CallersKnown /\ ClaimsKnown
=============================================================================
