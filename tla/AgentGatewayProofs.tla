------------------------- MODULE AgentGatewayProofs -------------------------
(***************************************************************************)
(* Proofs about AgentGateway, for any number of agents, rules,             *)
(* evaluations, resolvers, claimers and audited requests: the gatekeeper's *)
(* decisions and counters, consents, pair codes, the namespace listing,    *)
(* the audit chain, and what searches and aggregations answer.             *)
(***************************************************************************)
EXTENDS AgentGateway, FiniteSetTheorems, WellFoundedInduction, TLAPS

allVars == <<vars, readVars, auditVars>>

\* Reads and audit entries leave the gatekeeper's state alone.
LEMMA AccessStep ==
    ASSUME [GatewayNext]_allVars
    PROVE  [Next]_vars
<1>1. CASE ReadsNext
  BY <1>1 DEF ReadsNext, UpdateMem, CreateMem, DeleteMem, BackfillMem, WriteMem, SearchStart,
              EncodeFails, VectorHits, DenseLegacy, SparsePass, DenseHydrate, FtsCount, FtsPage,
              ExtractFails, Extract
<1>2. CASE AuditNext
  BY <1>2 DEF AuditNext, LogStart, LogFlush, LogCommit, LogLost
<1>3. QED
  BY <1>1, <1>2 DEF GatewayNext, allVars

-----------------------------------------------------------------------------
(* The gatekeeper's invariant.                                             *)

\* The evaluations that were answered.
Done == {e \in Evals : eval[e].pc = "done"}

LEMMA AccessInit == Init => AccessInv
<1> SUFFICES ASSUME Init
             PROVE  AccessInv
  OBVIOUS
<1>1. Cardinality(Evals) \in Nat /\ Cardinality({}) = 0
  BY AccessAssumption, FS_CardinalityType, FS_EmptySet
<1>2. TypeOK
  BY <1>1, AccessAssumption DEF Init, TypeOK, Idle, NoConsent, Consents
<1>3. Done = {} /\ decided = 0
  BY DEF Init, Idle, Done
<1>4. CallersKnown
  <2>1. decided <= Cardinality(Done)
    BY <1>1, <1>3
  <2>2. QED
    BY <2>1 DEF Init, CallersKnown, Idle, Done
<1>5. QED
  BY <1>2, <1>4 DEF Init, AccessInv, StatsExact, ClaimsKnown

\* Answering one more evaluation makes the set of answered ones larger by one.
LEMMA AnswerCounts ==
    ASSUME TypeOK, NEW e \in Evals, eval[e].pc # "done",
           eval' = [eval EXCEPT ![e] = Answered]
    PROVE  /\ Cardinality(Done) \in Nat /\ Cardinality(Done') = Cardinality(Done) + 1
           /\ Cardinality(Done') <= Cardinality(Evals)
<1>1. Done' = Done \cup {e} /\ e \notin Done
  BY DEF TypeOK, Done, Answered, Idle
<1>2. IsFiniteSet(Done) /\ IsFiniteSet(Done') /\ Cardinality(Done') <= Cardinality(Evals)
  BY AccessAssumption, FS_Subset DEF Done
<1>3. QED
  BY <1>1, <1>2, FS_AddElement, FS_CardinalityType

LEMMA AccessNext ==
    ASSUME AccessInv, [Next]_vars
    PROVE  AccessInv'
<1>0. /\ Cardinality(Evals) \in Nat /\ Cardinality(Done) \in Nat /\ TTL \in Nat /\ MaxNow \in Nat
      /\ Cardinality(Done) <= Cardinality(Evals)
  BY AccessAssumption, FS_CardinalityType, FS_Subset DEF Done
<1> USE DEF AccessInv, TypeOK, StatsExact, CallersKnown, ClaimsKnown, Redis
<1>1. ASSUME NEW r \in RuleIds, NEW body \in RuleValues, PutRule(r, body)
      PROVE  AccessInv'
  BY <1>1 DEF PutRule
<1>2. ASSUME NEW r \in RuleIds, DeleteRule(r)
      PROVE  AccessInv'
  BY <1>2 DEF DeleteRule
<1>3. ASSUME NEW e \in Evals, NEW q \in Asked, NEW order, Evaluate(e, q, order)
      PROVE  AccessInv'
  <2>1. PICK t \in [pc : {"own", "jit", "stats"}, q : {q}, outcome : Outcomes] :
          eval' = [eval EXCEPT ![e] = t]
    <3> DEFINE r == FirstMatch(order, q)
               action == IF r = None THEN "deny" ELSE rules[r].action
               t == IF q.agent = None
                    THEN [pc |-> "own", q |-> q, outcome |-> "allowed"]
                    ELSE IF action = "jit"
                    THEN [pc |-> "jit", q |-> q, outcome |-> "jit_pending"]
                    ELSE [pc |-> "stats", q |-> q,
                          outcome |-> IF action = "allow" THEN "allowed" ELSE "denied"]
    <3> HIDE DEF r
    <3>1. t \in [pc : {"own", "jit", "stats"}, q : {q}, outcome : Outcomes]
      BY DEF Outcomes
    <3>2. eval' = [eval EXCEPT ![e] = t]
      BY <1>3 DEF Evaluate, r
    <3> HIDE DEF t
    <3>3. QED
      BY <3>1, <3>2
  <2>2. eval[e].pc = "idle" /\ UNCHANGED <<load, rules, stats, decided, consent, res, pair, claim, now>>
    BY <1>3 DEF Evaluate
  <2>3. t.pc \in {"own", "jit", "stats"} /\ t \in [pc : {"idle", "stats", "jit", "own", "done"},
                            q : Asked \cup {None}, outcome : Outcomes \cup {None}]
    OBVIOUS
  <2>4. Done' = Done
    BY <2>1, <2>2, <2>3 DEF Done
  <2>5. CallersKnown'
    BY <2>1, <2>2, <2>3, <2>4 DEF Done
  <2>6. QED
    BY <2>1, <2>2, <2>3, <2>5
<1>4. ASSUME NEW e \in Evals, CountDecision(e)
      PROVE  AccessInv'
  <2>1. /\ Cardinality(Done') = Cardinality(Done) + 1
        /\ Cardinality(Done') <= Cardinality(Evals)
    BY <1>4, AnswerCounts DEF CountDecision
  <2>2. decided <= Cardinality(Done)
    BY DEF Done
  <2>3. decided' = decided + 1 /\ decided' <= Cardinality(Done') /\ decided' <= Cardinality(Evals)
    BY <1>0, <1>4, <2>1, <2>2 DEF CountDecision
  <2>4. CallersKnown'
    BY <1>4, <2>3 DEF CountDecision, Answered, Idle, Done
  <2>5. QED
    BY <1>0, <1>4, <2>3, <2>4 DEF CountDecision, Answered, Idle
<1>5. ASSUME NEW e \in Evals, NEW commits \in BOOLEAN, LeaveConsent(e, commits)
      PROVE  AccessInv'
  <2>1. Cardinality(Done') = Cardinality(Done) + 1
    BY <1>5, AnswerCounts DEF LeaveConsent
  <2>2. decided <= Cardinality(Done)
    BY DEF Done
  <2>3. CallersKnown'
    <3>1. decided' <= Cardinality(Done')
      BY <1>0, <1>5, <2>1, <2>2 DEF LeaveConsent
    <3>2. eval' = [eval EXCEPT ![e] = Answered] /\ res' = res
      BY <1>5 DEF LeaveConsent
    <3>3. \A f \in Evals : consent[f].status # "none" => consent'[f].status # "none"
      BY <1>5 DEF LeaveConsent, Consents, NoConsent
    <3>4. \A f \in Evals : eval'[f].pc = "idle" => eval'[f].q = None
      BY <3>2 DEF Answered, Idle
    <3>5. QED
      BY <3>1, <3>2, <3>3, <3>4 DEF Done
  <2>4. [NoConsent EXCEPT !.status = "pending", !.expires = Expiry] \in Consents
    <3>1. Expiry \in 0..MaxNow + TTL /\ 0 \in 0..MaxNow
      BY <1>0 DEF Expiry
    <3>2. NoConsent \in Consents
      BY <1>0 DEF NoConsent, Consents
    <3>3. QED
      BY <3>1, <3>2 DEF Consents
  <2>5. QED
    BY <1>5, <2>3, <2>4 DEF LeaveConsent, Answered, Idle
<1>6. ASSUME NEW e \in Evals, AnswerOwn(e)
      PROVE  AccessInv'
  <2>1. Cardinality(Done') = Cardinality(Done) + 1
    BY <1>6, AnswerCounts DEF AnswerOwn
  <2>2. decided <= Cardinality(Done)
    BY DEF Done
  <2>3. CallersKnown'
    BY <1>0, <1>6, <2>1, <2>2 DEF AnswerOwn, Answered, Idle, Done
  <2>4. QED
    BY <1>6, <2>3 DEF AnswerOwn, Answered, Idle
<1>7. ASSUME NEW x \in Resolvers, NEW e \in Evals, NEW approved \in BOOLEAN,
             ResolveRead(x, e, approved)
      PROVE  AccessInv'
  <2> DEFINE status == Resolution(consent[e], approved)
  <2>1. status \in Resolved
    BY DEF Resolution, Resolved
  <2> HIDE DEF status
  <2>2. res' = [res EXCEPT ![x] = [pc |-> "read", e |-> e, status |-> status]]
    BY <1>7 DEF ResolveRead, status
  <2>3. QED
    BY <1>7, <2>1, <2>2 DEF ResolveRead
<1>8. ASSUME NEW x \in Resolvers, ResolveWrite(x)
      PROVE  AccessInv'
  <2> DEFINE e == res[x].e
             status == res[x].status
  <2>1. e \in Evals /\ status \in Resolved /\ consent[e] \in Consents
    BY <1>8 DEF ResolveWrite
  <2>2. consent' = [consent EXCEPT ![e] = [@ EXCEPT !.status = status]]
    BY <1>8 DEF ResolveWrite
  <2>3. [consent[e] EXCEPT !.status = status] \in Consents /\ status # "none"
    BY <2>1 DEF Consents, Resolved
  <2>4. consent' \in [Evals -> Consents]
    BY <2>1, <2>2, <2>3
  <2>5. \A f \in Evals : consent[f].status # "none" => consent'[f].status # "none"
    BY <2>1, <2>2, <2>3 DEF Consents
  <2>6. QED
    BY <1>8, <2>4, <2>5 DEF ResolveWrite
<1>9. CASE StartPair
  BY <1>0, <1>9 DEF StartPair
<1>10. ASSUME NEW c \in Claimers, ClaimLoad(c)
       PROVE  AccessInv'
  BY <1>10 DEF ClaimLoad, Claimable
<1>11. ASSUME NEW c \in Claimers, ClaimSave(c)
       PROVE  AccessInv'
  BY <1>11 DEF ClaimSave
<1>12. CASE DropPair
  BY <1>12 DEF DropPair
<1>13. CASE Tick
  BY <1>0, <1>13 DEF Tick
<1>14. CASE UNCHANGED vars
  BY <1>14 DEF vars
<1> HIDE DEF AccessInv, TypeOK, StatsExact, CallersKnown, ClaimsKnown, Redis
<1>15. QED
  BY <1>1, <1>2, <1>3, <1>4, <1>5, <1>6, <1>7, <1>8, <1>9, <1>10, <1>11, <1>12, <1>13, <1>14
     DEF Next

\* The gatekeeper's state is well typed and its counters are exact: every
\* decision is counted once, however evaluations of the same agent interleave
\* (BUG-004).
THEOREM GatekeeperInvariant == GatewaySpec => []AccessInv
<1>1. GatewayInit => AccessInv
  BY AccessInit DEF GatewayInit, ReadsInit
<1>2. AccessInv /\ [GatewayNext]_allVars => AccessInv'
  BY AccessStep, AccessNext
<1>3. QED
  BY <1>1, <1>2, PTL DEF GatewaySpec, allVars

-----------------------------------------------------------------------------
(* The order of the rules.                                                 *)

LEMMA LeastNat ==
    ASSUME NEW S \in SUBSET Nat, S # {}
    PROVE  Min(S) \in S /\ \A y \in S : Min(S) <= y
<1>1. PICK n \in S : \A y \in S : <<y, n>> \notin OpToRel(<, Nat)
  BY NatLessThanWellFounded, WFMin
<1>2. ASSUME NEW y \in S
      PROVE  n <= y
  <2>1. y \in Nat /\ n \in Nat /\ <<y, n>> \notin OpToRel(<, Nat)
    BY <1>1
  <2>2. QED
    BY <2>1 DEF OpToRel
<1>3. QED
  BY <1>2 DEF Min

\* Induction over the naturals, stated with a set.
LEMMA SetInduction ==
    ASSUME NEW T, 0 \in T, \A n \in Nat : n \in T => n + 1 \in T
    PROVE  Nat \subseteq T
<1> DEFINE Out == Nat \ T
<1>1. ASSUME Out # {}
      PROVE  FALSE
  <2>1. Min(Out) \in Out /\ \A y \in Out : Min(Out) <= y
    BY <1>1, LeastNat
  <2> DEFINE n == Min(Out)
  <2> HIDE DEF n
  <2>2. n \in Nat /\ n # 0 /\ \A y \in Out : n <= y
    BY <2>1 DEF n
  <2>3. n - 1 \in T
    BY <2>2
  <2>4. QED
    BY <2>1, <2>2, <2>3 DEF n
<1>2. QED
  BY <1>1

LEMMA OrderOnto ==
    ASSUME NEW order \in Ordered(Active)
    PROVE  /\ DOMAIN order \subseteq Nat /\ \A i \in DOMAIN order : order[i] \in Active
           /\ \A r \in Active : \E i \in DOMAIN order : order[i] = r
<1> DEFINE N == Cardinality(Active)
<1>1. IsFiniteSet(Active) /\ N \in Nat
  BY AccessAssumption, FS_Subset, FS_CardinalityType DEF Active
<1>2. order \in [1..N -> Active] /\ \A i, j \in 1..N : i < j => order[i] # order[j]
  BY DEF Ordered
<1>3. order \in Injection(1..N, Active)
  <2>1. ASSUME NEW i \in 1..N, NEW j \in 1..N, order[i] = order[j]
        PROVE  i = j
    <3>1. i < j \/ j < i \/ i = j
      BY <1>1
    <3>2. QED
      BY <1>2, <2>1, <3>1
  <2>2. QED
    BY <1>2, <2>1 DEF Injection, IsInjective
<1>4. IsFiniteSet(1..N) /\ Cardinality(1..N) = N
  BY <1>1, FS_Interval
<1>5. order \in Surjection(1..N, Active)
  BY <1>1, <1>3, <1>4, FS_Injection
<1>6. QED
  BY <1>1, <1>2, <1>5 DEF Surjection

LEMMA OrderSorted ==
    ASSUME TypeOK, NEW order \in Ordered(Active), NEW i \in DOMAIN order, NEW j \in DOMAIN order,
           i <= j
    PROVE  rules[order[i]].priority <= rules[order[j]].priority
<1> DEFINE N == Cardinality(Active)
           p(k) == rules[order[k]].priority
           T == {d \in Nat : \A k \in 1..N : k + d \in 1..N => p(k) <= p(k + d)}
<1>1. IsFiniteSet(Active) /\ N \in Nat
  BY AccessAssumption, FS_Subset, FS_CardinalityType DEF Active
<1>2. \A k \in 1..N : p(k) \in Nat
  BY AccessAssumption DEF Ordered, Active, TypeOK, RuleBody
<1>3. \A k \in 1..N - 1 : p(k) <= p(k + 1)
  BY DEF Ordered
<1> HIDE DEF p
<1>4. 0 \in T
  BY <1>1, <1>2
<1>5. \A d \in Nat : d \in T => d + 1 \in T
  <2> SUFFICES ASSUME NEW d \in Nat, d \in T
               PROVE  d + 1 \in T
    OBVIOUS
  <2> SUFFICES ASSUME NEW k \in 1..N, k + (d + 1) \in 1..N
               PROVE  p(k) <= p(k + (d + 1))
    BY <1>1
  <2>1. k + d \in 1..N /\ k + d \in 1..N - 1 /\ (k + d) + 1 = k + (d + 1)
    BY <1>1
  <2>2. p(k) <= p(k + d) /\ p(k + d) <= p((k + d) + 1)
    BY <1>3, <2>1
  <2>3. QED
    BY <1>2, <2>1, <2>2
<1>6. Nat \subseteq T
  <2> HIDE DEF T
  <2>1. QED
    BY <1>4, <1>5, SetInduction
<1>7. i \in 1..N /\ j \in 1..N
  BY DEF Ordered
<1>8. j - i \in T /\ i + (j - i) = j
  BY <1>1, <1>6, <1>7
<1>9. p(i) <= p(j)
  BY <1>7, <1>8
<1>10. QED
  BY <1>9 DEF p

\* The rule the loop stops at matches, and no matching rule of a smaller
\* priority number is left.
LEMMA FirstMatchIsTop ==
    ASSUME TypeOK, NEW order \in Ordered(Active), NEW q
    PROVE  LET r == FirstMatch(order, q)
               hit == {s \in Active : Matches(rules[s], q)}
           IN IF r = None THEN hit = {}
              ELSE r \in hit /\ \A s \in hit : rules[r].priority <= rules[s].priority
<1> DEFINE hits == {i \in DOMAIN order : Matches(rules[order[i]], q)}
           hit == {s \in Active : Matches(rules[s], q)}
<1>1. /\ DOMAIN order \subseteq Nat /\ \A i \in DOMAIN order : order[i] \in Active
      /\ \A r \in Active : \E i \in DOMAIN order : order[i] = r
  BY OrderOnto
<1>2. CASE hits = {}
  <2>1. FirstMatch(order, q) = None
    BY <1>2 DEF FirstMatch
  <2>2. hit = {}
    BY <1>1, <1>2
  <2>3. QED
    BY <2>1, <2>2
<1>3. CASE hits # {}
  <2> DEFINE k == Min(hits)
  <2>1. hits \in SUBSET Nat
    BY <1>1
  <2>2. k \in hits /\ \A i \in hits : k <= i
    BY <1>3, <2>1, LeastNat
  <2>3. FirstMatch(order, q) = order[k]
    BY <1>3 DEF FirstMatch
  <2> HIDE DEF k
  <2>4. order[k] \in hit /\ order[k] # None
    BY <1>1, <2>2, AccessAssumption DEF Active
  <2>5. ASSUME NEW s \in hit
        PROVE  rules[order[k]].priority <= rules[s].priority
    <3>1. PICK i \in hits : order[i] = s
      BY <1>1
    <3>2. k <= i
      BY <2>2
    <3>3. QED
      BY <2>2, <3>1, <3>2, OrderSorted
  <2>6. QED
    BY <2>3, <2>4, <2>5
<1>4. QED
  BY <1>2, <1>3

\* An agent's request is decided by the first rule that matches, in the order
\* of priority, whatever order rules of one priority come in, and is denied
\* when none matches.
THEOREM FirstMatchDecides == GatewaySpec => FirstMatchWins
<1>1. ASSUME AccessInv, [GatewayNext]_allVars
      PROVE  [\A e \in Evals : DecidedByRules(e)]_vars
  <2>0. [Next]_vars /\ TypeOK
    BY <1>1, AccessStep DEF AccessInv
  <2>1. CASE UNCHANGED vars
    BY <2>1
  <2>2. ASSUME NEW e \in Evals, eval'[e] = eval[e] \/ eval[e].pc # "idle"
        PROVE  DecidedByRules(e)
    BY <1>1, <2>2 DEF AccessInv, CallersKnown, DecidedByRules
  <2>3. ASSUME NEW e \in Evals, NEW q \in Asked, NEW order \in Ordered(Active),
               Evaluate(e, q, order)
        PROVE  DecidedByRules(e)
    <3> DEFINE r == FirstMatch(order, q)
               action == IF r = None THEN "deny" ELSE rules[r].action
               hit == {s \in Active : Matches(rules[s], q)}
               M == {rules[s] : s \in hit}
               top == {b.action : b \in {b \in M : \A c \in M : b.priority <= c.priority}}
    <3>1. IF r = None THEN hit = {}
          ELSE r \in hit /\ \A s \in hit : rules[r].priority <= rules[s].priority
      BY <2>0, FirstMatchIsTop
    <3>2. /\ eval'[e].q = q
          /\ q.agent # None =>
                eval'[e].outcome = IF action = "jit" THEN "jit_pending"
                                   ELSE IF action = "allow" THEN "allowed" ELSE "denied"
      BY <2>0, <2>3 DEF TypeOK, Evaluate
    <3> HIDE DEF r
    <3>3. CASE r = None
      <4>1. top = {} /\ action = "deny"
        BY <3>1, <3>3
      <4> HIDE DEF action
      <4>2. QED
        BY <3>2, <4>1 DEF DecidedByRules
    <3>4. CASE r # None
      <4>1. rules[r] \in M /\ \A c \in M : rules[r].priority <= c.priority
        BY <3>1, <3>4
      <4>2. action \in top /\ action = rules[r].action
        BY <3>4, <4>1
      <4>3. action \in {"allow", "deny", "jit"}
        BY <2>0, <3>1, <3>4, <4>2, AccessAssumption DEF TypeOK, RuleBody, Active
      <4> HIDE DEF action
      <4>4. QED
        BY <3>2, <4>2, <4>3 DEF DecidedByRules
    <3>5. QED
      BY <3>3, <3>4
  <2>4. CASE \E e \in Evals, q \in Asked, order \in Ordered(Active) : Evaluate(e, q, order)
    <3>1. PICK e \in Evals, q \in Asked, order \in Ordered(Active) : Evaluate(e, q, order)
      BY <2>4
    <3>2. \A d \in Evals \ {e} : eval'[d] = eval[d]
      BY <2>0, <3>1 DEF TypeOK, Evaluate
    <3>3. QED
      BY <2>2, <2>3, <3>1, <3>2
  <2>5. CASE \E e \in Evals : /\ eval[e].pc # "idle"
                              /\ eval' = [eval EXCEPT ![e] = Answered]
    BY <2>0, <2>2, <2>5 DEF TypeOK
  <2>6. CASE eval' = eval
    BY <2>2, <2>6
  <2>7. QED
    BY <2>0, <2>1, <2>4, <2>5, <2>6
       DEF Next, PutRule, DeleteRule, CountDecision, AnswerOwn, LeaveConsent, ResolveRead,
           ResolveWrite, StartPair, DropPair, Tick, ClaimLoad, ClaimSave
<1>2. QED
  BY <1>1, GatekeeperInvariant, PTL DEF GatewaySpec, allVars, FirstMatchWins

\* The namespace listing's own evaluation of the rules agrees with evaluate
\* while no rule has a time window.
THEOREM ListingFollowsRules == GatewaySpec => []ListingAgrees
<1>1. ASSUME TypeOK
      PROVE  ListingAgrees
  <2> SUFFICES ASSUME \A r \in Active : rules[r].from = 0 /\ rules[r].till = 24,
                      NEW agent \in Agents, NEW ns \in Namespaces,
                      NEW order \in Ordered(Active)
               PROVE  LET r == FirstMatch(order, [agent |-> agent, scope |-> "read", ns |-> ns,
                                                  hour |-> 0])
                      IN  Allowed(order, agent, ns) <=> (r # None /\ rules[r].action = "allow")
    BY DEF ListingAgrees
  <2> DEFINE q == [agent |-> agent, scope |-> "read", ns |-> ns, hour |-> 0]
             p == [agent |-> agent, scope |-> "read", ns |-> ns]
             hits == {i \in DOMAIN order : Matches(rules[order[i]], q)}
             seen == {i \in DOMAIN order : /\ MatchesAgent(rules[order[i]], p)
                                           /\ MatchesScope(rules[order[i]], p)
                                           /\ MatchesNamespace(rules[order[i]], p)}
  <2>1. DOMAIN order \subseteq Nat /\ \A i \in DOMAIN order : order[i] \in Active
    BY OrderOnto
  <2>2. ASSUME NEW i \in DOMAIN order
        PROVE  i \in hits <=> i \in seen
    BY <2>1 DEF Matches, MatchesAgent, MatchesScope, MatchesNamespace, MatchesConditions
  <2>3. hits = seen
    BY <2>2
  <2>4. FirstMatch(order, q) = IF hits = {} THEN None ELSE order[Min(hits)]
    BY DEF FirstMatch
  <2>5. Allowed(order, agent, ns) <=> hits # {} /\ rules[order[Min(hits)]].action = "allow"
    BY <2>3 DEF Allowed
  <2>6. hits # {} => order[Min(hits)] # None
    <3>1. hits \in SUBSET Nat
      BY <2>1
    <3>2. hits # {} => Min(hits) \in hits
      BY <3>1, LeastNat
    <3>3. QED
      BY <2>1, <3>2, AccessAssumption DEF Active
  <2> HIDE DEF hits, q
  <2>7. QED
    BY <2>4, <2>5, <2>6 DEF q
<1>2. QED
  BY <1>1, GatekeeperInvariant, PTL DEF AccessInv

-----------------------------------------------------------------------------
(* The audit log.                                                          *)

Logged == {l.entry.resource : l \in log}

\* A hash that chains each request once has no more entries than there are
\* requests.
LEMMA HashBound ==
    ASSUME NEW h \in Seq(Payload), Once(h, Writers)
    PROVE  Len(h) <= Cardinality(Writers)
<1> DEFINE f == [i \in 1..Len(h) |-> h[i].resource]
<1>1. Len(h) \in Nat /\ DOMAIN h = 1..Len(h)
  OBVIOUS
<1>2. f \in Injection(1..Len(h), Writers)
  BY <1>1 DEF Once, Injection, IsInjective
<1>3. Cardinality(1..Len(h)) <= Cardinality(Writers)
  <2> HIDE DEF f
  <2>1. QED
    BY <1>2, FS_Injection, AuditAssumption
<1>4. Cardinality(1..Len(h)) = Len(h)
  BY <1>1, FS_Interval, SMTT(30)
<1>5. QED
  BY <1>3, <1>4

LEMMA OnceGrows ==
    ASSUME NEW h, NEW S, NEW T, S \subseteq T, Once(h, S)
    PROVE  Once(h, T)
BY DEF Once

LEMMA OnceAppend ==
    ASSUME NEW h \in Seq(Payload), NEW S, Once(h, S), NEW e \in Payload, e.resource \notin S
    PROVE  /\ Chained(h, e) \in Seq(Payload) /\ Once(Chained(h, e), S \cup {e.resource})
<1>1. /\ Append(h, e) \in Seq(Payload) /\ Len(Append(h, e)) = Len(h) + 1 /\ Len(h) \in Nat
      /\ DOMAIN h = 1..Len(h) /\ DOMAIN Append(h, e) = 1..Len(h) + 1
      /\ \A i \in 1..Len(h) : Append(h, e)[i] = h[i]
      /\ Append(h, e)[Len(h) + 1] = e
  OBVIOUS
<1>2. \A i \in DOMAIN Append(h, e) : i \in DOMAIN h \/ i = Len(h) + 1
  BY <1>1
<1>3. QED
  BY <1>1, <1>2 DEF Once, Chained

LEMMA AuditInitInv == AuditInit => AuditInv
<1> SUFFICES ASSUME AuditInit
             PROVE  AuditInv
  OBVIOUS
<1>1. InFlight = {} /\ log = {} /\ IsFiniteSet({})
  BY FS_EmptySet DEF AuditInit, InFlight, NoDraft
<1>2. AuditTypeOK
  BY DEF AuditInit, AuditTypeOK, NoDraft, Drafts, Genesis
<1>3. QED
  BY <1>1, <1>2 DEF AuditInv, LogKnown, LogApart, LogChained

\* The gatekeeper and the reads only move the clock on.
LEMMA AuditRests ==
    ASSUME AccessInv, AuditInv, now' \in Nat, now <= now', UNCHANGED auditVars
    PROVE  AuditInv'
<1>1. log' = log /\ draft' = draft /\ rivals' = rivals
  BY DEF auditVars
<1>2. InFlight' = InFlight
  BY <1>1 DEF InFlight
<1>3. AuditTypeOK'
  BY <1>1 DEF AuditInv, AuditTypeOK
<1>4. LogKnown'
  <2>1. ASSUME NEW t \in 0..MaxNow, t <= now
        PROVE  t <= now'
    BY <2>1, AccessAssumption DEF AccessInv, TypeOK
  <2>2. \A l \in log : l.entry.at \in 0..MaxNow
    BY DEF AuditInv, AuditTypeOK, Payload
  <2>3. \A w \in InFlight : draft[w].entry.at \in 0..MaxNow
    BY DEF AuditInv, LogKnown, Payload
  <2>4. QED
    BY <1>1, <1>2, <2>1, <2>2, <2>3 DEF AuditInv, LogKnown
<1>5. LogApart'
  BY <1>1, <1>2 DEF AuditInv, LogApart, Beside
<1>6. LogChained'
  BY <1>1, <1>2 DEF AuditInv, LogChained, Beside, ChainedTo
<1>7. QED
  BY <1>3, <1>4, <1>5, <1>6 DEF AuditInv

LEMMA LogStartInv ==
    ASSUME AccessInv, AuditInv, NEW w \in Writers, NEW action \in Actions,
           NEW detail \in Details, LogStart(w, action, detail)
    PROVE  AuditInv'
<1> DEFINE entry == [action |-> action, resource |-> w, at |-> now]
<1>0. now \in 0..MaxNow /\ now' = now /\ log' = log
  BY DEF AccessInv, TypeOK, LogStart, vars
<1>1. entry \in Payload /\ entry.resource = w /\ entry.at = now
  BY <1>0 DEF Payload
<1>2. /\ draft'[w].pc = "stamped" /\ draft'[w].entry = entry /\ draft'[w].hash = Genesis
      /\ draft'[w].detail = detail
      /\ \A v \in Writers \ {w} : draft'[v] = draft[v]
      /\ draft' \in [Writers -> Drafts]
  <2> DEFINE d == [NoDraft EXCEPT !.pc = "stamped", !.entry = entry, !.detail = detail]
  <2>1. NoDraft \in Drafts /\ NoDraft.hash = Genesis
    BY DEF NoDraft, Drafts, Genesis
  <2>2. d \in Drafts /\ d.pc = "stamped" /\ d.entry = entry /\ d.hash = Genesis /\ d.detail = detail
    BY <1>1, <2>1 DEF Drafts
  <2>3. draft' = [draft EXCEPT ![w] = d]
    BY DEF LogStart
  <2> HIDE DEF d
  <2>4. /\ draft'[w] = d /\ \A v \in Writers \ {w} : draft'[v] = draft[v]
        /\ draft' \in [Writers -> Drafts]
    BY <2>2, <2>3 DEF AuditInv, AuditTypeOK
  <2>5. QED
    BY <2>2, <2>4
<1>3. /\ rivals'[w] = InFlight \cup {l.entry.resource : l \in {l \in log : l.entry.at = now}}
      /\ \A v \in Writers \ {w} : rivals'[v] = rivals[v]
      /\ rivals' \in [Writers -> SUBSET Writers]
  BY DEF AuditInv, AuditTypeOK, LogStart, InFlight, Payload
<1> HIDE DEF entry
<1>4. InFlight' = InFlight \cup {w} /\ w \notin InFlight
  BY <1>2 DEF InFlight, LogStart
<1>5. \A l \in log : l.entry.resource \in Writers \ {w}
  BY DEF AuditInv, AuditTypeOK, LogKnown, LogStart, Payload
<1>6. \A u, v \in Writers \ {w} : Beside(u, v)' <=> Beside(u, v)
  BY <1>3 DEF Beside
<1>7. AuditTypeOK'
  BY <1>0, <1>2, <1>3 DEF AuditInv, AuditTypeOK
<1>8. LogKnown'
  <2>1. Once(draft'[w].hash, Logged \cup {w})
    BY <1>2 DEF Once, Genesis
  <2>2. \A v \in InFlight : v \in Writers \ {w}
    BY <1>4 DEF InFlight
  <2>3. ASSUME NEW v \in InFlight'
        PROVE  /\ draft'[v].entry \in Payload /\ draft'[v].entry.resource = v
               /\ draft'[v].entry.at <= now /\ draft'[v].detail \in Details
               /\ Once(draft'[v].hash, Logged \cup {v})
    <3>1. CASE v = w
      BY <1>0, <1>1, <1>2, <2>1, <3>1
    <3>2. CASE v \in InFlight
      BY <1>2, <2>2, <3>2 DEF AuditInv, LogKnown, Logged
    <3>3. QED
      BY <1>4, <3>1, <3>2
  <2>4. \A l \in log : draft'[l.entry.resource].pc = "done"
    BY <1>2, <1>5 DEF AuditInv, LogKnown
  <2>5. QED
    BY <1>0, <2>3, <2>4 DEF AuditInv, LogKnown, Logged
<1>9. LogApart'
  <2>1. \A v \in InFlight : Beside(v, w)' /\ Beside(w, v)'
    BY <1>3 DEF Beside
  <2>2. \A v \in InFlight : v \in Writers \ {w}
    BY <1>4 DEF InFlight
  <2>3. \A u, v \in InFlight' : u # v => Beside(u, v)'
    BY <1>4, <1>6, <2>1, <2>2 DEF AuditInv, LogApart
  <2>4. ASSUME NEW l \in log, NEW v \in InFlight'
        PROVE  Beside(l.entry.resource, v)' \/ l.entry.at < draft'[v].entry.at
    <3>1. CASE v = w
      <4>1. l.entry.at \in 0..MaxNow /\ l.entry.at <= now
        BY DEF AuditInv, AuditTypeOK, LogKnown, Payload
      <4>2. l.entry.at = now => l.entry.resource \in rivals'[w]
        BY <1>3
      <4>3. QED
        BY <1>0, <1>1, <1>2, <3>1, <4>1, <4>2, AccessAssumption DEF Beside
    <3>2. CASE v \in InFlight
      BY <1>2, <1>5, <1>6, <2>2, <3>2 DEF AuditInv, LogApart
    <3>3. QED
      BY <1>4, <3>1, <3>2
  <2>5. \A l, k \in log :
          l # k => Beside(l.entry.resource, k.entry.resource)' \/ l.entry.at # k.entry.at
    BY <1>5, <1>6 DEF AuditInv, LogApart
  <2>6. QED
    BY <1>0, <2>3, <2>4, <2>5 DEF LogApart
<1>10. LogChained'
  <2>1. ASSUME NEW l \in log, \A k \in log \ {l} : ~Beside(k.entry.resource, l.entry.resource)'
        PROVE  ChainedTo(l, {k \in log : k.entry.at < l.entry.at})
    BY <1>5, <1>6, <2>1 DEF AuditInv, LogChained
  <2>2. ASSUME NEW v \in InFlight', draft'[v].pc = "flushed",
               \A k \in log : ~Beside(k.entry.resource, v)'
        PROVE  ChainedTo(draft'[v], log)
    <3>1. v \in InFlight /\ v \in Writers \ {w} /\ draft'[v] = draft[v]
      BY <1>2, <1>4, <2>2 DEF InFlight
    <3>2. QED
      BY <1>5, <1>6, <2>2, <3>1 DEF AuditInv, LogChained
  <2>3. QED
    BY <1>0, <2>1, <2>2 DEF LogChained, ChainedTo
<1>11. QED
  BY <1>7, <1>8, <1>9, <1>10 DEF AuditInv

LEMMA LogFlushInv ==
    ASSUME AuditInv, NEW w \in Writers, LogFlush(w)
    PROVE  AuditInv'
<1>0. now' = now /\ log' = log /\ rivals' = rivals
  BY DEF LogFlush, vars
<1>1. w \in InFlight /\ draft[w].entry \in Payload /\ draft[w].entry.resource = w /\ w \notin Logged
  BY DEF LogFlush, InFlight, AuditInv, LogKnown, Logged
<1>2. PICK prev \in IF log = {} THEN {Genesis} ELSE {l.hash : l \in Newest} :
        draft' = [draft EXCEPT ![w].pc = "flushed", ![w].hash = Chained(prev, draft[w].entry)]
  BY DEF LogFlush
<1> DEFINE h == Chained(prev, draft[w].entry)
<1>3. /\ prev \in Seq(Payload) /\ Once(prev, Logged)
      /\ log = {} => prev = Genesis
      /\ log # {} => \E p \in Newest : prev = p.hash
  <2>1. CASE log = {}
    BY <1>2, <2>1 DEF Once, Genesis
  <2>2. CASE log # {}
    <3>1. PICK p \in Newest : prev = p.hash
      BY <1>2, <2>2
    <3>2. p \in log
      BY DEF Newest
    <3>3. p.hash \in Seq(Payload) /\ Once(p.hash, Logged)
      BY <3>2 DEF AuditInv, LogKnown, Logged
    <3>4. QED
      BY <2>2, <3>1, <3>3
  <2>3. QED
    BY <2>1, <2>2
<1>4. h \in Seq(Payload) /\ Once(h, Logged \cup {w})
  BY <1>1, <1>3, OnceAppend
<1> HIDE DEF h
<1>5. /\ draft'[w].pc = "flushed" /\ draft'[w].hash = h /\ draft'[w].entry = draft[w].entry
      /\ \A v \in Writers \ {w} : draft'[v] = draft[v]
      /\ draft'[w].detail = draft[w].detail /\ draft' \in [Writers -> Drafts]
  <2>1. draft' = [draft EXCEPT ![w].pc = "flushed", ![w].hash = h]
    BY <1>2 DEF h
  <2>2. draft \in [Writers -> Drafts]
    BY DEF AuditInv, AuditTypeOK
  <2>3. draft[w] \in Drafts /\ draft'[w] = [draft[w] EXCEPT !.pc = "flushed", !.hash = h]
    BY <2>1, <2>2
  <2>4. \A v \in Writers \ {w} : draft'[v] = draft[v]
    BY <2>1, <2>2
  <2>5. draft'[w] \in Drafts
    BY <1>4, <2>3 DEF Drafts
  <2>6. QED
    BY <2>1, <2>2, <2>3, <2>4, <2>5 DEF Drafts
<1>6. InFlight' = InFlight
  BY <1>1, <1>5 DEF InFlight
<1>7. AuditTypeOK'
  BY <1>0, <1>5 DEF AuditInv, AuditTypeOK
<1>8. \A v \in InFlight : draft'[v].entry = draft[v].entry /\ draft'[v].detail = draft[v].detail
  BY <1>5 DEF InFlight
<1>9. LogKnown'
  <2>1. \A v \in InFlight : Once(draft'[v].hash, Logged \cup {v})
    BY <1>4, <1>5 DEF AuditInv, LogKnown, Logged, InFlight
  <2>2. \A l \in log : draft'[l.entry.resource].pc = "done"
    <3>1. \A l \in log : l.entry.resource \in Writers \ {w}
      BY <1>1 DEF AuditInv, AuditTypeOK, Payload, Logged
    <3>2. QED
      BY <1>5, <3>1 DEF AuditInv, LogKnown
  <2>3. QED
    BY <1>0, <1>6, <1>8, <2>1, <2>2 DEF AuditInv, LogKnown, Logged
<1>10. LogApart'
  BY <1>0, <1>6, <1>8 DEF AuditInv, LogApart, Beside
<1>11. LogChained'
  <2>1. ChainedTo(draft'[w], log)
    <3>1. CASE log = {}
      BY <1>3, <1>5, <3>1 DEF ChainedTo, h
    <3>2. CASE log # {}
      BY <1>3, <1>5, <3>2 DEF ChainedTo, h, Newest
    <3>3. QED
      BY <3>1, <3>2
  <2>2. ASSUME NEW v \in InFlight, draft'[v].pc = "flushed",
               \A k \in log : ~Beside(k.entry.resource, v)
        PROVE  ChainedTo(draft'[v], log)
    BY <1>5, <2>1, <2>2 DEF AuditInv, LogChained, InFlight
  <2>3. QED
    BY <1>0, <1>6, <2>2 DEF AuditInv, LogChained, ChainedTo, Beside
<1>12. QED
  BY <1>7, <1>9, <1>10, <1>11 DEF AuditInv

\* What a request leaves behind once it ended.
LEMMA Ended ==
    ASSUME AuditInv, NEW w \in InFlight, draft' = [draft EXCEPT ![w] = [NoDraft EXCEPT !.pc = "done"]]
    PROVE  /\ w \in Writers /\ w \notin Logged /\ draft'[w].pc = "done"
           /\ \A v \in Writers \ {w} : draft'[v] = draft[v]
           /\ draft' \in [Writers -> Drafts] /\ InFlight' = InFlight \ {w}
           /\ \A v \in InFlight' : v \in Writers \ {w} /\ v \in InFlight /\ draft'[v] = draft[v]
<1> DEFINE d == [NoDraft EXCEPT !.pc = "done"]
<1>0. NoDraft \in Drafts
  BY DEF NoDraft, Drafts, Genesis
<1>1. d.pc = "done" /\ d \in Drafts
  BY <1>0 DEF Drafts
<1> HIDE DEF d
<1>2. w \in Writers /\ draft' = [draft EXCEPT ![w] = d] /\ draft \in [Writers -> Drafts]
  BY DEF d, InFlight, AuditInv, AuditTypeOK
<1>3. /\ draft'[w].pc = "done" /\ \A v \in Writers \ {w} : draft'[v] = draft[v]
      /\ draft' \in [Writers -> Drafts]
  BY <1>1, <1>2
<1>4. InFlight' = InFlight \ {w}
  BY <1>2, <1>3 DEF InFlight
<1>5. w \notin Logged
  BY DEF InFlight, AuditInv, LogKnown, Logged
<1>6. QED
  BY <1>2, <1>3, <1>4, <1>5 DEF InFlight

LEMMA LogLostInv ==
    ASSUME AuditInv, NEW w \in Writers, LogLost(w)
    PROVE  AuditInv'
<1>0. now' = now /\ log' = log /\ rivals' = rivals /\ w \in InFlight
  BY DEF LogLost, vars
<1>1. /\ w \notin Logged /\ \A v \in Writers \ {w} : draft'[v] = draft[v]
      /\ draft' \in [Writers -> Drafts] /\ InFlight' = InFlight \ {w}
      /\ \A v \in InFlight' : v \in Writers \ {w} /\ v \in InFlight /\ draft'[v] = draft[v]
  BY <1>0, Ended DEF LogLost
<1>2. AuditTypeOK'
  BY <1>0, <1>1 DEF AuditInv, AuditTypeOK
<1>3. \A l \in log : l.entry.resource \in Writers \ {w}
  BY <1>1 DEF AuditInv, AuditTypeOK, Payload, Logged
<1>4. LogKnown'
  BY <1>0, <1>1, <1>3 DEF AuditInv, LogKnown
<1>5. LogApart'
  BY <1>0, <1>1 DEF AuditInv, LogApart, Beside
<1>6. LogChained'
  BY <1>0, <1>1 DEF AuditInv, LogChained, ChainedTo, Beside
<1>7. QED
  BY <1>2, <1>4, <1>5, <1>6 DEF AuditInv

LEMMA LogCommitInv ==
    ASSUME AccessInv, AuditInv, NEW w \in Writers, LogCommit(w)
    PROVE  AuditInv'
<1> DEFINE row == [entry |-> draft[w].entry, detail |-> draft[w].detail, hash |-> draft[w].hash]
<1>0. now' = now /\ log' = log \cup {row} /\ rivals' = rivals /\ w \in InFlight
  BY DEF LogCommit, vars, InFlight
<1>1. /\ w \notin Logged /\ draft'[w].pc = "done" /\ \A v \in Writers \ {w} : draft'[v] = draft[v]
      /\ draft' \in [Writers -> Drafts] /\ InFlight' = InFlight \ {w}
      /\ \A v \in InFlight' : v \in Writers \ {w} /\ v \in InFlight /\ draft'[v] = draft[v]
  BY <1>0, Ended DEF LogCommit
<1>2. /\ row.entry = draft[w].entry /\ row.hash = draft[w].hash
      /\ row.entry \in Payload /\ row.entry.resource = w /\ row.entry.at <= now
      /\ row.hash \in Seq(Payload) /\ Once(row.hash, Logged \cup {w}) /\ row.detail \in Details
  BY <1>0 DEF AuditInv, AuditTypeOK, LogKnown, Logged, Drafts
<1> HIDE DEF row
<1>3. \A l \in log : l.entry.resource \in Writers \ {w} /\ l # row
  BY <1>1, <1>2 DEF AuditInv, AuditTypeOK, Payload, Logged
<1>4. Logged' = Logged \cup {w}
  BY <1>0, <1>2 DEF Logged
<1>5. AuditTypeOK'
  <2>1. Logged \cup {w} \subseteq Writers
    BY DEF AuditInv, AuditTypeOK, Payload, Logged
  <2>2. Len(row.hash) <= Cardinality(Writers)
    BY <1>2, <2>1, OnceGrows, HashBound
  <2>3. QED
    BY <1>0, <1>1, <1>2, <2>2 DEF AuditInv, AuditTypeOK
<1>6. LogKnown'
  <2>1. IsFiniteSet(log')
    BY <1>0, FS_AddElement DEF AuditInv, LogKnown
  <2>2. ASSUME NEW l \in log'
        PROVE  /\ l.hash \in Seq(Payload) /\ l.entry.at <= now
               /\ draft'[l.entry.resource].pc = "done" /\ Once(l.hash, Logged')
    <3>1. CASE l = row
      BY <1>1, <1>2, <1>4, <3>1
    <3>2. CASE l \in log
      <4>1. Once(l.hash, Logged)
        BY <3>2 DEF AuditInv, LogKnown, Logged
      <4>2. Once(l.hash, Logged')
        BY <1>4, <4>1, OnceGrows
      <4>3. QED
        BY <1>1, <1>3, <3>2, <4>2 DEF AuditInv, LogKnown
    <3>3. QED
      BY <1>0, <3>1, <3>2
  <2>3. \A l, k \in log' : l.entry.resource = k.entry.resource => l = k
    BY <1>0, <1>2, <1>3 DEF AuditInv, LogKnown
  <2>4. ASSUME NEW v \in InFlight'
        PROVE  /\ draft'[v].entry \in Payload /\ draft'[v].entry.resource = v
               /\ draft'[v].entry.at <= now /\ draft'[v].detail \in Details
               /\ Once(draft'[v].hash, Logged' \cup {v})
    <3>1. Once(draft[v].hash, Logged \cup {v})
      BY <1>1 DEF AuditInv, LogKnown, Logged
    <3>2. Once(draft[v].hash, Logged' \cup {v})
      BY <1>4, <3>1, OnceGrows
    <3>3. QED
      BY <1>1, <3>2 DEF AuditInv, LogKnown
  <2>5. QED
    BY <1>0, <2>1, <2>2, <2>3, <2>4 DEF LogKnown, Logged
<1>7. \A l \in log : Beside(l.entry.resource, w) \/ l.entry.at < row.entry.at
  BY <1>0, <1>2 DEF AuditInv, LogApart
<1>8. \A u, v : Beside(u, v)' <=> Beside(u, v)
  BY <1>0 DEF Beside
<1>9. \A u, v : Beside(u, v) <=> Beside(v, u)
  BY DEF Beside
<1>10. \A l \in log' : l.entry.at \in Int
  <2>1. \A l \in log' : l.entry.at \in 0..MaxNow
    BY <1>0, <1>2 DEF AuditInv, AuditTypeOK, Payload
  <2>2. QED
    BY <2>1, AccessAssumption
<1>11. LogApart'
  <2>1. \A u, v \in InFlight' : u # v => Beside(u, v)
    BY <1>1 DEF AuditInv, LogApart
  <2>2. ASSUME NEW l \in log', NEW v \in InFlight'
        PROVE  Beside(l.entry.resource, v) \/ l.entry.at < draft'[v].entry.at
    <3>1. CASE l = row
      BY <1>0, <1>1, <1>2, <3>1 DEF AuditInv, LogApart
    <3>2. CASE l \in log
      BY <1>1, <3>2 DEF AuditInv, LogApart
    <3>3. QED
      BY <1>0, <3>1, <3>2
  <2>3. ASSUME NEW l \in log', NEW k \in log', l # k
        PROVE  Beside(l.entry.resource, k.entry.resource) \/ l.entry.at # k.entry.at
    <3>1. CASE l \in log /\ k \in log
      BY <2>3, <3>1 DEF AuditInv, LogApart
    <3>2. CASE l = row /\ k \in log
      BY <1>2, <1>7, <1>9, <1>10, <3>2
    <3>3. CASE k = row /\ l \in log
      BY <1>2, <1>7, <1>10, <3>3
    <3>4. QED
      BY <1>0, <2>3, <3>1, <3>2, <3>3
  <2>4. QED
    BY <1>8, <2>1, <2>2, <2>3 DEF LogApart
<1>12. LogChained'
  <2>1. ASSUME NEW l \in log',
               \A k \in log' \ {l} : ~Beside(k.entry.resource, l.entry.resource)
        PROVE  ChainedTo(l, {k \in log' : k.entry.at < l.entry.at})
    <3>1. CASE l = row
      <4>1. \A k \in log : ~Beside(k.entry.resource, w) /\ k.entry.at < row.entry.at
        BY <1>0, <1>2, <1>3, <1>7, <2>1, <3>1
      <4>2. {k \in log' : k.entry.at < l.entry.at} = log
        BY <1>0, <1>10, <3>1, <4>1
      <4>3. ChainedTo(draft[w], log)
        BY <1>0, <4>1 DEF AuditInv, LogChained, LogCommit
      <4>4. QED
        BY <1>2, <3>1, <4>2, <4>3 DEF ChainedTo
    <3>2. CASE l \in log
      <4>1. ~Beside(w, l.entry.resource)
        BY <1>0, <1>2, <1>3, <2>1, <3>2
      <4>2. l.entry.at < row.entry.at
        BY <1>7, <1>9, <3>2, <4>1
      <4>3. {k \in log' : k.entry.at < l.entry.at} = {k \in log : k.entry.at < l.entry.at}
        BY <1>0, <1>10, <4>2
      <4>4. \A k \in log \ {l} : ~Beside(k.entry.resource, l.entry.resource)
        BY <1>0, <2>1
      <4>5. QED
        BY <3>2, <4>3, <4>4 DEF AuditInv, LogChained
    <3>3. QED
      BY <1>0, <3>1, <3>2
  <2>2. ASSUME NEW v \in InFlight'
        PROVE  \E k \in log' : Beside(k.entry.resource, v)
    BY <1>0, <1>1, <1>2 DEF AuditInv, LogApart
  <2>3. QED
    BY <1>8, <2>1, <2>2 DEF LogChained, ChainedTo
<1>13. QED
  BY <1>5, <1>6, <1>11, <1>12 DEF AuditInv

LEMMA AuditNextInv ==
    ASSUME AccessInv, AuditInv, [GatewayNext]_allVars
    PROVE  AuditInv'
<1>1. CASE AuditNext
  BY <1>1, LogStartInv, LogFlushInv, LogCommitInv, LogLostInv DEF AuditNext
<1>2. CASE UNCHANGED auditVars
  <2>1. [Next]_vars /\ now \in Nat
    BY AccessStep DEF AccessInv, TypeOK
  <2>2. now' = now \/ now' = now + 1
    BY <2>1 DEF Next, vars, PutRule, DeleteRule, Evaluate, CountDecision, AnswerOwn, LeaveConsent,
                ResolveRead, ResolveWrite, StartPair, DropPair, Tick, ClaimLoad, ClaimSave
  <2>3. now' \in Nat /\ now <= now'
    BY <2>1, <2>2
  <2>4. QED
    BY <1>2, <2>3, AuditRests
<1>3. QED
  BY <1>1, <1>2 DEF GatewayNext, allVars

\* Each request logs one entry at most; entries of requests that did not run
\* beside each other have times of their own and are chained in their order.
THEOREM AuditInvariant == GatewaySpec => []AuditInv
<1>1. GatewayInit => AuditInv
  BY AuditInitInv DEF GatewayInit
<1>2. AccessInv /\ AuditInv /\ [GatewayNext]_allVars => AuditInv'
  BY AuditNextInv
<1>3. QED
  BY <1>1, <1>2, GatekeeperInvariant, PTL DEF GatewaySpec, allVars

\* An order of the rows by time lists each once.
LEMMA InTimeOnto ==
    ASSUME IsFiniteSet(log), NEW o \in InTime(log)
    PROVE  /\ o \in Seq(log) /\ DOMAIN o = 1..Len(o) /\ Len(o) \in Nat
           /\ \A i \in 1..Len(o) : o[i] \in log
           /\ \A l \in log : \E i \in 1..Len(o) : o[i] = l
           /\ \A i, j \in 1..Len(o) : i < j => o[i] # o[j] /\ o[i].entry.at <= o[j].entry.at
<1> DEFINE N == Cardinality(log)
<1>1. N \in Nat
  BY FS_CardinalityType
<1>2. /\ o \in [1..N -> log]
      /\ \A i, j \in 1..N : i < j => o[i] # o[j] /\ o[i].entry.at <= o[j].entry.at
  BY DEF InTime
<1> HIDE DEF N
<1>3. o \in Seq(log) /\ Len(o) = N
  BY <1>1, <1>2
<1>4. o \in Injection(1..N, log)
  <2>1. ASSUME NEW i \in 1..N, NEW j \in 1..N, o[i] = o[j]
        PROVE  i = j
    <3>1. i < j \/ j < i \/ i = j
      BY <1>1
    <3>2. QED
      BY <1>2, <2>1, <3>1
  <2>2. QED
    BY <1>2, <2>1 DEF Injection, IsInjective
<1>5. IsFiniteSet(1..N) /\ Cardinality(1..N) = N
  BY <1>1, FS_Interval
<1>6. o \in Surjection(1..N, log)
  BY <1>4, <1>5, FS_Injection DEF N
<1>7. QED
  BY <1>1, <1>2, <1>3, <1>6 DEF Surjection

\* A row whose request ran beside no other one that logged.
Alone(row) == \A k \in log \ {row} : ~Beside(row.entry.resource, k.entry.resource)

\* Such a row follows from the row before it, if that one's request did so too.
LEMMA AloneFollows ==
    ASSUME AuditInv, NEW o \in InTime(log), NEW i \in DOMAIN o,
           Alone(o[i]), i > 1 => Alone(o[i - 1])
    PROVE  o[i].hash = Chained(IF i = 1 THEN Genesis ELSE o[i - 1].hash, o[i].entry)
<1>1. /\ DOMAIN o = 1..Len(o) /\ Len(o) \in Nat
      /\ \A k \in 1..Len(o) : o[k] \in log
      /\ \A l \in log : \E k \in 1..Len(o) : o[k] = l
      /\ \A k, j \in 1..Len(o) : k < j => o[k] # o[j] /\ o[k].entry.at <= o[j].entry.at
  BY InTimeOnto DEF AuditInv, LogKnown
<1>2. \A l \in log : l.entry.at \in Int
  <2>1. \A l \in log : l.entry.at \in 0..MaxNow
    BY DEF AuditInv, AuditTypeOK, Payload
  <2>2. QED
    BY <2>1, AccessAssumption
<1>3. ASSUME NEW l \in log, NEW k \in log, l # k, Alone(l)
      PROVE  l.entry.at # k.entry.at
  BY <1>3 DEF AuditInv, LogApart, Alone
<1> DEFINE older == {k \in log : k.entry.at < o[i].entry.at}
<1>4. ChainedTo(o[i], older)
  <2>1. \A k \in log \ {o[i]} : ~Beside(k.entry.resource, o[i].entry.resource)
    BY DEF Alone, Beside
  <2>2. o[i] \in log
    BY <1>1
  <2>3. QED
    BY <2>1, <2>2 DEF AuditInv, LogChained
<1>5. ASSUME NEW k \in older
      PROVE  \E j \in 1..Len(o) : o[j] = k /\ j < i
  <2>1. PICK j \in 1..Len(o) : o[j] = k
    BY <1>1
  <2>2. j < i \/ i < j \/ i = j
    BY <1>1
  <2>3. QED
    BY <1>1, <1>2, <2>1, <2>2
<1>6. CASE i = 1
  <2>1. older = {}
    BY <1>1, <1>5, <1>6
  <2>2. QED
    BY <1>4, <1>6, <2>1 DEF ChainedTo
<1>7. CASE i # 1
  <2>1. i - 1 \in 1..Len(o) /\ i - 1 < i /\ Alone(o[i - 1])
    BY <1>1, <1>7
  <2>2. o[i - 1] \in log /\ o[i] \in log /\ o[i - 1] # o[i] /\ o[i - 1].entry.at <= o[i].entry.at
    BY <1>1, <2>1
  <2>3. o[i - 1] \in older
    <3>1. o[i - 1].entry.at # o[i].entry.at
      BY <1>3, <2>2
    <3>2. QED
      BY <1>2, <2>2, <3>1
  <2>4. PICK p \in older : /\ \A k \in older : k.entry.at <= p.entry.at
                           /\ o[i].hash = Chained(p.hash, o[i].entry)
    BY <1>4, <2>3 DEF ChainedTo
  <2>5. PICK j \in 1..Len(o) : o[j] = p /\ j < i
    BY <1>5
  <2>6. j = i - 1
    <3>1. j < i - 1 \/ j = i - 1
      BY <1>1, <2>5
    <3>2. ASSUME j < i - 1
          PROVE  FALSE
      <4>1. o[j] # o[i - 1] /\ o[j].entry.at <= o[i - 1].entry.at
        BY <1>1, <2>1, <3>2
      <4>2. o[i - 1].entry.at <= o[j].entry.at
        BY <2>3, <2>4, <2>5
      <4>3. o[i - 1].entry.at # o[j].entry.at
        BY <1>3, <2>1, <2>2, <2>5, <4>1
      <4>4. QED
        BY <1>2, <2>2, <2>5, <4>1, <4>2, <4>3
    <3>3. QED
      BY <3>1, <3>2
  <2>7. QED
    BY <1>7, <2>4, <2>5, <2>6
<1>8. QED
  BY <1>6, <1>7

\* A row that followed from its predecessor does not once a hashed column is
\* altered, and its successor does not follow from that predecessor.
LEMMA TamperingShows ==
    ASSUME AuditInv, NEW o \in InTime(log), NEW i \in DOMAIN o, i <= VerifyLimit,
           i \notin Errors(o, Len(o))
    PROVE  /\ \A action \in Actions, w \in Writers :
                 LET e == [o[i].entry EXCEPT !.action = action, !.resource = w]
                 IN  e # o[i].entry => i \in Errors([o EXCEPT ![i].entry = e], VerifyLimit)
           /\ i < Len(o) /\ i + 1 \notin Errors(o, Len(o)) =>
                 i \in Errors([k \in 1..Len(o) - 1 |-> IF k < i THEN o[k] ELSE o[k + 1]], VerifyLimit)
<1>1. DOMAIN o = 1..Len(o) /\ Len(o) \in Nat /\ \A k \in 1..Len(o) : o[k] \in log
  BY InTimeOnto DEF AuditInv, LogKnown
<1> DEFINE prev(k) == IF k = 1 THEN Genesis ELSE o[k - 1].hash
<1>2. \A k \in 1..Len(o) : k \notin Errors(o, Len(o)) => o[k].hash = Chained(prev(k), o[k].entry)
  BY <1>1 DEF Errors
<1>3. \A k \in 1..Len(o) : /\ o[k].hash \in Seq(Payload) /\ o[k].entry \in Payload
                           /\ prev(k) \in Seq(Payload)
  <2>1. \A k \in 1..Len(o) : o[k].hash \in Seq(Payload) /\ o[k].entry \in Payload
    BY <1>1 DEF AuditInv, AuditTypeOK, LogKnown
  <2>2. \A k \in 1..Len(o) : k = 1 \/ k - 1 \in 1..Len(o)
    BY <1>1
  <2>3. QED
    BY <2>1, <2>2 DEF Genesis
<1>4. ASSUME NEW e, e # o[i].entry
      PROVE  i \in Errors([o EXCEPT ![i].entry = e], VerifyLimit)
  <2> DEFINE rows == [o EXCEPT ![i].entry = e]
  <2>1. DOMAIN rows = 1..Len(o) /\ \A k \in 1..Len(o) : k # i => rows[k] = o[k]
    BY <1>1
  <2>2. rows[i].hash = o[i].hash /\ rows[i].entry = e
    <3>1. o[i].entry = e \/ o[i] \in log
      BY <1>1
    <3>2. QED
      BY <1>1 DEF AuditInv, AuditTypeOK
  <2> HIDE DEF rows
  <2>3. prev(i) = IF i = 1 THEN Genesis ELSE rows[i - 1].hash
    BY <1>1, <2>1
  <2>4. ASSUME rows[i].hash = Chained(prev(i), rows[i].entry)
        PROVE  FALSE
    <3>1. Append(prev(i), e) = Append(prev(i), o[i].entry)
      BY <1>1, <1>2, <2>2, <2>4 DEF Chained
    <3>2. \A s \in Seq(Payload) : \A x : Append(s, x)[Len(s) + 1] = x
      OBVIOUS
    <3>3. e = o[i].entry
      BY <1>1, <1>3, <3>1, <3>2
    <3>4. QED
      BY <1>4, <3>3
  <2>5. i \in Errors(rows, VerifyLimit)
    BY <1>1, <2>1, <2>3, <2>4 DEF Errors
  <2>6. QED
    BY <2>5 DEF rows
<1>5. ASSUME i < Len(o), i + 1 \notin Errors(o, Len(o))
      PROVE  i \in Errors([k \in 1..Len(o) - 1 |-> IF k < i THEN o[k] ELSE o[k + 1]], VerifyLimit)
  <2> DEFINE rows == [k \in 1..Len(o) - 1 |-> IF k < i THEN o[k] ELSE o[k + 1]]
  <2>1. i \in 1..Len(o) - 1 /\ i + 1 \in 1..Len(o) /\ DOMAIN rows = 1..Len(o) - 1
    BY <1>1, <1>5
  <2>2. rows[i] = o[i + 1] /\ (i # 1 => rows[i - 1] = o[i - 1])
    BY <1>1, <2>1
  <2> HIDE DEF rows
  <2>3. prev(i) = IF i = 1 THEN Genesis ELSE rows[i - 1].hash
    BY <2>2
  <2>4. ASSUME rows[i].hash = Chained(prev(i), rows[i].entry)
        PROVE  FALSE
    <3>0. prev(i + 1) = o[i].hash
      BY <1>1
    <3> HIDE DEF prev
    <3>1. Append(o[i].hash, o[i + 1].entry) = Append(prev(i), o[i + 1].entry)
      BY <1>2, <1>5, <2>1, <2>2, <2>4, <3>0 DEF Chained
    <3>2. \A s \in Seq(Payload), e \in Payload : Len(Append(s, e)) = Len(s) + 1 /\ Len(s) \in Nat
      OBVIOUS
    <3>3. Len(o[i].hash) = Len(prev(i)) + 1 /\ Len(prev(i)) \in Nat
      BY <1>1, <1>2, <1>3, <3>2 DEF Chained
    <3>4. Len(o[i].hash) + 1 = Len(prev(i)) + 1
      BY <1>1, <1>3, <2>1, <3>1, <3>2
    <3>5. QED
      BY <3>3, <3>4
  <2>5. i \in Errors(rows, VerifyLimit)
    BY <2>1, <2>3, <2>4 DEF Errors
  <2>6. QED
    BY <2>5 DEF rows
<1>6. QED
  BY <1>4, <1>5

\* In an untouched log a reported row, or the one before it, is of a request
\* that ran beside another; a row that verifies is reported once its action or
\* resource is altered, and its place once it is taken out.
THEOREM AuditChainIsHonest == GatewaySpec => []ChainHonest
<1>1. ASSUME AuditInv
      PROVE  ChainHonest
  <2> DEFINE InCompany(row) == \E k \in log \ {row} : Beside(row.entry.resource, k.entry.resource)
  <2>1. ASSUME NEW o \in InTime(log), NEW i \in Errors(o, Len(o))
        PROVE  InCompany(o[i]) \/ (i > 1 /\ InCompany(o[i - 1]))
    <3>1. /\ i \in DOMAIN o
          /\ o[i].hash # Chained(IF i = 1 THEN Genesis ELSE o[i - 1].hash, o[i].entry)
      BY DEF Errors
    <3>2. ~Alone(o[i]) \/ (i > 1 /\ ~Alone(o[i - 1]))
      BY <1>1, <3>1, AloneFollows
    <3>3. QED
      BY <3>2 DEF Alone
  <2>2. QED
    BY <1>1, <2>1, TamperingShows DEF ChainHonest
<1>2. QED
  BY <1>1, AuditInvariant, PTL

-----------------------------------------------------------------------------
(* Pages: the docs of a set by their ranks.                                *)

LEMMA SingleFinite ==
    ASSUME NEW D \in SUBSET Doc, Single(D)
    PROVE  IsFiniteSet(D)
<1> DEFINE of == [m \in IdsOf(D) |-> CHOOSE d \in D : d.id = m]
<1>1. IdsOf(D) \in SUBSET Mems
  BY DEF IdsOf, Doc
<1>2. IsFiniteSet(IdsOf(D))
  BY <1>1, ReadsAssumption, FS_Subset
<1>3. of \in [IdsOf(D) -> D] /\ \A d \in D : of[d.id] = d
  BY DEF IdsOf, Single
<1> HIDE DEF of
<1>4. of \in Surjection(IdsOf(D), D)
  BY <1>3 DEF Surjection, IdsOf
<1>5. QED
  BY <1>2, <1>4, FS_Surjection

LEMMA BeforeIsOrder ==
    ASSUME NEW D \in SUBSET Doc, Single(D), NEW c \in D, NEW d \in D
    PROVE  /\ ~Before(c, c) /\ (c # d => Before(c, d) \/ Before(d, c))
           /\ \A x \in D : Before(x, c) /\ Before(c, d) => Before(x, d)
<1>1. \A x \in D : x.key \in Nat /\ x.id \in Nat
  BY ReadsAssumption DEF Doc
<1>2. c # d => c.id # d.id
  BY DEF Single
<1>3. QED
  BY <1>1, <1>2 DEF Before

LEMMA RanksDiffer ==
    ASSUME NEW D \in SUBSET Doc, Single(D)
    PROVE  /\ \A d \in D : Rank(d, D) \in 0..(Cardinality(D) - 1)
           /\ \A c, d \in D : Rank(c, D) = Rank(d, D) => c = d
<1> DEFINE Ahead(d) == {c \in D : Before(c, d)}
<1>1. IsFiniteSet(D) /\ Cardinality(D) \in Nat
  BY SingleFinite, FS_CardinalityType
<1>2. \A d \in D : /\ IsFiniteSet(Ahead(d)) /\ Cardinality(Ahead(d)) \in Nat
                   /\ Rank(d, D) = Cardinality(Ahead(d))
  BY <1>1, FS_Subset, FS_CardinalityType DEF Rank
<1>3. ASSUME NEW d \in D
      PROVE  Cardinality(Ahead(d)) < Cardinality(D)
  <2>1. d \notin Ahead(d) /\ Ahead(d) \in SUBSET D
    BY BeforeIsOrder
  <2>2. Cardinality(Ahead(d)) <= Cardinality(D) /\ (Cardinality(D) = Cardinality(Ahead(d)) => D = Ahead(d))
    BY <1>1, <2>1, FS_Subset
  <2>3. QED
    BY <1>1, <1>2, <2>1, <2>2
<1>4. ASSUME NEW c \in D, NEW d \in D, Before(c, d)
      PROVE  Cardinality(Ahead(c)) < Cardinality(Ahead(d))
  <2>1. Ahead(c) \in SUBSET Ahead(d) /\ c \in Ahead(d) /\ c \notin Ahead(c)
    BY <1>4, BeforeIsOrder
  <2>2. /\ Cardinality(Ahead(c)) <= Cardinality(Ahead(d))
        /\ Cardinality(Ahead(d)) = Cardinality(Ahead(c)) => Ahead(d) = Ahead(c)
    BY <1>2, <2>1, FS_Subset
  <2>3. QED
    BY <1>2, <2>1, <2>2
<1> HIDE DEF Ahead
<1>5. ASSUME NEW c \in D, NEW d \in D, Rank(c, D) = Rank(d, D)
      PROVE  c = d
  BY <1>2, <1>4, <1>5, BeforeIsOrder
<1>6. QED
  BY <1>1, <1>2, <1>3, <1>5

LEMMA TakeSize ==
    ASSUME NEW D \in SUBSET Doc, Single(D), NEW n \in Nat
    PROVE  /\ Take(D, n) \in SUBSET D /\ IsFiniteSet(Take(D, n))
           /\ n <= Cardinality(D) => Cardinality(Take(D, n)) = n
           /\ n >= Cardinality(D) => Take(D, n) = D
<1> DEFINE N == Cardinality(D)
           r == [d \in D |-> Rank(d, D)]
           T == Take(D, n)
           t == [d \in T |-> Rank(d, D)]
<1>1. IsFiniteSet(D) /\ N \in Nat
  BY SingleFinite, FS_CardinalityType
<1>2. T \in SUBSET D /\ IsFiniteSet(T) /\ \A d \in D : d \in T <=> Rank(d, D) < n
  BY <1>1, FS_Subset DEF Take
<1>3. IsFiniteSet(0..(N - 1)) /\ Cardinality(0..(N - 1)) = N
  BY <1>1, FS_Interval, SMTT(30)
<1>4. r \in Injection(D, 0..(N - 1))
  BY RanksDiffer DEF Injection, IsInjective
<1>5. r \in Surjection(D, 0..(N - 1))
  BY <1>1, <1>3, <1>4, FS_Injection
<1>6. CASE n <= N
  <2>1. t \in [T -> 0..(n - 1)]
    BY <1>1, <1>2, RanksDiffer
  <2>2. \A c, d \in T : t[c] = t[d] => c = d
    BY <1>2, RanksDiffer
  <2>3. \A k \in 0..(n - 1) : \E d \in T : t[d] = k
    <3> TAKE k \in 0..(n - 1)
    <3>0. k \in 0..(N - 1)
      BY <1>1, <1>6
    <3>1. PICK d \in D : r[d] = k
      BY <1>5, <3>0 DEF Surjection
    <3>2. d \in T
      BY <1>2, <3>1
    <3>3. QED
      BY <3>1, <3>2
  <2> HIDE DEF t, T
  <2>4. t \in Bijection(T, 0..(n - 1))
    BY <2>1, <2>2, <2>3 DEF Bijection, Injection, Surjection, IsInjective
  <2>5. IsFiniteSet(0..(n - 1)) /\ Cardinality(0..(n - 1)) = n
    BY FS_Interval
  <2>6. Cardinality(T) = n
    <3>1. ExistsBijection(T, 0..(n - 1))
      BY <2>4 DEF ExistsBijection
    <3>2. QED
      BY <1>2, <2>5, <3>1, FS_Bijection
  <2>7. n >= N => T = D
    <3>1. SUFFICES ASSUME n >= N PROVE T = D
      OBVIOUS
    <3>2. Cardinality(T) = Cardinality(D)
      BY <1>1, <1>6, <2>6, <3>1
    <3>3. QED
      BY <1>1, <1>2, <3>2, FS_Subset
  <2>8. QED
    BY <1>2, <2>6, <2>7 DEF T
<1>7. CASE n > N
  <2>1. \A d \in D : Rank(d, D) < n
    BY <1>1, <1>7, RanksDiffer
  <2>2. T = D
    BY <1>2, <2>1
  <2>3. QED
    BY <1>1, <1>2, <1>7, <2>2
<1>8. QED
  BY <1>1, <1>6, <1>7

LEMMA PageSize ==
    ASSUME NEW D \in SUBSET Doc, Single(D), NEW q \in SearchRequest
    PROVE  /\ PageOf(D, q) \in SUBSET D /\ IsFiniteSet(PageOf(D, q))
           /\ Cardinality(PageOf(D, q)) <= q.limit
           /\ q.offset = 0 /\ Cardinality(PageOf(D, q)) < q.limit => PageOf(D, q) = D
<1> DEFINE N == Cardinality(D)
           a == q.offset
           b == q.offset + q.limit
           A == Take(D, a)
           B == Take(D, b)
<1>1. a \in Nat /\ q.limit \in Nat /\ b \in Nat /\ a <= b
  BY DEF SearchRequest
<1>2. IsFiniteSet(D) /\ N \in Nat
  BY SingleFinite, FS_CardinalityType
<1>3. /\ A \in SUBSET D /\ IsFiniteSet(A) /\ (a <= N => Cardinality(A) = a) /\ (a >= N => A = D)
      /\ B \in SUBSET D /\ IsFiniteSet(B) /\ (b <= N => Cardinality(B) = b) /\ (b >= N => B = D)
  BY <1>1, TakeSize
<1>4. A \in SUBSET B
  <2>1. \A d \in D : Rank(d, D) \in Nat
    BY <1>2, RanksDiffer
  <2>2. QED
    BY <1>1, <2>1 DEF Take
<1>5. PageOf(D, q) = B \ A
  BY DEF PageOf
<1> HIDE DEF A, B
<1>6. IsFiniteSet(B \ A) /\ Cardinality(B \ A) = Cardinality(B) - Cardinality(A)
      /\ Cardinality(A) \in Nat /\ Cardinality(B) \in Nat
  <2>1. B \cap A = A
    BY <1>4
  <2>2. IsFiniteSet(B \ A) /\ Cardinality(B \ A) = Cardinality(B) - Cardinality(B \cap A)
    BY <1>3, FS_Difference
  <2>3. Cardinality(A) \in Nat /\ Cardinality(B) \in Nat
    BY <1>3, FS_CardinalityType
  <2>4. QED
    BY <2>1, <2>2, <2>3
<1>7. Cardinality(B \ A) <= q.limit
  <2>1. CASE a >= N
    <3>1. B \ A = {}
      BY <1>3, <2>1
    <3>2. Cardinality(B \ A) = 0
      BY <3>1, FS_EmptySet
    <3>3. QED
      BY <1>1, <3>2
  <2>2. CASE a <= N /\ b <= N
    BY <1>1, <1>2, <1>3, <1>6, <2>2
  <2>3. CASE a <= N /\ b >= N
    BY <1>1, <1>2, <1>3, <1>6, <2>3
  <2>4. QED
    BY <1>1, <1>2, <2>1, <2>2, <2>3
<1>8. ASSUME q.offset = 0, Cardinality(B \ A) < q.limit
      PROVE  B \ A = D
  <2>1. Cardinality(A) = 0
    BY <1>1, <1>2, <1>3, <1>8
  <2>2. A = {}
    BY <1>3, <2>1, FS_EmptySet
  <2>3. b >= N
    BY <1>1, <1>2, <1>3, <1>6, <1>8, <2>1
  <2>4. QED
    BY <1>3, <2>2, <2>3
<1>9. QED
  BY <1>3, <1>5, <1>6, <1>7, <1>8

-----------------------------------------------------------------------------
(* The statements of a search.                                             *)

Fields == {"pc", "q", "hits", "dense", "page", "total", "items", "answer", "steady", "seen", "blind", "cut"}

RowsKnown ==
    /\ mem \in [Mems -> Mem]
    /\ \A m \in Indexed : mem[m].vec # None /\ mem[m].life # "absent" /\ m \notin Foreign
    /\ writes \in 0..MaxWrites

SearchShape ==
    /\ DOMAIN search = Fields /\ search = [f \in Fields |-> search[f]]
    /\ IF search.pc = "idle" THEN search = NoSearch ELSE search.q \in SearchRequest
    /\ search.blind \in BOOLEAN /\ search.cut \in BOOLEAN
    /\ search.pc \in {"count", "page"} => search.q.mode = "fts"
    /\ search.pc \in {"hits", "hydrate", "legacy", "sparse"} => search.q.mode # "fts"
    /\ search.pc = "extract" => search.q.mode \in {"count", "sum", "list"} /\ search.page # {}
    /\ search.dense \cup search.page \subseteq Doc
    /\ search.answer # None =>
          /\ search.pc = "done" /\ search.page # {} /\ search.items \in Extractions
          /\ search.q.mode \in {"count", "sum", "list"}
          /\ search.answer = PythonAggregate(search.q.mode, search.items)

SearchInv == RowsKnown /\ SearchShape /\ SearchKnown /\ SearchExact

LEMMA SearchInit == ReadsInit => SearchInv
<1> SUFFICES ASSUME ReadsInit PROVE SearchInv
  OBVIOUS
<1>1. NoMem \in Mem /\ NoMem.life = "absent" /\ NoMem.indexed = FALSE
  BY ReadsAssumption DEF NoMem, Mem
<1>2. mem = [m \in Mems |-> NoMem] /\ search = NoSearch /\ writes = 0
  BY DEF ReadsInit
<1>3. RowsKnown
  BY <1>1, <1>2, ReadsAssumption DEF RowsKnown, Indexed
<1>4. SearchShape
  BY <1>2 DEF SearchShape, NoSearch, Fields
<1>5. SearchKnown
  BY <1>2 DEF SearchKnown, NoSearch, Single, IdsOf
<1>6. SearchExact
  BY <1>2 DEF SearchExact, NoSearch
<1>7. QED
  BY <1>3, <1>4, <1>5, <1>6 DEF SearchInv

\* A write of a memory that keeps its vector row.
LEMMA WriteKeeps ==
    ASSUME SearchInv, NEW m \in Mems, NEW row \in Mem, WriteMem(m, row),
           row.indexed => row.vec # None /\ m \notin Foreign,
           mem[m].indexed => row.indexed, row.life # "absent"
    PROVE  SearchInv'
<1>1. /\ mem \in [Mems -> Mem] /\ writes \in 0..MaxWrites /\ \A x \in Indexed : mem[x].vec # None /\ mem[x].life # "absent" /\ x \notin Foreign
      /\ mem' = [mem EXCEPT ![m] = row] /\ writes < MaxWrites /\ writes' = writes + 1
      /\ search.pc \notin {"extract", "done"}
  BY DEF SearchInv, RowsKnown, WriteMem
<1>2. /\ mem' \in [Mems -> Mem] /\ mem'[m] = row /\ \A x \in Mems \ {m} : mem'[x] = mem[x]
  BY <1>1
<1>3. /\ Indexed \subseteq Indexed' /\ Indexed' \subseteq Indexed \cup {m}
      /\ Alive \ {m} \subseteq Alive' /\ Alive' \subseteq Alive \cup {m}
      /\ m \in Alive' => row.life = "live"
  BY <1>2 DEF Indexed, Alive
<1>4. RowsKnown'
  BY <1>1, <1>2, ReadsAssumption DEF RowsKnown, Indexed
<1>5. CASE search.pc = "idle"
  <2>1. search = NoSearch /\ search' = NoSearch
    BY <1>5 DEF SearchInv, SearchShape, WriteMem, Observe
  <2>2. SearchShape'
    BY <2>1 DEF SearchShape, NoSearch, Fields
  <2>3. SearchKnown' /\ SearchExact'
    BY <2>1 DEF SearchKnown, NoSearch, Single, IdsOf, SearchExact
  <2>4. QED
    BY <1>4, <2>2, <2>3 DEF SearchInv
<1>6. CASE search.pc # "idle"
  <2> DEFINE seen == IF row.life = "live" THEN search.seen \cup {<<m, row.text>>} ELSE search.seen
  <2>1. search' = [search EXCEPT !.steady = @ \ {m}, !.seen = seen]
    BY <1>6 DEF WriteMem, Observe
  <2>2. /\ search.seen \subseteq seen
        /\ row.life = "live" => <<m, row.text>> \in seen
    OBVIOUS
  <2> HIDE DEF seen
  <2>3. /\ DOMAIN search = Fields /\ search = [f \in Fields |-> search[f]]
        /\ search.q \in SearchRequest /\ search.blind \in BOOLEAN /\ search.cut \in BOOLEAN
    BY <1>6 DEF SearchInv, SearchShape
  <2>4. /\ search'.pc = search.pc /\ search'.q = search.q /\ search'.hits = search.hits
        /\ search'.dense = search.dense /\ search'.page = search.page
        /\ search'.items = search.items /\ search'.answer = search.answer
        /\ search'.blind = search.blind /\ search'.cut = search.cut
        /\ search'.steady = search.steady \ {m} /\ search'.seen = seen
        /\ DOMAIN search' = Fields /\ search' = [f \in Fields |-> search'[f]]
    BY <2>1, <2>3 DEF Fields
  <2>5. SearchShape'
    BY <1>6, <2>3, <2>4 DEF SearchInv, SearchShape
  <2>6. /\ search.steady \subseteq Alive /\ search.hits \subseteq Indexed
        /\ \A x \in Alive : <<x, mem[x].text>> \in search.seen
        /\ \A d \in search.dense \cup search.page : <<d.id, d.text>> \in search.seen
        /\ Single(search.dense) /\ Single(search.page)
        /\ search.pc = "legacy" => IdsOf(search.dense) \subseteq Indexed
        /\ ~search.blind =>
              /\ search.pc = "hydrate" => search.steady \cap Indexed \subseteq search.hits
              /\ search.pc = "legacy" => search.steady \cap Indexed \subseteq IdsOf(search.dense)
              /\ search.pc = "sparse" =>
                    {x \in search.steady \ Foreign : mem[x].vec # None} \subseteq IdsOf(search.dense)
    BY <1>6 DEF SearchInv, SearchKnown
  <2>7. \A x \in Alive' : <<x, mem'[x].text>> \in seen
    <3> TAKE x \in Alive'
    <3>1. CASE x = m
      BY <1>2, <1>3, <2>2, <3>1
    <3>2. CASE x # m
      <4>1. x \in Alive /\ mem'[x] = mem[x]
        BY <1>2, <1>3, <3>2 DEF Alive
      <4>2. QED
        BY <2>2, <2>6, <4>1
    <3>3. QED
      BY <3>1, <3>2
  <2>8. search'.steady \subseteq Alive' /\ search'.hits \subseteq Indexed'
    BY <1>3, <2>4, <2>6
  <2>9. \A d \in search'.dense \cup search'.page : <<d.id, d.text>> \in search'.seen
    BY <2>2, <2>4, <2>6
  <2>10. search'.pc = "legacy" => IdsOf(search'.dense) \subseteq Indexed'
    BY <1>3, <2>4, <2>6
  <2>11. search'.steady \cap Indexed' \subseteq search.steady \cap Indexed
    BY <1>3, <2>4
  <2>12. {x \in search'.steady \ Foreign : mem'[x].vec # None}
            \subseteq {x \in search.steady \ Foreign : mem[x].vec # None}
    BY <1>2, <1>3, <2>4, <2>6 DEF Alive
  <2>13. ~search'.blind =>
            /\ search'.pc = "hydrate" => search'.steady \cap Indexed' \subseteq search'.hits
            /\ search'.pc = "legacy" => search'.steady \cap Indexed' \subseteq IdsOf(search'.dense)
            /\ search'.pc = "sparse" =>
                  {x \in search'.steady \ Foreign : mem'[x].vec # None} \subseteq IdsOf(search'.dense)
    BY <2>4, <2>6, <2>11, <2>12
  <2>14. SearchKnown'
    BY <2>4, <2>6, <2>7, <2>8, <2>9, <2>10, <2>13 DEF SearchKnown
  <2>15. SearchExact'
    BY <1>1, <2>4 DEF SearchExact
  <2>16. QED
    BY <1>4, <2>5, <2>14, <2>15 DEF SearchInv
<1>7. QED
  BY <1>5, <1>6

LEMMA WritersKeep ==
    ASSUME SearchInv, NEW m \in Mems, NEW text \in Texts,
           \/ UpdateMem(m, text) \/ DeleteMem(m) \/ BackfillMem(m)
           \/ \E vec \in {text, None}, saved \in BOOLEAN : CreateMem(m, text, vec, saved)
    PROVE  SearchInv'
<1>1. /\ mem[m] \in Mem /\ writes \in Nat /\ mem[m].text \in Texts
      /\ mem[m].indexed => mem[m].vec # None /\ mem[m].life # "absent" /\ m \notin Foreign
  BY ReadsAssumption DEF SearchInv, RowsKnown, Indexed, Mem
<1>2. CASE UpdateMem(m, text)
  <2> DEFINE row == [mem[m] EXCEPT !.text = text, !.updated = writes]
  <2>1. WriteMem(m, row) /\ mem[m].life = "live"
    BY <1>2 DEF UpdateMem, Alive
  <2>2. row \in Mem /\ row.indexed = mem[m].indexed /\ row.vec = mem[m].vec /\ row.life # "absent"
    BY <1>1, <2>1 DEF Mem
  <2> HIDE DEF row
  <2>3. QED
    BY <1>1, <2>1, <2>2, WriteKeeps
<1>3. CASE DeleteMem(m)
  <2> DEFINE row == [mem[m] EXCEPT !.life = "gone"]
  <2>1. WriteMem(m, row)
    BY <1>3 DEF DeleteMem
  <2>2. row \in Mem /\ row.indexed = mem[m].indexed /\ row.vec = mem[m].vec /\ row.life # "absent"
    BY <1>1, <2>1 DEF Mem
  <2> HIDE DEF row
  <2>3. QED
    BY <1>1, <2>1, <2>2, WriteKeeps
<1>4. CASE BackfillMem(m)
  <2> DEFINE row == [mem[m] EXCEPT !.vec = mem[m].text, !.updated = writes]
  <2>1. WriteMem(m, row) /\ mem[m].life = "live"
    BY <1>4 DEF BackfillMem, Alive
  <2>2. row \in Mem /\ row.indexed = mem[m].indexed /\ row.vec = mem[m].text /\ row.life # "absent"
    BY <1>1, <2>1 DEF Mem
  <2> HIDE DEF row
  <2>3. row.vec # None
    BY <1>1, <2>2, ReadsAssumption
  <2>4. QED
    BY <1>1, <2>1, <2>2, <2>3, WriteKeeps
<1>5. ASSUME NEW vec \in {text, None}, NEW saved \in BOOLEAN, CreateMem(m, text, vec, saved)
      PROVE  SearchInv'
  <2> DEFINE new == [life |-> "live", text |-> text, vec |-> vec, indexed |-> FALSE,
                     updated |-> writes]
             row == Upserted(m, new, saved)
  <2>1. WriteMem(m, row) /\ mem[m].life = "absent"
    BY <1>5 DEF CreateMem
  <2>2. row \in Mem /\ row.indexed = (saved /\ vec # None /\ m \notin Foreign) /\ row.vec = vec /\ row.life = "live"
    BY <1>1 DEF Mem, Upserted
  <2> HIDE DEF row
  <2>3. ~mem[m].indexed /\ row.life = "live"
    BY <1>1, <2>1, <2>2
  <2>4. QED
    BY <1>1, <2>1, <2>2, <2>3, WriteKeeps
<1>6. QED
  BY <1>2, <1>3, <1>4, <1>5

\* The fields of a search after a step that sets some of them.
LEMMA ShapeFields ==
    ASSUME SearchInv
    PROVE  /\ DOMAIN search = Fields /\ search = [f \in Fields |-> search[f]]
           /\ search.dense \subseteq Doc /\ search.page \subseteq Doc
           /\ search.pc # "idle" => search.q \in SearchRequest
           /\ search.blind \in BOOLEAN /\ search.cut \in BOOLEAN
           /\ search.pc # "done" => search.answer = None
           /\ search.pc \in {"hits", "hydrate", "legacy", "sparse"} => search.q.mode # "fts"
           /\ \A m \in Mems : mem[m] \in Mem
BY DEF SearchInv, SearchShape, RowsKnown

\* The memory rows stay as they are.
LEMMA RowsRest ==
    ASSUME SearchInv, UNCHANGED <<mem, writes>>
    PROVE  RowsKnown' /\ Alive' = Alive /\ Indexed' = Indexed
BY DEF SearchInv, RowsKnown, Alive, Indexed

LEMMA StartKeeps ==
    ASSUME SearchInv, NEW q \in Requested, SearchStart(q)
    PROVE  SearchInv'
<1> DEFINE pc == IF q.mode = "fts" THEN "count" ELSE "hits"
           seen == {<<m, mem[m].text>> : m \in Alive}
<1>1. /\ search' = [NoSearch EXCEPT !.pc = pc, !.q = q, !.steady = Alive, !.seen = seen]
      /\ UNCHANGED <<mem, writes>>
  BY DEF SearchStart
<1>2. pc \in {"count", "hits"} /\ (pc = "count" <=> q.mode = "fts") /\ q \in SearchRequest
      /\ \A m \in Alive : <<m, mem[m].text>> \in seen
  BY ReadsAssumption
<1> HIDE DEF pc, seen
<1>3. /\ search'.pc = pc /\ search'.q = q /\ search'.hits = {} /\ search'.dense = {}
      /\ search'.page = {} /\ search'.answer = None /\ search'.blind = FALSE /\ search'.cut = FALSE
      /\ search'.steady = Alive /\ search'.seen = seen
      /\ DOMAIN search' = Fields /\ search' = [f \in Fields |-> search'[f]]
  BY <1>1 DEF NoSearch, Fields
<1>4. RowsKnown' /\ Alive' = Alive /\ Indexed' = Indexed
  BY <1>1, RowsRest
<1>5. SearchShape'
  BY <1>2, <1>3 DEF SearchShape
<1>6. SearchKnown'
  BY <1>1, <1>2, <1>3, <1>4 DEF SearchKnown, Single, IdsOf
<1>7. SearchExact'
  BY <1>2, <1>3 DEF SearchExact
<1>8. QED
  BY <1>4, <1>5, <1>6, <1>7 DEF SearchInv

LEMMA EncodeKeeps ==
    ASSUME SearchInv, EncodeFails
    PROVE  SearchInv'
<1>1. /\ search.pc = "hits" /\ UNCHANGED <<mem, writes>>
      /\ search' = [search EXCEPT !.pc = "sparse", !.blind = TRUE]
  BY DEF EncodeFails
<1>2. /\ search'.pc = "sparse" /\ search'.q = search.q /\ search'.hits = search.hits
      /\ search'.dense = search.dense /\ search'.page = search.page
      /\ search'.answer = None /\ search'.blind = TRUE /\ search'.cut = search.cut
      /\ search'.steady = search.steady /\ search'.seen = search.seen
      /\ DOMAIN search' = Fields /\ search' = [f \in Fields |-> search'[f]]
  BY <1>1, ShapeFields DEF Fields
<1>3. RowsKnown' /\ Alive' = Alive /\ Indexed' = Indexed
  BY <1>1, RowsRest
<1>4. SearchShape'
  BY <1>1, <1>2, ShapeFields DEF SearchShape
<1>5. SearchKnown'
  <2>1. SearchKnown /\ search.pc = "hits" /\ mem' = mem
    BY <1>1 DEF SearchInv
  <2>2. QED
    BY <1>2, <1>3, <2>1 DEF SearchKnown
<1>6. SearchExact'
  BY <1>2 DEF SearchExact
<1>7. QED
  BY <1>3, <1>4, <1>5, <1>6 DEF SearchInv

LEMMA HitsKeep ==
    ASSUME SearchInv, NEW T \in SUBSET Mems, VectorHits(T)
    PROVE  SearchInv'
<1> DEFINE blind == T # Indexed
<1>1. /\ search.pc = "hits" /\ UNCHANGED <<mem, writes>> /\ T \subseteq Indexed
      /\ search' = [search EXCEPT !.pc = "hydrate", !.hits = T, !.blind = blind]
  BY DEF VectorHits, Nearest
<1>2. blind \in BOOLEAN /\ (~blind => T = Indexed)
  OBVIOUS
<1> HIDE DEF blind
<1>3. /\ search'.pc = "hydrate" /\ search'.q = search.q /\ search'.hits = T
      /\ search'.dense = search.dense /\ search'.page = search.page
      /\ search'.answer = None /\ search'.blind = blind /\ search'.cut = search.cut
      /\ search'.steady = search.steady /\ search'.seen = search.seen
      /\ DOMAIN search' = Fields /\ search' = [f \in Fields |-> search'[f]]
  BY <1>1, ShapeFields DEF Fields
<1>4. RowsKnown' /\ Alive' = Alive /\ Indexed' = Indexed
  BY <1>1, RowsRest
<1>5. SearchShape'
  BY <1>1, <1>2, <1>3, ShapeFields DEF SearchShape
<1>6. SearchKnown'
  <2>1. SearchKnown /\ search.pc = "hits" /\ mem' = mem
    BY <1>1 DEF SearchInv
  <2>2. QED
    BY <1>1, <1>2, <1>3, <1>4, <2>1 DEF SearchKnown
<1>7. SearchExact'
  BY <1>3 DEF SearchExact
<1>8. QED
  BY <1>4, <1>5, <1>6, <1>7 DEF SearchInv

LEMMA DenseDocs ==
    ASSUME SearchInv, NEW S \in SUBSET Mems, \A m \in S : mem[m].vec # None,
           NEW D, D = {DenseDoc(m) : m \in S}
    PROVE  /\ D \in SUBSET Doc /\ Single(D) /\ IdsOf(D) = S
           /\ \A d \in D : d.text = mem[d.id].text
<1>1. \A m \in S : mem[m].text \in Texts /\ mem[m].vec \in Texts
  BY ShapeFields DEF Mem
<1>2. \A m \in S : /\ DenseDoc(m) \in Doc /\ DenseDoc(m).id = m
                   /\ DenseDoc(m).text = mem[m].text
  BY <1>1, ReadsAssumption DEF DenseDoc, Doc
<1>3. QED
  BY <1>2 DEF Single, IdsOf

LEMMA HydrateKeeps ==
    ASSUME SearchInv, DenseHydrate
    PROVE  SearchInv'
<1> DEFINE S == search.hits \cap Alive
           D == Hydrated
<1>1. /\ search.pc = "hydrate" /\ UNCHANGED <<mem, writes>>
      /\ search' = [search EXCEPT !.pc = "legacy", !.hits = {}, !.dense = D]
  BY DEF DenseHydrate
<1>2. /\ SearchKnown /\ \A m \in Indexed : mem[m].vec # None
  BY DEF SearchInv, RowsKnown
<1>3. /\ S \in SUBSET Mems /\ S \subseteq Indexed /\ \A m \in S : mem[m].vec # None
  BY <1>2 DEF SearchKnown, Indexed
<1>4. D = {DenseDoc(m) : m \in S}
  BY DEF Hydrated
<1>5. /\ D \in SUBSET Doc /\ Single(D) /\ IdsOf(D) = S /\ \A d \in D : d.text = mem[d.id].text
  <2> HIDE DEF D, S
  <2>1. QED
    BY <1>3, <1>4, DenseDocs
<1>6. /\ \A d \in D : <<d.id, d.text>> \in search.seen
      /\ ~search.blind => search.steady \cap Indexed \subseteq IdsOf(D)
  <2>1. \A d \in D : d.id \in Alive
    BY <1>5 DEF IdsOf
  <2>2. QED
    BY <1>1, <1>2, <1>5, <2>1 DEF SearchKnown
<1>7. S \subseteq Indexed
  BY <1>3
<1> HIDE DEF D, S
<1>8. /\ search'.pc = "legacy" /\ search'.q = search.q /\ search'.hits = {}
      /\ search'.dense = D /\ search'.page = search.page
      /\ search'.answer = None /\ search'.blind = search.blind /\ search'.cut = search.cut
      /\ search'.steady = search.steady /\ search'.seen = search.seen
      /\ DOMAIN search' = Fields /\ search' = [f \in Fields |-> search'[f]]
  BY <1>1, ShapeFields DEF Fields
<1>9. RowsKnown' /\ Alive' = Alive /\ Indexed' = Indexed
  BY <1>1, RowsRest
<1>10. SearchShape'
  BY <1>1, <1>5, <1>8, ShapeFields DEF SearchShape
<1>11. SearchKnown'
  BY <1>1, <1>2, <1>5, <1>6, <1>7, <1>8, <1>9 DEF SearchKnown
<1>12. SearchExact'
  BY <1>8 DEF SearchExact
<1>13. QED
  BY <1>9, <1>10, <1>11, <1>12 DEF SearchInv

LEMMA DedupedSingle ==
    ASSUME NEW D \in SUBSET Doc, Single(D)
    PROVE  Deduped(D) = D
BY BeforeIsOrder DEF Deduped, Single

LEMMA LegacyKeeps ==
    ASSUME SearchInv, NEW T \in SUBSET Mems, DenseLegacy(T)
    PROVE  SearchInv'
<1> DEFINE L == {DenseDoc(m) : m \in T \ Foreign}
           D == search.dense \cup L
           dense == Take(D, Candidates)
           blind == search.blind \/ Cardinality(D) > Candidates \/ T # Legacy
<1>1. /\ SearchKnown /\ search.pc = "legacy" /\ UNCHANGED <<mem, writes>> /\ T \subseteq Legacy
  BY DEF DenseLegacy, SearchInv
<1>2. \A m \in T : mem[m].vec # None /\ m \notin Indexed /\ m \in Alive
  BY <1>1 DEF Legacy, Indexed
<1>3. L \in SUBSET Doc /\ Single(L) /\ IdsOf(L) = T \ Foreign /\ \A d \in L : d.text = mem[d.id].text
  <2> DEFINE S == T \ Foreign
  <2>1. S \in SUBSET Mems /\ \A m \in S : mem[m].vec # None
    BY <1>2
  <2>2. L = {DenseDoc(m) : m \in S}
    OBVIOUS
  <2>3. T \ Foreign = S
    OBVIOUS
  <2> HIDE DEF L, S
  <2>4. /\ L \in SUBSET Doc /\ Single(L) /\ IdsOf(L) = S
        /\ \A d \in L : d.text = mem[d.id].text
    BY <2>1, <2>2, DenseDocs
  <2>5. QED
    BY <2>3, <2>4
<1>4. /\ search.dense \subseteq Doc /\ Single(search.dense) /\ IdsOf(search.dense) \subseteq Indexed
      /\ ~search.blind => search.steady \cap Indexed \subseteq IdsOf(search.dense)
      /\ search.steady \subseteq Alive /\ search.blind \in BOOLEAN /\ search.cut \in BOOLEAN
  BY <1>1, ShapeFields DEF SearchKnown
<1> HIDE DEF L
<1>5. D \in SUBSET Doc /\ Single(D) /\ IdsOf(D) = IdsOf(search.dense) \cup (T \ Foreign)
  BY <1>2, <1>3, <1>4 DEF Single, IdsOf
<1>6. \A d \in D : <<d.id, d.text>> \in search.seen
  <2>1. \A d \in L : d.id \in Alive
    BY <1>2, <1>3 DEF IdsOf
  <2>2. QED
    BY <1>1, <1>3, <2>1 DEF SearchKnown
<1>7. search' = [search EXCEPT !.pc = "sparse", !.dense = dense, !.blind = blind]
  <2>1. Deduped(D) = D
    BY <1>5, DedupedSingle
  <2>2. QED
    BY <2>1 DEF DenseLegacy, L
<1> HIDE DEF D
<1>8. /\ dense \in SUBSET D /\ blind \in BOOLEAN
      /\ ~blind => dense = D /\ T = Legacy /\ ~search.blind
  <2>1. Cardinality(D) \in Nat /\ Candidates \in Nat
    BY <1>5, SingleFinite, FS_CardinalityType, ReadsAssumption
  <2>2. dense \in SUBSET D /\ (Candidates >= Cardinality(D) => dense = D)
    BY <1>5, <2>1, TakeSize
  <2> HIDE DEF dense
  <2>3. QED
    BY <1>4, <2>1, <2>2
<1>9. Single(dense) /\ dense \subseteq Doc
  BY <1>5, <1>8 DEF Single
<1>10. ~blind => {m \in search.steady \ Foreign : mem[m].vec # None} \subseteq IdsOf(dense)
  <2> SUFFICES ASSUME ~blind, NEW m \in search.steady \ Foreign, mem[m].vec # None
               PROVE  m \in IdsOf(dense)
    OBVIOUS
  <2>1. dense = D /\ T = Legacy /\ ~search.blind /\ m \in Alive
    BY <1>4, <1>8
  <2>2. m \in Indexed \/ m \in Legacy
    BY <2>1 DEF Indexed, Legacy, Alive
  <2>3. QED
    BY <1>4, <1>5, <2>1, <2>2
<1> HIDE DEF dense, blind
<1>11. /\ search'.pc = "sparse" /\ search'.q = search.q /\ search'.hits = search.hits
       /\ search'.dense = dense /\ search'.page = search.page
       /\ search'.answer = None /\ search'.blind = blind /\ search'.cut = search.cut
       /\ search'.steady = search.steady /\ search'.seen = search.seen
       /\ DOMAIN search' = Fields /\ search' = [f \in Fields |-> search'[f]]
  BY <1>1, <1>7, ShapeFields DEF Fields
<1>12. RowsKnown' /\ Alive' = Alive /\ Indexed' = Indexed
  BY <1>1, RowsRest
<1>13. SearchShape'
  BY <1>1, <1>8, <1>9, <1>11, ShapeFields DEF SearchShape
<1>14. SearchKnown'
  <2>1. \A d \in dense : <<d.id, d.text>> \in search.seen
    BY <1>6, <1>8
  <2>2. QED
    BY <1>1, <1>9, <1>10, <1>11, <1>12, <2>1 DEF SearchKnown
<1>15. SearchExact'
  BY <1>11 DEF SearchExact
<1>16. QED
  BY <1>12, <1>13, <1>14, <1>15 DEF SearchInv

LEMMA TierPage ==
    ASSUME NEW D \in SUBSET Doc, Single(D), NEW q \in SearchRequest,
           NEW P, \/ P \in {PageOf(D, q), OfTier(PageOf(D, q), q)}
                  \/ q.mode = "hybrid" /\ P = Wanted(PageOf(D, q), q)
    PROVE  /\ P \in SUBSET D /\ Single(P) /\ IsFiniteSet(P) /\ Cardinality(P) <= q.limit
           /\ q.offset = 0 /\ q.tier = None /\ (q.mode = "hybrid" => q.min = 0)
                 /\ Cardinality(P) < q.limit => P = D
<1> DEFINE G == PageOf(D, q)
<1>1. /\ G \in SUBSET D /\ IsFiniteSet(G) /\ Cardinality(G) <= q.limit
      /\ q.offset = 0 /\ Cardinality(G) < q.limit => G = D
  BY PageSize
<1>2. P \in SUBSET G /\ (q.tier = None /\ (q.mode = "hybrid" => q.min = 0) => P = G)
  <2>1. \A d \in G : d.key \in Nat
    BY <1>1 DEF Doc
  <2>2. QED
    BY <2>1 DEF OfTier, Wanted
<1> HIDE DEF G
<1>3. IsFiniteSet(P) /\ Cardinality(P) <= Cardinality(G)
  BY <1>1, <1>2, FS_Subset
<1>4. Cardinality(P) \in Nat /\ Cardinality(G) \in Nat /\ q.limit \in Nat
  BY <1>1, <1>3, FS_CardinalityType DEF SearchRequest
<1>5. Single(P)
  BY <1>1, <1>2 DEF Single
<1>6. QED
  BY <1>1, <1>2, <1>3, <1>4, <1>5

LEMMA SparseKeeps ==
    ASSUME SearchInv, NEW T \in SUBSET Mems, SparsePass(T)
    PROVE  SearchInv'
<1> DEFINE q == search.q
           sparse == {[id |-> m, text |-> mem[m].text, key |-> 0] : m \in T}
           D == Merged(search.dense, sparse)
           G == PageOf(D, q)
           page == IF q.mode = "hybrid" THEN Wanted(G, q) ELSE G
           pc == IF q.mode = "hybrid" \/ G = {} THEN "done" ELSE "extract"
           total == IF q.mode = "hybrid" THEN Cardinality(Wanted(G, q)) ELSE 0
           cut == T # Found
<1>1. /\ SearchKnown /\ search.pc = "sparse" /\ UNCHANGED <<mem, writes>> /\ T \subseteq Found
      /\ q.mode # "fts"
  BY DEF SparsePass, SearchInv, SearchShape
<1>2. \A m \in T : mem[m].text \in Texts /\ m \in Alive
  BY <1>1, ShapeFields DEF Found, Mem
<1>3. /\ sparse \in SUBSET Doc /\ Single(sparse) /\ IdsOf(sparse) = T
      /\ \A d \in sparse : d.text = mem[d.id].text
  <2> DEFINE of(m) == [id |-> m, text |-> mem[m].text, key |-> 0]
  <2>1. \A m \in T : of(m) \in Doc /\ of(m).id = m /\ of(m).text = mem[m].text
    BY <1>2 DEF Doc
  <2>2. sparse = {of(m) : m \in T}
    OBVIOUS
  <2> HIDE DEF of, sparse
  <2>3. QED
    BY <2>1, <2>2 DEF Single, IdsOf
<1>4. /\ search.dense \subseteq Doc /\ Single(search.dense) /\ search.blind \in BOOLEAN /\ search.cut \in BOOLEAN
      /\ search.steady \subseteq Alive /\ q \in SearchRequest
      /\ ~search.blind => {m \in search.steady \ Foreign : mem[m].vec # None} \subseteq IdsOf(search.dense)
  BY <1>1, ShapeFields DEF SearchKnown
<1> HIDE DEF sparse
<1>5. D \in SUBSET Doc /\ Single(D) /\ IdsOf(D) = IdsOf(search.dense) \cup T
  BY <1>3, <1>4 DEF Merged, Single, IdsOf
<1>6. \A d \in D : <<d.id, d.text>> \in search.seen
  <2>1. \A d \in sparse : d.id \in Alive
    BY <1>2, <1>3 DEF IdsOf
  <2>2. QED
    BY <1>1, <1>3, <2>1 DEF SearchKnown, Merged
<1>7. search' = [search EXCEPT !.pc = pc, !.dense = {}, !.page = page, !.total = total,
                               !.cut = cut]
  <2>1. Deduped(D) = D
    BY <1>5, DedupedSingle
  <2>2. QED
    BY <2>1 DEF SparsePass, sparse
<1> HIDE DEF D
<1>8. /\ page \in SUBSET D /\ Single(page) /\ Cardinality(page) <= q.limit
      /\ q.offset = 0 /\ q.tier = None /\ (q.mode = "hybrid" => q.min = 0)
            /\ Cardinality(page) < q.limit => page = D
  <2>1. \/ page \in {PageOf(D, q), OfTier(PageOf(D, q), q)}
        \/ q.mode = "hybrid" /\ page = Wanted(PageOf(D, q), q)
    OBVIOUS
  <2> HIDE DEF page
  <2>2. QED
    BY <1>4, <1>5, <2>1, TierPage
<1>9. /\ pc \in {"done", "extract"} /\ cut \in BOOLEAN /\ (~cut => T = Found)
      /\ pc = "extract" => q.mode \in {"count", "sum", "list"} /\ page # {}
  BY <1>1, <1>4 DEF SearchRequest
<1>10. \A m \in search.steady :
            \/ mem[m].text \in Worded /\ ~cut
            \/ ~search.blind /\ mem[m].vec # None /\ m \notin Foreign
            => m \in IdsOf(D)
  <2>1. \A m \in search.steady : mem[m].text \in Worded => m \in Found
    BY <1>4 DEF Found
  <2>2. QED
    BY <1>4, <1>5, <1>9, <2>1
<1> HIDE DEF page, pc, cut, total, G
<1>11. /\ search'.pc = pc /\ search'.q = search.q /\ search'.hits = search.hits
       /\ search'.dense = {} /\ search'.page = page
       /\ search'.answer = None /\ search'.blind = search.blind /\ search'.cut = cut
       /\ search'.steady = search.steady /\ search'.seen = search.seen
       /\ DOMAIN search' = Fields /\ search' = [f \in Fields |-> search'[f]]
  BY <1>1, <1>7, ShapeFields DEF Fields
<1>12. RowsKnown' /\ Alive' = Alive /\ Indexed' = Indexed
  BY <1>1, RowsRest
<1>13. SearchShape'
  BY <1>4, <1>5, <1>8, <1>9, <1>11 DEF SearchShape
<1>14. \A d \in page : <<d.id, d.text>> \in search.seen
  BY <1>6, <1>8
<1>15. SearchKnown'
  BY <1>1, <1>8, <1>9, <1>11, <1>12, <1>14 DEF SearchKnown, Single, IdsOf
<1>16. SearchExact'
  BY <1>1, <1>8, <1>10, <1>11, <1>14 DEF SearchExact
<1>17. QED
  BY <1>12, <1>13, <1>15, <1>16 DEF SearchInv

LEMMA CountKeeps ==
    ASSUME SearchInv, FtsCount
    PROVE  SearchInv'
<1>1. /\ SearchKnown /\ search.pc = "count" /\ search.q.mode = "fts" /\ UNCHANGED <<mem, writes>>
      /\ search' = [search EXCEPT !.pc = "page", !.total = Cardinality(Found)]
  BY DEF FtsCount, SearchInv, SearchShape
<1>2. /\ search'.pc = "page" /\ search'.q = search.q /\ search'.hits = search.hits
      /\ search'.dense = search.dense /\ search'.page = search.page
      /\ search'.answer = None /\ search'.blind = search.blind /\ search'.cut = search.cut
      /\ search'.steady = search.steady /\ search'.seen = search.seen
      /\ DOMAIN search' = Fields /\ search' = [f \in Fields |-> search'[f]]
  BY <1>1, ShapeFields DEF Fields
<1>3. RowsKnown' /\ Alive' = Alive /\ Indexed' = Indexed
  BY <1>1, RowsRest
<1>4. SearchShape'
  BY <1>1, <1>2, ShapeFields DEF SearchShape
<1>5. SearchKnown'
  BY <1>1, <1>2, <1>3 DEF SearchKnown
<1>6. SearchExact'
  BY <1>2 DEF SearchExact
<1>7. QED
  BY <1>3, <1>4, <1>5, <1>6 DEF SearchInv

LEMMA PageKeeps ==
    ASSUME SearchInv, FtsPage
    PROVE  SearchInv'
<1> DEFINE q == search.q
           of(m) == [id |-> m, text |-> mem[m].text, key |-> mem[m].updated]
           D == {of(m) : m \in Found}
           page == OfTier(PageOf(D, q), q)
           total == search.total + Cardinality(page) - Cardinality(PageOf(D, q))
<1>1. /\ SearchKnown /\ search.pc = "page" /\ q.mode = "fts" /\ UNCHANGED <<mem, writes>>
      /\ search' = [search EXCEPT !.pc = "done", !.page = page, !.total = total]
  BY DEF FtsPage, SearchInv, SearchShape
<1>2. /\ search.dense \subseteq Doc /\ q \in SearchRequest /\ search.blind \in BOOLEAN /\ search.cut \in BOOLEAN
      /\ search.steady \subseteq Alive
  BY <1>1, ShapeFields DEF SearchKnown
<1>3. \A m \in Found : /\ of(m) \in Doc /\ of(m).id = m /\ of(m).text = mem[m].text
                       /\ m \in Alive
  BY ShapeFields DEF Found, Alive, Mem, Doc
<1> HIDE DEF of
<1>4. D \in SUBSET Doc /\ Single(D) /\ IdsOf(D) = Found
  BY <1>3 DEF Single, IdsOf
<1>5. \A d \in D : <<d.id, d.text>> \in search.seen
  <2>1. \A m \in Alive : <<m, mem[m].text>> \in search.seen
    BY <1>1 DEF SearchKnown
  <2>2. QED
    BY <1>3, <2>1
<1> HIDE DEF D
<1>6. /\ page \in SUBSET D /\ Single(page) /\ Cardinality(page) <= q.limit
      /\ q.offset = 0 /\ q.tier = None /\ (q.mode = "hybrid" => q.min = 0)
            /\ Cardinality(page) < q.limit => page = D
  BY <1>2, <1>4, TierPage
<1>7. \A m \in search.steady : mem[m].text \in Worded => m \in IdsOf(D)
  BY <1>2, <1>4 DEF Found
<1> HIDE DEF page, total
<1>8. /\ search'.pc = "done" /\ search'.q = search.q /\ search'.hits = search.hits
      /\ search'.dense = search.dense /\ search'.page = page
      /\ search'.answer = None /\ search'.blind = search.blind /\ search'.cut = search.cut
      /\ search'.steady = search.steady /\ search'.seen = search.seen
      /\ DOMAIN search' = Fields /\ search' = [f \in Fields |-> search'[f]]
  BY <1>1, ShapeFields DEF Fields
<1>9. RowsKnown' /\ Alive' = Alive /\ Indexed' = Indexed
  BY <1>1, RowsRest
<1>10. SearchShape'
  BY <1>2, <1>4, <1>6, <1>8 DEF SearchShape
<1>11. \A d \in page : <<d.id, d.text>> \in search.seen
  BY <1>5, <1>6
<1>12. SearchKnown'
  BY <1>1, <1>6, <1>8, <1>9, <1>11 DEF SearchKnown
<1>13. SearchExact'
  BY <1>1, <1>6, <1>7, <1>8, <1>11 DEF SearchExact
<1>14. QED
  BY <1>9, <1>10, <1>12, <1>13 DEF SearchInv

\* The extraction changes neither the page nor what the search knows.
LEMMA ExtractKeeps ==
    ASSUME SearchInv, ExtractFails \/ \E items \in Extractions : Extract(items)
    PROVE  SearchInv'
<1>1. /\ SearchKnown /\ SearchExact /\ search.pc = "extract" /\ UNCHANGED <<mem, writes>>
      /\ search.q.mode \in {"count", "sum", "list"} /\ search.page # {} /\ search.answer = None
  BY ShapeFields DEF ExtractFails, Extract, SearchInv, SearchShape
<1> DEFINE Same ==
             /\ search'.pc = "done" /\ search'.q = search.q /\ search'.hits = search.hits
             /\ search'.dense = search.dense /\ search'.page = search.page
             /\ search'.blind = search.blind /\ search'.cut = search.cut
             /\ search'.steady = search.steady /\ search'.seen = search.seen
             /\ DOMAIN search' = Fields /\ search' = [f \in Fields |-> search'[f]]
<1>2. /\ Same
      /\ search'.answer # None => /\ search'.items \in Extractions
                                  /\ search'.answer = PythonAggregate(search.q.mode, search'.items)
  <2>1. CASE ExtractFails
    BY <1>1, <2>1, ShapeFields DEF ExtractFails, Fields
  <2>2. ASSUME NEW items \in Extractions, Extract(items)
        PROVE  Same /\ search'.items = items /\ search'.answer = PythonAggregate(search.q.mode, items)
    <3> DEFINE answer == PythonAggregate(search.q.mode, items)
    <3>1. search' = [search EXCEPT !.pc = "done", !.items = items, !.answer = answer]
      BY <2>2 DEF Extract
    <3> HIDE DEF answer
    <3>2. Same /\ search'.items = items /\ search'.answer = answer
      BY <3>1, ShapeFields DEF Fields
    <3>3. QED
      BY <3>2 DEF answer
  <2>3. QED
    <3> HIDE DEF Same
    <3>1. QED
      BY <1>1, <2>1, <2>2
<1>3. RowsKnown' /\ Alive' = Alive /\ Indexed' = Indexed
  BY <1>1, RowsRest
<1>4. SearchShape'
  BY <1>1, <1>2, ShapeFields DEF SearchShape
<1>5. SearchKnown'
  BY <1>1, <1>2, <1>3 DEF SearchKnown
<1>6. SearchExact'
  BY <1>1, <1>2 DEF SearchExact
<1>7. QED
  BY <1>3, <1>4, <1>5, <1>6 DEF SearchInv

LEMMA SearchRests ==
    ASSUME SearchInv, UNCHANGED readVars
    PROVE  SearchInv'
<1>1. mem' = mem /\ search' = search /\ writes' = writes
  BY DEF readVars
<1>2. RowsKnown' /\ Alive' = Alive /\ Indexed' = Indexed
  BY <1>1, RowsRest
<1>3. SearchShape' /\ SearchKnown' /\ SearchExact'
  BY <1>1, <1>2 DEF SearchInv, SearchShape, SearchKnown, SearchExact
<1>4. QED
  BY <1>2, <1>3 DEF SearchInv

LEMMA SearchStep ==
    ASSUME SearchInv, [GatewayNext]_allVars
    PROVE  SearchInv'
<1>1. CASE ReadsNext
  <2>1. CASE Next /\ UNCHANGED readVars
    BY <2>1, SearchRests
  <2>2. ASSUME NEW m \in Mems, NEW text \in Texts,
               \/ UpdateMem(m, text)
               \/ \E vec \in {text, None}, saved \in BOOLEAN : CreateMem(m, text, vec, saved)
        PROVE  SearchInv'
    BY <2>2, WritersKeep
  <2>3. ASSUME NEW m \in Mems, DeleteMem(m) \/ BackfillMem(m)
        PROVE  SearchInv'
    <3>1. PICK text \in Texts : TRUE
      BY ReadsAssumption
    <3>2. QED
      BY <2>3, <3>1, WritersKeep
  <2>4. ASSUME NEW q \in Requested, SearchStart(q)
        PROVE  SearchInv'
    BY <2>4, StartKeeps
  <2>5. ASSUME NEW T \in SUBSET Mems, VectorHits(T) \/ DenseLegacy(T) \/ SparsePass(T)
        PROVE  SearchInv'
    BY <2>5, HitsKeep, LegacyKeeps, SparseKeeps
  <2>6. CASE EncodeFails \/ DenseHydrate \/ FtsCount \/ FtsPage
    BY <2>6, EncodeKeeps, HydrateKeeps, CountKeeps, PageKeeps
  <2>7. CASE ExtractFails \/ \E items \in Extractions : Extract(items)
    BY <2>7, ExtractKeeps
  <2>8. QED
    BY <1>1, <2>1, <2>2, <2>3, <2>4, <2>5, <2>6, <2>7 DEF ReadsNext
<1>2. CASE UNCHANGED readVars
  BY <1>2, SearchRests
<1>3. QED
  BY <1>1, <1>2 DEF GatewayNext, allVars

-----------------------------------------------------------------------------
(* Folds over the subsets of a finite set, with a set or a function in the *)
(* place of what would be an operator.                                     *)

LEMMA SubsetSizes ==
    ASSUME NEW S, IsFiniteSet(S)
    PROVE  \A s \in SUBSET S : /\ IsFiniteSet(s) /\ Cardinality(s) \in Nat
                               /\ Cardinality(s) = 0 <=> s = {}
                               /\ Cardinality(s) <= Cardinality(S)
                               /\ \A x \in s : Cardinality(s \ {x}) = Cardinality(s) - 1
BY FS_Subset, FS_CardinalityType, FS_EmptySet, FS_RemoveElement

\* A family of subsets with the empty set and every set whose smaller ones
\* it has, has them all.
LEMMA SubsetInduction ==
    ASSUME NEW S, IsFiniteSet(S), NEW Q, {} \in Q,
           \A s \in SUBSET S : s # {} /\ (\A x \in s : s \ {x} \in Q) => s \in Q
    PROVE  SUBSET S \subseteq Q
<1> DEFINE T == {n \in Nat : \A s \in SUBSET S : Cardinality(s) = n => s \in Q}
<1>1. 0 \in T
  BY SubsetSizes
<1>2. ASSUME NEW n \in Nat, n \in T
      PROVE  n + 1 \in T
  <2>1. ASSUME NEW s \in SUBSET S, Cardinality(s) = n + 1
        PROVE  s \in Q
    <3>1. s # {} /\ \A x \in s : s \ {x} \in SUBSET S /\ Cardinality(s \ {x}) = n
      BY <2>1, SubsetSizes
    <3>2. \A x \in s : s \ {x} \in Q
      BY <1>2, <3>1
    <3>3. QED
      BY <3>1, <3>2
  <2>2. QED
    BY <2>1
<1> HIDE DEF T
<1>3. Nat \subseteq T
  BY <1>1, <1>2, SetInduction
<1>4. QED
  BY <1>3, SubsetSizes DEF T

\* A fold over the subsets of S: pk takes an element out, h adds it.
IsFold(S, A, base, h, pk) ==
    /\ IsFiniteSet(S) /\ base \in A /\ h \in [S -> [A -> A]]
    /\ pk \in [(SUBSET S) \ {{}} -> S] /\ \A s \in (SUBSET S) \ {{}} : pk[s] \in s

FoldsTo(S, A, base, h, pk, g) ==
    /\ g \in [SUBSET S -> A]
    /\ \A s \in SUBSET S : g[s] = IF s = {} THEN base ELSE h[pk[s]][g[s \ {pk[s]}]]

\* It has a value for every subset.
LEMMA FoldExists ==
    ASSUME NEW S, NEW A, NEW base, NEW h, NEW pk, IsFold(S, A, base, h, pk)
    PROVE  \E g : FoldsTo(S, A, base, h, pk, g)
<1> DEFINE Sub(n) == {s \in SUBSET S : Cardinality(s) <= n}
           Eq(g, n) == \A s \in Sub(n) : g[s] = IF s = {} THEN base ELSE h[pk[s]][g[s \ {pk[s]}]]
           T == {n \in Nat : \E g \in [Sub(n) -> A] : Eq(g, n)}
<1>0. /\ IsFiniteSet(S) /\ base \in A /\ h \in [S -> [A -> A]]
      /\ pk \in [(SUBSET S) \ {{}} -> S] /\ \A s \in (SUBSET S) \ {{}} : pk[s] \in s
  BY DEF IsFold
<1> USE <1>0
<1>1. 0 \in T
  <2> DEFINE g == [s \in Sub(0) |-> base]
  <2>1. \A s \in Sub(0) : s = {}
    BY SubsetSizes
  <2>2. g \in [Sub(0) -> A] /\ Eq(g, 0)
    BY <2>1
  <2>3. QED
    BY <2>2
<1>2. ASSUME NEW n \in Nat, n \in T
      PROVE  n + 1 \in T
  <2>1. PICK g \in [Sub(n) -> A] : Eq(g, n)
    BY <1>2
  <2> DEFINE k == [s \in Sub(n + 1) |-> IF s = {} THEN base ELSE h[pk[s]][g[s \ {pk[s]}]]]
  <2>2. ASSUME NEW s \in Sub(n + 1), s # {}
        PROVE  s \ {pk[s]} \in Sub(n) /\ s \ {pk[s]} \in Sub(n + 1) /\ pk[s] \in S
    <3>1. pk[s] \in s
      BY <2>2
    <3>2. Cardinality(s) \in Nat /\ Cardinality(s \ {pk[s]}) = Cardinality(s) - 1
      BY <3>1, SubsetSizes
    <3>3. QED
      BY <3>1, <3>2
  <2>3. k \in [Sub(n + 1) -> A]
    <3>1. ASSUME NEW s \in Sub(n + 1)
          PROVE  (IF s = {} THEN base ELSE h[pk[s]][g[s \ {pk[s]}]]) \in A
      <4>1. CASE s # {}
        <5>1. g[s \ {pk[s]}] \in A /\ h[pk[s]] \in [A -> A]
          BY <2>2, <4>1
        <5>2. QED
          BY <4>1, <5>1
      <4>2. QED
        BY <4>1
    <3>2. QED
      BY <3>1
  <2>4. \A s \in Sub(n) : s \in Sub(n + 1) /\ k[s] = g[s]
    <3> TAKE s \in Sub(n)
    <3>1. s \in Sub(n + 1)
      BY SubsetSizes
    <3>2. QED
      BY <3>1, <2>1
  <2>5. Eq(k, n + 1)
    <3> SUFFICES ASSUME NEW s \in Sub(n + 1)
                 PROVE  k[s] = IF s = {} THEN base ELSE h[pk[s]][k[s \ {pk[s]}]]
      OBVIOUS
    <3>1. CASE s = {}
      BY <3>1
    <3>2. CASE s # {}
      <4>1. k[s \ {pk[s]}] = g[s \ {pk[s]}]
        BY <3>2, <2>2, <2>4
      <4>2. k[s] = h[pk[s]][g[s \ {pk[s]}]]
        BY <3>2
      <4> HIDE DEF k
      <4>3. QED
        BY <3>2, <4>1, <4>2
    <3>3. QED
      BY <3>1, <3>2
  <2> HIDE DEF k, Eq, Sub
  <2>6. \E z \in [Sub(n + 1) -> A] : Eq(z, n + 1)
    BY <2>3, <2>5
  <2>7. QED
    BY <2>6
<1>3. Nat \subseteq T
  <2> HIDE DEF T
  <2>1. QED
    BY <1>1, <1>2, SetInduction
<1>4. Cardinality(S) \in T
  BY <1>3, SubsetSizes
<1>5. PICK g \in [Sub(Cardinality(S)) -> A] : Eq(g, Cardinality(S))
  BY <1>4
<1>6. Sub(Cardinality(S)) = SUBSET S
  BY SubsetSizes
<1>7. QED
  BY <1>5, <1>6 DEF FoldsTo

LEMMA MaxIn ==
    ASSUME NEW S \in SUBSET Nat, IsFiniteSet(S), S # {}
    PROVE  Max(S) \in S /\ \A y \in S : y <= Max(S)
<1> DEFINE Q == {s \in SUBSET S : s = {} \/ \E m \in s : \A y \in s : m >= y}
<1>1. {} \in Q
  OBVIOUS
<1>2. ASSUME NEW s \in SUBSET S, s # {}, \A x \in s : s \ {x} \in Q
      PROVE  s \in Q
  <2>1. PICK x \in s : TRUE
    BY <1>2
  <2>2. CASE s \ {x} = {}
    <3>1. \A y \in s : x >= y
      BY <2>2
    <3>2. QED
      BY <3>1
  <2>3. CASE s \ {x} # {}
    <3>1. PICK m \in s \ {x} : \A y \in s \ {x} : m >= y
      BY <1>2, <2>3
    <3>2. m \in Nat /\ x \in Nat /\ \A y \in s : y \in Nat
      OBVIOUS
    <3>3. (\A y \in s : m >= y) \/ (\A y \in s : x >= y)
      BY <3>1, <3>2
    <3>4. QED
      BY <3>1, <3>3
  <2>4. QED
    BY <2>2, <2>3
<1> HIDE DEF Q
<1>3. SUBSET S \subseteq Q
  BY <1>1, <1>2, SubsetInduction
<1>4. S \in Q
  BY <1>3
<1>5. QED
  BY <1>4 DEF Q, Max

-----------------------------------------------------------------------------
(* The aggregation.                                                        *)

Item  == [phrase : STRING, value : Int \cup {None}]

\* The phrases of a list of items, and the lists of them.
Words(items) == {items[k].phrase : k \in DOMAIN items}
Lists(items) == Seq(Words(items))

\* out lists the phrases of the items s by their first item.
Listed(items, out, s) ==
    /\ out \in Lists(items) /\ Range(out) = {items[k].phrase : k \in s} \ {""}
    /\ \A i, j \in DOMAIN out :
          i < j => \E k \in s : /\ items[k].phrase = out[i]
                                /\ \A l \in s : items[l].phrase = out[j] => k < l

LEMMA ItemFacts ==
    ASSUME NEW items \in Seq(Item)
    PROVE  /\ Len(items) \in Nat /\ DOMAIN items = 1..Len(items) /\ IsFiniteSet(DOMAIN items)
           /\ DOMAIN items \subseteq Nat
           /\ \A k \in DOMAIN items : items[k].phrase \in Words(items) /\ items[k].value \in Int \cup {None}
<1>1. /\ Len(items) \in Nat /\ DOMAIN items = 1..Len(items)
      /\ \A k \in DOMAIN items : items[k] \in Item
  OBVIOUS
<1>2. IsFiniteSet(1..Len(items))
  BY <1>1, FS_Interval
<1>3. \A it \in Item : it.value \in Int \cup {None}
  BY DEF Item
<1>4. QED
  BY <1>1, <1>2, <1>3 DEF Words

LEMMA AppendFacts ==
    ASSUME NEW S, NEW out \in Seq(S), NEW p \in S, NEW new, new = Append(out, p)
    PROVE  /\ new \in Seq(S) /\ DOMAIN out = 1..Len(out) /\ DOMAIN new = 1..(Len(out) + 1)
           /\ Len(out) \in Nat /\ new[Len(out) + 1] = p
           /\ \A i \in DOMAIN out : new[i] = out[i]
OBVIOUS

LEMMA PhraseStep ==
    ASSUME NEW items \in Seq(Item), NEW r \in SUBSET DOMAIN items, NEW t \in DOMAIN items,
           \A k \in r : k < t, NEW out, Listed(items, out, r)
    PROVE  Listed(items, AddPhrase(out, items[t]), r \cup {t})
<1> DEFINE p == items[t].phrase
           s == r \cup {t}
<1>1. p \in Words(items) /\ t \in Nat /\ r \subseteq Nat /\ t \notin r
  BY ItemFacts
<1>2. /\ out \in Lists(items) /\ Range(out) = {items[k].phrase : k \in r} \ {""}
      /\ \A i, j \in DOMAIN out :
            i < j => \E k \in r : /\ items[k].phrase = out[i]
                                  /\ \A l \in r : items[l].phrase = out[j] => k < l
  BY DEF Listed
<1>3. CASE p = "" \/ p \in Range(out)
  <2>1. AddPhrase(out, items[t]) = out
    BY <1>3 DEF AddPhrase
  <2>2. Range(out) = {items[k].phrase : k \in s} \ {""}
    BY <1>2, <1>3
  <2>3. ASSUME NEW i \in DOMAIN out, NEW j \in DOMAIN out, i < j
        PROVE  \E k \in s : items[k].phrase = out[i] /\ \A l \in s : items[l].phrase = out[j] => k < l
    <3>1. PICK k \in r : items[k].phrase = out[i] /\ \A l \in r : items[l].phrase = out[j] => k < l
      BY <1>2, <2>3
    <3>2. k < t /\ k \in s
      OBVIOUS
    <3>3. QED
      BY <3>1, <3>2
  <2>4. Listed(items, out, s)
    <3> HIDE DEF s
    <3>1. QED
      BY <1>2, <2>2, <2>3 DEF Listed
  <2>5. QED
    BY <2>1, <2>4
<1>4. CASE p # "" /\ p \notin Range(out)
  <2> DEFINE new == Append(out, p)
  <2>1. AddPhrase(out, items[t]) = new
    BY <1>4 DEF AddPhrase
  <2>2. /\ new \in Lists(items) /\ DOMAIN out = 1..Len(out) /\ DOMAIN new = 1..(Len(out) + 1)
        /\ Len(out) \in Nat
        /\ \A i \in DOMAIN out : new[i] = out[i] /\ out[i] \in Range(out)
        /\ new[Len(out) + 1] = p
    <3>1. \A i \in DOMAIN out : out[i] \in Range(out)
      BY DEF Range
    <3>2. out \in Seq(Words(items))
      BY <1>2 DEF Lists
    <3> HIDE DEF new, p
    <3>3. new = Append(out, p)
      BY DEF new
    <3>4. p \in Words(items)
      BY <1>1
    <3>5. /\ new \in Seq(Words(items)) /\ DOMAIN out = 1..Len(out) /\ DOMAIN new = 1..(Len(out) + 1)
          /\ Len(out) \in Nat /\ new[Len(out) + 1] = p
          /\ \A i \in DOMAIN out : new[i] = out[i]
      BY <3>2, <3>3, <3>4, AppendFacts
    <3>6. QED
      BY <3>1, <3>5 DEF Lists
  <2>3. Range(new) = Range(out) \cup {p}
    <3>1. \A i \in DOMAIN new : i \in DOMAIN out \/ i = Len(out) + 1
      BY <2>2
    <3>2. \A i \in DOMAIN out : i \in DOMAIN new
      BY <2>2
    <3>3. Len(out) + 1 \in DOMAIN new
      BY <2>2
    <3> HIDE DEF new
    <3>4. QED
      BY <2>2, <3>1, <3>2, <3>3 DEF Range
  <2> HIDE DEF new
  <2>4. Range(new) = {items[k].phrase : k \in s} \ {""}
    <3>1. {items[k].phrase : k \in s} = {items[k].phrase : k \in r} \cup {p}
      OBVIOUS
    <3>2. QED
      BY <1>2, <1>4, <2>3, <3>1
  <2>5. ASSUME NEW i \in DOMAIN new, NEW j \in DOMAIN new, i < j
        PROVE  \E k \in s : items[k].phrase = new[i] /\ \A l \in s : items[l].phrase = new[j] => k < l
    <3>1. i \in DOMAIN out
      BY <2>2, <2>5
    <3>2. CASE j \in DOMAIN out
      <4>1. out[j] # p /\ out[i] # p
        BY <1>4, <2>2, <3>1, <3>2
      <4>2. PICK k \in r : items[k].phrase = out[i] /\ \A l \in r : items[l].phrase = out[j] => k < l
        BY <1>2, <2>5, <3>1, <3>2
      <4>3. QED
        BY <2>2, <3>1, <3>2, <4>1, <4>2
    <3>3. CASE j = Len(out) + 1
      <4>1. PICK k \in r : items[k].phrase = out[i]
        BY <1>2, <2>2, <3>1
      <4>2. \A l \in r : items[l].phrase # p
        BY <1>2, <1>4
      <4>3. QED
        BY <2>2, <3>1, <3>3, <4>1, <4>2
    <3>4. QED
      BY <2>2, <2>5, <3>2, <3>3
  <2>6. QED
    <3>1. Listed(items, new, s)
      <4> HIDE DEF s
      <4>1. QED
        BY <2>2, <2>4, <2>5 DEF Listed
    <3>2. QED
      BY <2>1, <3>1
<1>5. QED
  BY <1>3, <1>4

PhraseFold(items, D, g) ==
    g = [s \in SUBSET D |-> IF s = {} THEN <<>> ELSE AddPhrase(g[s \ {Max(s)}], items[Max(s)])]

LEMMA DistinctLists ==
    ASSUME NEW items \in Seq(Item)
    PROVE  Listed(items, Distinct(items), DOMAIN items)
<1> DEFINE D  == DOMAIN items
           h  == [k \in D |-> [a \in Lists(items) |-> AddPhrase(a, items[k])]]
           pk == [s \in (SUBSET D) \ {{}} |-> Max(s)]
           G  == CHOOSE g : PhraseFold(items, D, g)
<1>1. D \in SUBSET Nat /\ IsFiniteSet(D) /\ \A k \in D : items[k].phrase \in Words(items)
  BY ItemFacts
<1>2. \A s \in (SUBSET D) \ {{}} : Max(s) \in s /\ \A y \in s : y <= Max(s)
  <2> TAKE s \in (SUBSET D) \ {{}}
  <2>1. s \in SUBSET Nat /\ s # {}
    BY <1>1
  <2>2. IsFiniteSet(s)
    BY <1>1, FS_Subset
  <2>3. QED
    BY <2>1, <2>2, MaxIn
<1>3. \A k \in D, a \in Lists(items) : AddPhrase(a, items[k]) \in Lists(items)
  <2> TAKE k \in D, a \in Lists(items)
  <2>1. a \in Seq(Words(items)) /\ items[k].phrase \in Words(items)
    BY <1>1 DEF Lists
  <2>2. Append(a, items[k].phrase) \in Seq(Words(items))
    BY <2>1, AppendFacts
  <2>3. QED
    BY <2>1, <2>2 DEF AddPhrase, Lists
<1>4. h \in [D -> [Lists(items) -> Lists(items)]] /\ pk \in [(SUBSET D) \ {{}} -> D] /\ <<>> \in Lists(items)
  BY <1>2, <1>3 DEF Lists
<1> HIDE DEF D
<1>5. PICK g : FoldsTo(D, Lists(items), <<>>, h, pk, g)
  <2>1. \A s \in (SUBSET D) \ {{}} : pk[s] \in s
    BY <1>2
  <2> HIDE DEF h, pk
  <2>2. IsFold(D, Lists(items), <<>>, h, pk)
    BY <1>1, <1>4, <2>1 DEF IsFold
  <2>3. QED
    BY <2>2, FoldExists
<1>6. PhraseFold(items, D, g)
  <2>1. ASSUME NEW s \in SUBSET D, s # {}
        PROVE  h[pk[s]][g[s \ {pk[s]}]] = AddPhrase(g[s \ {Max(s)}], items[Max(s)])
    <3>1. pk[s] = Max(s) /\ Max(s) \in D /\ s \ {Max(s)} \in SUBSET D
      BY <1>2, <2>1
    <3>2. g[s \ {Max(s)}] \in Lists(items)
      BY <1>5, <3>1 DEF FoldsTo
    <3>3. QED
      BY <3>1, <3>2
  <2> HIDE DEF h, pk
  <2>2. QED
    BY <1>5, <2>1 DEF PhraseFold, FoldsTo
<1> HIDE DEF h, pk
<1>7. PhraseFold(items, D, G)
  BY <1>6
<1>8. Distinct(items) = G[D]
  BY DEF D, Distinct, FoldLeft, MapThenFoldSet, PhraseFold
<1> HIDE DEF G
<1>9. \A s \in SUBSET D : G[s] = IF s = {} THEN <<>> ELSE AddPhrase(G[s \ {Max(s)}], items[Max(s)])
  BY <1>7 DEF PhraseFold
<1> DEFINE Q == {s \in SUBSET D : Listed(items, G[s], s)}
<1>10. {} \in Q
  <2>1. G[{}] = <<>>
    BY <1>9
  <2>2. Listed(items, <<>>, {})
    BY <1>4 DEF Listed, Range
  <2>3. QED
    BY <2>1, <2>2
<1>11. ASSUME NEW s \in SUBSET D, s # {}, \A x \in s : s \ {x} \in Q
       PROVE  s \in Q
  <2> DEFINE t == Max(s)
             r == s \ {t}
  <2>1. t \in s /\ t \in D /\ r \in SUBSET D /\ r \cup {t} = s /\ \A y \in r : y <= t /\ y # t
    BY <1>2, <1>11
  <2>2. Listed(items, G[r], r)
    BY <1>11, <2>1
  <2>3. G[s] = AddPhrase(G[r], items[t])
    BY <1>9, <1>11
  <2> HIDE DEF t, r
  <2>4. \A y \in r : y < t
    BY <1>1, <2>1
  <2>5. Listed(items, AddPhrase(G[r], items[t]), r \cup {t})
    BY <2>1, <2>2, <2>4, PhraseStep DEF D
  <2>6. QED
    BY <2>1, <2>3, <2>5
<1> HIDE DEF Q
<1>12. D \in Q
  BY <1>1, <1>10, <1>11, SubsetInduction
<1>13. QED
  BY <1>8, <1>12 DEF Q, D

\* g adds up the values w, an element that pk chooses first.
AddsUp(S, w, pk, g) ==
    \A s \in SUBSET S : /\ s # {} => pk[s] \in s
                        /\ g[s] = IF s = {} THEN 0 ELSE w[pk[s]] + g[s \ {pk[s]}]

\* Any element may be the last.
Additive(S, w, g) == \A s \in SUBSET S : g[s] \in Int /\ \A x \in s : g[s] = w[x] + g[s \ {x}]

\* A fold that adds up integers does not depend on the order.
LEMMA AnyLast ==
    ASSUME NEW S, IsFiniteSet(S), NEW w \in [S -> Int], NEW pk, NEW g,
           AddsUp(S, w, pk, g)
    PROVE  Additive(S, w, g)
<1> DEFINE T == {s \in SUBSET S : g[s] \in Int}
           Q == {s \in SUBSET S : \A x \in s : g[s] = w[x] + g[s \ {x}]}
<1>0. \A s \in SUBSET S : /\ s # {} => pk[s] \in s
                          /\ g[s] = IF s = {} THEN 0 ELSE w[pk[s]] + g[s \ {pk[s]}]
  BY DEF AddsUp
<1> USE <1>0
<1>1. SUBSET S \subseteq T
  <2>1. g[{}] = 0
    OBVIOUS
  <2>2. {} \in T
    BY <2>1
  <2>3. ASSUME NEW s \in SUBSET S, s # {}, \A x \in s : s \ {x} \in T
        PROVE  s \in T
    <3> DEFINE p == pk[s]
    <3>1. p \in s /\ g[s] = w[p] + g[s \ {p}]
      BY <2>3
    <3> HIDE DEF p
    <3>2. g[s \ {p}] \in Int /\ w[p] \in Int
      BY <2>3, <3>1
    <3>3. g[s] \in Int
      BY <3>1, <3>2
    <3>4. QED
      BY <3>3
  <2> HIDE DEF T
  <2>4. QED
    BY <2>2, <2>3, SubsetInduction
<1>2. {} \in Q
  OBVIOUS
<1>3. ASSUME NEW s \in SUBSET S, s # {}, \A x \in s : s \ {x} \in Q
      PROVE  s \in Q
  <2> DEFINE p == pk[s]
  <2>1. p \in s /\ p \in S /\ g[s] = w[p] + g[s \ {p}]
    BY <1>3
  <2> HIDE DEF p
  <2>2. ASSUME NEW x \in s, x # p
        PROVE  g[s] = w[x] + g[s \ {x}]
    <3>1. g[s \ {p}] = w[x] + g[(s \ {p}) \ {x}]
      BY <1>3, <2>1, <2>2
    <3>2. g[s \ {x}] = w[p] + g[(s \ {x}) \ {p}]
      BY <1>3, <2>1, <2>2
    <3>3. (s \ {p}) \ {x} = (s \ {x}) \ {p} /\ (s \ {p}) \ {x} \in SUBSET S
      OBVIOUS
    <3> DEFINE z == g[(s \ {p}) \ {x}]
    <3>4. g[s \ {p}] = w[x] + z /\ g[s \ {x}] = w[p] + z
      BY <3>1, <3>2, <3>3
    <3>5. z \in Int /\ w[x] \in Int /\ w[p] \in Int
      BY <1>1, <2>1, <3>3
    <3> HIDE DEF z
    <3>6. QED
      BY <2>1, <3>4, <3>5
  <2>3. \A x \in s : g[s] = w[x] + g[s \ {x}]
    BY <2>1, <2>2
  <2>4. QED
    BY <2>3
<1> HIDE DEF T, Q
<1>4. SUBSET S \subseteq Q
  BY <1>2, <1>3, SubsetInduction
<1>5. QED
  BY <1>1, <1>4 DEF T, Q, Additive

ValueFold(items, D, g) ==
    g = [s \in SUBSET D |-> IF s = {} THEN 0 ELSE AddValue(g[s \ {Max(s)}], items[Max(s)])]

\* What an item adds to the sum.
Worth(items) == [k \in DOMAIN items |-> IF items[k].value = None THEN 0 ELSE items[k].value]

\* An additive function whose value for all the items is the total.
LEMMA TotalAdds ==
    ASSUME NEW items \in Seq(Item)
    PROVE  \E g : /\ Total(items) = g[DOMAIN items] /\ g[{}] = 0
                  /\ Additive(DOMAIN items, Worth(items), g)
<1> DEFINE D  == DOMAIN items
           w  == Worth(items)
           h  == [k \in D |-> [a \in Int |-> a + w[k]]]
           pk == [s \in (SUBSET D) \ {{}} |-> Max(s)]
           G  == CHOOSE g : ValueFold(items, D, g)
<1>1. D \in SUBSET Nat /\ IsFiniteSet(D) /\ w \in [D -> Int]
  BY ItemFacts DEF Worth
<1>2. \A k \in D, a \in Int : AddValue(a, items[k]) = a + w[k]
  BY ItemFacts DEF AddValue, Worth
<1>3. \A s \in (SUBSET D) \ {{}} : Max(s) \in s
  <2> TAKE s \in (SUBSET D) \ {{}}
  <2>1. s \in SUBSET Nat /\ s # {}
    BY <1>1
  <2>2. IsFiniteSet(s)
    BY <1>1, FS_Subset
  <2>3. QED
    BY <2>1, <2>2, MaxIn
<1> HIDE DEF D, w
<1>4. h \in [D -> [Int -> Int]] /\ pk \in [(SUBSET D) \ {{}} -> D] /\ 0 \in Int
  <2>1. \A k \in D : w[k] \in Int
    BY <1>1
  <2>2. \A k \in D : [a \in Int |-> a + w[k]] \in [Int -> Int]
    BY <2>1
  <2>3. h \in [D -> [Int -> Int]]
    BY <2>2
  <2>4. pk \in [(SUBSET D) \ {{}} -> D]
    BY <1>3
  <2>5. QED
    BY <2>3, <2>4
<1>5. PICK g : FoldsTo(D, Int, 0, h, pk, g)
  <2>1. \A s \in (SUBSET D) \ {{}} : pk[s] \in s
    BY <1>3
  <2> HIDE DEF h, pk
  <2>2. IsFold(D, Int, 0, h, pk)
    BY <1>1, <1>4, <2>1 DEF IsFold
  <2>3. QED
    BY <2>2, FoldExists
<1>6. ValueFold(items, D, g)
  <2>1. ASSUME NEW s \in SUBSET D, s # {}
        PROVE  h[pk[s]][g[s \ {pk[s]}]] = AddValue(g[s \ {Max(s)}], items[Max(s)])
    <3>1. pk[s] = Max(s) /\ Max(s) \in D /\ s \ {Max(s)} \in SUBSET D
      BY <1>3, <2>1
    <3>2. g[s \ {Max(s)}] \in Int
      BY <1>5, <3>1 DEF FoldsTo
    <3>3. QED
      BY <1>2, <3>1, <3>2
  <2> HIDE DEF h, pk
  <2>2. QED
    BY <1>5, <2>1 DEF ValueFold, FoldsTo
<1>7. ValueFold(items, D, G)
  BY <1>6
<1>8. Total(items) = G[D]
  BY DEF D, Total, FoldLeft, MapThenFoldSet, ValueFold
<1> HIDE DEF G
<1>9. \A s \in SUBSET D : G[s] = IF s = {} THEN 0 ELSE AddValue(G[s \ {Max(s)}], items[Max(s)])
  BY <1>7 DEF ValueFold
<1>10. SUBSET D \subseteq {s \in SUBSET D : G[s] \in Int}
  <2> DEFINE T == {s \in SUBSET D : G[s] \in Int}
  <2>1. G[{}] = 0
    BY <1>9
  <2>2. {} \in T
    BY <2>1
  <2>3. ASSUME NEW s \in SUBSET D, s # {}, \A x \in s : s \ {x} \in T
        PROVE  s \in T
    <3>1. G[s \ {Max(s)}] \in Int /\ Max(s) \in D
      BY <1>3, <2>3
    <3>2. w[Max(s)] \in Int /\ G[s] = G[s \ {Max(s)}] + w[Max(s)]
      BY <1>1, <1>2, <1>9, <2>3, <3>1
    <3>3. G[s] \in Int
      BY <3>1, <3>2
    <3>4. QED
      BY <3>3
  <2> HIDE DEF T
  <2>4. SUBSET D \subseteq T
    BY <1>1, <2>2, <2>3, SubsetInduction
  <2>5. QED
    BY <2>4 DEF T
<1>11. \A s \in SUBSET D : G[s] = IF s = {} THEN 0 ELSE w[pk[s]] + G[s \ {pk[s]}]
  <2> TAKE s \in SUBSET D
  <2>1. CASE s = {}
    BY <1>9, <2>1
  <2>2. CASE s # {}
    <3>1. pk[s] = Max(s) /\ Max(s) \in D /\ s \ {Max(s)} \in SUBSET D
      BY <1>3, <2>2
    <3>2. G[s] = AddValue(G[s \ {Max(s)}], items[Max(s)])
      BY <1>9, <2>2
    <3>3. G[s \ {Max(s)}] \in Int /\ w[Max(s)] \in Int
      BY <1>1, <1>10, <3>1
    <3>4. G[s] = G[s \ {Max(s)}] + w[Max(s)]
      BY <1>2, <3>1, <3>2, <3>3
    <3> HIDE DEF pk
    <3>5. QED
      BY <2>2, <3>1, <3>3, <3>4
  <2>3. QED
    BY <2>1, <2>2
<1>12. \A s \in SUBSET D : s # {} => pk[s] \in s
  BY <1>3
<1> HIDE DEF h, pk
<1>13. Additive(D, w, G)
  <2>1. AddsUp(D, w, pk, G)
    BY <1>11, <1>12 DEF AddsUp
  <2>2. IsFiniteSet(D) /\ w \in [D -> Int]
    BY <1>1
  <2>3. QED
    BY <2>1, <2>2, AnyLast
<1>14. G[{}] = 0
  BY <1>11
<1>15. QED
  BY <1>13, <1>8, <1>14 DEF D, w

Pick(s) == CHOOSE x \in s : TRUE
Numbers(items) == {k \in DOMAIN items : items[k].value # None}

NumberFold(items, N, g) ==
    g = [s \in SUBSET N |-> IF s = {} THEN 0 ELSE items[Pick(s)].value + g[s \ {Pick(s)}]]

LEMMA TotalIsSum ==
    ASSUME NEW items \in Seq(Item)
    PROVE  Total(items) = MapThenSumSet(LAMBDA k : items[k].value, Numbers(items))
<1> DEFINE D == DOMAIN items
           N == Numbers(items)
           w == Worth(items)
           K == CHOOSE g : NumberFold(items, N, g)
<1>1. PICK g : Total(items) = g[D] /\ g[{}] = 0 /\ Additive(D, w, g)
  BY TotalAdds
<1>2. IsFiniteSet(D) /\ N \in SUBSET D
  BY ItemFacts DEF Numbers
<1>3. \A k \in D : w[k] = IF k \in N THEN items[k].value ELSE 0
  BY DEF Worth, Numbers
<1>4. MapThenSumSet(LAMBDA k : items[k].value, Numbers(items)) = K[N]
  BY DEF MapThenSumSet, MapThenFoldSet, NumberFold, Pick
<1> HIDE DEF D, N, w
<1>5. \A s \in SUBSET D : g[s] \in Int /\ \A x \in s : g[s] = w[x] + g[s \ {x}]
  BY <1>1 DEF Additive
<1>6. \A s \in SUBSET N : s # {} => /\ Pick(s) \in s /\ s \ {Pick(s)} \in SUBSET N
                                    /\ g[s] = items[Pick(s)].value + g[s \ {Pick(s)}]
  <2> TAKE s \in SUBSET N
  <2> HAVE s # {}
  <2>1. Pick(s) \in s
    BY DEF Pick
  <2>2. w[Pick(s)] = items[Pick(s)].value /\ s \in SUBSET D
    BY <1>2, <1>3, <2>1
  <2>3. g[s] = w[Pick(s)] + g[s \ {Pick(s)}]
    BY <1>5, <2>1, <2>2
  <2>4. QED
    BY <2>1, <2>2, <2>3
<1>7. NumberFold(items, N, K)
  <2> DEFINE k == [s \in SUBSET N |-> g[s]]
  <2>1. \A s \in SUBSET N : k[s] = IF s = {} THEN 0 ELSE items[Pick(s)].value + k[s \ {Pick(s)}]
    BY <1>1, <1>6
  <2>2. k = [s \in SUBSET N |-> k[s]]
    OBVIOUS
  <2> HIDE DEF k
  <2>3. NumberFold(items, N, k)
    BY <2>1, <2>2 DEF NumberFold
  <2>4. QED
    BY <2>3
<1> HIDE DEF K
<1>8. \A s \in SUBSET N : K[s] = IF s = {} THEN 0 ELSE items[Pick(s)].value + K[s \ {Pick(s)}]
  BY <1>7 DEF NumberFold
<1>9. K[N] = g[N]
  <2> DEFINE Q == {s \in SUBSET N : K[s] = g[s]}
  <2>1. {} \in Q
    BY <1>1, <1>8
  <2>2. ASSUME NEW s \in SUBSET N, s # {}, \A x \in s : s \ {x} \in Q
        PROVE  s \in Q
    <3>1. K[s \ {Pick(s)}] = g[s \ {Pick(s)}]
      BY <1>6, <2>2
    <3>2. QED
      BY <1>6, <1>8, <2>2, <3>1
  <2>3. IsFiniteSet(N)
    BY <1>2, FS_Subset
  <2> HIDE DEF Q
  <2>4. SUBSET N \subseteq Q
    BY <2>1, <2>2, <2>3, SubsetInduction
  <2>5. QED
    BY <2>4 DEF Q
<1>10. g[D] = g[N]
  <2> DEFINE Q == {s \in SUBSET D : g[s] = g[s \cap N]}
  <2>1. {} \in Q
    <3>1. {} \cap N = {}
      OBVIOUS
    <3>2. QED
      BY <3>1
  <2>2. ASSUME NEW s \in SUBSET D, s # {}, \A x \in s : s \ {x} \in Q
        PROVE  s \in Q
    <3>1. PICK x \in s : TRUE
      BY <2>2
    <3>2. g[s] = w[x] + g[s \ {x}] /\ g[s \ {x}] = g[(s \ {x}) \cap N] /\ g[s \ {x}] \in Int
      BY <1>5, <2>2
    <3>3. CASE x \in N
      <4>1. (s \cap N) \ {x} = (s \ {x}) \cap N /\ x \in s \cap N /\ s \cap N \in SUBSET D
        BY <3>3
      <4>2. g[s \cap N] = w[x] + g[(s \cap N) \ {x}]
        BY <1>5, <4>1
      <4>3. g[s] = g[s \cap N]
        BY <3>2, <4>1, <4>2
      <4>4. QED
        BY <4>3
    <3>4. CASE x \notin N
      <4>1. s \cap N = (s \ {x}) \cap N /\ x \in D
        BY <3>4
      <4>2. w[x] = 0
        BY <1>3, <3>4, <4>1
      <4>3. g[s] = g[s \ {x}]
        BY <3>2, <4>2
      <4>4. QED
        BY <3>2, <4>1, <4>3
    <3>5. QED
      BY <3>3, <3>4
  <2> HIDE DEF Q
  <2>3. D \in Q
    BY <1>2, <2>1, <2>2, SubsetInduction
  <2>4. D \cap N = N
    BY <1>2
  <2>5. QED
    BY <2>3, <2>4 DEF Q
<1>11. QED
  BY <1>1, <1>4, <1>9, <1>10

LEMMA DistinctSize ==
    ASSUME NEW items \in Seq(Item), NEW out, Listed(items, out, DOMAIN items)
    PROVE  /\ Len(out) = Cardinality(Range(out))
           /\ \A i, j \in DOMAIN out : i < j =>
                 Min({k \in DOMAIN items : items[k].phrase = out[i]})
                   < Min({k \in DOMAIN items : items[k].phrase = out[j]})
<1> DEFINE D == DOMAIN items
           At(p) == {k \in D : items[k].phrase = p}
<1>1. /\ out \in Lists(items) /\ Range(out) = {items[k].phrase : k \in D} \ {""}
      /\ \A i, j \in DOMAIN out :
            i < j => \E k \in D : /\ items[k].phrase = out[i]
                                  /\ \A l \in D : items[l].phrase = out[j] => k < l
  BY DEF Listed
<1>2. Len(out) \in Nat /\ DOMAIN out = 1..Len(out)
  <2>1. out \in Seq(Words(items))
    BY <1>1 DEF Lists
  <2>2. QED
    BY <2>1
<1>3. D \subseteq Nat
  BY ItemFacts
<1> HIDE DEF D
<1>4. \A i \in DOMAIN out : \E k \in D : items[k].phrase = out[i]
  <2> TAKE i \in DOMAIN out
  <2>1. out[i] \in Range(out)
    BY DEF Range
  <2>2. out[i] \in {items[k].phrase : k \in D}
    BY <1>1, <2>1
  <2>3. QED
    BY <2>2
<1>5. ASSUME NEW i \in DOMAIN out, NEW j \in DOMAIN out, i < j
      PROVE  out[i] # out[j] /\ Min(At(out[i])) < Min(At(out[j]))
  <2>1. PICK k \in D : items[k].phrase = out[i] /\ \A l \in D : items[l].phrase = out[j] => k < l
    BY <1>1, <1>5
  <2>2. PICK n \in D : items[n].phrase = out[j]
    BY <1>4
  <2>3. k < n /\ k \in Nat /\ n \in Nat
    BY <1>3, <2>1, <2>2
  <2>4. out[i] # out[j]
    <3>1. ASSUME out[i] = out[j] PROVE FALSE
      <4>1. k < k
        BY <2>1, <3>1
      <4>2. QED
        BY <2>3, <4>1
    <3>2. QED
      BY <3>1
  <2>5. At(out[i]) \in SUBSET Nat /\ At(out[j]) \in SUBSET Nat /\ k \in At(out[i]) /\ n \in At(out[j])
    BY <1>3, <2>1, <2>2
  <2>6. Min(At(out[j])) \in At(out[j]) /\ \A y \in At(out[i]) : Min(At(out[i])) <= y
        /\ Min(At(out[i])) \in At(out[i])
    <3> HIDE DEF At
    <3>1. QED
      BY <2>5, LeastNat
  <2>7. k < Min(At(out[j])) /\ Min(At(out[i])) <= k
    BY <2>1, <2>5, <2>6
  <2>8. Min(At(out[i])) \in Nat /\ Min(At(out[j])) \in Nat
    BY <2>5, <2>6
  <2> HIDE DEF At
  <2>9. QED
    BY <2>3, <2>4, <2>7, <2>8
<1>6. Len(out) = Cardinality(Range(out))
  <2>1. \A i, j \in 1..Len(out) : out[i] = out[j] => i = j
    <3> TAKE i, j \in 1..Len(out)
    <3>1. i < j \/ j < i \/ i = j
      OBVIOUS
    <3>2. QED
      BY <1>2, <1>5, <3>1
  <2> DEFINE f == [i \in 1..Len(out) |-> out[i]]
  <2>2. f \in Bijection(1..Len(out), Range(out))
    BY <1>2, <2>1 DEF Bijection, Injection, Surjection, IsInjective, Range
  <2>3. ExistsBijection(1..Len(out), Range(out))
    BY <2>2 DEF ExistsBijection
  <2>4. IsFiniteSet(1..Len(out)) /\ Cardinality(1..Len(out)) = Len(out)
    <3> DEFINE n == Len(out)
    <3>1. n \in Nat
      BY <1>2
    <3> HIDE DEF n
    <3>2. IsFiniteSet(1..n) /\ Cardinality(1..n) = n
      BY <3>1, FS_Interval
    <3>3. QED
      BY <3>2 DEF n
  <2>5. QED
    BY <2>3, <2>4, FS_Bijection
<1>7. QED
  BY <1>5, <1>6 DEF D

LEMMA AggregatesExactly ==
    ASSUME SearchInv
    PROVE  AggregateExact
<1> SUFFICES ASSUME search.answer # None PROVE AggregateExact
  BY DEF AggregateExact
<1> DEFINE items == search.items
           mode  == search.q.mode
           words == {items[k].phrase : k \in DOMAIN items} \ {""}
           at(p) == Min({k \in DOMAIN items : items[k].phrase = p})
           out   == Distinct(items)
<1>1. /\ search.page # {} /\ items \in Extractions /\ mode \in {"count", "sum", "list"}
      /\ search.answer = PythonAggregate(mode, items)
  BY DEF SearchInv, SearchShape
<1>2. items \in Seq(Item)
  BY <1>1, ReadsAssumption DEF Item
<1>3. Listed(items, out, DOMAIN items)
  <2> HIDE DEF items
  <2>1. QED
    BY <1>2, DistinctLists
<1>4. /\ Range(out) = words /\ Len(out) = Cardinality(words)
      /\ \A i, j \in DOMAIN out : i < j => at(out[i]) < at(out[j])
  <2> HIDE DEF items, out
  <2>1. Range(out) = words
    BY <1>3 DEF Listed
  <2>2. QED
    BY <1>2, <1>3, <2>1, DistinctSize
<1>5. words = {it.phrase : it \in Range(items)} \ {""}
  BY DEF Range
<1>6. Total(items) = MapThenSumSet(LAMBDA k : items[k].value, {k \in DOMAIN items : items[k].value # None})
  <2> HIDE DEF items
  <2>1. QED
    BY <1>2, TotalIsSum DEF Numbers
<1>7. /\ mode = "count" => search.answer = Len(out)
      /\ mode = "sum" => search.answer = Total(items)
      /\ mode = "list" => search.answer = out
  BY <1>1 DEF PythonAggregate
<1> HIDE DEF out
<1>8. mode = "count" => search.answer = Cardinality(words)
  BY <1>4, <1>7
<1>9. mode = "list" => /\ Range(search.answer) = words /\ Len(search.answer) = Cardinality(words)
                       /\ \A i, j \in DOMAIN search.answer :
                             i < j => at(search.answer[i]) < at(search.answer[j])
  <2> HIDE DEF at, words, mode, items
  <2>1. QED
    BY <1>4, <1>7
<1> HIDE DEF words
<1>10. QED
  BY <1>1, <1>5, <1>6, <1>7, <1>8, <1>9 DEF AggregateExact

\* The invariant of a search: whatever is written between its statements,
\* it knows what was there and what stayed.
THEOREM SearchInvariant == GatewaySpec => []SearchInv
<1>1. GatewayInit => SearchInv
  BY SearchInit DEF GatewayInit
<1>2. SearchInv /\ [GatewayNext]_allVars => SearchInv'
  BY SearchStep
<1>3. QED
  BY <1>1, <1>2, PTL DEF GatewaySpec, allVars

\* GatewayInv: every variable has its type, the agents' counters are exact,
\* and the audit entries are linked as their requests ran.
THEOREM GatewayInvariant == GatewaySpec => []GatewayInv
<1>1. SearchInv /\ AccessInv /\ AuditInv => GatewayInv
  BY DEF SearchInv, RowsKnown, SearchShape, GatewayInv, ReadsInv
<1>2. QED
  BY <1>1, SearchInvariant, GatekeeperInvariant, AuditInvariant, PTL

\* AnswersExact: what a search and an aggregation answer is exact.
THEOREM AnswersAreExact == GatewaySpec => []AnswersExact
<1>1. SearchInv => AnswersExact
  BY AggregatesExactly DEF SearchInv, AnswersExact
<1>2. QED
  BY <1>1, SearchInvariant, PTL
=============================================================================
