------------------------------ MODULE AuditTrail ------------------------------
(***************************************************************************)
(* The audit log of one user (backend/services/audit_service.py, called by *)
(* create_memory and delete_memory).  An entry is stamped with the clock,  *)
(* chained to the newest entry its transaction can see, flushed, and       *)
(* becomes visible when the request commits; entries of requests that run  *)
(* at the same time are chained to the same predecessor.                   *)
(*                                                                         *)
(* SHA-256 is injective here: a hash is the sequence of payloads that were *)
(* hashed into it, and a payload has three columns of the row; the others  *)
(* (outcome, details, namespace, agent) are its detail.  Each request logs *)
(* one entry, about its own memory.                                        *)
(***************************************************************************)
EXTENDS AgentAccess, Sequences

CONSTANTS
    Writers,     \* requests that log an entry
    Actions,     \* audited actions
    Details,     \* what the columns that are not hashed say
    VerifyLimit  \* entries a verification reads

ASSUME AuditAssumption == IsFiniteSet(Writers) /\ VerifyLimit \in Nat \ {0}

VARIABLES
    log,    \* the committed AuditLog rows
    draft,  \* the entry of each request
    rivals  \* history: the requests each one ran beside, or shares a time with

auditVars == <<log, draft, rivals>>

Genesis == <<>>
Payload == [action : Actions, resource : Writers, at : 0..MaxNow]
Drafts  == [pc : {"idle", "stamped", "flushed", "done"}, entry : Payload \cup {None},
            detail : Details \cup {None}, hash : Seq(Payload)]
NoDraft == [pc |-> "idle", entry |-> None, detail |-> None, hash |-> Genesis]

AuditInit == log = {} /\ draft = [w \in Writers |-> NoDraft] /\ rivals = [w \in Writers |-> {}]

-----------------------------------------------------------------------------
(* log_audit_event                                                         *)

InFlight == {w \in Writers : draft[w].pc \in {"stamped", "flushed"}}

\* The time of the entry is taken before the predecessor is read.
LogStart(w, action, detail) ==
    /\ load = "audit" /\ draft[w].pc = "idle"
    /\ draft' = [draft EXCEPT ![w] = [NoDraft EXCEPT !.pc = "stamped",
                    !.entry = [action |-> action, resource |-> w, at |-> now],
                    !.detail = detail]]
    /\ rivals' = [rivals EXCEPT ![w] = InFlight \cup
                    {l.entry.resource : l \in {l \in log : l.entry.at = now}}]
    /\ UNCHANGED <<vars, log>>

MutChained(prev, entry) == <<entry>>

\* compute_hash_chain.
Chained(prev, entry) == Append(prev, entry)

\* The newest visible entries; of those with one time, any may come first.
Newest == {l \in log : \A k \in log : k.entry.at <= l.entry.at}

LogFlush(w) ==
    /\ draft[w].pc = "stamped"
    /\ \E prev \in IF log = {} THEN {Genesis} ELSE {l.hash : l \in Newest} :
          draft' = [draft EXCEPT ![w].pc = "flushed", ![w].hash = Chained(prev, draft[w].entry)]
    /\ UNCHANGED <<vars, log, rivals>>

LogCommit(w) ==
    /\ draft[w].pc = "flushed"
    /\ log' = log \cup {[entry |-> draft[w].entry, detail |-> draft[w].detail,
                          hash |-> draft[w].hash]}
    /\ draft' = [draft EXCEPT ![w] = [NoDraft EXCEPT !.pc = "done"]]
    /\ UNCHANGED <<vars, rivals>>

\* The request fails after the entry, or the entry itself fails, which is
\* caught, and the request goes on without one.
LogLost(w) ==
    /\ w \in InFlight
    /\ draft' = [draft EXCEPT ![w] = [NoDraft EXCEPT !.pc = "done"]]
    /\ UNCHANGED <<vars, log, rivals>>

AuditNext ==
    \E w \in Writers :
        \/ \E action \in Actions, detail \in Details : LogStart(w, action, detail)
        \/ LogFlush(w) \/ LogCommit(w) \/ LogLost(w)

-----------------------------------------------------------------------------
(* verify_audit_chain                                                      *)

\* The rows by created_at, which leaves rows of one time in any order.
InTime(S) ==
    {o \in [1..Cardinality(S) -> S] :
        \A i, j \in DOMAIN o : i < j => o[i] # o[j] /\ o[i].entry.at <= o[j].entry.at}

\* Positions among the oldest rows, at most limit of them, whose hash does
\* not follow from the row before.
Errors(rows, limit) ==
    {i \in DOMAIN rows :
        /\ i <= limit
        /\ rows[i].hash # Chained(IF i = 1 THEN Genesis ELSE rows[i - 1].hash, rows[i].entry)}

-----------------------------------------------------------------------------
(* Properties                                                              *)

AuditTypeOK ==
    /\ \A l \in log : /\ l.entry \in Payload /\ l.detail \in Details
                       /\ Len(l.hash) <= Cardinality(Writers)
    /\ draft \in [Writers -> Drafts] /\ rivals \in [Writers -> SUBSET Writers]

\* A hash chains entries of the requests S, each once.
Once(h, S) ==
    /\ \A i \in DOMAIN h : h[i].resource \in S
    /\ \A i, j \in DOMAIN h : h[i].resource = h[j].resource => i = j

\* Each request has one entry, stamped no later than now; its hash chains
\* entries of logged requests, each once, and its own.
LogKnown ==
    LET logged == {l.entry.resource : l \in log}
    IN /\ IsFiniteSet(log)
       /\ \A l \in log : /\ l.hash \in Seq(Payload) /\ l.entry.at <= now
                         /\ draft[l.entry.resource].pc = "done" /\ Once(l.hash, logged)
       /\ \A l, k \in log : l.entry.resource = k.entry.resource => l = k
       /\ \A w \in InFlight : /\ draft[w].entry \in Payload /\ draft[w].entry.resource = w
                              /\ draft[w].entry.at <= now /\ draft[w].detail \in Details
                              /\ Once(draft[w].hash, logged \cup {w})

\* One of two requests ran beside the other, or shares a time with it.
Beside(v, w) == v \in rivals[w] \/ w \in rivals[v]

\* Requests that did not run beside each other have times of their own, in
\* the order of their commits.
LogApart ==
    /\ \A v, w \in InFlight : v # w => Beside(v, w)
    /\ \A l \in log, w \in InFlight :
          Beside(l.entry.resource, w) \/ l.entry.at < draft[w].entry.at
    /\ \A l, k \in log :
          l # k => Beside(l.entry.resource, k.entry.resource) \/ l.entry.at # k.entry.at

\* A row is chained to a newest one of S.
ChainedTo(row, S) ==
    IF S = {} THEN row.hash = Chained(Genesis, row.entry)
    ELSE \E p \in S : /\ \A k \in S : k.entry.at <= p.entry.at
                      /\ row.hash = Chained(p.hash, row.entry)

\* The entry of a request that ran beside no other is chained to the newest
\* before it.
LogChained ==
    /\ \A l \in log :
          (\A k \in log \ {l} : ~Beside(k.entry.resource, l.entry.resource)) =>
             ChainedTo(l, {k \in log : k.entry.at < l.entry.at})
    /\ \A w \in InFlight :
          draft[w].pc = "flushed" /\ (\A k \in log : ~Beside(k.entry.resource, w)) =>
             ChainedTo(draft[w], log)

AuditInv == AuditTypeOK /\ LogKnown /\ LogApart /\ LogChained

\* "Any modification to a historical entry would break the chain", for the
\* columns the hash covers: in a log that nobody touched, a row a verification
\* reports, or the one before it, belongs to a request that ran beside another
\* one that logged, whatever requests were lost between them; a row it passes
\* is reported once its action or resource is altered, and so is the place of
\* one that is taken out, if the row after it passed too.  (An altered outcome,
\* namespace, agent or details is not: Errors looks at no detail.)
ChainHonest ==
    LET InCompany(row) == \E k \in log \ {row} : Beside(row.entry.resource, k.entry.resource)
        Without(o, i) == [k \in 1..Len(o) - 1 |-> IF k < i THEN o[k] ELSE o[k + 1]]
    IN \A o \in InTime(log) :
          LET broken == Errors(o, Len(o))
          IN /\ \A i \in broken : InCompany(o[i]) \/ (i > 1 /\ InCompany(o[i - 1]))
             /\ \A i \in DOMAIN o \ broken :
                   i <= VerifyLimit =>
                      /\ \A action \in Actions, w \in Writers :
                            LET e == [o[i].entry EXCEPT !.action = action, !.resource = w]
                            IN  e # o[i].entry => i \in Errors([o EXCEPT ![i].entry = e], VerifyLimit)
                      /\ i < Len(o) /\ i + 1 \notin broken => i \in Errors(Without(o, i), VerifyLimit)
=============================================================================
