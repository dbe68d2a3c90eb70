----------------------------- MODULE MemoryVault -----------------------------
(***************************************************************************)
(* The memory table of one user: create with two-layer deduplication,      *)
(* get, update and soft delete (backend/services/memory_service.py), the   *)
(* enrichment that runs on demand, in batches and in the background        *)
(* (enrichment_service.py) and the L2 stamp of the compression pipeline    *)
(* (compression_pipeline.py).                                              *)
(*                                                                         *)
(* Every request and every background task runs in a database transaction  *)
(* of its own (get_db, _get_session_factory), at PostgreSQL's READ         *)
(* COMMITTED level.  A handler is cut into one action per statement that   *)
(* other transactions can be interleaved with:                             *)
(*   - a SELECT reads row, the committed state;                            *)
(*   - a flush takes the row's lock and leaves the new version in dirty,   *)
(*     which no other transaction reads; a row locked by another           *)
(*     transaction makes the statement wait (the action is disabled);      *)
(*   - the commit at the end of the request publishes dirty.               *)
(* The ORM writes only the columns whose value differs from the one it     *)
(* loaded, so a write is row[m] with those columns replaced by values      *)
(* computed from the earlier read.                                         *)
(***************************************************************************)
EXTENDS Integers, FiniteSets

CONSTANTS
    Reqs,        \* request handlers that can be in flight at once
    MemIds,      \* memory ids the uuid generator can hand out
    Spaces,      \* the user's namespaces
    Contents,    \* memory contents; equal contents are equal hashes
    Similar,     \* pairs of contents above the semantic dedup threshold
    Related,     \* pairs of namespaces above AUTO_REDIRECT_THRESHOLD
    Ops,         \* operations this instance issues
    Kinds,       \* background tasks this instance runs for a new memory
    Faults,      \* whether requests and tasks fail and the process crashes
    MaxNow,      \* bound: the clock stops here
    MaxVersion,  \* bound: a row at this version is not updated again
    MaxAccess,   \* bound: access counts saturate here
    None

OpNames == {"create", "get", "update", "delete", "enrich", "batch"}
Tasks   == Kinds \X MemIds
Procs   == Reqs \cup Tasks

ASSUME VaultAssumption ==
    /\ Similar \subseteq Contents \X Contents
    /\ Related \subseteq Spaces \X Spaces
    /\ Ops \subseteq OpNames
    /\ Kinds \subseteq {"enrich", "l2"}
    /\ Faults \in BOOLEAN
    /\ MaxNow \in Nat /\ MaxVersion \in Nat /\ MaxAccess \in Nat
    /\ None \notin Procs \cup MemIds \cup Spaces \cup Contents
    /\ None \notin Spaces \X Contents
    /\ Reqs \cap Tasks = {}

VARIABLES
    row,    \* committed version of each memory
    dirty,  \* version written by the transaction that holds the row's lock
    lock,   \* transaction that holds each row's lock, or None
    tx,     \* state of each request and background task
    now     \* the clock

vars == <<row, dirty, lock, tx, now>>

Never    == -1
MetaKeys == {"user", "enrichment", "l2", "error"}
Statuses == {"pending", "completed", "failed"}

(* A memory row.  vec and qual are the contents the stored embedding and   *)
(* quality score were computed from; version 0 is an id with no row.       *)
Rows ==
    [ns : Spaces \cup {None}, content : Contents \cup {None},
     vec : Contents \cup {None}, qual : Contents \cup {None},
     status : Statuses, version : Nat, expires : Nat \cup {Never},
     access : Nat, meta : SUBSET MetaKeys, live : BOOLEAN]

NoRow ==
    [ns |-> None, content |-> None, vec |-> None, qual |-> None,
     status |-> "pending", version |-> 0, expires |-> Never,
     access |-> 0, meta |-> {}, live |-> FALSE]

Phases == {"idle", "lookup", "semantic", "insert", "relookup", "bump",
           "collide", "write", "start", "pick", "enrich", "fail", "commit"}
Answers == {"none", "inserted", "exact", "semantic", "ok"}

Txs ==
    [pc : Phases, op : OpNames \cup {"none"}, ns : Spaces \cup {None},
     c : Contents \cup {None}, m : MemIds \cup {None}, ttl : Nat,
     meta : BOOLEAN, skipped : BOOLEAN, snap : [MemIds -> Rows],
     todo : SUBSET MemIds, kind : Answers]

NoSnap == [m \in MemIds |-> NoRow]

Idle ==
    [pc |-> "idle", op |-> "none", ns |-> None, c |-> None, m |-> None,
     ttl |-> 0, meta |-> FALSE, skipped |-> FALSE, snap |-> NoSnap,
     todo |-> {}, kind |-> "none"]

TypeOK ==
    /\ row \in [MemIds -> Rows]
    /\ dirty \in [MemIds -> Rows]
    /\ lock \in [MemIds -> Procs \cup {None}]
    /\ tx \in [Procs -> Txs]
    /\ now \in Nat

Init ==
    /\ row = [m \in MemIds |-> NoRow]
    /\ dirty = [m \in MemIds |-> NoRow]
    /\ lock = [m \in MemIds |-> None]
    /\ tx = [p \in Procs |-> Idle]
    /\ now = 0

-----------------------------------------------------------------------------
(* Reading and writing rows.                                               *)

Expired(r) == r.expires # Never /\ now > r.expires

\* _get_active_memory: neither soft-deleted nor expired.
Active(m) == row[m].live /\ ~Expired(row[m])

MutFindByHash(ns, c) ==
    {m \in MemIds : \E r \in {row[m], dirty[m]} : r.live /\ r.ns = ns /\ r.content = c}

\* _find_by_hash: soft-deleted rows are skipped, expired ones are not.
FindByHash(ns, c) == {m \in MemIds : row[m].live /\ row[m].ns = ns /\ row[m].content = c}

\* _find_semantic_duplicate compares stored embeddings, not stored contents.
FindSemantic(ns, c) ==
    {m \in MemIds : /\ row[m].live /\ row[m].ns = ns
                    /\ row[m].vec # None /\ <<c, row[m].vec>> \in Similar}

\* The partial unique index uq_memories_user_ns_hash: same namespace and
\* hash among the rows that are not soft-deleted.
SameKey(r1, r2) == r1.live /\ r2.live /\ r1.ns = r2.ns /\ r1.content = r2.content

MutClashes(m, r) == {}

\* The rows whose committed or uncommitted version collides with r at m.
Clashes(m, r) ==
    {x \in MemIds \ {m} : \/ SameKey(row[x], r)
                          \/ lock[x] # None /\ SameKey(dirty[x], r)}

\* A statement that meets another transaction's uncommitted row waits for it.
MustWait(m, r) == lock[m] # None \/ \E x \in Clashes(m, r) : lock[x] # None

\* p writes r at m: it gets the lock, and the index has no objection.
Write(p, m, r) ==
    /\ ~MustWait(m, r)
    /\ Clashes(m, r) = {}
    /\ dirty' = [dirty EXCEPT ![m] = r]
    /\ lock' = [lock EXCEPT ![m] = p]
    /\ UNCHANGED <<row, now>>

\* p writes r at m and goes on with the local state t.
Flush(p, m, r, t) == Write(p, m, r) /\ tx' = [tx EXCEPT ![p] = t]

\* The row that p's flush would write clashes with a committed one.
IntegrityError(m, r) == ~MustWait(m, r) /\ Clashes(m, r) # {}

\* p goes on without touching the database.
Goto(p, t) == tx' = [tx EXCEPT ![p] = t] /\ UNCHANGED <<row, dirty, lock, now>>

MutRelease(p) ==
    /\ tx' = [tx EXCEPT ![p] = Idle]
    /\ UNCHANGED <<lock, dirty, now>>

\* p's transaction ends: its locks are given back, its versions are gone.
Release(p) ==
    /\ lock' = [m \in MemIds |-> IF lock[m] = p THEN None ELSE lock[m]]
    /\ dirty' = [m \in MemIds |-> IF lock[m] = p THEN NoRow ELSE dirty[m]]
    /\ tx' = [tx EXCEPT ![p] = Idle]
    /\ UNCHANGED now

\* get_db: an exception rolls the transaction back.
Rollback(p) == Release(p) /\ UNCHANGED row

\* get_db: the handler returned, its transaction commits, the client is
\* answered; a background task commits its own session.
Commit(p) ==
    /\ tx[p].pc = "commit"
    /\ row' = [m \in MemIds |-> IF lock[m] = p THEN dirty[m] ELSE row[m]]
    /\ Release(p)

\* The gatekeeper denies the agent, a value is invalid, or the commit fails.
RequestFails(r) == Faults /\ tx[r].pc # "idle" /\ Rollback(r)

\* A new request starts from the local state t.
Accept(r, op, t) ==
    /\ tx[r].pc = "idle" /\ op \in Ops
    /\ tx' = [tx EXCEPT ![r] = t]
    /\ UNCHANGED <<row, dirty, lock, now>>

Seen(m) == [NoSnap EXCEPT ![m] = row[m]]

-----------------------------------------------------------------------------
(* create_memory                                                           *)

\* resolve_namespace: a namespace with live memories is reused as it is,
\* otherwise a near one can take the write.  The candidates are also those of
\* policies and chats, so any namespace may exist without a memory.
Resolve(ns) ==
    IF \E m \in MemIds : row[m].live /\ row[m].ns = ns THEN {ns}
    ELSE {ns} \cup {n \in Spaces : <<ns, n>> \in Related}

Fresh(m) ==
    /\ row[m].version = 0 /\ lock[m] = None
    /\ \A k \in Kinds : tx[<<k, m>>].pc = "idle"

\* Bound: a create is only accepted while an id is left for it.
IdLeft ==
    Cardinality({q \in Reqs : tx[q].pc \in {"lookup", "semantic", "insert"}})
        < Cardinality({m \in MemIds : Fresh(m)})

CreateStart(r) ==
    /\ IdLeft
    /\ \E ns \in Spaces, c \in Contents, ttl \in 0..MaxNow, allow_duplicate \in BOOLEAN :
         \E n \in (IF allow_duplicate THEN {ns} ELSE Resolve(ns)) :
             Accept(r, "create", [Idle EXCEPT !.pc = "lookup", !.op = "create",
                                              !.ns = n, !.c = c, !.ttl = ttl])

\* Layer 1 of the dedup gate: exact hash.
CreateLookup(r) ==
    /\ tx[r].pc = "lookup"
    /\ LET hits == FindByHash(tx[r].ns, tx[r].c) IN
       \/ \E m \in hits :
             Goto(r, [tx[r] EXCEPT !.pc = "bump", !.m = m, !.kind = "exact", !.snap = Seen(m)])
       \/ hits = {} /\ Goto(r, [tx[r] EXCEPT !.pc = "semantic"])

\* Layer 2: embedding similarity, best effort.  The encoder may fail, and the
\* candidates are limited, so a similar memory can be missed.
CreateSemantic(r) ==
    /\ tx[r].pc = "semantic"
    /\ \/ \E m \in FindSemantic(tx[r].ns, tx[r].c) :
             Goto(r, [tx[r] EXCEPT !.pc = "bump", !.m = m, !.kind = "semantic", !.snap = Seen(m)])
       \/ \E failed \in BOOLEAN :
             Goto(r, [tx[r] EXCEPT !.pc = "insert", !.skipped = failed])

NewRow(t) ==
    [NoRow EXCEPT !.ns = t.ns, !.content = t.c, !.version = 1, !.live = TRUE,
                  !.vec = IF t.skipped THEN None ELSE t.c,
                  !.meta = {"user"},
                  !.expires = IF t.ttl = 0 THEN Never ELSE now + t.ttl]

\* INSERT and flush.  On success both background tasks are created at once,
\* before the request's transaction commits.  A clash rolls back and looks
\* the winner up again.
CreateInsert(r) ==
    /\ tx[r].pc = "insert"
    /\ \E m \in MemIds :
        /\ Fresh(m)
        /\ \/ /\ Write(r, m, NewRow(tx[r]))
              /\ tx' = [p \in Procs |->
                          IF p = r THEN [tx[r] EXCEPT !.pc = "commit", !.m = m, !.kind = "inserted"]
                          ELSE IF p \in Kinds \X {m} THEN [Idle EXCEPT !.pc = "start", !.m = m]
                          ELSE tx[p]]
           \/ /\ IntegrityError(m, NewRow(tx[r]))
              /\ Goto(r, [tx[r] EXCEPT !.pc = "relookup"])

\* After the rollback: the winner is returned, or the error is re-raised.
CreateRelookup(r) ==
    /\ tx[r].pc = "relookup"
    /\ LET hits == FindByHash(tx[r].ns, tx[r].c) IN
       \/ \E m \in hits :
             Goto(r, [tx[r] EXCEPT !.pc = "bump", !.m = m, !.kind = "exact", !.snap = Seen(m)])
       \/ hits = {} /\ Rollback(r)

\* The smaller of the next access count and the bound.
NextAccess(n) == IF n < MaxAccess THEN n + 1 ELSE n

\* _handle_dedup_match and get_memory: access_count from the value read.
BumpedRow(m, old) == [row[m] EXCEPT !.access = NextAccess(old.access)]

Bump(r) ==
    /\ tx[r].pc = "bump"
    /\ Flush(r, tx[r].m, BumpedRow(tx[r].m, tx[r].snap[tx[r].m]), [tx[r] EXCEPT !.pc = "commit"])

-----------------------------------------------------------------------------
(* get_memory, update_memory, delete_memory                                *)

GetStart(r) ==
    \E m \in MemIds :
        /\ Active(m)
        /\ Accept(r, "get", [Idle EXCEPT !.pc = "bump", !.op = "get", !.m = m,
                                         !.kind = "ok", !.snap = Seen(m)])

\* The row is read first; content, metadata and TTL are optional.
UpdateStart(r) ==
    \E m \in MemIds, c \in Contents \cup {None}, meta \in BOOLEAN, ttl \in 0..MaxNow :
        /\ Active(m) /\ row[m].version < MaxVersion
        /\ Accept(r, "update", [Idle EXCEPT !.pc = "collide", !.op = "update", !.m = m, !.c = c,
                                            !.meta = meta, !.ttl = ttl, !.kind = "ok",
                                            !.snap = Seen(m)])

\* A different active memory with the new content refuses the update.
UpdateCollide(r) ==
    /\ tx[r].pc = "collide"
    /\ LET m == tx[r].m
           changes == tx[r].c # None /\ tx[r].c # tx[r].snap[m].content
           taken == FindByHash(tx[r].snap[m].ns, tx[r].c) \ {m}
       IN  IF changes /\ taken # {}
           THEN Rollback(r)
           ELSE Goto(r, [tx[r] EXCEPT !.pc = "write"])

MutUpdatedRow(m, t, old) ==
    [old EXCEPT !.content = IF t.c = None THEN @ ELSE t.c, !.version = @ + 1]

\* Columns equal to what the handler loaded are not in the UPDATE: an
\* unchanged content is not written, nor is a status that was pending.
UpdatedRow(m, t, old) ==
    LET new == IF t.c = None THEN old.content ELSE t.c IN
    [row[m] EXCEPT !.content = IF new = old.content THEN @ ELSE new,
                   !.status  = IF t.c = None \/ old.status = "pending" THEN @ ELSE "pending",
                   !.meta    = IF t.meta THEN {"user"} ELSE @,
                   !.expires = IF t.ttl = 0 THEN @ ELSE now + t.ttl,
                   !.version = old.version + 1]

UpdateWrite(r) ==
    /\ tx[r].pc = "write" /\ tx[r].op = "update"
    /\ LET m == tx[r].m
           new == UpdatedRow(m, tx[r], tx[r].snap[m])
       IN  \/ Flush(r, m, new, [tx[r] EXCEPT !.pc = "commit"])
           \/ IntegrityError(m, new) /\ Rollback(r)

DeleteStart(r) ==
    \E m \in MemIds :
        /\ Active(m)
        /\ Accept(r, "delete", [Idle EXCEPT !.pc = "write", !.op = "delete", !.m = m,
                                            !.kind = "ok", !.snap = Seen(m)])

DeletedRow(m) == [row[m] EXCEPT !.live = FALSE]

DeleteWrite(r) ==
    /\ tx[r].pc = "write" /\ tx[r].op = "delete"
    /\ Flush(r, tx[r].m, DeletedRow(tx[r].m), [tx[r] EXCEPT !.pc = "commit"])

-----------------------------------------------------------------------------
(* Enrichment: one memory on demand, the pending ones in a batch, a new    *)
(* memory in the background.  The row written is computed from the         *)
(* content that was read; metadata is merged key by key.                   *)

MutEnrichedRow(m, old, embeds) ==
    [row[m] EXCEPT !.status = "completed", !.qual = old.content,
                   !.meta = old.meta \cup {"enrichment"}]

MutEnrichedCopy(m, old, embeds) ==
    [old EXCEPT !.status = "completed", !.qual = old.content, !.meta = @ \cup {"enrichment"}]

EnrichedRow(m, old, embeds) ==
    [row[m] EXCEPT !.status = "completed", !.qual = old.content,
                   !.vec = IF old.vec = None /\ embeds THEN old.content ELSE @,
                   !.meta = @ \cup {"enrichment"}]

EnrichStart(r) ==
    \E m \in MemIds :
        /\ row[m].live
        /\ Accept(r, "enrich", [Idle EXCEPT !.pc = "enrich", !.op = "enrich", !.m = m,
                                            !.kind = "ok", !.snap = Seen(m)])

NeedsEnrichment(m) ==
    /\ row[m].live
    /\ row[m].status = "pending" \/ (row[m].status = "completed" /\ row[m].vec = None)

\* The session keeps the rows of the batch query; they are not read again.
BatchStart(r) ==
    LET todo == {m \in MemIds : NeedsEnrichment(m)} IN
    /\ todo # {}
    /\ Accept(r, "batch", [Idle EXCEPT !.pc = "pick", !.op = "batch", !.kind = "ok", !.todo = todo,
                                       !.snap = [m \in MemIds |-> IF m \in todo THEN row[m] ELSE NoRow]])

\* enrich_memory selects the memory again and raises if it is gone; the
\* loop then marks it failed and goes on.
BatchPick(r) ==
    /\ tx[r].pc = "pick"
    /\ \/ \E m \in tx[r].todo :
             Goto(r, [tx[r] EXCEPT !.pc = IF row[m].live THEN "enrich" ELSE "fail",
                                   !.m = m, !.todo = @ \ {m}])
       \/ tx[r].todo = {} /\ Goto(r, [tx[r] EXCEPT !.pc = "commit"])

AfterEnrich(r) == [tx[r] EXCEPT !.pc = IF tx[r].op = "batch" THEN "pick" ELSE "commit"]

EnrichWrite(r) ==
    /\ tx[r].pc = "enrich"
    /\ \E embeds \in BOOLEAN :
         Flush(r, tx[r].m, EnrichedRow(tx[r].m, tx[r].snap[tx[r].m], embeds), AfterEnrich(r))

\* The failure path writes the whole metadata column back.
FailedRow(m, old) == [row[m] EXCEPT !.status = "failed", !.meta = old.meta \cup {"error"}]

BatchFail(r) ==
    /\ tx[r].pc = "fail"
    /\ Flush(r, tx[r].m, FailedRow(tx[r].m, tx[r].snap[tx[r].m]), AfterEnrich(r))

\* The task reads the committed row; a memory that is not there yet, or not
\* any more, ends it (enrichment raises, the L2 stage returns).
TaskRead(p) ==
    /\ tx[p].pc = "start"
    /\ LET m == p[2]
           found == IF p[1] = "enrich" THEN row[m].live
                    ELSE row[m].version > 0 /\ "l2" \notin row[m].meta
       IN  IF found
           THEN Goto(p, [tx[p] EXCEPT !.pc = "write", !.m = m, !.snap = Seen(m)])
           ELSE Goto(p, Idle)

L2Row(m) == [row[m] EXCEPT !.meta = @ \cup {"l2"}]

TaskWrite(p) ==
    /\ tx[p].pc = "write"
    /\ LET m == p[2] IN
       \/ /\ p[1] = "enrich"
          /\ \E embeds \in BOOLEAN :
               Flush(p, m, EnrichedRow(m, tx[p].snap[m], embeds), [tx[p] EXCEPT !.pc = "commit"])
       \/ p[1] = "l2" /\ Flush(p, m, L2Row(m), [tx[p] EXCEPT !.pc = "commit"])

\* An error in the task is logged; nothing runs it again.
TaskFails(p) == Faults /\ tx[p].pc # "idle" /\ Rollback(p)

-----------------------------------------------------------------------------
(* The environment.                                                        *)

\* The row the next statement of p is about to lock.
Wants(p) == IF tx[p].pc \in {"bump", "write", "enrich", "fail"} THEN {tx[p].m} ELSE {}

WaitsFor(p, q) == \E m \in Wants(p) : lock[m] = q

\* PostgreSQL ends a cycle of transactions that wait for each other by
\* failing one of them.  Only batches hold a row while they wait for another.
DeadlockVictim(r) ==
    /\ \E cycle \in SUBSET Reqs :
         /\ r \in cycle
         /\ \A p \in cycle : /\ \E q \in cycle \ {p} : WaitsFor(p, q)
                            /\ \E q \in cycle \ {p} : WaitsFor(q, p)
    /\ Rollback(r)

\* The process stops: transactions roll back, background tasks are lost.
Crash ==
    /\ Faults
    /\ \E p \in Procs : tx[p].pc # "idle"
    /\ lock' = [m \in MemIds |-> None]
    /\ tx' = [p \in Procs |-> Idle]
    /\ dirty' = [m \in MemIds |-> NoRow]
    /\ UNCHANGED <<row, now>>

Tick == now < MaxNow /\ now' = now + 1 /\ UNCHANGED <<row, dirty, lock, tx>>

RequestStart(r) ==
    \/ CreateStart(r) \/ GetStart(r) \/ UpdateStart(r)
    \/ DeleteStart(r) \/ EnrichStart(r) \/ BatchStart(r)

RequestStep(r) ==
    \/ CreateLookup(r) \/ CreateSemantic(r) \/ CreateInsert(r) \/ CreateRelookup(r)
    \/ Bump(r) \/ UpdateCollide(r) \/ UpdateWrite(r) \/ DeleteWrite(r)
    \/ BatchPick(r) \/ EnrichWrite(r) \/ BatchFail(r) \/ Commit(r)

TaskStep(p) == TaskRead(p) \/ TaskWrite(p) \/ Commit(p)

Next ==
    \/ \E r \in Reqs : RequestStart(r) \/ RequestStep(r) \/ RequestFails(r) \/ DeadlockVictim(r)
    \/ \E p \in Tasks : TaskStep(p) \/ TaskFails(p)
    \/ Crash
    \/ Tick

Spec == Init /\ [][Next]_vars

(* A handler that was accepted is run to its end, and PostgreSQL grants a  *)
(* contended row lock to its waiters in turn, so a step that is enabled    *)
(* again and again is taken.  Nothing forces a client to send a request.   *)
Fairness ==
    /\ \A r \in Reqs : SF_vars(RequestStep(r)) /\ WF_vars(DeadlockVictim(r))
    /\ \A p \in Tasks : SF_vars(TaskStep(p))

FairSpec == Spec /\ Fairness

-----------------------------------------------------------------------------
(* What the vault promises.                                                *)

\* No two memories that are not soft-deleted have the same namespace and
\* content, whatever creates and updates raced (uq_memories_user_ns_hash and
\* the IntegrityError path of create_memory).
UniqueActiveHash ==
    \A m1, m2 \in MemIds : m1 # m2 => ~SameKey(row[m1], row[m2])

\* The same for the versions that open transactions have flushed and not
\* committed: this is what the index guards and what makes UniqueActiveHash
\* inductive.
IndexInv ==
    \A m1, m2 \in MemIds :
        m1 # m2 =>
            /\ ~SameKey(row[m1], row[m2])
            /\ lock[m2] # None => ~SameKey(row[m1], dirty[m2])
            /\ lock[m1] # None /\ lock[m2] # None => ~SameKey(dirty[m1], dirty[m2])

\* A soft-deleted memory never comes back: an update, an enrichment or a
\* dedup hit that read the row before the delete commits after it, and must
\* not restore it (delete_memory against every other writer).
DeletedStaysDeleted ==
    [][\A m \in MemIds : row[m].version > 0 /\ ~row[m].live => ~row'[m].live]_vars

\* The keys that enrichment and the L2 stage put in the metadata of a memory
\* are only ever removed by an update that replaces the metadata: neither
\* writer clobbers the other (the F14 comments of both writers).
MergeKeepsKeys ==
    [][\A m \in MemIds : \A k \in {"enrichment", "l2"} :
         k \in row[m].meta /\ row'[m].live /\ k \notin row'[m].meta
            => \E r \in Reqs : lock[m] = r /\ tx[r].op = "update" /\ tx[r].meta]_vars

\* A create is never answered with a memory whose own insert was rolled
\* back: dedup only finds committed rows (_find_by_hash and the relookup
\* after the IntegrityError).
AnswersNameCommittedRows ==
    [][\A r \in Reqs : Commit(r) /\ tx[r].op = "create" => row'[tx[r].m].version > 0]_vars

\* Every accepted request is answered: no lock outlives its transaction and
\* no two handlers wait for each other for ever (get_db, the batch loop).
EveryRequestAnswered ==
    \A r \in Reqs : tx[r].pc # "idle" ~> tx[r].pc = "idle"

(* The inductive invariant of the proofs.                                  *)

\* A handler that is about to write knows the memory it writes, and one that
\* is about to insert knows the namespace and the content.
PhaseOK(t) ==
    /\ t.pc \in {"bump", "collide", "write", "enrich", "fail"} => t.m \in MemIds
    /\ t.pc \in {"lookup", "semantic", "insert", "relookup"} => t.ns \in Spaces /\ t.c \in Contents

PhaseInv == \A p \in Procs : PhaseOK(tx[p])

\* A live row has its key, and an id without a row is not live.
LiveRow(r) == r.live => r.version > 0 /\ r.ns \in Spaces /\ r.content \in Contents

RowInv ==
    \A m \in MemIds : LiveRow(row[m]) /\ (lock[m] # None => LiveRow(dirty[m]))

\* No open transaction is about to restore a soft-deleted memory.
NoRevival ==
    \A m \in MemIds :
        lock[m] # None /\ row[m].version > 0 =>
            /\ dirty[m].version > 0
            /\ ~row[m].live => ~dirty[m].live

\* An id has no row until an insert commits.
BlankInv == \A m \in MemIds : row[m].version = 0 => row[m] = NoRow

\* What a handler in state t has read: the memory it is about to write was
\* committed, the one it marks failed is soft-deleted, a task works on its
\* own memory, and a create at its end holds the row it answers with.
ReadOK(p, t) ==
    /\ t.pc = "pick" => t.op = "batch"
    /\ t.pc \in {"bump", "collide", "write", "enrich", "fail"} => row[t.m].version > 0
    /\ t.pc = "fail" => ~row[t.m].live
    /\ \A m \in t.todo : row[m].version > 0
    /\ p \in Tasks => t.op = "none" /\ (t.pc = "write" => t.m = p[2])
    /\ t.pc = "commit" /\ t.op = "create" => t.m \in MemIds /\ lock[t.m] = p

ReadInv == \A p \in Procs : ReadOK(p, tx[p])

\* The phases in which a transaction holds locks.
Holding == {"pick", "enrich", "fail", "commit"}

\* d leaves the key of r alone, or inserts, drops or moves it.
KeepsKey(r, d) ==
    r.version > 0 /\ d.live = r.live /\ (r.live => d.ns = r.ns /\ d.content = r.content)
MovesKey(r, d) ==
    \/ r.version = 0 /\ d.live
    \/ r.live /\ ~d.live
    \/ r.live /\ d.live /\ d.ns = r.ns

\* d keeps the keys that enrichment and the L2 stage put in the metadata.
KeepsMeta(r, d) == d.live => r.meta \cap {"enrichment", "l2"} \subseteq d.meta

\* What the transaction t that holds m's lock is about to do to r, the row
\* of m: it moves the key of one memory, its own, and only when nothing but
\* the commit is left; only an update that replaces the metadata drops keys.
HeldOK(m, t, r, d) ==
    /\ d.version > 0 /\ t.pc \in Holding
    /\ KeepsKey(r, d) \/ (t.pc = "commit" /\ t.m = m /\ MovesKey(r, d))
    /\ KeepsMeta(r, d) \/ (t.pc = "commit" /\ t.op = "update" /\ t.meta)

HeldInv == \A m \in MemIds : lock[m] # None => HeldOK(m, tx[lock[m]], row[m], dirty[m])

VaultInv ==
    /\ TypeOK /\ PhaseInv /\ RowInv /\ IndexInv /\ NoRevival
    /\ BlankInv /\ ReadInv /\ HeldInv

(* The committed rows implement a store of unique keys.                   *)
Store == INSTANCE KeyedStore WITH
    Ids <- MemIds, Names <- Spaces, Values <- Contents, Nothing <- None,
    holds <- [m \in MemIds |-> IF row[m].live THEN <<row[m].ns, row[m].content>> ELSE None],
    dropped <- {m \in MemIds : row[m].version > 0 /\ ~row[m].live}

\* Every commit is one step of the abstract store, or none: an insert puts a
\* free key under a new id, an update moves an id to a free key, a delete
\* drops the id for good, everything else leaves the keys alone.
StoreSpec == Store!Spec

=============================================================================
