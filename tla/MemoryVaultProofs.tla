-------------------------- MODULE MemoryVaultProofs --------------------------
(***************************************************************************)
(* Proofs about MemoryVault, for any number of requests, memories,         *)
(* namespaces and contents.                                                *)
(***************************************************************************)
EXTENDS MemoryVault, TLAPS

LEMMA NoRowType == NoRow \in Rows
BY DEF NoRow, Rows, Statuses, Never

LEMMA IdleType == Idle \in Txs
BY NoRowType DEF Idle, Txs, NoSnap, Phases, Answers

LEMMA SeenType ==
    ASSUME TypeOK, NEW m \in MemIds
    PROVE  Seen(m) \in [MemIds -> Rows]
BY NoRowType DEF Seen, NoSnap, TypeOK

-----------------------------------------------------------------------------
(* The building blocks of the actions keep TypeOK and PhaseInv.            *)

LEMMA IdlePhase == PhaseOK(Idle)
BY DEF PhaseOK, Idle

LEMMA WriteType ==
    ASSUME TypeOK, NEW p \in Procs, NEW m \in MemIds, NEW r \in Rows,
           Write(p, m, r), tx' \in [Procs -> Txs]
    PROVE  TypeOK'
BY DEF TypeOK, Write

LEMMA FlushType ==
    ASSUME TypeOK, PhaseInv, NEW p \in Procs, NEW m \in MemIds, NEW r \in Rows,
           NEW t \in Txs, PhaseOK(t), Flush(p, m, r, t)
    PROVE  TypeOK' /\ PhaseInv'
<1>1. TypeOK'
  BY WriteType DEF TypeOK, Flush
<1>2. PhaseInv'
  BY DEF TypeOK, PhaseInv, PhaseOK, Flush
<1>3. QED
  BY <1>1, <1>2

LEMMA GotoType ==
    ASSUME TypeOK, PhaseInv, NEW p \in Procs, NEW t \in Txs, PhaseOK(t), Goto(p, t)
    PROVE  TypeOK' /\ PhaseInv'
BY DEF TypeOK, PhaseInv, PhaseOK, Goto

LEMMA AcceptType ==
    ASSUME TypeOK, PhaseInv, NEW r \in Reqs, NEW op, NEW t \in Txs, PhaseOK(t), Accept(r, op, t)
    PROVE  TypeOK' /\ PhaseInv'
BY DEF TypeOK, PhaseInv, PhaseOK, Accept, Procs

LEMMA ReleaseType ==
    ASSUME TypeOK, PhaseInv, NEW p \in Procs, Release(p), row' \in [MemIds -> Rows]
    PROVE  TypeOK' /\ PhaseInv'
<1>1. TypeOK'
  BY IdleType, NoRowType DEF TypeOK, Release
<1>2. PhaseInv'
  BY IdlePhase DEF TypeOK, PhaseInv, PhaseOK, Release
<1>3. QED
  BY <1>1, <1>2

LEMMA RollbackType ==
    ASSUME TypeOK, PhaseInv, NEW p \in Procs, Rollback(p)
    PROVE  TypeOK' /\ PhaseInv'
BY ReleaseType DEF TypeOK, Rollback

LEMMA CommitType ==
    ASSUME TypeOK, PhaseInv, NEW p \in Procs, Commit(p)
    PROVE  TypeOK' /\ PhaseInv'
<1>1. row' \in [MemIds -> Rows]
  BY DEF TypeOK, Commit
<1>2. QED
  BY <1>1, ReleaseType DEF Commit

-----------------------------------------------------------------------------
(* The rows that handlers write.                                           *)

LEMMA NewRowType ==
    ASSUME TypeOK, NEW t \in Txs
    PROVE  NewRow(t) \in Rows
<1>1. /\ t.ns \in Spaces \cup {None}
      /\ t.c \in Contents \cup {None}
      /\ (IF t.skipped THEN None ELSE t.c) \in Contents \cup {None}
      /\ (IF t.ttl = 0 THEN Never ELSE now + t.ttl) \in Nat \cup {Never}
  BY DEF TypeOK, Txs
<1>2. {"user"} \in SUBSET MetaKeys
  BY DEF MetaKeys
<1>3. QED
  BY <1>1, <1>2, NoRowType, ZenonT(60) DEF NewRow, Rows

LEMMA BumpedType ==
    ASSUME TypeOK, NEW m \in MemIds, NEW old \in Rows
    PROVE  BumpedRow(m, old) \in Rows
<1>1. row[m] \in Rows /\ NextAccess(old.access) \in Nat
  BY DEF TypeOK, Rows, NextAccess
<1>2. QED
  BY <1>1 DEF BumpedRow, Rows

LEMMA UpdatedRowType ==
    ASSUME TypeOK, NEW m \in MemIds, NEW t \in Txs, NEW old \in Rows
    PROVE  UpdatedRow(m, t, old) \in Rows
<1> DEFINE new     == IF t.c = None THEN old.content ELSE t.c
           content == IF new = old.content THEN row[m].content ELSE new
           status  == IF t.c = None \/ old.status = "pending" THEN row[m].status ELSE "pending"
           meta    == IF t.meta THEN {"user"} ELSE row[m].meta
           expires == IF t.ttl = 0 THEN row[m].expires ELSE now + t.ttl
           version == old.version + 1
<1>1. row[m] \in Rows
  BY DEF TypeOK
<1>2. content \in Contents \cup {None} /\ status \in Statuses /\ version \in Nat
  BY <1>1 DEF Rows, Txs, Statuses
<1>3. meta \in SUBSET MetaKeys
  BY <1>1 DEF Rows, MetaKeys
<1>4. expires \in Nat \cup {Never}
  BY <1>1 DEF Rows, Txs, TypeOK
<1>5. UpdatedRow(m, t, old) =
        [row[m] EXCEPT !.content = content, !.status = status, !.meta = meta,
                       !.expires = expires, !.version = version]
  BY DEF UpdatedRow
<1> HIDE DEF new, content, status, meta, expires, version
<1>6. QED
  BY <1>1, <1>2, <1>3, <1>4, <1>5 DEF Rows

LEMMA DeletedRowType ==
    ASSUME TypeOK, NEW m \in MemIds
    PROVE  DeletedRow(m) \in Rows
BY ZenonT(60) DEF TypeOK, DeletedRow, Rows

LEMMA EnrichedRowType ==
    ASSUME TypeOK, NEW m \in MemIds, NEW old \in Rows, NEW e \in BOOLEAN
    PROVE  EnrichedRow(m, old, e) \in Rows
<1> DEFINE vec  == IF old.vec = None /\ e THEN old.content ELSE row[m].vec
           meta == row[m].meta \cup {"enrichment"}
<1>1. row[m] \in Rows
  BY DEF TypeOK
<1>2. vec \in Contents \cup {None} /\ old.content \in Contents \cup {None}
  BY <1>1 DEF Rows
<1>3. meta \in SUBSET MetaKeys /\ "completed" \in Statuses
  BY <1>1 DEF Rows, MetaKeys, Statuses
<1>4. EnrichedRow(m, old, e) =
        [row[m] EXCEPT !.status = "completed", !.qual = old.content, !.vec = vec, !.meta = meta]
  BY DEF EnrichedRow
<1> HIDE DEF vec, meta
<1>5. QED
  BY <1>1, <1>2, <1>3, <1>4 DEF Rows

LEMMA FailedRowType ==
    ASSUME TypeOK, NEW m \in MemIds, NEW old \in Rows
    PROVE  FailedRow(m, old) \in Rows
BY ZenonT(60) DEF TypeOK, FailedRow, Rows, Statuses, MetaKeys

LEMMA L2RowType ==
    ASSUME TypeOK, NEW m \in MemIds
    PROVE  L2Row(m) \in Rows
BY ZenonT(60) DEF TypeOK, L2Row, Rows, MetaKeys

-----------------------------------------------------------------------------
(* Type correctness: each action keeps TypeOK and PhaseInv.                *)

LEMMA CreateTypes ==
    ASSUME TypeOK, PhaseInv, NEW r \in Reqs,
           CreateStart(r) \/ CreateLookup(r) \/ CreateSemantic(r) \/ CreateRelookup(r)
    PROVE  TypeOK' /\ PhaseInv'
<1> USE DEF Procs
<1>1. tx[r] \in Txs /\ PhaseOK(tx[r])
  BY DEF TypeOK, PhaseInv
<1>2. ASSUME NEW m \in MemIds, NEW k \in {"exact", "semantic"}
      PROVE  LET t == [tx[r] EXCEPT !.pc = "bump", !.m = m, !.kind = k, !.snap = Seen(m)]
             IN  t \in Txs /\ PhaseOK(t)
  BY <1>1, SeenType, ZenonT(60) DEF Txs, Phases, Answers, PhaseOK
<1>3. CASE CreateStart(r)
  <2>0. \A ns \in Spaces : Resolve(ns) \subseteq Spaces
    <3>1. \A ns, n : <<ns, n>> \in Related => n \in Spaces
      BY VaultAssumption
    <3>2. QED
      BY <3>1 DEF Resolve
  <2>1. PICK c \in Contents, ttl \in 0..MaxNow, n \in Spaces :
          Accept(r, "create", [Idle EXCEPT !.pc = "lookup", !.op = "create",
                                           !.ns = n, !.c = c, !.ttl = ttl])
    <3>1. PICK ns \in Spaces, c \in Contents, ttl \in 0..MaxNow, d \in BOOLEAN :
            \E n \in (IF d THEN {ns} ELSE Resolve(ns)) :
              Accept(r, "create", [Idle EXCEPT !.pc = "lookup", !.op = "create",
                                               !.ns = n, !.c = c, !.ttl = ttl])
      BY <1>3, Zenon DEF CreateStart
    <3>2. (IF d THEN {ns} ELSE Resolve(ns)) \subseteq Spaces
      BY <2>0
    <3>3. QED
      BY <3>1, <3>2, Zenon
  <2> DEFINE t == [Idle EXCEPT !.pc = "lookup", !.op = "create", !.ns = n, !.c = c, !.ttl = ttl]
  <2>2. t \in Txs /\ PhaseOK(t)
    <3>1. ttl \in Nat
      BY VaultAssumption
    <3>2. t \in Txs
      BY <3>1, IdleType DEF Txs, Phases, OpNames
    <3>3. PhaseOK(t)
      BY DEF PhaseOK, Idle
    <3>4. QED
      BY <3>2, <3>3
  <2>3. QED
    BY <2>1, <2>2, AcceptType
<1>4. CASE CreateLookup(r)
  <2>1. LET t == [tx[r] EXCEPT !.pc = "semantic"] IN t \in Txs /\ (tx[r].pc = "lookup" => PhaseOK(t))
    BY <1>1 DEF Txs, Phases, PhaseOK
  <2>2. QED
    BY <1>2, <1>4, <2>1, GotoType DEF CreateLookup, FindByHash
<1>5. CASE CreateSemantic(r)
  <2>1. ASSUME NEW failed \in BOOLEAN
        PROVE  LET t == [tx[r] EXCEPT !.pc = "insert", !.skipped = failed]
               IN  t \in Txs /\ (tx[r].pc = "semantic" => PhaseOK(t))
    BY <1>1, ZenonT(60) DEF Txs, Phases, PhaseOK
  <2>2. QED
    BY <1>2, <1>5, <2>1, GotoType DEF CreateSemantic, FindSemantic
<1>6. CASE CreateRelookup(r)
  BY <1>2, <1>6, GotoType, RollbackType DEF CreateRelookup, FindByHash
<1>7. QED
  BY <1>3, <1>4, <1>5, <1>6

LEMMA InsertTypes ==
    ASSUME TypeOK, PhaseInv, NEW r \in Reqs, CreateInsert(r)
    PROVE  TypeOK' /\ PhaseInv'
<1> USE DEF Procs
<1>1. tx[r] \in Txs /\ PhaseOK(tx[r])
  BY DEF TypeOK, PhaseInv
<1>2. PICK m \in MemIds :
        \/ /\ Write(r, m, NewRow(tx[r]))
           /\ tx' = [p \in Procs |->
                       IF p = r THEN [tx[r] EXCEPT !.pc = "commit", !.m = m, !.kind = "inserted"]
                       ELSE IF p \in Kinds \X {m} THEN [Idle EXCEPT !.pc = "start", !.m = m]
                       ELSE tx[p]]
        \/ Goto(r, [tx[r] EXCEPT !.pc = "relookup"])
  BY DEF CreateInsert
<1>3. CASE Write(r, m, NewRow(tx[r])) /\
           tx' = [p \in Procs |->
                    IF p = r THEN [tx[r] EXCEPT !.pc = "commit", !.m = m, !.kind = "inserted"]
                    ELSE IF p \in Kinds \X {m} THEN [Idle EXCEPT !.pc = "start", !.m = m]
                    ELSE tx[p]]
  <2> DEFINE t == [tx[r] EXCEPT !.pc = "commit", !.m = m, !.kind = "inserted"]
             u == [Idle EXCEPT !.pc = "start", !.m = m]
  <2>0. t \in Txs
    BY <1>1 DEF Txs, Phases, Answers
  <2>1. u \in Txs
    BY IdleType DEF Txs, Phases
  <2>2. PhaseOK(t) /\ PhaseOK(u)
    <3>1. t.pc = "commit"
      BY <1>1 DEF Txs
    <3>2. u.pc = "start"
      BY DEF Idle
    <3>3. QED
      BY <3>1, <3>2 DEF PhaseOK
  <2> HIDE DEF t, u
  <2>3. tx' = [p \in Procs |-> IF p = r THEN t ELSE IF p \in Kinds \X {m} THEN u ELSE tx[p]]
    BY <1>3 DEF t, u
  <2>4. tx' \in [Procs -> Txs]
    BY <2>0, <2>1, <2>3 DEF TypeOK
  <2>5. PhaseInv'
    BY <2>2, <2>3 DEF PhaseInv, PhaseOK
  <2>6. QED
    BY <1>1, <1>3, <2>4, <2>5, NewRowType, WriteType
<1>4. CASE Goto(r, [tx[r] EXCEPT !.pc = "relookup"])
  <2> DEFINE t == [tx[r] EXCEPT !.pc = "relookup"]
  <2>1. t \in Txs /\ PhaseOK(t)
    BY <1>1 DEF Txs, Phases, PhaseOK, CreateInsert
  <2>2. QED
    BY <1>4, <2>1, GotoType
<1>5. QED
  BY <1>2, <1>3, <1>4

LEMMA StartTypes ==
    ASSUME TypeOK, PhaseInv, NEW r \in Reqs,
           GetStart(r) \/ UpdateStart(r) \/ DeleteStart(r) \/ EnrichStart(r) \/ BatchStart(r)
    PROVE  TypeOK' /\ PhaseInv'
<1>1. CASE GetStart(r) \/ DeleteStart(r) \/ EnrichStart(r)
  <2>1. PICK m \in MemIds, o \in {"get", "delete", "enrich"}, q \in {"bump", "write", "enrich"} :
          Accept(r, o, [Idle EXCEPT !.pc = q, !.op = o, !.m = m, !.kind = "ok", !.snap = Seen(m)])
    BY <1>1, Zenon DEF GetStart, DeleteStart, EnrichStart
  <2> DEFINE t == [Idle EXCEPT !.pc = q, !.op = o, !.m = m, !.kind = "ok", !.snap = Seen(m)]
  <2>2. t \in Txs /\ PhaseOK(t)
    <3>1. t \in Txs
      BY IdleType, SeenType, ZenonT(60) DEF Txs, Phases, OpNames, Answers
    <3>2. t.pc \in {"bump", "write", "enrich"} /\ t.m = m
      BY DEF Idle
    <3>3. QED
      BY <3>1, <3>2 DEF PhaseOK
  <2>3. QED
    BY <2>1, <2>2, AcceptType
<1>2. CASE UpdateStart(r)
  <2>1. PICK m \in MemIds, c \in Contents \cup {None}, meta \in BOOLEAN, ttl \in 0..MaxNow :
          Accept(r, "update", [Idle EXCEPT !.pc = "collide", !.op = "update", !.m = m, !.c = c,
                                           !.meta = meta, !.ttl = ttl, !.kind = "ok",
                                           !.snap = Seen(m)])
    BY <1>2, Zenon DEF UpdateStart
  <2> DEFINE t == [Idle EXCEPT !.pc = "collide", !.op = "update", !.m = m, !.c = c, !.meta = meta,
                               !.ttl = ttl, !.kind = "ok", !.snap = Seen(m)]
  <2>2. ttl \in Nat
    BY VaultAssumption
  <2>3. t \in Txs
    BY <2>2, IdleType, SeenType, ZenonT(60) DEF Txs, Phases, OpNames, Answers
  <2>4. PhaseOK(t)
    BY DEF PhaseOK, Idle
  <2>5. QED
    BY <2>1, <2>3, <2>4, AcceptType
<1>3. CASE BatchStart(r)
  <2> DEFINE todo == {m \in MemIds : NeedsEnrichment(m)}
             snap == [m \in MemIds |-> IF m \in todo THEN row[m] ELSE NoRow]
             t == [Idle EXCEPT !.pc = "pick", !.op = "batch", !.kind = "ok", !.todo = todo,
                               !.snap = snap]
  <2>1. Accept(r, "batch", t)
    BY <1>3 DEF BatchStart
  <2>2. snap \in [MemIds -> Rows] /\ todo \in SUBSET MemIds
    BY NoRowType DEF TypeOK
  <2>3. t \in Txs /\ PhaseOK(t)
    <3>1. t.pc = "pick"
      BY DEF Idle
    <3> HIDE DEF snap, todo
    <3>2. t \in Txs
      BY <2>2, IdleType, ZenonT(60) DEF Txs, Phases, OpNames, Answers
    <3>3. QED
      BY <3>1, <3>2 DEF PhaseOK
  <2>4. QED
    BY <2>1, <2>3, AcceptType
<1>4. QED
  BY <1>1, <1>2, <1>3

LEMMA StepTypes ==
    ASSUME TypeOK, PhaseInv, NEW r \in Reqs,
           \/ Bump(r) \/ UpdateCollide(r) \/ UpdateWrite(r) \/ DeleteWrite(r)
           \/ BatchPick(r) \/ EnrichWrite(r) \/ BatchFail(r)
    PROVE  TypeOK' /\ PhaseInv'
<1> USE DEF Procs
<1>1. tx[r] \in Txs /\ PhaseOK(tx[r])
  BY DEF TypeOK, PhaseInv
<1>2. ASSUME NEW q \in {"commit", "pick"}
      PROVE  LET t == [tx[r] EXCEPT !.pc = q] IN t \in Txs /\ PhaseOK(t)
  BY <1>1 DEF Txs, Phases, PhaseOK
<1>3. \A m \in MemIds : tx[r].snap[m] \in Rows /\ row[m] \in Rows
  BY <1>1 DEF Txs, TypeOK
<1>4. AfterEnrich(r) \in Txs /\ PhaseOK(AfterEnrich(r))
  BY <1>2 DEF AfterEnrich
<1>5. CASE Bump(r)
  <2>1. tx[r].m \in MemIds
    BY <1>1, <1>5 DEF Bump, PhaseOK
  <2>2. BumpedRow(tx[r].m, tx[r].snap[tx[r].m]) \in Rows
    BY <1>3, <2>1, BumpedType
  <2>3. QED
    BY <1>2, <1>5, <2>1, <2>2, FlushType DEF Bump
<1>6. CASE UpdateCollide(r)
  <2> DEFINE t == [tx[r] EXCEPT !.pc = "write"]
  <2>1. t \in Txs /\ PhaseOK(t)
    BY <1>1, <1>6 DEF Txs, Phases, PhaseOK, UpdateCollide
  <2>2. Rollback(r) \/ Goto(r, t)
    BY <1>6 DEF UpdateCollide
  <2>3. QED
    BY <2>1, <2>2, GotoType, RollbackType
<1>7. CASE UpdateWrite(r)
  <2>1. tx[r].m \in MemIds
    BY <1>1, <1>7 DEF UpdateWrite, PhaseOK
  <2>2. UpdatedRow(tx[r].m, tx[r], tx[r].snap[tx[r].m]) \in Rows
    BY <1>1, <1>3, <2>1, UpdatedRowType
  <2>3. QED
    BY <1>2, <1>7, <2>1, <2>2, FlushType, RollbackType DEF UpdateWrite
<1>8. CASE DeleteWrite(r)
  <2>1. tx[r].m \in MemIds
    BY <1>1, <1>8 DEF DeleteWrite, PhaseOK
  <2>2. QED
    BY <1>2, <1>8, <2>1, DeletedRowType, FlushType DEF DeleteWrite
<1>9. CASE BatchPick(r)
  <2>1. ASSUME NEW m \in tx[r].todo
        PROVE  LET t == [tx[r] EXCEPT !.pc = IF row[m].live THEN "enrich" ELSE "fail",
                                      !.m = m, !.todo = @ \ {m}]
               IN  t \in Txs /\ PhaseOK(t)
    <3> DEFINE q == IF row[m].live THEN "enrich" ELSE "fail"
               left == tx[r].todo \ {m}
               t == [tx[r] EXCEPT !.pc = q, !.m = m, !.todo = left]
    <3>1. m \in MemIds /\ q \in Phases /\ left \in SUBSET MemIds
      BY <1>1 DEF Txs, Phases
    <3> HIDE DEF q, left
    <3>2. t \in Txs
      BY <1>1, <3>1 DEF Txs
    <3>3. t.pc = q /\ t.m = m
      BY <1>1 DEF Txs
    <3>4. PhaseOK(t)
      BY <3>1, <3>3 DEF PhaseOK, q
    <3>5. QED
      BY <3>2, <3>4 DEF q, left
  <2>2. QED
    BY <1>2, <1>9, <2>1, GotoType DEF BatchPick
<1>10. CASE EnrichWrite(r)
  <2>1. tx[r].m \in MemIds
    BY <1>1, <1>10 DEF EnrichWrite, PhaseOK
  <2>2. QED
    BY <1>3, <1>4, <1>10, <2>1, EnrichedRowType, FlushType DEF EnrichWrite
<1>11. CASE BatchFail(r)
  <2>1. tx[r].m \in MemIds
    BY <1>1, <1>11 DEF BatchFail, PhaseOK
  <2>2. QED
    BY <1>3, <1>4, <1>11, <2>1, FailedRowType, FlushType DEF BatchFail
<1>12. QED
  BY <1>5, <1>6, <1>7, <1>8, <1>9, <1>10, <1>11

LEMMA TaskTypes ==
    ASSUME TypeOK, PhaseInv, NEW p \in Tasks, TaskRead(p) \/ TaskWrite(p)
    PROVE  TypeOK' /\ PhaseInv'
<1> USE DEF Procs
<1>1. tx[p] \in Txs /\ PhaseOK(tx[p]) /\ p[2] \in MemIds
  BY DEF TypeOK, PhaseInv, Tasks
<1>2. CASE TaskRead(p)
  <2> DEFINE t == [tx[p] EXCEPT !.pc = "write", !.m = p[2], !.snap = Seen(p[2])]
  <2>1. t \in Txs
    BY <1>1, SeenType DEF Txs, Phases
  <2>2. PhaseOK(t)
    BY <1>1 DEF PhaseOK, Txs
  <2>3. Goto(p, t) \/ Goto(p, Idle)
    BY <1>2, Zenon DEF TaskRead
  <2>4. QED
    BY <2>1, <2>2, <2>3, GotoType, IdleType, IdlePhase
<1>3. CASE TaskWrite(p)
  <2> DEFINE t == [tx[p] EXCEPT !.pc = "commit"]
  <2>1. t \in Txs /\ PhaseOK(t)
    BY <1>1 DEF Txs, Phases, PhaseOK
  <2>2. tx[p].snap[p[2]] \in Rows
    BY <1>1 DEF Txs
  <2>3. QED
    BY <1>1, <1>3, <2>1, <2>2, EnrichedRowType, L2RowType, FlushType DEF TaskWrite
<1>4. QED
  BY <1>2, <1>3

LEMMA TypeStep ==
    ASSUME TypeOK, PhaseInv, [Next]_vars
    PROVE  TypeOK' /\ PhaseInv'
<1> USE DEF Procs
<1>1. ASSUME NEW r \in Reqs, RequestStart(r) \/ RequestStep(r)
      PROVE  TypeOK' /\ PhaseInv'
  BY <1>1, CreateTypes, InsertTypes, StartTypes, StepTypes, CommitType DEF RequestStart, RequestStep
<1>2. ASSUME NEW r \in Reqs, RequestFails(r) \/ DeadlockVictim(r)
      PROVE  TypeOK' /\ PhaseInv'
  BY <1>2, RollbackType DEF RequestFails, DeadlockVictim
<1>3. ASSUME NEW p \in Tasks, TaskStep(p) \/ TaskFails(p)
      PROVE  TypeOK' /\ PhaseInv'
  BY <1>3, TaskTypes, CommitType, RollbackType DEF TaskStep, TaskFails
<1>4. CASE Crash
  BY <1>4, NoRowType, IdleType, IdlePhase DEF Crash, TypeOK, PhaseInv, PhaseOK
<1>5. CASE Tick
  BY <1>5 DEF Tick, TypeOK, PhaseInv, PhaseOK
<1>6. CASE UNCHANGED vars
  BY <1>6 DEF vars, TypeOK, PhaseInv, PhaseOK
<1>7. QED
  BY <1>1, <1>2, <1>3, <1>4, <1>5, <1>6 DEF Next

-----------------------------------------------------------------------------
(* Safety: what a handler writes is a successor of the committed row, and  *)
(* the index check at the flush covers the commit that comes later.        *)

\* The parts of the invariant that speak of rows and locks only.
TableInv == RowInv /\ IndexInv /\ NoRevival

\* r may replace row[m]: it has a key if it is live, and it is not a revival.
Succeeds(m, r) ==
    /\ LiveRow(r)
    /\ row[m].version > 0 => r.version > 0 /\ (~row[m].live => ~r.live)

LEMMA TableUnchanged ==
    ASSUME TableInv, UNCHANGED <<row, dirty, lock>>
    PROVE  TableInv'
BY DEF TableInv, RowInv, LiveRow, IndexInv, SameKey, NoRevival

LEMMA WriteTable ==
    ASSUME TypeOK, TableInv, NEW p \in Procs, NEW m \in MemIds, NEW r \in Rows,
           Write(p, m, r), Succeeds(m, r)
    PROVE  TableInv'
<1>1. /\ lock[m] = None /\ Clashes(m, r) = {} /\ row' = row
      /\ dirty' = [dirty EXCEPT ![m] = r] /\ lock' = [lock EXCEPT ![m] = p]
  BY DEF Write, MustWait
<1>2. RowInv' /\ NoRevival'
  BY <1>1 DEF TypeOK, TableInv, RowInv, NoRevival, Succeeds, LiveRow
<1>3. \A x \in MemIds \ {m} :
        ~SameKey(row[x], r) /\ (lock[x] # None => ~SameKey(dirty[x], r))
  BY <1>1 DEF Clashes
<1>4. IndexInv'
  BY <1>1, <1>3 DEF TypeOK, TableInv, IndexInv, SameKey
<1>5. QED
  BY <1>2, <1>4 DEF TableInv

LEMMA RollbackTable ==
    ASSUME TypeOK, TableInv, NEW p \in Procs, Rollback(p)
    PROVE  TableInv'
BY DEF TypeOK, TableInv, RowInv, LiveRow, IndexInv, SameKey, NoRevival, Rollback, Release

LEMMA CommitTable ==
    ASSUME TypeOK, TableInv, NEW p \in Procs, Commit(p)
    PROVE  TableInv'
<1>1. /\ row' = [m \in MemIds |-> IF lock[m] = p THEN dirty[m] ELSE row[m]]
      /\ lock' = [m \in MemIds |-> IF lock[m] = p THEN None ELSE lock[m]]
      /\ dirty' = [m \in MemIds |-> IF lock[m] = p THEN NoRow ELSE dirty[m]]
      /\ p # None
  BY VaultAssumption DEF Commit, Release
<1>2. RowInv'
  BY <1>1 DEF TypeOK, TableInv, RowInv, LiveRow
<1>3. NoRevival'
  BY <1>1 DEF TypeOK, TableInv, NoRevival
<1>4. IndexInv'
  BY <1>1 DEF TypeOK, TableInv, IndexInv, SameKey
<1>5. QED
  BY <1>2, <1>3, <1>4 DEF TableInv

LEMMA RowsSucceed ==
    ASSUME TypeOK, TableInv, NEW m \in MemIds, NEW old \in Rows
    PROVE  /\ Succeeds(m, BumpedRow(m, old))
           /\ \A t \in Txs : Succeeds(m, UpdatedRow(m, t, old))
           /\ Succeeds(m, DeletedRow(m))
           /\ \A e \in BOOLEAN : Succeeds(m, EnrichedRow(m, old, e))
           /\ Succeeds(m, FailedRow(m, old))
           /\ Succeeds(m, L2Row(m))
<1>1. row[m] \in Rows /\ LiveRow(row[m])
  BY DEF TypeOK, TableInv, RowInv
<1>2. ASSUME NEW r \in Rows, r.ns = row[m].ns, r.content = row[m].content,
             r.version = row[m].version, r.live => row[m].live
      PROVE  Succeeds(m, r)
  BY <1>1, <1>2 DEF Succeeds, LiveRow
<1>3. Succeeds(m, BumpedRow(m, old))
  <2>1. /\ BumpedRow(m, old).ns = row[m].ns
        /\ BumpedRow(m, old).content = row[m].content
        /\ BumpedRow(m, old).version = row[m].version
        /\ BumpedRow(m, old).live = row[m].live
    BY <1>1 DEF BumpedRow, Rows
  <2>2. QED
    BY <1>2, <2>1, BumpedType
<1>4. \A t \in Txs : Succeeds(m, UpdatedRow(m, t, old))
  <2> TAKE t \in Txs
  <2> DEFINE r == UpdatedRow(m, t, old)
  <2>1. r.version = old.version + 1 /\ r.ns = row[m].ns /\ r.live = row[m].live
    BY <1>1 DEF UpdatedRow, Rows
  <2>2. r.content = row[m].content \/ (t.c # None /\ r.content = t.c)
    BY <1>1 DEF UpdatedRow, Rows
  <2>3. old.version \in Nat /\ t.c \in Contents \cup {None}
    BY DEF Rows, Txs
  <2> HIDE DEF r
  <2>4. QED
    BY <1>1, <2>1, <2>2, <2>3 DEF Succeeds, LiveRow, r
<1>5. Succeeds(m, DeletedRow(m))
  BY <1>1, <1>2, DeletedRowType DEF DeletedRow, Rows
<1>6. \A e \in BOOLEAN : Succeeds(m, EnrichedRow(m, old, e))
  <2> TAKE e \in BOOLEAN
  <2>1. /\ EnrichedRow(m, old, e).ns = row[m].ns
        /\ EnrichedRow(m, old, e).content = row[m].content
        /\ EnrichedRow(m, old, e).version = row[m].version
        /\ EnrichedRow(m, old, e).live = row[m].live
    BY <1>1 DEF EnrichedRow, Rows
  <2>2. QED
    BY <1>2, <2>1, EnrichedRowType
<1>7. Succeeds(m, FailedRow(m, old))
  <2>1. /\ FailedRow(m, old).ns = row[m].ns
        /\ FailedRow(m, old).content = row[m].content
        /\ FailedRow(m, old).version = row[m].version
        /\ FailedRow(m, old).live = row[m].live
    BY <1>1 DEF FailedRow, Rows
  <2>2. QED
    BY <1>2, <2>1, FailedRowType
<1>8. Succeeds(m, L2Row(m))
  BY <1>1, <1>2, L2RowType DEF L2Row, Rows
<1>9. QED
  BY <1>3, <1>4, <1>5, <1>6, <1>7, <1>8

LEMMA NewRowSucceeds ==
    ASSUME TypeOK, NEW m \in MemIds, NEW t \in Txs, t.ns \in Spaces, t.c \in Contents,
           row[m].version = 0
    PROVE  Succeeds(m, NewRow(t))
<1>1. NewRow(t).version = 1 /\ NewRow(t).ns = t.ns /\ NewRow(t).content = t.c
  BY DEF NewRow, NoRow
<1>2. QED
  BY <1>1 DEF Succeeds, LiveRow

LEMMA TableStep ==
    ASSUME TypeOK, PhaseInv, TableInv, [Next]_vars
    PROVE  TableInv'
<1> USE DEF Procs
<1>1. ASSUME NEW p \in Procs
      PROVE  /\ tx[p] \in Txs /\ PhaseOK(tx[p])
             /\ \A m \in MemIds : tx[p].snap[m] \in Rows
  BY DEF TypeOK, PhaseInv, Txs
<1>2. ASSUME NEW r \in Reqs, RequestStart(r)
      PROVE  TableInv'
  <2>1. UNCHANGED <<row, dirty, lock>>
    BY <1>2, Zenon DEF RequestStart, CreateStart, GetStart, UpdateStart, DeleteStart, EnrichStart,
                       BatchStart, Accept
  <2>2. QED
    BY <2>1, TableUnchanged
<1>3. ASSUME NEW r \in Reqs, CreateLookup(r) \/ CreateSemantic(r) \/ BatchPick(r)
      PROVE  TableInv'
  <2>1. UNCHANGED <<row, dirty, lock>>
    BY <1>3 DEF CreateLookup, CreateSemantic, BatchPick, Goto
  <2>2. QED
    BY <2>1, TableUnchanged
<1>4. ASSUME NEW r \in Reqs, CreateRelookup(r) \/ UpdateCollide(r)
      PROVE  TableInv'
  <2>1. UNCHANGED <<row, dirty, lock>> \/ Rollback(r)
    BY <1>4 DEF CreateRelookup, UpdateCollide, Goto
  <2>2. QED
    BY <2>1, TableUnchanged, RollbackTable
<1>5. ASSUME NEW r \in Reqs, CreateInsert(r)
      PROVE  TableInv'
  <2>1. PICK m \in MemIds :
          \/ row[m].version = 0 /\ Write(r, m, NewRow(tx[r]))
          \/ UNCHANGED <<row, dirty, lock>>
    BY <1>5 DEF CreateInsert, Fresh, Goto
  <2>2. tx[r].ns \in Spaces /\ tx[r].c \in Contents
    BY <1>1, <1>5 DEF CreateInsert, PhaseOK
  <2>3. QED
    BY <1>1, <2>1, <2>2, NewRowType, NewRowSucceeds, WriteTable, TableUnchanged
<1>6. ASSUME NEW r \in Reqs, Bump(r)
      PROVE  TableInv'
  <2>1. tx[r].m \in MemIds 
    BY <1>1, <1>6 DEF Bump, PhaseOK
  <2>2. QED
    BY <1>1, <1>6, <2>1, BumpedType, RowsSucceed, WriteTable DEF Bump, Flush
<1>7. ASSUME NEW r \in Reqs, UpdateWrite(r)
      PROVE  TableInv'
  <2>1. tx[r].m \in MemIds
    BY <1>1, <1>7 DEF UpdateWrite, PhaseOK
  <2>2. QED
    BY <1>1, <1>7, <2>1, UpdatedRowType, RowsSucceed, WriteTable, RollbackTable
       DEF UpdateWrite, Flush
<1>8. ASSUME NEW r \in Reqs, DeleteWrite(r)
      PROVE  TableInv'
  <2>1. tx[r].m \in MemIds
    BY <1>1, <1>8 DEF DeleteWrite, PhaseOK
  <2>2. QED
    BY <1>1, <1>8, <2>1, DeletedRowType, RowsSucceed, WriteTable DEF DeleteWrite, Flush
<1>9. ASSUME NEW r \in Reqs, EnrichWrite(r)
      PROVE  TableInv'
  <2>1. tx[r].m \in MemIds
    BY <1>1, <1>9 DEF EnrichWrite, PhaseOK
  <2>2. QED
    BY <1>1, <1>9, <2>1, EnrichedRowType, RowsSucceed, WriteTable DEF EnrichWrite, Flush
<1>10. ASSUME NEW r \in Reqs, BatchFail(r)
       PROVE  TableInv'
  <2>1. tx[r].m \in MemIds
    BY <1>1, <1>10 DEF BatchFail, PhaseOK
  <2>2. QED
    BY <1>1, <1>10, <2>1, FailedRowType, RowsSucceed, WriteTable DEF BatchFail, Flush
<1>11. ASSUME NEW r \in Reqs, RequestFails(r) \/ DeadlockVictim(r)
       PROVE  TableInv'
  BY <1>11, RollbackTable DEF RequestFails, DeadlockVictim
<1>12. ASSUME NEW p \in Tasks, TaskRead(p)
       PROVE  TableInv'
  BY <1>12, TableUnchanged DEF TaskRead, Goto
<1>13. ASSUME NEW p \in Tasks, TaskWrite(p)
       PROVE  TableInv'
  <2>1. p[2] \in MemIds
    BY DEF Tasks
  <2>2. QED
    BY <1>1, <1>13, <2>1, EnrichedRowType, L2RowType, RowsSucceed, WriteTable DEF TaskWrite, Flush
<1>14. ASSUME NEW p \in Procs, Commit(p)
       PROVE  TableInv'
  BY <1>14, CommitTable
<1>15. ASSUME NEW p \in Tasks, TaskFails(p)
       PROVE  TableInv'
  BY <1>15, RollbackTable DEF TaskFails
<1>16. CASE Crash
  BY <1>16 DEF Crash, TypeOK, TableInv, RowInv, LiveRow, IndexInv, SameKey, NoRevival
<1>17. CASE Tick \/ UNCHANGED vars
  BY <1>17, TableUnchanged DEF Tick, vars
<1>18. QED
  BY <1>2, <1>3, <1>4, <1>5, <1>6, <1>7, <1>8, <1>9, <1>10, <1>11, <1>12, <1>13, <1>14, <1>15,
     <1>16, <1>17 DEF Next, RequestStep, TaskStep

-----------------------------------------------------------------------------
(* What open transactions hold and have read.                              *)

\* The parts of the invariant that relate a transaction to its rows.
HoldInv == BlankInv /\ ReadInv /\ HeldInv

LEMMA IdleRead ==
    ASSUME NEW p
    PROVE  ReadOK(p, Idle)
BY DEF ReadOK, Idle

\* A handler that does not write goes on to a state that has read enough; if
\* it may hold locks, it still may.
LEMMA GotoHold ==
    ASSUME TypeOK, HoldInv, NEW p \in Procs, NEW t, tx' = [tx EXCEPT ![p] = t],
           UNCHANGED <<row, dirty, lock>>, ReadOK(p, t), tx[p].pc # "commit",
           tx[p].pc \in Holding => t.pc \in Holding
    PROVE  HoldInv'
<1>1. BlankInv'
  BY DEF HoldInv, BlankInv
<1>2. ReadInv'
  BY DEF TypeOK, HoldInv, ReadInv, ReadOK
<1>3. HeldInv'
  <2> SUFFICES ASSUME NEW m \in MemIds, lock[m] # None
               PROVE  HeldOK(m, tx'[lock[m]], row[m], dirty[m])
    BY DEF HeldInv
  <2>1. HeldOK(m, tx[lock[m]], row[m], dirty[m])
    BY DEF HoldInv, HeldInv
  <2>2. CASE lock[m] = p
    BY <2>1, <2>2 DEF TypeOK, HeldOK
  <2>3. CASE lock[m] # p
    BY <2>1, <2>3 DEF TypeOK
  <2>4. QED
    BY <2>2, <2>3
<1>4. QED
  BY <1>1, <1>2, <1>3 DEF HoldInv

\* A handler writes m and goes on.
LEMMA WriteHold ==
    ASSUME TypeOK, HoldInv, NEW p \in Procs, NEW m \in MemIds, NEW r \in Rows, NEW t \in Txs,
           Flush(p, m, r, t), tx[p].pc # "commit", HeldOK(m, t, row[m], r),
           t.pc \in {"pick", "commit"}, t.pc = "pick" => t.op = "batch",
           \A x \in t.todo : row[x].version > 0, t.op = tx[p].op, t.op = "create" => t.m = m
    PROVE  HoldInv'
<1>0. /\ lock[m] = None /\ row' = row /\ tx' = [tx EXCEPT ![p] = t]
      /\ dirty' = [dirty EXCEPT ![m] = r] /\ lock' = [lock EXCEPT ![m] = p]
  BY DEF Flush, Write, MustWait
<1>00. None \notin Procs
  BY VaultAssumption
<1>1. BlankInv'
  BY <1>0 DEF HoldInv, BlankInv
<1>2. ReadInv'
  <2> SUFFICES ASSUME NEW q \in Procs
               PROVE  ReadOK(q, tx[q])'
    BY DEF ReadInv
  <2>1. ReadOK(q, tx[q])
    BY DEF HoldInv, ReadInv
  <2>2. CASE q = p
    BY <1>0, <2>1, <2>2 DEF TypeOK, ReadOK
  <2>3. CASE q # p
    BY <1>0, <1>00, <2>1, <2>3 DEF TypeOK, ReadOK
  <2>4. QED
    BY <2>2, <2>3
<1>3. HeldInv'
  <2> SUFFICES ASSUME NEW x \in MemIds, lock'[x] # None
               PROVE  HeldOK(x, tx'[lock'[x]], row[x], dirty'[x])
    BY <1>0 DEF HeldInv
  <2>1. CASE x = m
    BY <1>0, <2>1 DEF TypeOK
  <2>2. CASE x # m
    <3>1. lock'[x] = lock[x] /\ dirty'[x] = dirty[x] /\ lock[x] # None
      BY <1>0, <2>2 DEF TypeOK
    <3>2. HeldOK(x, tx[lock[x]], row[x], dirty[x])
      BY <3>1 DEF HoldInv, HeldInv
    <3>3. CASE lock[x] = p
      BY <1>0, <3>1, <3>2, <3>3 DEF TypeOK, HeldOK, Holding
    <3>4. CASE lock[x] # p
      BY <1>0, <3>1, <3>2, <3>4 DEF TypeOK
    <3>5. QED
      BY <3>3, <3>4
  <2>3. QED
    BY <2>1, <2>2
<1>4. QED
  BY <1>1, <1>2, <1>3 DEF HoldInv

LEMMA RollbackHold ==
    ASSUME TypeOK, HoldInv, NEW p \in Procs, Rollback(p)
    PROVE  HoldInv'
<1>0. /\ lock' = [m \in MemIds |-> IF lock[m] = p THEN None ELSE lock[m]]
      /\ dirty' = [m \in MemIds |-> IF lock[m] = p THEN NoRow ELSE dirty[m]]
      /\ tx' = [tx EXCEPT ![p] = Idle] /\ row' = row
  BY DEF Rollback, Release
<1>1. BlankInv'
  BY <1>0 DEF HoldInv, BlankInv
<1>2. ReadInv'
  <2> SUFFICES ASSUME NEW q \in Procs
               PROVE  ReadOK(q, tx[q])'
    BY DEF ReadInv
  <2>1. ReadOK(q, tx[q])
    BY DEF HoldInv, ReadInv
  <2>2. CASE q = p
    BY <1>0, <2>2 DEF TypeOK, ReadOK, Idle
  <2>3. CASE q # p
    BY <1>0, <2>1, <2>3 DEF TypeOK, ReadOK
  <2>4. QED
    BY <2>2, <2>3
<1>3. HeldInv'
  BY <1>0 DEF TypeOK, HoldInv, HeldInv
<1>4. QED
  BY <1>1, <1>2, <1>3 DEF HoldInv

\* A commit publishes versions above 0, so what others have read stays read.
LEMMA CommitHold ==
    ASSUME TypeOK, PhaseInv, TableInv, HoldInv, NEW p \in Procs, Commit(p)
    PROVE  HoldInv'
<1>0. /\ lock' = [m \in MemIds |-> IF lock[m] = p THEN None ELSE lock[m]]
      /\ dirty' = [m \in MemIds |-> IF lock[m] = p THEN NoRow ELSE dirty[m]]
      /\ tx' = [tx EXCEPT ![p] = Idle]
      /\ row' = [m \in MemIds |-> IF lock[m] = p THEN dirty[m] ELSE row[m]]
      /\ p # None
  BY VaultAssumption DEF Commit, Release
<1>1. \A m \in MemIds : lock[m] = p => dirty[m].version > 0
  BY <1>0 DEF HoldInv, HeldInv, HeldOK
<1>2. BlankInv'
  <2> SUFFICES ASSUME NEW m \in MemIds, row'[m].version = 0
               PROVE  row'[m] = NoRow
    BY DEF BlankInv
  <2>1. lock[m] # p
    BY <1>0, <1>1 DEF TypeOK, Rows
  <2>2. QED
    BY <1>0, <2>1 DEF HoldInv, BlankInv
<1>3. \A m \in MemIds :
        row[m].version > 0 => row'[m].version > 0 /\ (~row[m].live => ~row'[m].live)
  BY <1>0, <1>1 DEF TableInv, NoRevival
<1>4. ReadInv'
  <2> SUFFICES ASSUME NEW q \in Procs
               PROVE  ReadOK(q, tx[q])'
    BY DEF ReadInv
  <2>1. ReadOK(q, tx[q]) /\ PhaseOK(tx[q]) /\ tx[q] \in Txs
    BY DEF TypeOK, PhaseInv, HoldInv, ReadInv
  <2>2. CASE q = p
    BY <1>0, <2>2 DEF TypeOK, ReadOK, Idle
  <2>3. CASE q # p
    <3>1. tx'[q] = tx[q]
      BY <1>0, <2>3 DEF TypeOK
    <3>2. QED
      BY <1>0, <1>3, <2>1, <2>3, <3>1 DEF TypeOK, ReadOK, Txs, PhaseOK
  <2>4. QED
    BY <2>2, <2>3
<1>5. HeldInv'
  BY <1>0 DEF TypeOK, HoldInv, HeldInv
<1>6. QED
  BY <1>2, <1>4, <1>5 DEF HoldInv

\* What the handlers write over a committed row keeps or moves its key, and
\* keeps the merged metadata unless the update replaces it.
LEMMA RowsHeld ==
    ASSUME TypeOK, TableInv, NEW m \in MemIds, NEW old \in Rows, row[m].version > 0,
           NEW t \in Txs, t.pc \in Holding
    PROVE  /\ HeldOK(m, t, row[m], BumpedRow(m, old))
           /\ t.pc = "commit" /\ t.m = m /\ t.op = "update"
                => HeldOK(m, t, row[m], UpdatedRow(m, t, old))
           /\ t.pc = "commit" /\ t.m = m => HeldOK(m, t, row[m], DeletedRow(m))
           /\ \A e \in BOOLEAN : HeldOK(m, t, row[m], EnrichedRow(m, old, e))
           /\ ~row[m].live => HeldOK(m, t, row[m], FailedRow(m, old))
           /\ HeldOK(m, t, row[m], L2Row(m))
<1>1. row[m] \in Rows /\ old \in Rows
  BY DEF TypeOK
<1>2. ASSUME NEW r \in Rows, r.ns = row[m].ns, r.content = row[m].content,
             r.version = row[m].version, r.live = row[m].live, KeepsMeta(row[m], r)
      PROVE  HeldOK(m, t, row[m], r)
  BY <1>1, <1>2 DEF HeldOK, KeepsKey
<1>3. HeldOK(m, t, row[m], BumpedRow(m, old))
  <2>1. /\ BumpedRow(m, old).ns = row[m].ns
        /\ BumpedRow(m, old).content = row[m].content
        /\ BumpedRow(m, old).version = row[m].version
        /\ BumpedRow(m, old).live = row[m].live
        /\ BumpedRow(m, old).meta = row[m].meta
    BY <1>1 DEF BumpedRow, Rows
  <2>2. QED
    BY <1>2, <2>1, BumpedType DEF KeepsMeta
<1>4. ASSUME t.pc = "commit", t.m = m, t.op = "update"
      PROVE  HeldOK(m, t, row[m], UpdatedRow(m, t, old))
  <2> DEFINE r == UpdatedRow(m, t, old)
  <2>1. r.version = old.version + 1 /\ r.ns = row[m].ns /\ r.live = row[m].live
    BY <1>1 DEF UpdatedRow, Rows
  <2>2. t.meta \/ r.meta = row[m].meta
    BY <1>1 DEF UpdatedRow, Rows
  <2>3. old.version \in Nat /\ row[m].live \in BOOLEAN
    BY <1>1 DEF Rows
  <2> HIDE DEF r
  <2>4. KeepsKey(row[m], r) \/ MovesKey(row[m], r)
    BY <2>1, <2>3 DEF KeepsKey, MovesKey
  <2>5. r.version > 0
    BY <2>1, <2>3
  <2>6. KeepsMeta(row[m], r) \/ t.meta
    BY <2>2 DEF KeepsMeta
  <2>7. QED
    BY <1>4, <2>4, <2>5, <2>6 DEF HeldOK, r
<1>5. ASSUME t.pc = "commit", t.m = m
      PROVE  HeldOK(m, t, row[m], DeletedRow(m))
  <2>1. DeletedRow(m).version = row[m].version /\ DeletedRow(m).live = FALSE
    BY <1>1 DEF DeletedRow, Rows
  <2>2. row[m].live \in BOOLEAN
    BY <1>1 DEF Rows
  <2>3. QED
    BY <1>5, <2>1, <2>2 DEF HeldOK, KeepsKey, MovesKey, KeepsMeta
<1>6. ASSUME NEW e \in BOOLEAN
      PROVE  HeldOK(m, t, row[m], EnrichedRow(m, old, e))
  <2>1. /\ EnrichedRow(m, old, e).ns = row[m].ns
        /\ EnrichedRow(m, old, e).content = row[m].content
        /\ EnrichedRow(m, old, e).version = row[m].version
        /\ EnrichedRow(m, old, e).live = row[m].live
        /\ EnrichedRow(m, old, e).meta = row[m].meta \cup {"enrichment"}
    BY <1>1 DEF EnrichedRow, Rows
  <2>2. KeepsMeta(row[m], EnrichedRow(m, old, e))
    BY <2>1 DEF KeepsMeta
  <2>3. QED
    BY <1>2, <2>1, <2>2, EnrichedRowType
<1>7. ASSUME ~row[m].live
      PROVE  HeldOK(m, t, row[m], FailedRow(m, old))
  <2>1. /\ FailedRow(m, old).ns = row[m].ns
        /\ FailedRow(m, old).content = row[m].content
        /\ FailedRow(m, old).version = row[m].version
        /\ FailedRow(m, old).live = row[m].live
    BY <1>1 DEF FailedRow, Rows
  <2>2. QED
    BY <1>2, <1>7, <2>1, FailedRowType DEF KeepsMeta
<1>8. HeldOK(m, t, row[m], L2Row(m))
  <2>1. /\ L2Row(m).ns = row[m].ns
        /\ L2Row(m).content = row[m].content
        /\ L2Row(m).version = row[m].version
        /\ L2Row(m).live = row[m].live
        /\ L2Row(m).meta = row[m].meta \cup {"l2"}
    BY <1>1 DEF L2Row, Rows
  <2>2. KeepsMeta(row[m], L2Row(m))
    BY <2>1 DEF KeepsMeta
  <2>3. QED
    BY <1>2, <2>1, <2>2, L2RowType
<1>9. QED
  BY <1>3, <1>4, <1>5, <1>6, <1>7, <1>8

\* The insert holds the fresh id, which had no row and whose tasks were idle.
LEMMA InsertHold ==
    ASSUME TypeOK, HoldInv, NEW r \in Reqs, CreateInsert(r)
    PROVE  HoldInv'
<1>1. PICK m \in MemIds :
        /\ tx[r].pc = "insert" /\ Fresh(m)
        /\ \/ /\ Write(r, m, NewRow(tx[r]))
              /\ tx' = [p \in Procs |->
                          IF p = r THEN [tx[r] EXCEPT !.pc = "commit", !.m = m, !.kind = "inserted"]
                          ELSE IF p \in Kinds \X {m} THEN [Idle EXCEPT !.pc = "start", !.m = m]
                          ELSE tx[p]]
           \/ Goto(r, [tx[r] EXCEPT !.pc = "relookup"])
  BY DEF CreateInsert
<1>2. tx[r] \in Txs /\ ReadOK(r, tx[r]) /\ r \in Procs /\ r \notin Tasks /\ r # None
  BY VaultAssumption DEF TypeOK, HoldInv, ReadInv, Procs
<1>3. CASE Goto(r, [tx[r] EXCEPT !.pc = "relookup"])
  <2> DEFINE t == [tx[r] EXCEPT !.pc = "relookup"]
  <2>1. t \in Txs /\ t.pc = "relookup" /\ t.todo = tx[r].todo
    BY <1>2 DEF Txs, Phases
  <2>2. ReadOK(r, t)
    BY <1>2, <2>1 DEF ReadOK
  <2> HIDE DEF t
  <2>3. tx' = [tx EXCEPT ![r] = t] /\ UNCHANGED <<row, dirty, lock>>
    BY <1>3 DEF Goto, t
  <2>4. QED
    BY <1>1, <1>2, <2>1, <2>2, <2>3, GotoHold DEF Holding
<1>4. CASE Write(r, m, NewRow(tx[r])) /\ ~Goto(r, [tx[r] EXCEPT !.pc = "relookup"])
  <2>1. /\ lock[m] = None /\ row' = row /\ row[m].version = 0
        /\ dirty' = [dirty EXCEPT ![m] = NewRow(tx[r])] /\ lock' = [lock EXCEPT ![m] = r]
    BY <1>1, <1>4 DEF Write, MustWait, Fresh
  <2>2. \A q \in Kinds \X {m} : q \in Procs /\ tx[q].pc = "idle"
    BY <1>1 DEF Fresh, Procs, Tasks
  <2>3. row[m] = NoRow
    BY <2>1 DEF HoldInv, BlankInv
  <2>4. ASSUME NEW q \in Procs
        PROVE  \/ q = r /\ tx'[q] = [tx[r] EXCEPT !.pc = "commit", !.m = m, !.kind = "inserted"]
               \/ q # r /\ tx[q].pc = "idle" /\ tx'[q] = [Idle EXCEPT !.pc = "start", !.m = m]
               \/ q # r /\ tx'[q] = tx[q]
    BY <1>1, <1>4, <2>2
  <2>5. /\ NewRow(tx[r]).version = 1 /\ NewRow(tx[r]).live = TRUE
    BY DEF NewRow, NoRow
  <2>6. /\ tx'[r].pc = "commit" /\ tx'[r].m = m /\ tx'[r].op = tx[r].op
        /\ tx'[r].todo = tx[r].todo
    BY <1>2, <2>4 DEF Txs
  <2>7. BlankInv'
    BY <2>1 DEF HoldInv, BlankInv
  <2>8. ReadInv'
    <3> SUFFICES ASSUME NEW q \in Procs
                 PROVE  ReadOK(q, tx[q])'
      BY DEF ReadInv
    <3>1. CASE q = r
      BY <1>2, <2>1, <2>6, <3>1 DEF ReadOK, TypeOK
    <3>2. CASE tx'[q] = [Idle EXCEPT !.pc = "start", !.m = m]
      BY <3>2 DEF ReadOK, Idle
    <3>3. CASE q # r /\ tx'[q] = tx[q]
      <4>1. ReadOK(q, tx[q])
        BY DEF HoldInv, ReadInv
      <4>2. q # None
        BY VaultAssumption
      <4>3. QED
        BY <2>1, <3>3, <4>1, <4>2 DEF ReadOK, TypeOK
    <3>4. QED
      BY <2>4, <3>1, <3>2, <3>3
  <2>9. HeldInv'
    <3> SUFFICES ASSUME NEW x \in MemIds, lock'[x] # None
                 PROVE  HeldOK(x, tx'[lock'[x]], row[x], dirty'[x])
      BY <2>1 DEF HeldInv
    <3>1. CASE x = m
      <4>1. lock'[x] = r /\ dirty'[x] = NewRow(tx[r])
        BY <2>1, <3>1 DEF TypeOK
      <4>2. QED
        BY <2>3, <2>5, <2>6, <3>1, <4>1 DEF HeldOK, Holding, MovesKey, KeepsMeta, NoRow
    <3>2. CASE x # m
      <4>1. lock'[x] = lock[x] /\ dirty'[x] = dirty[x] /\ lock[x] \in Procs
        BY <2>1, <3>2 DEF TypeOK
      <4>2. HeldOK(x, tx[lock[x]], row[x], dirty[x]) /\ tx[lock[x]].pc \in Holding
        BY <4>1 DEF HoldInv, HeldInv, HeldOK
      <4>3. tx'[lock[x]] = tx[lock[x]]
        BY <1>1, <2>4, <4>1, <4>2 DEF Holding
      <4>4. QED
        BY <4>1, <4>2, <4>3
    <3>3. QED
      BY <3>1, <3>2
  <2>10. QED
    BY <2>7, <2>8, <2>9 DEF HoldInv
<1>5. QED
  BY <1>1, <1>3, <1>4

\* What a request reads when it starts is committed.
LEMMA StartHold ==
    ASSUME TypeOK, TableInv, HoldInv, NEW r \in Reqs, RequestStart(r)
    PROVE  HoldInv'
<1>0. r \in Procs /\ r \notin Tasks
  BY VaultAssumption DEF Procs
<1>1. ASSUME NEW op, NEW t, Accept(r, op, t), ReadOK(r, t)
      PROVE  HoldInv'
  BY <1>0, <1>1, GotoHold DEF Accept, Holding
<1>2. \A m \in MemIds : row[m].live => row[m].version > 0
  BY DEF TableInv, RowInv, LiveRow
<1>3. CASE CreateStart(r)
  <2>1. PICK n, c, ttl :
          Accept(r, "create", [Idle EXCEPT !.pc = "lookup", !.op = "create",
                                           !.ns = n, !.c = c, !.ttl = ttl])
    BY <1>3, Zenon DEF CreateStart
  <2> DEFINE t == [Idle EXCEPT !.pc = "lookup", !.op = "create", !.ns = n, !.c = c, !.ttl = ttl]
  <2>2. ReadOK(r, t)
    BY <1>0 DEF ReadOK, Idle
  <2>3. QED
    BY <1>1, <2>1, <2>2
<1>4. CASE GetStart(r)
  <2>1. PICK m \in MemIds :
          /\ row[m].live
          /\ Accept(r, "get", [Idle EXCEPT !.pc = "bump", !.op = "get", !.m = m,
                                           !.kind = "ok", !.snap = Seen(m)])
    BY <1>4 DEF GetStart, Active
  <2> DEFINE t == [Idle EXCEPT !.pc = "bump", !.op = "get", !.m = m, !.kind = "ok",
                               !.snap = Seen(m)]
  <2>2. ReadOK(r, t)
    BY <1>0, <1>2, <2>1 DEF ReadOK, Idle
  <2>3. QED
    BY <1>1, <2>1, <2>2
<1>5. CASE UpdateStart(r)
  <2>1. PICK m \in MemIds, c \in Contents \cup {None}, meta \in BOOLEAN, ttl \in 0..MaxNow :
          /\ row[m].live
          /\ Accept(r, "update", [Idle EXCEPT !.pc = "collide", !.op = "update", !.m = m, !.c = c,
                                              !.meta = meta, !.ttl = ttl, !.kind = "ok",
                                              !.snap = Seen(m)])
    BY <1>5, Zenon DEF UpdateStart, Active
  <2> DEFINE t == [Idle EXCEPT !.pc = "collide", !.op = "update", !.m = m, !.c = c,
                               !.meta = meta, !.ttl = ttl, !.kind = "ok", !.snap = Seen(m)]
  <2>2. ReadOK(r, t)
    BY <1>0, <1>2, <2>1 DEF ReadOK, Idle
  <2>3. QED
    BY <1>1, <2>1, <2>2
<1>6. CASE DeleteStart(r)
  <2>1. PICK m \in MemIds :
          /\ row[m].live
          /\ Accept(r, "delete", [Idle EXCEPT !.pc = "write", !.op = "delete", !.m = m,
                                              !.kind = "ok", !.snap = Seen(m)])
    BY <1>6 DEF DeleteStart, Active
  <2> DEFINE t == [Idle EXCEPT !.pc = "write", !.op = "delete", !.m = m, !.kind = "ok",
                               !.snap = Seen(m)]
  <2>2. ReadOK(r, t)
    BY <1>0, <1>2, <2>1 DEF ReadOK, Idle
  <2>3. QED
    BY <1>1, <2>1, <2>2
<1>7. CASE EnrichStart(r)
  <2>1. PICK m \in MemIds :
          /\ row[m].live
          /\ Accept(r, "enrich", [Idle EXCEPT !.pc = "enrich", !.op = "enrich", !.m = m,
                                              !.kind = "ok", !.snap = Seen(m)])
    BY <1>7 DEF EnrichStart
  <2> DEFINE t == [Idle EXCEPT !.pc = "enrich", !.op = "enrich", !.m = m, !.kind = "ok",
                               !.snap = Seen(m)]
  <2>2. ReadOK(r, t)
    BY <1>0, <1>2, <2>1 DEF ReadOK, Idle
  <2>3. QED
    BY <1>1, <2>1, <2>2
<1>8. CASE BatchStart(r)
  <2> DEFINE todo == {m \in MemIds : NeedsEnrichment(m)}
             t == [Idle EXCEPT !.pc = "pick", !.op = "batch", !.kind = "ok", !.todo = todo,
                     !.snap = [m \in MemIds |-> IF m \in todo THEN row[m] ELSE NoRow]]
  <2>1. Accept(r, "batch", t)
    BY <1>8 DEF BatchStart
  <2>2. \A m \in todo : row[m].version > 0
    BY <1>2 DEF NeedsEnrichment
  <2>3. ReadOK(r, t)
    BY <1>0, <2>2 DEF ReadOK, Idle
  <2>4. QED
    BY <1>1, <2>1, <2>3
<1>9. QED
  BY <1>3, <1>4, <1>5, <1>6, <1>7, <1>8 DEF RequestStart

\* The lookups of a create and the pick of a batch find committed rows; the
\* pick sends a soft-deleted one to the failure path.
LEMMA LookupHold ==
    ASSUME TypeOK, PhaseInv, TableInv, HoldInv, NEW r \in Reqs,
           \/ CreateLookup(r) \/ CreateSemantic(r) \/ CreateRelookup(r) \/ UpdateCollide(r)
           \/ BatchPick(r)
    PROVE  HoldInv'
<1>0. /\ r \in Procs /\ r \notin Tasks /\ tx[r] \in Txs /\ ReadOK(r, tx[r]) /\ PhaseOK(tx[r])
  BY VaultAssumption DEF TypeOK, PhaseInv, HoldInv, ReadInv, Procs
<1>1. ASSUME NEW t, Goto(r, t), ReadOK(r, t), tx[r].pc # "commit",
             tx[r].pc \in Holding => t.pc \in Holding
      PROVE  HoldInv'
  BY <1>0, <1>1, GotoHold DEF Goto
<1>2. \A m \in MemIds : row[m].live => row[m].version > 0
  BY DEF TableInv, RowInv, LiveRow
<1>3. ASSUME NEW m \in MemIds, row[m].live, NEW k \in {"exact", "semantic"},
             tx[r].pc \in {"lookup", "semantic", "relookup"},
             Goto(r, [tx[r] EXCEPT !.pc = "bump", !.m = m, !.kind = k, !.snap = Seen(m)])
      PROVE  HoldInv'
  <2> DEFINE t == [tx[r] EXCEPT !.pc = "bump", !.m = m, !.kind = k, !.snap = Seen(m)]
  <2>1. t.pc = "bump" /\ t.m = m /\ t.todo = tx[r].todo
    BY <1>0 DEF Txs
  <2>2. ReadOK(r, t)
    BY <1>0, <1>2, <1>3, <2>1 DEF ReadOK
  <2>3. QED
    BY <1>1, <1>3, <2>1, <2>2 DEF Holding
<1>4. CASE CreateLookup(r)
  <2>1. CASE Goto(r, [tx[r] EXCEPT !.pc = "semantic"])
    <3>1. /\ [tx[r] EXCEPT !.pc = "semantic"].pc = "semantic"
          /\ [tx[r] EXCEPT !.pc = "semantic"].todo = tx[r].todo
      BY <1>0 DEF Txs
    <3>2. ReadOK(r, [tx[r] EXCEPT !.pc = "semantic"])
      BY <1>0, <3>1 DEF ReadOK
    <3>3. QED
      BY <1>1, <1>4, <2>1, <3>2 DEF CreateLookup, Holding
  <2>2. ASSUME NEW m \in FindByHash(tx[r].ns, tx[r].c),
               Goto(r, [tx[r] EXCEPT !.pc = "bump", !.m = m, !.kind = "exact", !.snap = Seen(m)])
        PROVE  HoldInv'
    <3>1. m \in MemIds /\ row[m].live /\ tx[r].pc \in {"lookup", "semantic", "relookup"}
      BY <1>4, <2>2 DEF CreateLookup, FindByHash
    <3>2. QED
      BY <1>3, <2>2, <3>1
  <2>3. QED
    BY <1>4, <2>1, <2>2, Zenon DEF CreateLookup
<1>5. CASE CreateSemantic(r)
  <2>1. ASSUME NEW f \in BOOLEAN, Goto(r, [tx[r] EXCEPT !.pc = "insert", !.skipped = f])
        PROVE  HoldInv'
    <3>1. /\ [tx[r] EXCEPT !.pc = "insert", !.skipped = f].pc = "insert"
          /\ [tx[r] EXCEPT !.pc = "insert", !.skipped = f].todo = tx[r].todo
      BY <1>0 DEF Txs
    <3>2. ReadOK(r, [tx[r] EXCEPT !.pc = "insert", !.skipped = f])
      BY <1>0, <3>1 DEF ReadOK
    <3>3. QED
      BY <1>1, <1>5, <2>1, <3>2 DEF CreateSemantic, Holding
  <2>2. ASSUME NEW m \in FindSemantic(tx[r].ns, tx[r].c),
               Goto(r, [tx[r] EXCEPT !.pc = "bump", !.m = m, !.kind = "semantic", !.snap = Seen(m)])
        PROVE  HoldInv'
    <3>1. m \in MemIds /\ row[m].live /\ tx[r].pc \in {"lookup", "semantic", "relookup"}
      BY <1>5, <2>2 DEF CreateSemantic, FindSemantic
    <3>2. QED
      BY <1>3, <2>2, <3>1
  <2>3. QED
    BY <1>5, <2>1, <2>2, Zenon DEF CreateSemantic
<1>6. CASE CreateRelookup(r)
  <2>1. ASSUME NEW m \in FindByHash(tx[r].ns, tx[r].c),
               Goto(r, [tx[r] EXCEPT !.pc = "bump", !.m = m, !.kind = "exact", !.snap = Seen(m)])
        PROVE  HoldInv'
    <3>1. m \in MemIds /\ row[m].live /\ tx[r].pc \in {"lookup", "semantic", "relookup"}
      BY <1>6, <2>1 DEF CreateRelookup, FindByHash
    <3>2. QED
      BY <1>3, <2>1, <3>1
  <2>2. QED
    BY <1>0, <1>6, <2>1, RollbackHold DEF CreateRelookup
<1>7. CASE UpdateCollide(r)
  <2>1. CASE Goto(r, [tx[r] EXCEPT !.pc = "write"])
    <3> DEFINE t == [tx[r] EXCEPT !.pc = "write"]
    <3>1. t.pc = "write" /\ t.todo = tx[r].todo /\ t.m = tx[r].m
      BY <1>0 DEF Txs
    <3>2. ReadOK(r, t)
      BY <1>0, <1>7, <3>1 DEF ReadOK, UpdateCollide
    <3>3. QED
      BY <1>1, <1>7, <2>1, <3>2 DEF UpdateCollide, Holding
  <2>2. QED
    BY <1>0, <1>7, <2>1, RollbackHold DEF UpdateCollide
<1>8. CASE BatchPick(r)
  <2>1. ASSUME NEW m \in tx[r].todo,
               Goto(r, [tx[r] EXCEPT !.pc = IF row[m].live THEN "enrich" ELSE "fail",
                                     !.m = m, !.todo = @ \ {m}])
        PROVE  HoldInv'
    <3> DEFINE t == [tx[r] EXCEPT !.pc = IF row[m].live THEN "enrich" ELSE "fail",
                                  !.m = m, !.todo = @ \ {m}]
    <3>1. /\ t.pc = IF row[m].live THEN "enrich" ELSE "fail"
          /\ t.todo = tx[r].todo \ {m} /\ t.m = m
      BY <1>0 DEF Txs
    <3>2. ReadOK(r, t)
      BY <1>0, <3>1 DEF ReadOK
    <3>3. QED
      BY <1>1, <1>8, <2>1, <3>1, <3>2 DEF BatchPick, Holding
  <2>2. CASE Goto(r, [tx[r] EXCEPT !.pc = "commit"]) /\ tx[r].pc = "pick"
    <3> DEFINE t == [tx[r] EXCEPT !.pc = "commit"]
    <3>1. t.pc = "commit" /\ t.todo = tx[r].todo /\ t.op = tx[r].op
      BY <1>0 DEF Txs
    <3>2. ReadOK(r, t)
      BY <1>0, <2>2, <3>1 DEF ReadOK
    <3>3. QED
      BY <1>1, <2>2, <3>1, <3>2 DEF Holding
  <2>3. QED
    BY <1>8, <2>1, <2>2 DEF BatchPick
<1>9. QED
  BY <1>4, <1>5, <1>6, <1>7, <1>8

\* Every write of a request leaves it ready to commit, or a batch ready for
\* its next row.
LEMMA FlushHold ==
    ASSUME TypeOK, PhaseInv, TableInv, HoldInv, NEW r \in Reqs,
           \/ Bump(r) \/ UpdateWrite(r) \/ DeleteWrite(r) \/ EnrichWrite(r) \/ BatchFail(r)
    PROVE  HoldInv'
<1> DEFINE m == tx[r].m
           old == tx[r].snap[m]
<1>0. /\ r \in Procs /\ tx[r] \in Txs /\ ReadOK(r, tx[r])
      /\ tx[r].pc \in {"bump", "write", "enrich", "fail"} /\ m \in MemIds /\ old \in Rows
  <2>1. tx[r].pc \in {"bump", "write", "enrich", "fail"}
    BY DEF Bump, UpdateWrite, DeleteWrite, EnrichWrite, BatchFail
  <2>2. r \in Procs
    BY DEF Procs
  <2>3. tx[r] \in Txs /\ ReadOK(r, tx[r]) /\ PhaseOK(tx[r])
    BY <2>2 DEF TypeOK, PhaseInv, HoldInv, ReadInv
  <2>4. m \in MemIds
    BY <2>1, <2>3 DEF PhaseOK
  <2>5. QED
    BY <2>1, <2>2, <2>3, <2>4 DEF Txs
<1>1. row[m].version > 0 /\ \A x \in tx[r].todo : row[x].version > 0
  BY <1>0 DEF ReadOK
<1>2. ASSUME NEW t, t \in {[tx[r] EXCEPT !.pc = "commit"], AfterEnrich(r)}
      PROVE  /\ t \in Txs /\ t.pc \in {"pick", "commit"} /\ t.m = m /\ t.todo = tx[r].todo
             /\ t.op = tx[r].op /\ t.meta = tx[r].meta /\ (t.pc = "pick" => t.op = "batch")
             /\ t.c = tx[r].c /\ t.ttl = tx[r].ttl
  BY <1>0, <1>2 DEF AfterEnrich, Txs, Phases
<1> HIDE DEF m, old
<1>3. ASSUME NEW t, t \in {[tx[r] EXCEPT !.pc = "commit"], AfterEnrich(r)}, NEW n \in Rows,
             Flush(r, m, n, t), HeldOK(m, t, row[m], n)
      PROVE  HoldInv'
  <2>1. tx[r].pc # "commit"
    BY <1>0
  <2>2. QED
    BY <1>0, <1>1, <1>2, <1>3, <2>1, WriteHold
<1>4. CASE Bump(r)
  <2> DEFINE t == [tx[r] EXCEPT !.pc = "commit"]
  <2>1. Flush(r, m, BumpedRow(m, old), t)
    BY <1>4 DEF Bump, m, old
  <2>2. t \in Txs /\ t.pc \in Holding
    BY <1>2 DEF Holding
  <2> HIDE DEF t
  <2>3. HeldOK(m, t, row[m], BumpedRow(m, old)) /\ BumpedRow(m, old) \in Rows
    BY <1>0, <1>1, <2>2, RowsHeld, BumpedType
  <2>4. QED
    BY <1>3, <2>1, <2>3 DEF t
<1>5. CASE UpdateWrite(r)
  <2> DEFINE t == [tx[r] EXCEPT !.pc = "commit"]
             new == UpdatedRow(m, tx[r], old)
  <2>1. Flush(r, m, new, t) \/ Rollback(r)
    BY <1>5 DEF UpdateWrite, m, old
  <2>2. t \in Txs /\ t.pc = "commit" /\ t.pc \in Holding /\ t.m = m /\ t.op = "update"
    BY <1>0, <1>2, <1>5 DEF Holding, UpdateWrite, Txs
  <2>3. new = UpdatedRow(m, t, old)
    BY <1>2 DEF UpdatedRow
  <2>4. new \in Rows
    BY <1>0, UpdatedRowType
  <2> HIDE DEF t, new
  <2>5. HeldOK(m, t, row[m], new)
    BY <1>0, <1>1, <2>2, <2>3, RowsHeld
  <2>6. QED
    BY <1>0, <1>3, <2>1, <2>4, <2>5, RollbackHold DEF t
<1>6. CASE DeleteWrite(r)
  <2> DEFINE t == [tx[r] EXCEPT !.pc = "commit"]
  <2>1. Flush(r, m, DeletedRow(m), t)
    BY <1>6 DEF DeleteWrite, m
  <2>2. t \in Txs /\ t.pc = "commit" /\ t.pc \in Holding /\ t.m = m
    BY <1>0, <1>2 DEF Holding, Txs
  <2> HIDE DEF t
  <2>3. HeldOK(m, t, row[m], DeletedRow(m)) /\ DeletedRow(m) \in Rows
    BY <1>0, <1>1, <2>2, RowsHeld, DeletedRowType
  <2>4. QED
    BY <1>3, <2>1, <2>3 DEF t
<1>7. CASE EnrichWrite(r)
  <2> DEFINE t == AfterEnrich(r)
  <2>1. PICK e \in BOOLEAN : Flush(r, m, EnrichedRow(m, old, e), t)
    BY <1>7 DEF EnrichWrite, m, old
  <2>2. t \in Txs /\ t.pc \in Holding
    BY <1>2 DEF Holding
  <2> HIDE DEF t
  <2>3. HeldOK(m, t, row[m], EnrichedRow(m, old, e)) /\ EnrichedRow(m, old, e) \in Rows
    BY <1>0, <1>1, <2>2, RowsHeld, EnrichedRowType
  <2>4. QED
    BY <1>3, <2>1, <2>3 DEF t
<1>8. CASE BatchFail(r)
  <2> DEFINE t == AfterEnrich(r)
  <2>1. Flush(r, m, FailedRow(m, old), t) /\ ~row[m].live
    BY <1>0, <1>8 DEF BatchFail, ReadOK, m, old
  <2>2. t \in Txs /\ t.pc \in Holding
    BY <1>2 DEF Holding
  <2> HIDE DEF t
  <2>3. HeldOK(m, t, row[m], FailedRow(m, old)) /\ FailedRow(m, old) \in Rows
    BY <1>0, <1>1, <2>1, <2>2, RowsHeld, FailedRowType
  <2>4. QED
    BY <1>3, <2>1, <2>3 DEF t
<1>9. QED
  BY <1>4, <1>5, <1>6, <1>7, <1>8

LEMMA TaskHold ==
    ASSUME TypeOK, PhaseInv, TableInv, HoldInv, NEW p \in Tasks, TaskRead(p) \/ TaskWrite(p)
    PROVE  HoldInv'
<1> DEFINE m == p[2]
           old == tx[p].snap[m]
<1>0. p \in Procs /\ tx[p] \in Txs /\ ReadOK(p, tx[p]) /\ m \in MemIds /\ old \in Rows
  BY DEF TypeOK, HoldInv, ReadInv, Procs, Tasks, Txs
<1>1. CASE TaskRead(p)
  <2>0. tx[p].pc = "start" /\ tx[p].pc \notin Holding
    BY <1>1 DEF TaskRead, Holding
  <2>1. CASE Goto(p, Idle)
    BY <1>0, <2>0, <2>1, IdleRead, GotoHold DEF Goto
  <2>2. CASE Goto(p, [tx[p] EXCEPT !.pc = "write", !.m = m, !.snap = Seen(m)])
             /\ (row[m].live \/ row[m].version > 0)
    <3> DEFINE t == [tx[p] EXCEPT !.pc = "write", !.m = m, !.snap = Seen(m)]
    <3>1. t.pc = "write" /\ t.m = m /\ t.todo = tx[p].todo /\ t.op = tx[p].op
      BY <1>0 DEF Txs
    <3>2. row[m].version > 0
      BY <1>0, <2>2 DEF TableInv, RowInv, LiveRow
    <3>3. ReadOK(p, t)
      BY <1>0, <3>1, <3>2 DEF ReadOK
    <3>4. tx' = [tx EXCEPT ![p] = t] /\ UNCHANGED <<row, dirty, lock>>
      BY <2>2 DEF Goto
    <3> HIDE DEF t
    <3>5. QED
      BY <1>0, <2>0, <3>3, <3>4, GotoHold
  <2>3. QED
    BY <1>1, <2>1, <2>2 DEF TaskRead
<1>2. CASE TaskWrite(p)
  <2> DEFINE t == [tx[p] EXCEPT !.pc = "commit"]
  <2>1. tx[p].pc = "write" /\ tx[p].m = m /\ row[m].version > 0
    BY <1>0, <1>2 DEF TaskWrite, ReadOK
  <2>2. /\ t \in Txs /\ t.pc = "commit" /\ t.pc \in Holding /\ t.m = m
        /\ t.todo = tx[p].todo /\ t.op = tx[p].op
    BY <1>0, <2>1 DEF Txs, Phases, Holding
  <2>3. \A x \in t.todo : row[x].version > 0
    BY <1>0, <2>2 DEF ReadOK
  <2>4. PICK n \in Rows : Flush(p, m, n, t) /\ HeldOK(m, t, row[m], n)
    <3> HIDE DEF t
    <3>1. /\ \A e \in BOOLEAN : /\ HeldOK(m, t, row[m], EnrichedRow(m, old, e))
                                /\ EnrichedRow(m, old, e) \in Rows
          /\ HeldOK(m, t, row[m], L2Row(m)) /\ L2Row(m) \in Rows
      BY <1>0, <2>1, <2>2, RowsHeld, EnrichedRowType, L2RowType
    <3>2. \/ \E e \in BOOLEAN : Flush(p, m, EnrichedRow(m, old, e), t)
          \/ Flush(p, m, L2Row(m), t)
      BY <1>2 DEF TaskWrite, t
    <3>3. QED
      BY <3>1, <3>2
  <2>5. tx[p].pc # "commit"
    BY <2>1
  <2> HIDE DEF t, m
  <2>6. QED
    BY <1>0, <2>2, <2>3, <2>4, <2>5, WriteHold
<1>3. QED
  BY <1>1, <1>2

LEMMA HoldStep ==
    ASSUME TypeOK, PhaseInv, TableInv, HoldInv, [Next]_vars
    PROVE  HoldInv'
<1>1. ASSUME NEW r \in Reqs, RequestStep(r)
      PROVE  HoldInv'
  <2>1. CASE \/ CreateLookup(r) \/ CreateSemantic(r) \/ CreateRelookup(r) \/ UpdateCollide(r)
             \/ BatchPick(r)
    BY <2>1, LookupHold
  <2>2. CASE \/ Bump(r) \/ UpdateWrite(r) \/ DeleteWrite(r) \/ EnrichWrite(r) \/ BatchFail(r)
    BY <2>2, FlushHold
  <2>3. CASE CreateInsert(r)
    BY <2>3, InsertHold
  <2>4. CASE Commit(r)
    BY <2>4, CommitHold DEF Procs
  <2>5. QED
    BY <1>1, <2>1, <2>2, <2>3, <2>4 DEF RequestStep
<1>2. ASSUME NEW r \in Reqs, RequestStart(r)
      PROVE  HoldInv'
  BY <1>2, StartHold
<1>3. ASSUME NEW r \in Reqs, RequestFails(r) \/ DeadlockVictim(r)
      PROVE  HoldInv'
  BY <1>3, RollbackHold DEF RequestFails, DeadlockVictim, Procs
<1>4. ASSUME NEW p \in Tasks, TaskStep(p) \/ TaskFails(p)
      PROVE  HoldInv'
  BY <1>4, TaskHold, CommitHold, RollbackHold DEF TaskStep, TaskFails, Procs
<1>5. CASE Crash
  <2>1. /\ row' = row /\ \A p \in Procs : tx'[p] = Idle
        /\ \A m \in MemIds : lock'[m] = None
    BY <1>5 DEF Crash
  <2>2. BlankInv' /\ HeldInv'
    BY <2>1 DEF HoldInv, BlankInv, HeldInv
  <2>3. ReadInv'
    BY <2>1 DEF ReadInv, ReadOK, Idle
  <2>4. QED
    BY <2>2, <2>3 DEF HoldInv
<1>6. CASE Tick \/ UNCHANGED vars
  <2>1. UNCHANGED <<row, dirty, lock, tx>>
    BY <1>6 DEF Tick, vars
  <2>2. QED
    BY <2>1 DEF HoldInv, BlankInv, ReadInv, ReadOK, HeldInv, HeldOK
<1>7. QED
  BY <1>1, <1>2, <1>3, <1>4, <1>5, <1>6 DEF Next

LEMMA VaultInit == Init => VaultInv
<1> SUFFICES ASSUME Init PROVE VaultInv
  OBVIOUS
<1>1. TypeOK /\ PhaseInv
  BY NoRowType, IdleType, IdlePhase DEF Init, TypeOK, PhaseInv
<1>2. RowInv /\ IndexInv /\ NoRevival
  BY DEF Init, RowInv, LiveRow, IndexInv, SameKey, NoRevival, NoRow
<1>3. BlankInv /\ HeldInv
  BY DEF Init, BlankInv, HeldInv
<1>4. ReadInv
  BY DEF Init, ReadInv, ReadOK, Idle
<1>5. QED
  BY <1>1, <1>2, <1>3, <1>4 DEF VaultInv

LEMMA VaultNext == VaultInv /\ [Next]_vars => VaultInv'
BY TypeStep, TableStep, HoldStep DEF VaultInv, TableInv, HoldInv

\* The inductive invariant holds: in every reachable state the rows, the
\* locks and the handlers have their types, no two versions of different
\* memories (committed, or flushed by an open transaction) share a key, and
\* no open transaction is about to restore a soft-deleted memory.
THEOREM VaultInvariant == Spec => []VaultInv
BY VaultInit, VaultNext, PTL DEF Spec

\* Every reachable state of the vault is well typed.
THEOREM TypeCorrect == Spec => []TypeOK
<1>1. VaultInv => TypeOK
  BY DEF VaultInv
<1>2. QED
  BY <1>1, VaultInvariant, PTL

\* No interleaving of creates, updates and deletes leaves two active memories
\* with the same namespace and content.
THEOREM ActiveHashesAreUnique == Spec => []UniqueActiveHash
<1>1. VaultInv => UniqueActiveHash
  BY DEF VaultInv, IndexInv, UniqueActiveHash
<1>2. QED
  BY <1>1, VaultInvariant, PTL

\* Committed rows change when a transaction commits, and by nothing else.
LEMMA RowsChangeByCommit ==
    ASSUME [Next]_vars
    PROVE  row' = row \/ \E p \in Procs : Commit(p)
<1>1. ASSUME NEW r \in Reqs, RequestStart(r)
      PROVE  row' = row
  BY <1>1, Zenon DEF RequestStart, CreateStart, GetStart, UpdateStart, DeleteStart, EnrichStart,
                     BatchStart, Accept
<1>2. ASSUME NEW r \in Reqs, RequestStep(r), ~Commit(r)
      PROVE  row' = row
  BY <1>2 DEF RequestStep, CreateLookup, CreateSemantic, CreateInsert, CreateRelookup, Bump,
              UpdateCollide, UpdateWrite, DeleteWrite, BatchPick, EnrichWrite, BatchFail,
              Flush, Write, Goto, Rollback
<1>3. ASSUME NEW p \in Tasks, TaskStep(p), ~Commit(p)
      PROVE  row' = row
  BY <1>3 DEF TaskStep, TaskRead, TaskWrite, Flush, Write, Goto
<1>4. QED
  BY <1>1, <1>2, <1>3 DEF Next, RequestFails, DeadlockVictim, TaskFails, Rollback, Crash,
                          Tick, vars, Procs

\* No step of any handler or task brings a soft-deleted memory back.
THEOREM NothingIsRevived == Spec => DeletedStaysDeleted
<1>1. ASSUME VaultInv, [Next]_vars, NEW m \in MemIds, row[m].version > 0, ~row[m].live
      PROVE  ~row'[m].live
  <2>1. row' = row
        \/ \E p \in Procs : row' = [x \in MemIds |-> IF lock[x] = p THEN dirty[x] ELSE row[x]]
    BY <1>1, RowsChangeByCommit DEF Commit
  <2>2. QED
    BY <1>1, <2>1, VaultAssumption DEF VaultInv, NoRevival, TypeOK
<1>2. VaultInv /\ [Next]_vars => [\A m \in MemIds : row[m].version > 0 /\ ~row[m].live => ~row'[m].live]_vars
  BY <1>1
<1>3. QED
  BY <1>2, VaultInvariant, PTL DEF Spec, DeletedStaysDeleted

\* Of the keys that enrichment and the L2 stage merged into a memory's
\* metadata, a commit removes none, unless it is the commit of an update that
\* replaces the metadata: the two writers never clobber each other.
THEOREM MergedKeysSurvive == Spec => MergeKeepsKeys
<1> DEFINE Kept == \A m \in MemIds : \A k \in {"enrichment", "l2"} :
                     k \in row[m].meta /\ row'[m].live /\ k \notin row'[m].meta
                        => \E r \in Reqs : lock[m] = r /\ tx[r].op = "update" /\ tx[r].meta
<1>1. ASSUME VaultInv, [Next]_vars, NEW m \in MemIds, NEW k \in {"enrichment", "l2"},
             k \in row[m].meta, row'[m].live, k \notin row'[m].meta
      PROVE  \E r \in Reqs : lock[m] = r /\ tx[r].op = "update" /\ tx[r].meta
  <2>1. PICK p \in Procs : Commit(p)
    BY <1>1, RowsChangeByCommit
  <2>2. lock[m] = p /\ row'[m] = dirty[m] /\ p # None
    BY <1>1, <2>1, VaultAssumption DEF Commit
  <2>3. HeldOK(m, tx[p], row[m], dirty[m])
    BY <1>1, <2>2 DEF VaultInv, HeldInv
  <2>4. tx[p].op = "update" /\ tx[p].meta
    BY <1>1, <2>2, <2>3 DEF HeldOK, KeepsMeta
  <2>5. p \in Reqs
    BY <1>1, <2>4 DEF VaultInv, ReadInv, ReadOK, Procs
  <2>6. QED
    BY <2>2, <2>4, <2>5
<1>2. VaultInv /\ [Next]_vars => [Kept]_vars
  BY <1>1
<1>3. QED
  BY <1>2, VaultInvariant, PTL DEF Spec, MergeKeepsKeys

\* A create is answered with a memory that is committed by then: its own
\* insert, or the row that deduplication found.
THEOREM CreatesAnswerCommittedRows == Spec => AnswersNameCommittedRows
<1> DEFINE Named == \A r \in Reqs : Commit(r) /\ tx[r].op = "create" => row'[tx[r].m].version > 0
<1>1. ASSUME VaultInv, NEW r \in Reqs, Commit(r), tx[r].op = "create"
      PROVE  row'[tx[r].m].version > 0
  <2>1. tx[r].m \in MemIds /\ lock[tx[r].m] = r /\ r # None
    BY <1>1, VaultAssumption DEF VaultInv, ReadInv, ReadOK, Commit, Procs
  <2>2. dirty[tx[r].m].version > 0
    BY <1>1, <2>1 DEF VaultInv, HeldInv, HeldOK
  <2>3. QED
    BY <1>1, <2>1, <2>2 DEF Commit
<1>2. VaultInv /\ [Next]_vars => [Named]_vars
  BY <1>1
<1>3. QED
  BY <1>2, VaultInvariant, PTL DEF Spec, AnswersNameCommittedRows

-----------------------------------------------------------------------------
(* The committed rows implement KeyedStore.                                *)

\* What the abstract store sees of a row.
Key(r) == IF r.live THEN <<r.ns, r.content>> ELSE None
Gone(r) == r.version > 0 /\ ~r.live

\* A commit that only keeps keys is invisible to the abstract store.
LEMMA KeptKeys ==
    ASSUME NEW r \in Rows, NEW d \in Rows, d.version > 0, KeepsKey(r, d)
    PROVE  Key(d) = Key(r) /\ (Gone(d) <=> Gone(r))
BY DEF KeepsKey, Key, Gone

\* The memory whose key a commit moves holds a key nobody else holds.
LEMMA MovedKeyIsFree ==
    ASSUME VaultInv, NEW m \in MemIds, lock[m] # None, dirty[m].live, NEW i \in MemIds, i # m
    PROVE  Key(row[i]) # Key(dirty[m])
<1>1. ~SameKey(row[i], dirty[m])
  BY DEF VaultInv, IndexInv
<1>2. Key(dirty[m]) = <<dirty[m].ns, dirty[m].content>> /\ Key(dirty[m]) # None
  BY VaultAssumption DEF Key, VaultInv, RowInv, LiveRow
<1>3. QED
  BY <1>1, <1>2 DEF Key, SameKey

\* Each commit is one step of the store, or none.
LEMMA CommitIsStoreStep ==
    ASSUME VaultInv, NEW p \in Procs, Commit(p)
    PROVE  [Store!Next]_(Store!kvars)
<1> DEFINE holds == [m \in MemIds |-> IF row[m].live THEN <<row[m].ns, row[m].content>> ELSE None]
           dropped == {m \in MemIds : row[m].version > 0 /\ ~row[m].live}
<1>0. /\ TypeOK /\ p # None
      /\ row' = [m \in MemIds |-> IF lock[m] = p THEN dirty[m] ELSE row[m]]
  BY VaultAssumption DEF VaultInv, Commit
<1>1. /\ \A m \in MemIds : holds[m] = Key(row[m]) /\ holds'[m] = Key(row'[m])
      /\ \A m \in MemIds : (m \in dropped <=> Gone(row[m])) /\ (m \in dropped' <=> Gone(row'[m]))
  BY DEF Key, Gone
<1>2. \A m \in MemIds : lock[m] = p => HeldOK(m, tx[p], row[m], dirty[m])
  BY <1>0 DEF VaultInv, HeldInv
<1>3. ASSUME NEW m \in MemIds, lock[m] = p => KeepsKey(row[m], dirty[m])
      PROVE  Key(row'[m]) = Key(row[m]) /\ (Gone(row'[m]) <=> Gone(row[m]))
  <2>1. CASE lock[m] # p
    BY <1>0, <2>1
  <2>2. CASE lock[m] = p
    <3>1. dirty[m] \in Rows /\ row[m] \in Rows /\ dirty[m].version > 0 /\ row'[m] = dirty[m]
      BY <1>0, <1>2, <2>2 DEF TypeOK, HeldOK
    <3>2. QED
      BY <1>3, <2>2, <3>1, KeptKeys
  <2>3. QED
    BY <2>1, <2>2
<1>4. CASE \A m \in MemIds : lock[m] = p => KeepsKey(row[m], dirty[m])
  <2>1. holds' = holds
    BY <1>1, <1>3, <1>4
  <2>2. dropped' = dropped
    BY <1>1, <1>3, <1>4
  <2>3. QED
    BY <2>1, <2>2 DEF Store!kvars
<1>5. CASE \E m \in MemIds : lock[m] = p /\ ~KeepsKey(row[m], dirty[m])
  <2>1. PICK m \in MemIds : lock[m] = p /\ ~KeepsKey(row[m], dirty[m])
    BY <1>5
  <2> DEFINE r == row[m]
             d == dirty[m]
  <2>2. /\ tx[p].m = m /\ MovesKey(r, d) /\ d.version > 0
        /\ r \in Rows /\ d \in Rows /\ row'[m] = d
    BY <1>0, <1>2, <2>1 DEF HeldOK, TypeOK
  <2>3. \A i \in MemIds \ {m} :
          Key(row'[i]) = Key(row[i]) /\ (Gone(row'[i]) <=> Gone(row[i]))
    <3> TAKE i \in MemIds \ {m}
    <3>1. lock[i] = p => KeepsKey(row[i], dirty[i])
      BY <1>2, <2>2 DEF HeldOK
    <3>2. QED
      BY <1>3, <3>1
  <2>4. LiveRow(r) /\ LiveRow(d)
    BY <1>0, <2>1 DEF VaultInv, RowInv
  <2>5. d.live => Key(d) = <<d.ns, d.content>> /\ d.ns \in Spaces /\ d.content \in Contents
                  /\ Key(d) # None
    BY <2>4, VaultAssumption DEF LiveRow, Key
  <2>6. d.live => \A i \in MemIds \ {m} : holds[i] # Key(d)
    <3>1. ASSUME d.live, NEW i \in MemIds \ {m}
          PROVE  holds[i] # Key(d)
      <4>1. Key(row[i]) # Key(dirty[m])
        BY <1>0, <2>1, <3>1, MovedKeyIsFree
      <4>2. QED
        BY <1>1, <4>1
    <3>2. QED
      BY <3>1
  <2>7. holds' = [holds EXCEPT ![m] = Key(d)]
    <3>1. holds = [x \in MemIds |-> Key(row[x])] /\ holds' = [x \in MemIds |-> Key(row'[x])]
      BY DEF Key
    <3>2. \A x \in MemIds : Key(row'[x]) = IF x = m THEN Key(d) ELSE Key(row[x])
      BY <2>2, <2>3
    <3> HIDE DEF holds, d
    <3>3. QED
      BY <3>1, <3>2
  <2>8. r.version \in Nat /\ r.live \in BOOLEAN /\ d.live \in BOOLEAN
    BY <2>2 DEF Rows
  <2>9. CASE r.version = 0 /\ d.live
    <3>1. ~r.live /\ holds[m] = None /\ m \notin dropped
      BY <1>1, <2>4, <2>9 DEF LiveRow, Key, Gone
    <3>2. dropped' = dropped
      <4>1. ~Gone(row'[m])
        BY <2>2, <2>9 DEF Gone
      <4>2. QED
        BY <1>1, <2>3, <3>1, <4>1
    <3>3. \A i \in MemIds : holds[i] # Key(d)
      BY <2>5, <2>6, <2>9, <3>1
    <3> HIDE DEF holds, dropped
    <3>4. \E k \in Spaces \X Contents :
            /\ holds[m] = None /\ m \notin dropped /\ \A i \in MemIds : holds[i] # k
            /\ holds' = [holds EXCEPT ![m] = k] /\ dropped' = dropped
      BY <2>5, <2>7, <2>9, <3>1, <3>2, <3>3
    <3>5. Store!Next
      BY <3>4 DEF Store!Next, Store!Put, Store!Free, Store!Keys, holds, dropped
    <3>6. QED
      BY <3>5
  <2>10. CASE r.live /\ ~d.live
    <3>1. holds[m] # None
      BY <1>1, <2>4, <2>10, VaultAssumption DEF LiveRow, Key
    <3>2. Key(d) = None /\ Gone(row'[m])
      BY <2>2, <2>10 DEF Key, Gone
    <3>3. dropped' = dropped \cup {m}
      BY <1>1, <2>3, <3>2
    <3> HIDE DEF holds, dropped
    <3>4. holds[m] # None /\ holds' = [holds EXCEPT ![m] = None] /\ dropped' = dropped \cup {m}
      BY <2>7, <3>1, <3>2, <3>3
    <3>5. Store!Next
      BY <3>4 DEF Store!Next, Store!Drop, holds, dropped
    <3>6. QED
      BY <3>5
  <2>11. CASE r.live /\ d.live /\ d.ns = r.ns
    <3>1. holds[m] = <<d.ns, r.content>> /\ r.content \in Contents /\ r.content # d.content
      BY <1>1, <2>1, <2>4, <2>8, <2>11 DEF LiveRow, Key, KeepsKey
    <3>2. dropped' = dropped
      <4>1. ~Gone(row'[m]) /\ ~Gone(row[m])
        BY <2>2, <2>11 DEF Gone
      <4>2. QED
        BY <1>1, <2>3, <4>1
    <3>3. \A i \in MemIds : holds[i] # <<d.ns, d.content>>
      BY <2>5, <2>6, <2>11, <3>1
    <3> HIDE DEF holds, dropped
    <3>4. \E n \in Spaces, v, w \in Contents :
            /\ holds[m] = <<n, v>> /\ \A i \in MemIds : holds[i] # <<n, w>>
            /\ holds' = [holds EXCEPT ![m] = <<n, w>>] /\ dropped' = dropped
      BY <2>5, <2>7, <2>11, <3>1, <3>2, <3>3
    <3>5. Store!Next
      BY <3>4 DEF Store!Next, Store!Rekey, Store!Free, holds, dropped
    <3>6. QED
      BY <3>5
  <2>12. QED
    BY <2>2, <2>9, <2>10, <2>11 DEF MovesKey
<1>6. QED
  BY <1>4, <1>5

\* Without transactions, locks and handlers, the vault is a store of unique
\* keys: every commit puts a free key under a new id, moves an id to a free
\* key, drops an id for good, or leaves the keys alone.
THEOREM VaultImplementsStore == Spec => StoreSpec
<1>1. Init => Store!Init
  BY DEF Init, Store!Init, NoRow
<1>2. VaultInv /\ [Next]_vars => [Store!Next]_(Store!kvars)
  <2> SUFFICES ASSUME VaultInv, [Next]_vars
               PROVE  [Store!Next]_(Store!kvars)
    OBVIOUS
  <2>1. CASE row' = row
    BY <2>1 DEF Store!kvars
  <2>2. QED
    BY <2>1, RowsChangeByCommit, CommitIsStoreStep
<1>3. QED
  BY <1>1, <1>2, VaultInvariant, PTL DEF Spec, StoreSpec, Store!Spec

=============================================================================
