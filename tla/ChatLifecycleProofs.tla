------------------------- MODULE ChatLifecycleProofs -------------------------
(***************************************************************************)
(* Proofs about ChatLifecycle, for any number of requests, tasks, turns    *)
(* and namespaces.                                                         *)
(***************************************************************************)
EXTENDS ChatLifecycle, TLAPS

LEMMA NoChatType == NoChat \in Chats
BY DEF NoChat, Chats, Empty, Bodies

LEMMA IdleType == Idle \in States
BY NoChatType DEF Idle, States, Phases, Intents, Empty, Bodies

LEMMA IdleRead == ReadOK(Idle) /\ ~Idle.snap.live
BY DEF ReadOK, Idle, NoChat

-----------------------------------------------------------------------------
(* The two ways an action leaves proc.                                     *)

\* Rows and turns are never removed.
Grows ==
    /\ chat.exists => chat'.exists
    /\ \A t \in Turns : turns[t] # None => turns'[t] # None

LEMMA BeginKeeps ==
    ASSUME TypeOK, ReadInv, NEW p \in Procs, NEW r \in States, Begin(p, r), ReadOK(r),
           r.snap.live => chat.exists, Grows,
           \A t \in Turns : r.seen[t] # None => turns[t] # None
    PROVE  proc' \in [Procs -> States] /\ ReadInv'
BY DEF TypeOK, ReadInv, ReadOK, Begin, Grows

LEMMA EndKeeps ==
    ASSUME TypeOK, ReadInv, NEW p \in Procs, End(p), Grows
    PROVE  proc' \in [Procs -> States] /\ ReadInv'
<1>1. ReadOK(Idle) /\ ~Idle.snap.live /\ \A t \in Turns : Idle.seen[t] = None
  BY IdleRead DEF Idle, Empty
<1>2. QED
  BY <1>1, IdleType, BeginKeeps DEF End

\* The columns a handler keeps of the row it read.
LEMMA ReadType ==
    ASSUME TypeOK, NEW K
    PROVE  /\ Read(K) \in Chats
           /\ Read(K).live = chat.live /\ Read(K).ns = chat.ns
BY DEF TypeOK, Read, Chats, Empty, Bodies

LEMMA ScheduleType ==
    ASSUME TypeOK, NEW K, Schedule(K)
    PROVE  queued' \in [KindNames -> Nat]
BY DEF TypeOK, Schedule

LEMMA MergeType ==
    ASSUME TypeOK, NEW push \in Bodies
    PROVE  Merge(push) \in Bodies
BY DEF TypeOK, Merge, Bodies

\* A pushed body is typed, and an upsert stores its turns with artifacts.
LEMMA MergeSync ==
    ASSUME TypeOK, RowInv, NEW push \in Bodies, NEW ns \in Spaces
    PROVE  /\ Sync(Merge(push), ns) \in [Turns -> Spaces \cup {None}]
           /\ \A t \in Turns : Merge(push)[t] = None <=> Sync(Merge(push), ns)[t] = None
BY ChatAssumption DEF TypeOK, Merge, Sync, Bodies

LEMMA AttachType ==
    ASSUME TypeOK, NEW push \in Bodies, NEW ns \in Spaces
    PROVE  Attach(push, ns) \in [Turns -> Spaces \cup {None}]
BY DEF TypeOK, Attach

\* Actions that only start a handler or move it on keep the invariant.
LEMMA StartKeeps ==
    ASSUME ChatInv, NEW p \in Procs, NEW r \in States, Begin(p, r), ReadOK(r),
           r.snap.live => chat.exists,
           \A t \in Turns : r.seen[t] # None => turns[t] # None,
           UNCHANGED <<chat, turns, artNs, members>>, queued' \in [KindNames -> Nat]
    PROVE  ChatInv'
<1>1. TypeOK /\ ReadInv /\ RowInv
  BY DEF ChatInv
<1>2. proc' \in [Procs -> States] /\ ReadInv'
  BY <1>1, BeginKeeps DEF Grows
<1>3. TypeOK' /\ RowInv'
  BY <1>1, <1>2 DEF TypeOK, RowInv
<1>4. QED
  BY <1>2, <1>3 DEF ChatInv

LEMMA StopKeeps ==
    ASSUME ChatInv, NEW p \in Procs, End(p),
           UNCHANGED <<chat, turns, artNs, members>>, queued' \in [KindNames -> Nat]
    PROVE  ChatInv'
<1>1. TypeOK /\ ReadInv /\ RowInv
  BY DEF ChatInv
<1>2. proc' \in [Procs -> States] /\ ReadInv'
  BY <1>1, EndKeeps DEF Grows
<1>3. TypeOK' /\ RowInv'
  BY <1>1, <1>2 DEF TypeOK, RowInv
<1>4. QED
  BY <1>2, <1>3 DEF ChatInv

\* The namespaces an upsert can resolve to.
LEMMA ResolveType ==
    ASSUME NEW ns \in Spaces
    PROVE  Resolve(ns) \subseteq Spaces
BY DEF Resolve

LEMMA DefaultType == Default \in Spaces
BY ChatAssumption

LEMMA UpsertStartKeeps ==
    ASSUME ChatInv, NEW p \in Reqs, UpsertStart(p)
    PROVE  ChatInv'
<1> DEFINE s == IF chat.live THEN Read({"hash"}) ELSE NoChat
<1>1. p \in Procs
  BY DEF Procs
<1>2. PICK push \in Bodies, intent \in Intents :
        \E ns \in IF intent = "named" THEN Spaces ELSE Resolve(Default) :
            Begin(p, [Idle EXCEPT !.pc = "write", !.op = "upsert", !.snap = s,
                                  !.push = push, !.ns = ns, !.intent = intent])
  BY Zenon DEF UpsertStart
<1>3. PICK ns \in IF intent = "named" THEN Spaces ELSE Resolve(Default) :
            Begin(p, [Idle EXCEPT !.pc = "write", !.op = "upsert", !.snap = s,
                                  !.push = push, !.ns = ns, !.intent = intent])
  BY <1>2
<1>4. /\ ns \in Spaces /\ (intent # "named" => ns \in Resolve(Default))
      /\ s \in Chats
      /\ s.live => s.ns \in Spaces /\ chat.exists
  BY <1>3, NoChatType, ReadType, ResolveType, DefaultType DEF ChatInv, RowInv, NoChat
<1> DEFINE r == [Idle EXCEPT !.pc = "write", !.op = "upsert", !.snap = s,
                             !.push = push, !.ns = ns, !.intent = intent]
<1> HIDE DEF s
<1>5. r \in States
  BY <1>4, IdleType DEF States, Phases, OpNames
<1>6. /\ ReadOK(r) /\ (r.snap.live => chat.exists)
      /\ \A t \in Turns : r.seen[t] = None
  BY <1>4 DEF ReadOK, Idle, Empty
<1>7. UNCHANGED <<chat, turns, artNs, members>> /\ queued' \in [KindNames -> Nat]
  BY DEF UpsertStart, ChatInv, TypeOK
<1>8. QED
  BY <1>1, <1>3, <1>5, <1>6, <1>7, StartKeeps

\* What an action that writes must leave behind.
LEMMA WriteKeeps ==
    ASSUME ChatInv, NEW p \in Procs, End(p),
           chat' \in Chats, Grows,
           turns' \in Bodies, artNs' \in [Turns -> Spaces \cup {None}],
           members' \in [Segments -> Nat], queued' \in [KindNames -> Nat],
           RowInv'
    PROVE  ChatInv'
<1>1. TypeOK /\ ReadInv
  BY DEF ChatInv
<1>2. proc' \in [Procs -> States] /\ ReadInv'
  BY <1>1, EndKeeps
<1>3. QED
  BY <1>2 DEF ChatInv, TypeOK

LEMMA UpsertInsertKeeps ==
    ASSUME ChatInv, NEW p \in Reqs, UpsertInsert(p)
    PROVE  ChatInv'
<1>1. /\ p \in Procs /\ proc[p] \in States
      /\ proc[p].push \in Bodies /\ proc[p].ns \in Spaces
  BY DEF Procs, ChatInv, TypeOK, ReadInv, ReadOK, States, UpsertInsert, Inserts, At
<1>2. chat' \in Chats /\ chat'.exists /\ chat'.ns \in Spaces
  BY <1>1, NoChatType DEF UpsertInsert, Chats
<1>3. turns' \in Bodies /\ artNs' \in [Turns -> Spaces \cup {None}]
  BY <1>1, MergeType, AttachType DEF UpsertInsert, ChatInv
<1>4. \A t \in Turns : turns'[t] = None <=> artNs'[t] = None
  BY <1>1, ChatAssumption DEF UpsertInsert, Merge, Attach, ChatInv, RowInv
<1>5. RowInv'
  BY <1>2, <1>4 DEF RowInv
<1>6. members' \in [Segments -> Nat] /\ queued' \in [KindNames -> Nat]
  BY ScheduleType DEF UpsertInsert, ChatInv, TypeOK
<1>7. End(p)
  BY DEF UpsertInsert
<1>8. Grows
  BY <1>1, <1>2 DEF Grows, UpsertInsert, Merge
<1>9. QED
  BY <1>1, <1>2, <1>3, <1>5, <1>6, <1>7, <1>8, WriteKeeps

LEMMA UpsertUpdateKeeps ==
    ASSUME ChatInv, NEW p \in Reqs, UpsertUpdate(p)
    PROVE  ChatInv'
<1>1. /\ p \in Procs /\ proc[p] \in States /\ chat.exists /\ chat \in Chats
      /\ proc[p].push \in Bodies /\ proc[p].ns \in Spaces
      /\ proc[p].snap.ns \in Spaces /\ chat.ns \in Spaces
  BY DEF Procs, ChatInv, TypeOK, ReadInv, RowInv, ReadOK, States, UpsertUpdate, At
<1>2. Kept(p) \in Spaces
  BY <1>1 DEF Kept
<1> DEFINE ns == Column(proc[p].snap.ns, Kept(p), chat.ns)
<1>3. ns \in Spaces
  BY <1>1, <1>2 DEF Column, Chats
<1>4. chat' = [chat EXCEPT !.ns = ns, !.hash = proc[p].push]
  BY DEF UpsertUpdate, UpsertedChat
<1> HIDE DEF ns
<1>5. chat' \in Chats /\ chat'.exists /\ chat'.ns \in Spaces
  BY <1>1, <1>3, <1>4 DEF Chats
<1>6. turns' \in Bodies
  BY <1>1, MergeType DEF UpsertUpdate, ChatInv
<1>7. /\ artNs' \in [Turns -> Spaces \cup {None}]
      /\ \A t \in Turns : turns'[t] = None <=> artNs'[t] = None
  BY <1>1, <1>2, MergeSync DEF UpsertUpdate, ChatInv
<1>8. RowInv'
  BY <1>5, <1>7 DEF RowInv
<1>9. members' \in [Segments -> Nat] /\ queued' \in [KindNames -> Nat]
  BY ScheduleType DEF UpsertUpdate, ChatInv, TypeOK
<1>10. End(p)
  BY DEF UpsertUpdate
<1>11. Grows
  BY <1>1, <1>5 DEF Grows, UpsertUpdate, Merge
<1>12. QED
  BY <1>1, <1>5, <1>6, <1>7, <1>8, <1>9, <1>10, <1>11, WriteKeeps

LEMMA AppendKeeps ==
    ASSUME ChatInv, NEW p \in Reqs,
           AppendStart(p) \/ AppendLookup(p) \/ AppendWrite(p) \/ AppendConflict(p)
    PROVE  ChatInv'
<1>1. /\ p \in Procs /\ proc[p] \in States /\ proc[p].push \in Bodies
      /\ chat \in Chats /\ turns \in Bodies /\ ReadOK(proc[p])
      /\ proc[p].snap.live => chat.exists
  BY DEF Procs, ChatInv, TypeOK, ReadInv, States
<1>2. CASE AppendStart(p)
  <2>1. PICK push \in Bodies :
          Begin(p, [Idle EXCEPT !.pc = "turns", !.op = "append", !.snap = Read({}), !.push = push])
    BY <1>2 DEF AppendStart
  <2> DEFINE s == Read({})
             r == [Idle EXCEPT !.pc = "turns", !.op = "append", !.snap = s, !.push = push]
  <2>2. s \in Chats /\ s.live /\ s.ns \in Spaces /\ chat.exists
    BY <1>2, ReadType DEF AppendStart, ChatInv, RowInv
  <2>3. UNCHANGED <<chat, turns, artNs, members>> /\ queued' \in [KindNames -> Nat]
    BY <1>2 DEF AppendStart, ChatInv, TypeOK
  <2>4. Begin(p, r)
    BY <2>1
  <2> HIDE DEF s
  <2>5. r \in States
    BY <1>1, <2>2, IdleType DEF States, Phases, OpNames
  <2>6. /\ ReadOK(r) /\ (r.snap.live => chat.exists)
        /\ \A t \in Turns : r.seen[t] = None
    BY <2>2 DEF ReadOK, Idle, Empty
  <2>7. QED
    BY <1>1, <2>3, <2>4, <2>5, <2>6, StartKeeps
<1>3. CASE AppendLookup(p)
  <2> DEFINE r == [proc[p] EXCEPT !.pc = "write", !.seen = turns]
  <2>1. r \in States
    BY <1>1 DEF States, Phases
  <2>2. /\ ReadOK(r) /\ (r.snap.live => chat.exists)
        /\ \A t \in Turns : r.seen[t] # None => turns[t] # None
    BY <1>1, <1>3 DEF ReadOK, AppendLookup, At, States
  <2>3. UNCHANGED <<chat, turns, artNs, members>> /\ queued' \in [KindNames -> Nat]
    BY <1>3 DEF AppendLookup, ChatInv, TypeOK
  <2>4. Begin(p, r)
    BY <1>3 DEF AppendLookup
  <2>5. QED
    BY <1>1, <2>1, <2>2, <2>3, <2>4, StartKeeps
<1>4. CASE AppendWrite(p)
  <2>1. proc[p].snap.ns \in Spaces
    BY <1>1, <1>4 DEF ReadOK, AppendWrite, At
  <2>2. turns' \in Bodies
    BY <1>1, <1>4 DEF AppendWrite, Column, Bodies
  <2>3. artNs' \in [Turns -> Spaces \cup {None}]
    BY <1>1, <1>4, <2>1, AttachType DEF AppendWrite, ChatInv
  <2>4. \A t \in Turns : turns'[t] = None <=> artNs'[t] = None
    <3> SUFFICES ASSUME NEW t \in Turns
                 PROVE  turns'[t] = None <=> artNs'[t] = None
      OBVIOUS
    <3>1. CASE proc[p].push[t] = None
      BY <1>4, <3>1 DEF AppendWrite, Attach, ChatInv, RowInv
    <3>2. CASE proc[p].push[t] # None
      <4>1. artNs'[t] # None
        BY <1>4, <2>1, <3>2, ChatAssumption DEF AppendWrite, Attach
      <4>2. turns'[t] = Column(proc[p].seen[t], proc[p].push[t], turns[t])
        BY <1>4, <3>2 DEF AppendWrite
      <4>3. proc[p].seen[t] # None => turns[t] # None
        BY <1>1 DEF ChatInv, ReadInv
      <4>4. CASE proc[p].seen[t] = None
        BY <3>2, <4>1, <4>2, <4>4 DEF Column
      <4>5. CASE proc[p].seen[t] # None
        BY <3>2, <4>1, <4>2, <4>3, <4>5 DEF Column
      <4>6. QED
        BY <4>4, <4>5
    <3>3. QED
      BY <3>1, <3>2
  <2>5. RowInv'
    BY <1>4, <2>4 DEF AppendWrite, ChatInv, RowInv
  <2>6. members' \in [Segments -> Nat] /\ queued' \in [KindNames -> Nat]
    BY <1>4, ScheduleType DEF AppendWrite, ChatInv, TypeOK
  <2>7. End(p) /\ chat' = chat
    BY <1>4 DEF AppendWrite
  <2>8. Grows
    BY <1>4, <2>1, <2>4, <2>7, ChatAssumption DEF Grows, ChatInv, RowInv, AppendWrite, Attach
  <2>9. QED
    BY <1>1, <2>2, <2>3, <2>5, <2>6, <2>7, <2>8, WriteKeeps
<1>5. CASE AppendConflict(p)
  BY <1>1, <1>5, StopKeeps DEF AppendConflict, ChatInv, TypeOK
<1>6. QED
  BY <1>2, <1>3, <1>4, <1>5

\* A handler that starts by reading the live chat.
LEMMA ReadKeeps ==
    ASSUME ChatInv, chat.live, NEW p \in Procs, NEW r \in States, Begin(p, r),
           r.pc # "stamp", r.snap.live, r.snap.ns = chat.ns, r.seen = Empty,
           r.op # "upsert", r.op = "move" => r.ns \in Spaces /\ r.intent = "named",
           UNCHANGED <<chat, turns, artNs, members>>, queued' \in [KindNames -> Nat]
    PROVE  ChatInv'
<1>1. chat.exists /\ chat.ns \in Spaces
  BY DEF ChatInv, RowInv
<1>2. /\ ReadOK(r) /\ (r.snap.live => chat.exists)
      /\ \A t \in Turns : r.seen[t] = None
  BY <1>1 DEF ReadOK, Empty
<1>3. QED
  BY <1>2, StartKeeps

LEMMA MoveKeeps ==
    ASSUME ChatInv, NEW p \in Reqs, MoveStart(p) \/ MoveWrite(p)
    PROVE  ChatInv'
<1>1. /\ p \in Procs /\ proc[p] \in States /\ chat \in Chats /\ turns \in Bodies
      /\ ReadOK(proc[p]) /\ (proc[p].snap.live => chat.exists)
  BY DEF Procs, ChatInv, TypeOK, ReadInv
<1>2. CASE MoveStart(p)
  <2>1. PICK ns \in Spaces :
          Begin(p, [Idle EXCEPT !.pc = "write", !.op = "move", !.snap = Read({"tag"}),
                                !.ns = ns, !.intent = "named"])
    BY <1>2 DEF MoveStart
  <2>2. /\ UNCHANGED <<chat, turns, artNs, members>> /\ queued' \in [KindNames -> Nat]
        /\ chat.live
    BY <1>2 DEF MoveStart, ChatInv, TypeOK
  <2> DEFINE s == Read({"tag"})
             r == [Idle EXCEPT !.pc = "write", !.op = "move", !.snap = s,
                               !.ns = ns, !.intent = "named"]
  <2>3. s \in Chats /\ s.live /\ s.ns = chat.ns /\ Begin(p, r)
    BY <2>1, <2>2, ReadType DEF ChatInv
  <2> HIDE DEF s
  <2>4. r \in States
    BY <1>1, <2>3, IdleType DEF States, Phases, OpNames, Intents
  <2>5. /\ r.pc # "stamp" /\ r.snap.live /\ r.snap.ns = chat.ns /\ r.seen = Empty
        /\ r.op = "move" /\ r.ns \in Spaces /\ r.intent = "named"
    BY <2>3 DEF Idle
  <2>6. QED
    BY <1>1, <2>2, <2>3, <2>4, <2>5, ReadKeeps
<1>3. CASE MoveWrite(p)
  <2>1. proc[p].snap.live /\ chat.exists /\ proc[p].ns \in Spaces /\ chat.ns \in Spaces
    BY <1>1, <1>3 DEF MoveWrite, At, ReadOK, ChatInv, RowInv
  <2> DEFINE ns == Column(proc[p].snap.ns, proc[p].ns, chat.ns)
             tag == Column(proc[p].snap.tag, None, chat.tag)
  <2>2. ns \in Spaces /\ tag \in Segments \cup {None}
    BY <1>1, <2>1 DEF Column, Chats
  <2>3. chat' = [chat EXCEPT !.ns = ns, !.tag = tag]
    BY <1>3 DEF MoveWrite
  <2> HIDE DEF ns, tag
  <2>4. chat' \in Chats /\ chat'.exists /\ chat'.ns \in Spaces
    BY <1>1, <2>1, <2>2, <2>3 DEF Chats
  <2>5. /\ artNs' \in [Turns -> Spaces \cup {None}]
        /\ \A t \in Turns : turns'[t] = None <=> artNs'[t] = None
    BY <1>1, <1>3, <2>1, ChatAssumption DEF MoveWrite, Sync
  <2>6. RowInv' /\ Grows
    BY <1>3, <2>4, <2>5 DEF RowInv, Grows, MoveWrite
  <2>7. members' \in [Segments -> Nat] /\ queued' \in [KindNames -> Nat] /\ turns' \in Bodies
    BY <1>3, ScheduleType DEF MoveWrite, ChatInv, TypeOK
  <2>8. End(p)
    BY <1>3 DEF MoveWrite
  <2>9. QED
    BY <1>1, <2>4, <2>5, <2>6, <2>7, <2>8, WriteKeeps
<1>4. QED
  BY <1>2, <1>3

\* A write that only changes the chat row, and leaves it a row.
LEMMA RowWriteKeeps ==
    ASSUME ChatInv, NEW p \in Procs, End(p),
           chat' \in Chats, chat.exists => chat'.exists,
           chat'.live => chat'.exists, chat'.exists => chat'.ns \in Spaces,
           UNCHANGED <<turns, artNs, queued>>, members' \in [Segments -> Nat]
    PROVE  ChatInv'
<1>1. RowInv' /\ Grows
  BY DEF RowInv, Grows, ChatInv
<1>2. /\ turns' \in Bodies /\ artNs' \in [Turns -> Spaces \cup {None}]
      /\ queued' \in [KindNames -> Nat]
  BY DEF ChatInv, TypeOK
<1>3. QED
  BY <1>1, <1>2, WriteKeeps

LEMMA DeleteKeeps ==
    ASSUME ChatInv, NEW p \in Reqs, DeleteStart(p) \/ DeleteWrite(p)
    PROVE  ChatInv'
<1>1. p \in Procs /\ chat \in Chats
  BY DEF Procs, ChatInv, TypeOK
<1>2. CASE DeleteStart(p)
  <2> DEFINE r == [Idle EXCEPT !.pc = "write", !.op = "delete"]
  <2>1. r \in States
    BY <1>1, IdleType DEF States, Phases, OpNames
  <2>2. /\ ReadOK(r) /\ ~r.snap.live
        /\ \A t \in Turns : r.seen[t] = None
    BY DEF Idle, ReadOK, NoChat, Empty
  <2>3. /\ UNCHANGED <<chat, turns, artNs, members>> /\ queued' \in [KindNames -> Nat]
        /\ Begin(p, r)
    BY <1>2 DEF DeleteStart, ChatInv, TypeOK
  <2>4. QED
    BY <1>1, <2>1, <2>2, <2>3, StartKeeps
<1>3. CASE DeleteWrite(p)
  BY <1>1, <1>3, RowWriteKeeps DEF DeleteWrite, Chats, ChatInv, RowInv, TypeOK
<1>4. QED
  BY <1>2, <1>3

LEMMA DequeueType ==
    ASSUME TypeOK, NEW k \in KindNames, Due(k), Dequeue(k)
    PROVE  queued' \in [KindNames -> Nat]
BY DEF TypeOK, Due, Dequeue

\* A task reads the chat and goes on, or finds nothing to do.
LEMMA TaskStartKeeps ==
    ASSUME ChatInv, NEW w \in Workers, NEW k \in KindNames, NEW pc \in Phases \ {"stamp"},
           Due(k), Dequeue(k), UNCHANGED <<chat, turns, artNs, members>>,
           \/ chat.live /\ Begin(w, [Idle EXCEPT !.pc = pc, !.op = k, !.snap = Read({})])
           \/ End(w)
    PROVE  ChatInv'
<1>1. w \in Procs /\ queued' \in [KindNames -> Nat]
  BY DequeueType DEF Procs, ChatInv
<1>2. CASE End(w)
  BY <1>1, <1>2, StopKeeps
<1>3. CASE chat.live /\ Begin(w, [Idle EXCEPT !.pc = pc, !.op = k, !.snap = Read({})])
  <2> DEFINE s == Read({})
             r == [Idle EXCEPT !.pc = pc, !.op = k, !.snap = s]
  <2>1. s \in Chats /\ s.live /\ s.ns = chat.ns /\ Begin(w, r)
    BY <1>3, ReadType DEF ChatInv
  <2> HIDE DEF s
  <2>2. r \in States
    BY <2>1, IdleType DEF States
  <2>3. r.pc # "stamp" /\ r.snap.live /\ r.snap.ns = chat.ns /\ r.seen = Empty /\ r.op = k
    BY <2>1 DEF Idle
  <2>4. k \notin {"upsert", "move"}
    BY DEF KindNames
  <2>5. QED
    BY <1>1, <1>3, <2>1, <2>2, <2>3, <2>4, ReadKeeps
<1>4. QED
  BY <1>2, <1>3

LEMMA TargetsType ==
    ASSUME NEW r
    PROVE  Targets(r) \subseteq Spaces
BY DEF Targets, Resolve

LEMMA ClassifyKeeps ==
    ASSUME ChatInv, NEW w \in Workers,
           ClassifyStart(w) \/ ClassifyWrite(w) \/ ClassifyPass(w)
    PROVE  ChatInv'
<1>1. /\ w \in Procs /\ proc[w] \in States /\ chat \in Chats /\ ReadOK(proc[w])
      /\ proc[w].snap.live => chat.exists
  BY DEF Procs, ChatInv, TypeOK, ReadInv
<1>2. CASE ClassifyStart(w)
  <2>1. "classify" \in KindNames /\ "write" \in Phases \ {"stamp"}
    BY DEF Phases, KindNames
  <2>2. /\ Due("classify") /\ Dequeue("classify") /\ UNCHANGED <<chat, turns, artNs, members>>
        /\ \/ chat.live /\ Begin(w, [Idle EXCEPT !.pc = "write", !.op = "classify", !.snap = Read({})])
           \/ End(w)
    BY <1>2 DEF ClassifyStart, Classifiable
  <2>3. QED
    BY <2>1, <2>2, TaskStartKeeps
<1>3. CASE ClassifyWrite(w)
  <2>1. PICK ns \in Spaces :
          chat' = [chat EXCEPT !.ns = Column(proc[w].snap.ns, ns, chat.ns)]
    BY <1>3, TargetsType DEF ClassifyWrite
  <2>2. chat.exists /\ chat.ns \in Spaces
    BY <1>1, <1>3 DEF ClassifyWrite, At, ReadOK, ChatInv, RowInv
  <2>3. Column(proc[w].snap.ns, ns, chat.ns) \in Spaces
    BY <2>2 DEF Column
  <2>4. chat' \in Chats /\ chat'.exists /\ chat'.ns \in Spaces
    BY <1>1, <2>1, <2>2, <2>3 DEF Chats
  <2>5. QED
    BY <1>1, <1>3, <2>4, RowWriteKeeps DEF ClassifyWrite, ChatInv, TypeOK
<1>4. CASE ClassifyPass(w)
  BY <1>1, <1>4, StopKeeps DEF ClassifyPass, ChatInv, TypeOK
<1>5. QED
  BY <1>2, <1>3, <1>4

LEMMA TagKeeps ==
    ASSUME ChatInv, NEW w \in Workers,
           TagStart(w) \/ TagDecide(w) \/ TagPass(w) \/ TagWrite(w) \/ TagConflict(w)
    PROVE  ChatInv'
<1>1. /\ w \in Procs /\ proc[w] \in States /\ chat \in Chats /\ ReadOK(proc[w])
      /\ proc[w].snap.live => chat.exists
      /\ \A t \in Turns : proc[w].seen[t] # None => turns[t] # None
      /\ queued \in [KindNames -> Nat] /\ members \in [Segments -> Nat]
  BY DEF Procs, ChatInv, TypeOK, ReadInv
<1>2. CASE TagStart(w)
  <2>1. "tag" \in KindNames /\ "tagging" \in Phases \ {"stamp"}
    BY DEF Phases, KindNames
  <2>2. /\ Due("tag") /\ Dequeue("tag") /\ UNCHANGED <<chat, turns, artNs, members>>
        /\ \/ chat.live /\ Begin(w, [Idle EXCEPT !.pc = "tagging", !.op = "tag", !.snap = Read({})])
           \/ End(w)
    BY <1>2 DEF TagStart, Taggable
  <2>3. QED
    BY <2>1, <2>2, TaskStartKeeps
<1>3. CASE TagDecide(w)
  <2>1. proc[w].snap.live /\ proc[w].snap.ns \in Spaces
    BY <1>1, <1>3 DEF TagDecide, At, ReadOK
  <2>2. PICK k \in Tags :
          Begin(w, [proc[w] EXCEPT !.pc = "stamp", !.tag = k,
                                   !.n = members[<<proc[w].snap.ns, k>>]])
    BY <1>3 DEF TagDecide
  <2>3. members[<<proc[w].snap.ns, k>>] \in Nat
    BY <1>1, <2>1 DEF Segments
  <2> DEFINE n == members[<<proc[w].snap.ns, k>>]
             r == [proc[w] EXCEPT !.pc = "stamp", !.tag = k, !.n = n]
  <2>4. n \in Nat /\ Begin(w, r)
    BY <2>2, <2>3
  <2> HIDE DEF n
  <2>5. r \in States
    BY <1>1, <2>4 DEF States, Phases
  <2>6. /\ ReadOK(r) /\ (r.snap.live => chat.exists)
        /\ \A t \in Turns : r.seen[t] # None => turns[t] # None
    BY <1>1, <1>3, <2>1 DEF ReadOK, TagDecide, At, States
  <2>7. UNCHANGED <<chat, turns, artNs, members>> /\ queued' \in [KindNames -> Nat]
    BY <1>1, <1>3 DEF TagDecide
  <2> HIDE DEF r
  <2>8. QED
    BY <1>1, <2>4, <2>5, <2>6, <2>7, StartKeeps
<1>4. CASE TagWrite(w)
  <2>1. Segment(w) \in Segments /\ chat.exists /\ proc[w].n \in Nat
    BY <1>1, <1>4 DEF TagWrite, At, ReadOK, Segment, Segments, States
  <2>2. members' \in [Segments -> Nat]
    BY <1>1, <1>4, <2>1 DEF TagWrite
  <2>3. chat' \in Chats /\ chat'.exists /\ chat'.ns = chat.ns
    BY <1>1, <1>4, <2>1 DEF TagWrite, Chats
  <2>4. QED
    BY <1>1, <1>4, <2>1, <2>2, <2>3, RowWriteKeeps DEF TagWrite, ChatInv, RowInv
<1>5. CASE TagPass(w) \/ TagConflict(w)
  BY <1>1, <1>5, StopKeeps DEF TagPass, TagConflict
<1>6. QED
  BY <1>2, <1>3, <1>4, <1>5

-----------------------------------------------------------------------------

LEMMA InitInv == Init => ChatInv
<1> SUFFICES ASSUME Init PROVE ChatInv
  OBVIOUS
<1>1. TypeOK
  BY NoChatType, IdleType DEF Init, TypeOK, Empty, Bodies
<1>2. ReadInv
  BY IdleRead DEF Init, ReadInv, Idle, Empty
<1>3. RowInv
  BY DEF Init, RowInv, NoChat, Empty
<1>4. QED
  BY <1>1, <1>2, <1>3 DEF ChatInv

LEMMA CrashKeeps ==
    ASSUME ChatInv, Crash
    PROVE  ChatInv'
<1>1. TypeOK'
  BY IdleType DEF ChatInv, TypeOK, Crash
<1>2. ReadInv'
  BY IdleRead DEF ReadInv, Crash, Idle, Empty
<1>3. RowInv'
  BY DEF ChatInv, RowInv, Crash
<1>4. QED
  BY <1>1, <1>2, <1>3 DEF ChatInv

LEMMA StepKeepsInv == ChatInv /\ [Next]_vars => ChatInv'
<1> SUFFICES ASSUME ChatInv, [Next]_vars PROVE ChatInv'
  OBVIOUS
<1>1. ASSUME NEW p \in Reqs, Request(p) PROVE ChatInv'
  <2>1. CASE UpsertConflict(p) \/ UpsertNoop(p)
    BY <2>1, StopKeeps DEF UpsertConflict, UpsertNoop, Procs, ChatInv, TypeOK
  <2>2. QED
    BY <1>1, <2>1, UpsertStartKeeps, UpsertInsertKeeps, UpsertUpdateKeeps, AppendKeeps,
       MoveKeeps, DeleteKeeps DEF Request
<1>2. ASSUME NEW w \in Workers, Task(w) PROVE ChatInv'
  BY <1>2, ClassifyKeeps, TagKeeps DEF Task
<1>3. ASSUME NEW p \in Procs, Fails(p) PROVE ChatInv'
  BY <1>3, StopKeeps DEF Fails, ChatInv, TypeOK
<1>4. CASE UNCHANGED vars
  BY <1>4 DEF vars, ChatInv, TypeOK, ReadInv, RowInv
<1>5. QED
  BY <1>1, <1>2, <1>3, <1>4, CrashKeeps DEF Next

(* Whatever a request or task read, of a chat moved or deleted since, its  *)
(* write leaves a well-formed row, turns that keep their artifacts, and    *)
(* nothing of what others read taken away.                                 *)
THEOREM ChatInvariant == Spec => []ChatInv
BY InitInv, StepKeepsInv, PTL DEF Spec

-----------------------------------------------------------------------------
(* A deleted chat stays deleted: only an insert makes a chat live, and the *)
(* unique constraint lets none through while the deleted row exists.       *)

LEMMA StepKeepsDeleted ==
    ASSUME ChatInv, [Next]_vars, chat.exists, ~chat.live
    PROVE  ~chat'.live
<1> chat \in Chats
  BY DEF ChatInv, TypeOK
<1>1. ASSUME NEW p \in Reqs, Request(p) PROVE ~chat'.live
  <2>1. CASE UpsertInsert(p)
    BY <2>1 DEF UpsertInsert, Inserts
  <2>2. CASE UpsertUpdate(p)
    BY <2>2 DEF UpsertUpdate, UpsertedChat, Chats
  <2>3. CASE MoveWrite(p) \/ DeleteWrite(p)
    BY <2>3 DEF MoveWrite, DeleteWrite, Chats
  <2>4. QED
    BY <1>1, <2>1, <2>2, <2>3
    DEF Request, UpsertStart, UpsertConflict, UpsertNoop, AppendStart, AppendLookup,
        AppendWrite, AppendConflict, MoveStart, DeleteStart
<1>2. ASSUME NEW w \in Workers, Task(w) PROVE ~chat'.live
  BY <1>2 DEF Task, ClassifyStart, ClassifyWrite, ClassifyPass, TagStart, TagDecide,
              TagPass, TagWrite, TagConflict, Chats
<1>3. QED
  BY <1>1, <1>2 DEF Next, Fails, Crash, vars

(* A conversation the user deleted is not revived by a request or task     *)
(* that read it while it was live, nor by a later push of it.              *)
THEOREM DeletedChatIsFinal == Spec => DeletedChatStaysDeleted
<1>1. ChatInv /\ [Next]_vars => [chat.exists /\ ~chat.live => ~chat'.live]_vars
  BY StepKeepsDeleted
<1>2. QED
  BY <1>1, ChatInvariant, PTL DEF Spec, DeletedChatStaysDeleted

-----------------------------------------------------------------------------
(* The inbox invariant.                                                    *)

LEMMA EndsIdle ==
    ASSUME TypeOK, NEW p \in Procs, End(p)
    PROVE  proc'[p].pc = "idle"
BY DEF End, Begin, Idle, TypeOK

LEMMA UpsertReturns ==
    ASSUME ChatInv, NEW p \in Reqs, UpsertUpdate(p), Returns
    PROVE  MayReturn
<1>1. TypeOK /\ chat \in Chats /\ p \in Procs /\ ReadOK(proc[p])
  BY DEF ChatInv, TypeOK, ReadInv, Procs
<1>2. Writes(p) /\ proc[p].op = "upsert"
  BY <1>1, EndsIdle DEF UpsertUpdate, At, Writes
<1>3. chat'.ns = Column(proc[p].snap.ns, Kept(p), chat.ns)
  BY <1>1 DEF UpsertUpdate, UpsertedChat, Chats
<1>4. chat'.ns = Kept(p) /\ Kept(p) # proc[p].snap.ns
  BY <1>3 DEF Column, Returns
<1>5. proc[p].ns = chat'.ns
  BY <1>4 DEF Kept
<1>6. CASE Explicit(p)
  BY <1>2, <1>5, <1>6 DEF MayReturn
<1>7. CASE ~Explicit(p)
  <2>1. proc[p].snap.ns \in Inboxes \ {chat'.ns}
    BY <1>4, <1>7 DEF Kept
  <2>2. chat'.ns \in Resolve(Default)
    BY <1>1, <1>2, <1>5, <1>7 DEF ReadOK, Explicit
  <2>3. QED
    BY <1>2, <2>1, <2>2 DEF MayReturn
<1>8. QED
  BY <1>6, <1>7

LEMMA MoveReturns ==
    ASSUME ChatInv, NEW p \in Reqs, MoveWrite(p), Returns
    PROVE  MayReturn
<1>1. TypeOK /\ chat \in Chats /\ p \in Procs /\ ReadOK(proc[p])
  BY DEF ChatInv, TypeOK, ReadInv, Procs
<1>2. chat'.ns = Column(proc[p].snap.ns, proc[p].ns, chat.ns)
  BY <1>1 DEF MoveWrite, Chats
<1>3. chat'.ns = proc[p].ns
  BY <1>2 DEF Column, Returns
<1>4. Writes(p)
  BY <1>1, EndsIdle DEF MoveWrite, At, Writes
<1>5. Explicit(p)
  BY <1>1 DEF MoveWrite, At, ReadOK, Explicit
<1>6. QED
  BY <1>3, <1>4, <1>5 DEF MayReturn

LEMMA ClassifyReturns ==
    ASSUME ChatInv, NEW w \in Workers, ClassifyWrite(w), Returns
    PROVE  MayReturn
<1>1. TypeOK /\ chat \in Chats /\ w \in Procs
  BY DEF ChatInv, TypeOK, Procs
<1>2. PICK ns \in Targets(proc[w].snap) :
        chat' = [chat EXCEPT !.ns = Column(proc[w].snap.ns, ns, chat.ns)]
  BY DEF ClassifyWrite
<1>3. chat'.ns = ns /\ ns \in Inboxes
  BY <1>1, <1>2 DEF Column, Chats, Returns
<1>4. PICK x \in Spaces \ Inboxes : ns \in Resolve(x)
  BY DEF Targets
<1>5. <<x, chat'.ns>> \in Related
  BY <1>3, <1>4 DEF Resolve
<1>6. Writes(w) /\ proc[w].op = "classify"
  BY <1>1, EndsIdle DEF ClassifyWrite, At, Writes
<1>7. QED
  BY <1>5, <1>6 DEF MayReturn

LEMMA StepReturns ==
    ASSUME ChatInv, [Next]_vars
    PROVE  Returns => MayReturn
<1> SUFFICES ASSUME Returns PROVE MayReturn
  OBVIOUS
<1>1. chat \in Chats /\ chat.exists /\ chat.ns # chat'.ns
  BY DEF ChatInv, TypeOK, RowInv, Returns
<1>2. ASSUME NEW p \in Reqs, Request(p) PROVE MayReturn
  <2>1. CASE UpsertInsert(p)
    BY <1>1, <2>1 DEF UpsertInsert, Inserts
  <2>2. CASE DeleteWrite(p)
    BY <1>1, <2>2 DEF DeleteWrite, Chats
  <2>3. CASE UpsertUpdate(p)
    BY <2>3, UpsertReturns
  <2>4. CASE MoveWrite(p)
    BY <2>4, MoveReturns
  <2>5. QED
    BY <1>1, <1>2, <2>1, <2>2, <2>3, <2>4
    DEF Request, UpsertStart, UpsertConflict, UpsertNoop, AppendStart, AppendLookup,
        AppendWrite, AppendConflict, MoveStart, DeleteStart
<1>3. ASSUME NEW w \in Workers, Task(w) PROVE MayReturn
  <2>1. CASE TagWrite(w)
    BY <1>1, <2>1 DEF TagWrite, Chats
  <2>2. QED
    BY <1>1, <1>3, <2>1, ClassifyReturns
    DEF Task, ClassifyStart, ClassifyPass, TagStart, TagDecide, TagPass, TagConflict
<1>4. QED
  BY <1>1, <1>2, <1>3 DEF Next, Fails, Crash, vars

(* The chats-v1 inbox rule of upsert_chat, through every interleaving: a   *)
(* chat outside the inboxes returns by an explicit request or because the  *)
(* matcher redirects a push from another inbox or the router, never by a   *)
(* bare re-push with an old copy of the chat.                              *)
THEOREM InboxIsLeftForGood == Spec => InboxInvariant
<1>1. ChatInv /\ [Next]_vars => [Returns => MayReturn]_vars
  BY StepReturns
<1>2. QED
  BY <1>1, ChatInvariant, PTL DEF Spec, InboxInvariant

-----------------------------------------------------------------------------
(* The content hash.                                                       *)

LEMMA StepDescribes ==
    ASSUME ChatInv, [Next]_vars, NEW t \in Turns, ~Described(t)'
    PROVE  Undescribed(t)
<1>1. TypeOK /\ chat \in Chats /\ proc \in [Procs -> States]
  BY DEF ChatInv, TypeOK
<1>2. ASSUME chat'.hash = chat.hash, turns'[t] = turns[t]
      PROVE  Undescribed(t)
  BY <1>2 DEF Described, Undescribed
<1>3. ASSUME NEW p \in Reqs, Request(p) PROVE Undescribed(t)
  <2>1. CASE UpsertInsert(p) \/ UpsertUpdate(p)
    <3>1. chat'.hash = proc[p].push /\ turns' = Merge(proc[p].push)
      BY <1>1, <2>1 DEF UpsertInsert, UpsertUpdate, UpsertedChat, Chats, NoChat
    <3>2. QED
      BY <3>1 DEF Described, Merge
  <2>2. CASE AppendWrite(p)
    <3>1. Writes(p) /\ proc[p].op = "append"
      BY <1>1, <2>2, EndsIdle DEF AppendWrite, At, Writes, Procs
    <3>2. chat' = chat /\ (proc[p].push[t] = None => turns'[t] = turns[t])
      BY <2>2 DEF AppendWrite
    <3>3. QED
      BY <1>2, <3>1, <3>2 DEF Undescribed
  <2>3. CASE MoveWrite(p) \/ DeleteWrite(p)
    <3>1. chat'.hash = chat.hash /\ turns' = turns
      BY <1>1, <2>3 DEF MoveWrite, DeleteWrite, Chats
    <3>2. QED
      BY <1>2, <3>1
  <2>4. QED
    BY <1>2, <1>3, <2>1, <2>2, <2>3
    DEF Request, UpsertStart, UpsertConflict, UpsertNoop, AppendStart, AppendLookup,
        AppendConflict, MoveStart, DeleteStart
<1>4. ASSUME NEW w \in Workers, Task(w) PROVE Undescribed(t)
  <2>1. chat'.hash = chat.hash /\ turns' = turns
    BY <1>1, <1>4 DEF Task, ClassifyStart, ClassifyWrite, ClassifyPass, TagStart, TagDecide,
                      TagPass, TagWrite, TagConflict, Chats
  <2>2. QED
    BY <1>2, <2>1
<1>5. QED
  BY <1>2, <1>3, <1>4 DEF Next, Fails, Crash, vars

(* Appends and upserts race as they may: only the append that stores a     *)
(* turn makes the stored content_hash wrong about it, and the next hash    *)
(* that is written describes every turn again.                             *)
THEOREM HashIsOfTurns == Spec => HashDescribesTurns
<1>1. ChatInv /\ [Next]_vars => [\A t \in Turns : ~Described(t)' => Undescribed(t)]_vars
  BY StepDescribes
<1>2. QED
  BY <1>1, ChatInvariant, PTL DEF Spec, HashDescribesTurns

=============================================================================
