------------------------ MODULE NamespaceUpkeepProofs ------------------------
(***************************************************************************)
(* Proofs about NamespaceUpkeep and SegmentScripts, for any number of      *)
(* entries, days, passes, readers, chats, memories and requests.           *)
(***************************************************************************)
EXTENDS SegmentScripts, FiniteSetTheorems, WellFoundedInduction, TLAPS

-----------------------------------------------------------------------------
(* Types                                                                   *)

\* What the types need besides themselves: a page that is written was read.
PagesRead == \A p \in Passes : pass[p].page \subseteq DOMAIN pass[p].read

TypeInv == TypeOK /\ ReadsKnown /\ PagesRead

LEMMA ConstantsTyped ==
    /\ MaxId \in Nat /\ MaxDay \in Nat /\ MaxWeight \in Nat /\ DefaultDays \in Nat
    /\ MaxFails \in Nat /\ MaxRequests \in Nat /\ BatchSize \in Nat \ {0}
    /\ Retentions \subseteq Nat \ {0} /\ Limits \subseteq Nat \ {0} /\ Chats \subseteq Ids
    /\ SlowModes \subseteq Modes /\ Texts # {} /\ None \notin Days \X Ids
    /\ \A m \in Mixes : /\ m.ids \subseteq Ids /\ m.days \in Days /\ m.times \subseteq Days
                        /\ m.srcs \subseteq Chats \cup {None} /\ m.texts \subseteq Texts
BY UpkeepAssumption DEF Ids, Days

LEMMA EmptyLevels == [e \in {} |-> 0] \in Levels
<1>1. [e \in {} |-> 0] \in [{} -> 0..MaxWeight]
  OBVIOUS
<1>2. QED
  BY <1>1 DEF Levels

LEMMA NoPassTyped == NoPass \in Pass /\ NoPass.page = {} /\ DOMAIN NoPass.write = {} /\ DOMAIN NoPass.read = {}
<1>1. [e \in Ids |-> 0] \in [Ids -> 0..MaxWeight]
  BY ConstantsTyped
<1>2. QED
  BY <1>1, EmptyLevels DEF NoPass, Pass

LEMMA NoEntryTyped == NoEntry \in Entry
<1>1. (CHOOSE t \in Texts : TRUE) \in Texts
  BY ConstantsTyped
<1>2. QED
  BY <1>1, ConstantsTyped DEF NoEntry, Entry, Days

LEMMA NoReadTyped == NoRead \in Reader
BY DEF NoRead, Reader

LEMMA NoWalkTyped == NoWalk \in Walk
BY DEF NoWalk, Walk

LEMMA TypeInit == Init => TypeInv
<1> SUFFICES ASSUME Init PROVE TypeInv
  OBVIOUS
<1>1. TypeOK
  <2>1. 0 \in Days /\ 0 \in 0..MaxWeight /\ 0 \in 0..MaxFails /\ 0 \in 0..MaxRequests
    BY ConstantsTyped DEF Days
  <2>2. entry \in [Ids -> Entry] /\ pass \in [Passes -> Pass] /\ reader \in [Readers -> Reader]
        /\ walk \in Walk
    BY NoEntryTyped, NoPassTyped, NoReadTyped, NoWalkTyped DEF Init
  <2>3. QED
    BY <2>1, <2>2 DEF Init, TypeOK
<1>2. ReadsKnown /\ PagesRead
  BY NoPassTyped DEF Init, ReadsKnown, PagesRead, NoRead
<1>3. QED
  BY <1>1, <1>2 DEF TypeInv

\* A pass moves to a record of its type.
LEMMA MoveTyped ==
    ASSUME TypeInv, NEW p \in Passes, NEW q \in Pass, q.page \subseteq DOMAIN q.read, Move(p, q)
    PROVE  pass' \in [Passes -> Pass] /\ PagesRead'
BY DEF TypeInv, TypeOK, PagesRead, Move

LEMMA UsersTyped ==
    ASSUME TypeInv, Users
    PROVE  TypeInv'
<1> USE ConstantsTyped DEF TypeInv, TypeOK
<1>1. ASSUME NEW e \in Ids, NEW at \in mix.times, NEW src \in mix.srcs, NEW text \in mix.texts,
             Create(e, at, src, text)
      PROVE  TypeInv'
  <2>1. at \in Days /\ src \in Chats \cup {None} /\ text \in Texts
    OBVIOUS
  <2>2. [entry[e] EXCEPT !.life = "live", !.at = at, !.born = today, !.src = src, !.text = text] \in Entry
    <3>1. entry[e] \in Entry /\ today \in Days
      OBVIOUS
    <3> HIDE DEF TypeInv, TypeOK
    <3>2. QED
      BY <2>1, <3>1 DEF Entry
  <2>3. entry' \in [Ids -> Entry]
    BY <1>1, <2>2 DEF Create
  <2>4. UNCHANGED <<mix, today, upkeep, reads, walk>>
    BY <1>1 DEF Create
  <2>5. QED
    BY <2>3, <2>4 DEF upkeep, reads, ReadsKnown, PagesRead
<1>2. ASSUME NEW m \in Ids, NEW text \in mix.texts, Update(m, text)
      PROVE  TypeInv'
  <2> DEFINE b == entry[m].edited \/ text # entry[m].text
  <2>1. [entry[m] EXCEPT !.text = text, !.edited = b] \in Entry
    <3>1. entry[m] \in Entry /\ text \in Texts /\ b \in BOOLEAN
      BY DEF Entry
    <3> HIDE DEF b, TypeInv, TypeOK
    <3>2. QED
      BY <3>1 DEF Entry
  <2>2. entry' \in [Ids -> Entry]
    <3>1. entry' = [entry EXCEPT ![m] = [entry[m] EXCEPT !.text = text, !.edited = b]]
      BY <1>2 DEF Update
    <3> HIDE DEF b
    <3>2. QED
      BY <2>1, <3>1
  <2>3. UNCHANGED <<mix, today, upkeep, reads, walk>>
    BY <1>2 DEF Update
  <2>4. QED
    BY <2>2, <2>3 DEF upkeep, reads, ReadsKnown, PagesRead
<1>3. ASSUME NEW e \in Ids, Delete(e)
      PROVE  TypeInv'
  <2>1. [entry[e] EXCEPT !.life = "gone"] \in Entry
    BY DEF Entry
  <2>2. entry' \in [Ids -> Entry] /\ walk' \in Walk
    BY <1>3, <2>1 DEF Delete, Disturb, Walk
  <2>3. UNCHANGED <<mix, today, upkeep, reads>>
    BY <1>3 DEF Delete
  <2>4. QED
    BY <2>2, <2>3 DEF upkeep, reads, ReadsKnown, PagesRead
<1>4. ASSUME NEW c \in Chats, NEW at \in mix.times, Retime(c, at)
      PROVE  TypeInv'
  <2>1. c \in Ids /\ [entry[c] EXCEPT !.at = at] \in Entry
    BY DEF Entry
  <2>2. entry' \in [Ids -> Entry] /\ walk' \in Walk
    BY <1>4, <2>1 DEF Retime, Disturb, Walk
  <2>3. UNCHANGED <<mix, today, upkeep, reads>>
    BY <1>4 DEF Retime
  <2>4. QED
    BY <2>2, <2>3 DEF upkeep, reads, ReadsKnown, PagesRead
<1>5. ASSUME NextDay
      PROVE  TypeInv'
  BY <1>5 DEF NextDay, Days, upkeep, reads, ReadsKnown, PagesRead
<1>6. QED
  BY <1>1, <1>2, <1>3, <1>4, <1>5 DEF Users

LEMMA WeightTyped ==
    ASSUME TypeInv, NEW p \in Passes, NEW m \in Ids
    PROVE  Weight(p, m) \in 0..MaxWeight
<1>1. entry[m].weight \in 0..MaxWeight
  BY DEF TypeInv, TypeOK, Entry
<1>2. pass[p].write \in Levels
  BY DEF TypeInv, TypeOK, Pass
<1>3. QED
  BY <1>1, <1>2 DEF Weight, Levels

LEMMA PassPageTyped ==
    ASSUME TypeInv, NEW p \in Passes, NEW S \in SUBSET Ids, PassPage(p, S)
    PROVE  TypeInv'
<1> USE DEF TypeInv, TypeOK
<1>1. CASE S = {}
  <2>1. [NoPass EXCEPT !.pc = "policy"] \in Pass
        /\ [NoPass EXCEPT !.pc = "policy"].page \subseteq DOMAIN [NoPass EXCEPT !.pc = "policy"].read
    BY NoPassTyped DEF Pass
  <2>2. pass' \in [Passes -> Pass] /\ PagesRead'
    BY <1>1, <2>1, MoveTyped DEF PassPage
  <2>3. ASSUME NEW e \in DOMAIN pass[p].write, e \in Ids
        PROVE  [entry[e] EXCEPT !.weight = pass[p].write[e]] \in Entry
    <3>1. pass[p].write[e] \in 0..MaxWeight
      BY <2>3 DEF Pass, Levels
    <3>2. QED
      BY <2>3, <3>1 DEF Entry
  <2>4. entry' \in [Ids -> Entry]
    BY <1>1, <2>3 DEF PassPage
  <2>5. seen' \in [Ids -> 0..MaxWeight]
    <3>1. \A e \in Ids : seen[e] \in Nat /\ pass[p].met[e] \in Nat
      BY ConstantsTyped DEF Pass
    <3>2. \A e \in Ids : Counted(seen[e] + pass[p].met[e]) \in 0..MaxWeight
      BY <3>1, ConstantsTyped DEF Counted
    <3>3. QED
      BY <1>1, <3>2 DEF PassPage
  <2>6. UNCHANGED <<mix, today, policy, fails, requests, reads, walk>>
    BY DEF PassPage
  <2>7. QED
    BY <2>2, <2>4, <2>5, <2>6 DEF reads, ReadsKnown
<1>2. CASE S # {}
  <2> DEFINE rd == [m \in S |-> Weight(p, m)]
             q  == [pass[p] EXCEPT !.pc = "write", !.page = S, !.offset = NextOffset(p), !.read = rd]
  <2>1. rd \in Levels
    <3>1. rd \in [S -> 0..MaxWeight]
      BY WeightTyped
    <3>2. QED
      BY <3>1 DEF Levels
  <2>2. NextOffset(p) \in Nat
    BY ConstantsTyped DEF NextOffset, Pass
  <2>3. DOMAIN rd = S
    OBVIOUS
  <2> HIDE DEF rd
  <2>4. q \in Pass /\ q.page \subseteq DOMAIN q.read
    BY <2>1, <2>2, <2>3 DEF Pass
  <2>5. Move(p, q) /\ UNCHANGED <<entry, seen>>
    BY <1>2 DEF PassPage, rd
  <2>6. pass' \in [Passes -> Pass] /\ PagesRead'
    BY <2>4, <2>5, MoveTyped
  <2>7. UNCHANGED <<mix, today, policy, fails, requests, reads, walk>>
    BY DEF PassPage
  <2>8. QED
    BY <2>5, <2>6, <2>7 DEF reads, ReadsKnown
<1>3. QED
  BY <1>1, <1>2

LEMMA PassWriteTyped ==
    ASSUME TypeInv, NEW p \in Passes, NEW m \in Ids, PassWrite(p, m)
    PROVE  TypeInv'
<1> USE DEF TypeInv, TypeOK
<1> DEFINE rest == pass[p].page \ {m}
           w    == [e \in DOMAIN pass[p].write \cup {m} |->
                       IF e = m THEN Decayed(pass[p].read[m]) ELSE pass[p].write[e]]
           met  == [pass[p].met EXCEPT ![m] = Counted(@ + 1)]
           q    == [pass[p] EXCEPT !.page = rest, !.write = w, !.met = met,
                                   !.pc = IF rest = {} THEN "page" ELSE "write"]
<1>1. pass[p].read \in Levels /\ pass[p].write \in Levels /\ m \in DOMAIN pass[p].read
  BY DEF Pass, PassWrite, PagesRead
<1>2. Decayed(pass[p].read[m]) \in 0..MaxWeight
  <2>1. pass[p].read[m] \in 0..MaxWeight
    BY <1>1 DEF Levels
  <2>2. QED
    BY <2>1, ConstantsTyped DEF Decayed
<1>3. w \in Levels
  <2>1. DOMAIN pass[p].write \subseteq Ids /\ \A e \in DOMAIN pass[p].write : pass[p].write[e] \in 0..MaxWeight
    BY <1>1 DEF Levels
  <2>2. w \in [DOMAIN pass[p].write \cup {m} -> 0..MaxWeight]
    BY <1>2, <2>1
  <2>3. DOMAIN pass[p].write \cup {m} \in SUBSET Ids
    BY <2>1
  <2> HIDE DEF w
  <2>4. QED
    BY <2>2, <2>3 DEF Levels
<1>4. Move(p, q)
  BY DEF PassWrite
<1>9. met \in [Ids -> 0..MaxWeight]
  <2>1. pass[p].met \in [Ids -> 0..MaxWeight]
    BY DEF Pass
  <2>2. Counted(pass[p].met[m] + 1) \in 0..MaxWeight
    BY <2>1, ConstantsTyped DEF Counted
  <2>3. QED
    BY <2>1, <2>2
<1> HIDE DEF w, met
<1>5. q \in Pass /\ q.page \subseteq DOMAIN q.read
  <2>1. pass[p] \in Pass /\ pass[p].page \subseteq DOMAIN pass[p].read
    BY DEF PagesRead
  <2>2. rest \in SUBSET Ids /\ rest \subseteq pass[p].page
    BY <2>1 DEF Pass
  <2>3. (IF rest = {} THEN "page" ELSE "write") \in {"page", "write"}
    OBVIOUS
  <2> HIDE DEF rest
  <2>4. q \in Pass /\ q.page = rest /\ q.read = pass[p].read
    BY <1>3, <1>9, <2>1, <2>2, <2>3 DEF Pass
  <2> HIDE DEF q
  <2>5. QED
    BY <2>1, <2>2, <2>4
<1>6. pass' \in [Passes -> Pass] /\ PagesRead'
  BY <1>4, <1>5, MoveTyped
<1>7. UNCHANGED <<mix, entry, today, policy, seen, fails, requests, reads, walk>>
  BY DEF PassWrite
<1>8. QED
  BY <1>6, <1>7 DEF reads, ReadsKnown

LEMMA RetentionTyped ==
    ASSUME TypeOK
    PROVE  RetentionDays \in Int /\ today \in Int
<1>1. today \in Int
  BY DEF TypeOK, Days
<1>2. policy = None \/ policy.days \in Retentions \cup {DefaultDays}
  BY DEF TypeOK, Policy
<1>3. Retentions \cup {DefaultDays} \subseteq Int
  BY ConstantsTyped
<1>4. QED
  BY <1>1, <1>2, <1>3 DEF RetentionDays

LEMMA ConsolidationTyped ==
    ASSUME TypeInv, Consolidation
    PROVE  TypeInv'
<1> USE ConstantsTyped DEF TypeInv, TypeOK
<1>1. ASSUME NEW days \in Retentions \cup {None}, NEW auto \in {TRUE, FALSE, None}, SetPolicy(days, auto)
      PROVE  TypeInv'
  <2>1. Patched(days, auto) \in Policy
    BY DEF Patched, Policy
  <2>2. QED
    BY <1>1, <2>1 DEF SetPolicy, reads, ReadsKnown, PagesRead
<1>2. ASSUME NEW p \in Passes, PassStart(p)
      PROVE  TypeInv'
  <2>1. [NoPass EXCEPT !.pc = "page"] \in Pass
        /\ [NoPass EXCEPT !.pc = "page"].page \subseteq DOMAIN [NoPass EXCEPT !.pc = "page"].read
    BY NoPassTyped DEF Pass
  <2>2. pass' \in [Passes -> Pass] /\ PagesRead'
    BY <1>2, <2>1, MoveTyped DEF PassStart
  <2>3. QED
    BY <1>2, <2>2 DEF PassStart, reads, ReadsKnown
<1>3. ASSUME NEW p \in Passes, PassPolicy(p)
      PROVE  TypeInv'
  <2> DEFINE c == today - RetentionDays
             q == [pass[p] EXCEPT !.pc = "archive", !.cutoff = c]
  <2>1. c \in Int
    BY RetentionTyped
  <2> HIDE DEF c
  <2>2. q \in Pass /\ q.page \subseteq DOMAIN q.read
    <3>1. pass[p] \in Pass /\ pass[p].page \subseteq DOMAIN pass[p].read
      BY DEF PagesRead
    <3> HIDE DEF TypeInv, TypeOK
    <3>2. QED
      BY <2>1, <3>1 DEF Pass
  <2>3. Move(p, q)
    BY <1>3 DEF PassPolicy, c
  <2>5. pass' \in [Passes -> Pass] /\ PagesRead'
    BY <2>2, <2>3, MoveTyped
  <2>4. QED
    BY <1>3, <2>5 DEF PassPolicy, reads, ReadsKnown
<1>4. ASSUME NEW p \in Passes, PassArchive(p)
      PROVE  TypeInv'
  <2>1. pass' \in [Passes -> Pass] /\ PagesRead'
    BY <1>4, NoPassTyped, MoveTyped DEF PassArchive
  <2>2. \A e \in Ids : [entry[e] EXCEPT !.status = "archived"] \in Entry
    BY DEF Entry
  <2>3. entry' \in [Ids -> Entry]
    BY <1>4, <2>2 DEF PassArchive
  <2>4. QED
    BY <1>4, <2>1, <2>3 DEF PassArchive, reads, ReadsKnown
<1>5. ASSUME NEW p \in Passes, PassFail(p) \/ PassDeadlock(p)
      PROVE  TypeInv'
  <2>1. pass' \in [Passes -> Pass] /\ PagesRead'
    BY <1>5, NoPassTyped, MoveTyped DEF PassFail, PassDeadlock
  <2>2. QED
    BY <1>5, <2>1 DEF PassFail, PassDeadlock, reads, ReadsKnown
<1> HIDE DEF TypeInv, TypeOK
<1>6. QED
  BY <1>1, <1>2, <1>3, <1>4, <1>5, PassPageTyped, PassWriteTyped DEF Consolidation, PassStep

-----------------------------------------------------------------------------
(* The timeline is ordered                                                 *)

LEMMA TimeTyped ==
    ASSUME TypeOK, NEW e \in Ids
    PROVE  Time(e) \in Days /\ Time(e) \in Nat /\ e \in Nat
<1>1. entry[e] \in Entry
  BY DEF TypeOK
<1>2. entry[e].src # None => entry[e].src \in Ids /\ entry[entry[e].src] \in Entry
  BY <1>1, ConstantsTyped DEF TypeOK, Entry
<1>3. Time(e) \in Days
  BY <1>1, <1>2 DEF Time, Entry
<1>4. QED
  BY <1>3, ConstantsTyped DEF Days, Ids

LEMMA LeastNat ==
    ASSUME NEW S \in SUBSET Nat, S # {}
    PROVE  \E n \in S : \A y \in S : n <= y
<1>1. PICK n \in S : \A y \in S : <<y, n>> \notin OpToRel(<, Nat)
  BY NatLessThanWellFounded, WFMin
<1>2. ASSUME NEW y \in S
      PROVE  n <= y
  <2>1. y \in Nat /\ n \in Nat /\ <<y, n>> \notin OpToRel(<, Nat)
    BY <1>1
  <2>2. QED
    BY <2>1 DEF OpToRel
<1>3. QED
  BY <1>2

\* Every page has a last entry: of those with the least time, the one with
\* the least id.
LEMMA LastExists ==
    ASSUME TypeOK, NEW S \in SUBSET Ids, S # {}
    PROVE  \E e \in S : \A f \in S : f = e \/ Newer(f, e)
<1>1. \A e \in S : Time(e) \in Nat /\ e \in Nat
  BY TimeTyped
<1> DEFINE Times == {Time(e) : e \in S}
<1>2. PICK t \in Times : \A y \in Times : t <= y
  <2>1. Times \in SUBSET Nat /\ Times # {}
    BY <1>1
  <2>2. QED
    BY <2>1, LeastNat
<1> DEFINE Oldest == {e \in S : Time(e) = t}
<1>3. PICK e \in Oldest : \A y \in Oldest : e <= y
  <2>1. Oldest \in SUBSET Nat /\ Oldest # {}
    BY <1>1, <1>2
  <2>2. QED
    BY <2>1, LeastNat
<1>4. ASSUME NEW f \in S
      PROVE  f = e \/ Newer(f, e)
  <2>1. t <= Time(f) /\ Time(e) = t /\ t \in Nat /\ Time(f) \in Nat /\ f \in Nat /\ e \in Nat
    BY <1>1, <1>2, <1>3
  <2>2. Time(f) = t => e <= f
    BY <1>3
  <2>3. QED
    BY <2>1, <2>2 DEF Newer
<1>5. QED
  BY <1>3, <1>4

LEMMA ReadsTyped ==
    ASSUME TypeInv, Reads
    PROVE  TypeInv'
<1> USE DEF TypeInv, TypeOK
<1>0. Memories \in SUBSET Ids /\ Contents \in SUBSET (Ids \X Texts)
  BY DEF Memories, Live, Contents, Entry
<1>1. ASSUME NEW r \in Readers, CompressedPut(r)
      PROVE  TypeInv'
  <2> DEFINE p == Payload(reader[r].mode, reader[r].ids, reader[r].texts)
  <2>1. reader[r].mode \in Modes /\ reader[r].ids \in SUBSET Ids /\ reader[r].texts \in SUBSET (Ids \X Texts)
    BY <1>1 DEF CompressedPut, ReadsKnown, Reader
  <2>2. p \in Answer /\ p.ids = reader[r].ids
    BY <2>1 DEF Payload, Answer
  <2>3. cache' = [key |-> reader[r].ids, payload |-> p]
    BY <1>1 DEF CompressedPut, Key
  <2>4. reader' = [reader EXCEPT ![r].pc = "done", ![r].answer = p]
    BY <1>1 DEF CompressedPut
  <2> HIDE DEF p
  <2>5. reader' \in [Readers -> Reader]
    <3>1. [reader[r] EXCEPT !.pc = "done", !.answer = p] \in Reader
      BY <2>2, ZenonT(60) DEF Reader
    <3>2. QED
      BY <2>4, <3>1
  <2>6. ReadsKnown'
    <3>1. cache'.key = cache'.payload.ids
      BY <2>2, <2>3
    <3>2. \A u \in Readers : /\ reader'[u].pc # "idle" => reader'[u].mode \in Modes
                             /\ reader'[u].pc = "llm" => reader'[u].answer = None
      BY <2>1, <2>4 DEF ReadsKnown, Reader
    <3>3. QED
      BY <3>1, <3>2 DEF ReadsKnown
  <2>7. cache' \in [key : SUBSET Ids, payload : Answer]
    BY <2>1, <2>2, <2>3
  <2>8. UNCHANGED <<mix, entry, today, upkeep, walk>>
    BY <1>1 DEF CompressedPut
  <2>9. QED
    BY <2>5, <2>6, <2>7, <2>8 DEF upkeep, PagesRead
<1>2. ASSUME NEW r \in Readers, NEW mode \in Modes, CompressedRead(r, mode)
      PROVE  TypeInv'
  <2> DEFINE now   == Payload(mode, Memories, Contents)
             start == [NoRead EXCEPT !.mode = mode, !.ids = Memories, !.texts = Contents]
  <2>1. now \in Answer /\ now.ids = Memories
    BY <1>0 DEF Payload, Answer
  <2>2. start \in Reader /\ start.mode = mode /\ start.answer = None
    BY <1>0 DEF NoRead, Reader
  <2> HIDE DEF now, start
  <2>3. PICK v \in Reader : /\ reader' = [reader EXCEPT ![r] = v]
                            /\ v.mode = mode /\ (v.pc = "llm" => v.answer = None)
    <3>1. CASE Hit(mode)
      <4>1. reader' = [reader EXCEPT ![r] = [start EXCEPT !.pc = "done", !.answer = cache.payload]]
        BY <1>2, <3>1 DEF CompressedRead, start
      <4>2. cache.payload \in Answer
        BY <3>1 DEF Hit
      <4>3. [start EXCEPT !.pc = "done", !.answer = cache.payload] \in Reader
        BY <2>2, <4>2 DEF Reader
      <4>4. QED
        BY <2>2, <4>1, <4>3 DEF Reader
    <3>2. CASE ~Hit(mode) /\ mode \in SlowModes
      <4>1. reader' = [reader EXCEPT ![r] = [start EXCEPT !.pc = "llm"]]
        BY <1>2, <3>2 DEF CompressedRead, start
      <4>2. [start EXCEPT !.pc = "llm"] \in Reader
        BY <2>2 DEF Reader
      <4>3. QED
        BY <2>2, <4>1, <4>2 DEF Reader
    <3>3. CASE ~Hit(mode) /\ mode \notin SlowModes
      <4>1. reader' = [reader EXCEPT ![r] = [start EXCEPT !.pc = "done", !.answer = now]]
        BY <1>2, <3>3 DEF CompressedRead, start, now
      <4>2. [start EXCEPT !.pc = "done", !.answer = now] \in Reader
        BY <2>1, <2>2 DEF Reader
      <4>3. QED
        BY <2>2, <4>1, <4>2 DEF Reader
    <3>4. QED
      BY <3>1, <3>2, <3>3
  <2>4. cache' = cache \/ cache' = [key |-> Memories, payload |-> now]
    BY <1>2 DEF CompressedRead, now
  <2>5. cache' = None \/ cache' \in [key : SUBSET Ids, payload : Answer]
    BY <1>0, <2>1, <2>4
  <2>6. ReadsKnown'
    <3>1. cache' # None => cache'.key = cache'.payload.ids
      BY <2>1, <2>4 DEF ReadsKnown
    <3>2. \A u \in Readers : /\ reader'[u].pc # "idle" => reader'[u].mode \in Modes
                             /\ reader'[u].pc = "llm" => reader'[u].answer = None
      BY <2>3 DEF ReadsKnown
    <3>3. QED
      BY <3>1, <3>2 DEF ReadsKnown
  <2>7. UNCHANGED <<mix, entry, today, upkeep, walk>>
    BY <1>2 DEF CompressedRead
  <2>8. QED
    BY <2>3, <2>5, <2>6, <2>7 DEF upkeep, PagesRead
<1>3. ASSUME Restart
      PROVE  TypeInv'
  BY <1>3, NoReadTyped DEF Restart, upkeep, PagesRead, ReadsKnown, NoRead
<1>4. ASSUME NEW limit \in Limits, WalkStart(limit)
      PROVE  TypeInv'
  <2>1. walk' \in Walk
    BY <1>4, NoWalkTyped DEF WalkStart, Walk, Live
  <2>2. QED
    BY <1>4, <2>1 DEF WalkStart, upkeep, reads, PagesRead, ReadsKnown
<1>5. ASSUME WalkPage
      PROVE  TypeInv'
  <2> DEFINE page == PageOf(Rest)
             last == CHOOSE e \in page : \A f \in page : f = e \/ Newer(f, e)
             sh   == [e \in Ids |-> IF e \in page THEN walk.shown[e] + 1 ELSE walk.shown[e]]
             cu   == IF page = {} THEN walk.cursor ELSE <<Time(last), last>>
             pc   == IF Rest = page THEN "done" ELSE "walking"
  <2>1. page \in SUBSET Ids
    BY DEF PageOf, Rest, Live
  <2>2. page # {} => last \in page /\ Time(last) \in Days
    BY <2>1, LastExists, TimeTyped
  <2>3. sh \in [Ids -> Nat]
    BY DEF Walk
  <2>4. cu \in (Days \X Ids) \cup {None}
    <3>1. walk.cursor \in (Days \X Ids) \cup {None}
      BY DEF Walk
    <3>2. last \in Ids /\ Time(last) \in Days => <<Time(last), last>> \in Days \X Ids
      <4> HIDE DEF last
      <4>1. QED
        OBVIOUS
    <3> HIDE DEF last, page
    <3>3. QED
      BY <2>1, <2>2, <3>1, <3>2
  <2>5. walk' = [walk EXCEPT !.shown = sh, !.cursor = cu, !.pc = pc]
    BY <1>5 DEF WalkPage
  <2>6. pc \in {"walking", "done"}
    OBVIOUS
  <2> HIDE DEF sh, cu, pc
  <2>7. walk' \in Walk
    BY <2>3, <2>4, <2>5, <2>6 DEF Walk
  <2>8. QED
    BY <1>5, <2>7 DEF WalkPage, upkeep, reads, PagesRead, ReadsKnown
<1> HIDE DEF TypeInv, TypeOK
<1>6. QED
  BY <1>1, <1>2, <1>3, <1>4, <1>5 DEF Reads

LEMMA TypeStep ==
    ASSUME TypeInv, [Next]_vars
    PROVE  TypeInv'
<1>1. ASSUME UNCHANGED vars
      PROVE  TypeInv'
  BY <1>1 DEF vars, TypeInv, TypeOK, ReadsKnown, PagesRead
<1>2. QED
  BY <1>1, UsersTyped, ConsolidationTyped, ReadsTyped DEF Next

-----------------------------------------------------------------------------
(* Compressed reads                                                        *)

\* An entry keeps its marks, and its text unless it is edited.
LEMMA EntriesAge ==
    ASSUME TypeInv, [Next]_vars, NEW e \in Ids
    PROVE  /\ entry[e].edited => entry'[e].edited
           /\ entry[e].life # "absent" => /\ entry'[e].life # "absent"
                                          /\ entry'[e].edited \/ entry'[e].text = entry[e].text
<1> DEFINE Aged == /\ entry[e].edited => entry'[e].edited
                   /\ entry[e].life # "absent" => /\ entry'[e].life # "absent"
                                                  /\ entry'[e].edited \/ entry'[e].text = entry[e].text
<1> SUFFICES Aged
  OBVIOUS
<1>0. entry \in [Ids -> Entry]
  BY DEF TypeInv, TypeOK
<1>1. ASSUME UNCHANGED entry PROVE Aged
  BY <1>1
<1>2. CASE Users
  <2>1. ASSUME NEW f \in Ids, NEW at, NEW src, NEW text, Create(f, at, src, text) PROVE Aged
    BY <1>0, <2>1 DEF Create, Entry
  <2>2. ASSUME NEW m \in Ids, NEW text, Update(m, text) PROVE Aged
    BY <1>0, <2>2 DEF Update, Entry
  <2>3. ASSUME NEW f \in Ids, Delete(f) PROVE Aged
    BY <1>0, <2>3 DEF Delete, Entry
  <2>4. ASSUME NEW c \in Chats, NEW at, Retime(c, at) PROVE Aged
    BY <1>0, <2>4 DEF Retime, Entry
  <2>5. ASSUME NextDay PROVE Aged
    BY <2>5 DEF NextDay
  <2> HIDE DEF Aged
  <2>6. QED
    BY <1>2, <2>1, <2>2, <2>3, <2>4, <2>5 DEF Users
<1>3. CASE Reads
  BY <1>1, <1>3 DEF Reads, CompressedPut, CompressedRead, Restart, WalkPage, WalkStart
<1>4. CASE Consolidation
  <2>1. ASSUME NEW p \in Passes, NEW S \in SUBSET Ids, PassPage(p, S) PROVE Aged
    BY <1>0, <2>1 DEF PassPage, Entry
  <2>2. ASSUME NEW p \in Passes, PassArchive(p) PROVE Aged
    BY <1>0, <2>2 DEF PassArchive, Entry
  <2> HIDE DEF Aged
  <2>3. QED
    BY <1>1, <1>4, <2>1, <2>2 DEF Consolidation, SetPolicy, PassStart, PassStep, PassWrite, PassPolicy,
                                  PassDeadlock, PassFail
<1>5. CASE UNCHANGED vars
  BY <1>1, <1>5 DEF vars
<1>6. QED
  BY <1>2, <1>3, <1>4, <1>5 DEF Next

\* What was read, seen after the step.
Stays(x) ==
    /\ x.ids = {p[1] : p \in x.texts}
    /\ \A p \in x.texts : /\ entry'[p[1]].life # "absent"
                          /\ entry'[p[1]].edited \/ entry'[p[1]].text = p[2]

LEMMA CurrentStays ==
    ASSUME TypeInv, [Next]_vars, NEW x, x.texts \subseteq Ids \X Texts, Current(x)
    PROVE  Stays(x)
<1>1. ASSUME NEW p \in x.texts
      PROVE  entry'[p[1]].life # "absent" /\ (entry'[p[1]].edited \/ entry'[p[1]].text = p[2])
  <2>1. p \in Ids \X Texts /\ p[1] \in Ids
    <3>1. p \in Ids \X Texts
      OBVIOUS
    <3>2. QED
      BY <3>1
  <2>2. entry[p[1]].life # "absent" /\ (entry[p[1]].edited \/ entry[p[1]].text = p[2])
    BY DEF Current
  <2>3. QED
    BY <2>1, <2>2, EntriesAge
<1>2. QED
  BY <1>1 DEF Current, Stays

\* The memories and their contents of this moment.
LEMMA ReadCurrent ==
    ASSUME TypeInv, NEW x, x.ids = Memories, x.texts = Contents
    PROVE  Current(x)
<1>1. Contents = {<<m, entry[m].text>> : m \in Memories}
  BY DEF Contents
<1>2. Memories = {p[1] : p \in Contents}
  <2>1. ASSUME NEW m \in Memories
        PROVE  m \in {p[1] : p \in Contents}
    <3>1. <<m, entry[m].text>> \in Contents /\ <<m, entry[m].text>>[1] = m
      BY <1>1
    <3>2. QED
      BY <3>1
  <2>2. \A p \in Contents : p[1] \in Memories
    BY <1>1
  <2>3. QED
    BY <2>1, <2>2
<1>3. \A p \in Contents : entry[p[1]].life # "absent" /\ entry[p[1]].text = p[2]
  <2>1. \A m \in Memories : entry[m].life = "live"
    BY DEF Memories, Live
  <2>2. QED
    BY <1>1, <2>1
<1>4. QED
  BY <1>2, <1>3 DEF Current

LEMMA TextsInit == Init => TextsKnown
BY DEF Init, TextsKnown, Current, NoRead

LEMMA TextsStep ==
    ASSUME TypeInv, TextsKnown, [Next]_vars
    PROVE  TextsKnown'
<1>0. /\ reader \in [Readers -> Reader]
      /\ \A r \in Readers : reader[r].texts \subseteq Ids \X Texts
      /\ cache # None => cache.payload.texts \subseteq Ids \X Texts
  BY DEF TypeInv, TypeOK, Reader, Answer
<1>1. (cache # None => Stays(cache.payload)) /\ \A r \in Readers : Stays(reader[r])
  BY <1>0, CurrentStays DEF TextsKnown
<1>2. ASSUME cache' # None => Stays(cache'.payload), \A r \in Readers : Stays(reader'[r])
      PROVE  TextsKnown'
  BY <1>2 DEF TextsKnown, Current, Stays
<1>3. CASE UNCHANGED <<reader, cache>>
  BY <1>1, <1>2, <1>3
<1>4. ASSUME NEW r \in Readers, CompressedPut(r)
      PROVE  TextsKnown'
  <2> DEFINE p == Payload(reader[r].mode, reader[r].ids, reader[r].texts)
  <2>1. p.ids = reader[r].ids /\ p.texts = reader[r].texts
    BY DEF Payload
  <2>2. reader' = [reader EXCEPT ![r].pc = "done", ![r].answer = p] /\ cache'.payload = p
    BY <1>4 DEF CompressedPut
  <2> HIDE DEF p
  <2>3. \A u \in Readers : reader'[u].ids = reader[u].ids /\ reader'[u].texts = reader[u].texts
    BY <1>0, <2>2 DEF Reader
  <2>4. QED
    BY <1>1, <1>2, <2>1, <2>2, <2>3 DEF Stays
<1>5. ASSUME NEW r \in Readers, NEW mode \in Modes, CompressedRead(r, mode)
      PROVE  TextsKnown'
  <2> DEFINE now   == Payload(mode, Memories, Contents)
             start == [NoRead EXCEPT !.mode = mode, !.ids = Memories, !.texts = Contents]
  <2>1. UNCHANGED entry
    BY <1>5 DEF CompressedRead
  <2>2. now.ids = Memories /\ now.texts = Contents
    BY DEF Payload
  <2>3. start.ids = Memories /\ start.texts = Contents
        /\ DOMAIN start = {"pc", "mode", "ids", "texts", "answer"}
    BY DEF NoRead
  <2>4. \/ reader' = [reader EXCEPT ![r] = [start EXCEPT !.pc = "done", !.answer = cache.payload]]
        \/ reader' = [reader EXCEPT ![r] = [start EXCEPT !.pc = "llm"]]
        \/ reader' = [reader EXCEPT ![r] = [start EXCEPT !.pc = "done", !.answer = now]]
    BY <1>5 DEF CompressedRead, start, now
  <2>5. cache' = cache \/ cache'.payload = now
    BY <1>5 DEF CompressedRead, now
  <2> HIDE DEF start, now
  <2>6. reader'[r].ids = Memories /\ reader'[r].texts = Contents
    BY <1>0, <2>3, <2>4
  <2>7. Stays(now) /\ Stays(reader'[r])
    <3>1. \A x : x.ids = Memories /\ x.texts = Contents => Current(x)
      BY ReadCurrent
    <3>2. \A x : Current(x) => Stays(x)
      BY <2>1 DEF Current, Stays
    <3>3. QED
      BY <2>2, <2>6, <3>1, <3>2
  <2>8. \A u \in Readers \ {r} : reader'[u] = reader[u]
    BY <1>0, <2>4
  <2>9. QED
    BY <1>1, <1>2, <2>5, <2>7, <2>8
<1>6. ASSUME Restart
      PROVE  TextsKnown'
  BY <1>6 DEF Restart, TextsKnown, Current, NoRead
<1>7. CASE Users
  BY <1>3, <1>7 DEF Users, Create, Update, Delete, Retime, NextDay, reads
<1>8. CASE Consolidation
  BY <1>3, <1>8 DEF Consolidation, SetPolicy, PassStart, PassStep, PassPage, PassWrite, PassPolicy,
                    PassArchive, PassDeadlock, PassFail, reads
<1>9. CASE Reads
  BY <1>3, <1>4, <1>5, <1>6, <1>9 DEF Reads, WalkPage, WalkStart, reads
<1>10. QED
  BY <1>3, <1>7, <1>8, <1>9 DEF Next, vars

LEMMA CompressedStep ==
    ASSUME TypeInv, TextsKnown, CompressedExact, [Next]_vars
    PROVE  CompressedExact'
<1> DEFINE Exact(a, x) == /\ a.mode = x.mode /\ a.ids = x.ids
                          /\ \A p \in a.texts : entry'[p[1]].edited \/ p \in x.texts
<1>0. /\ reader \in [Readers -> Reader]
      /\ \A r \in Readers : reader[r].answer # None => reader[r].answer \in Answer
  BY DEF TypeInv, TypeOK, Reader
<1>1. ASSUME NEW r \in Readers, reader[r].answer # None
      PROVE  Exact(reader[r].answer, reader[r])
  <2>1. \A p \in reader[r].answer.texts : p[1] \in Ids
    BY <1>0, <1>1 DEF Answer
  <2>2. QED
    BY <1>1, <2>1, EntriesAge DEF CompressedExact
<1>2. ASSUME \A r \in Readers : reader'[r].answer # None => Exact(reader'[r].answer, reader'[r])
      PROVE  CompressedExact'
  BY <1>2 DEF CompressedExact
<1>3. CASE UNCHANGED reader
  <2> HIDE DEF Exact
  <2>1. QED
    BY <1>1, <1>2, <1>3
<1>4. ASSUME NEW r \in Readers, NEW v, reader' = [reader EXCEPT ![r] = v],
             v.answer # None => Exact(v.answer, v)
      PROVE  CompressedExact'
  <2>1. reader'[r] = v /\ \A u \in Readers \ {r} : reader'[u] = reader[u]
    BY <1>0, <1>4
  <2> HIDE DEF Exact
  <2>2. QED
    BY <1>1, <1>2, <1>4, <2>1
<1>5. ASSUME NEW r \in Readers, CompressedPut(r)
      PROVE  CompressedExact'
  <2> DEFINE p == Payload(reader[r].mode, reader[r].ids, reader[r].texts)
             v == [reader[r] EXCEPT !.pc = "done", !.answer = p]
  <2>1. p.mode = reader[r].mode /\ p.ids = reader[r].ids /\ p.texts = reader[r].texts
    BY DEF Payload
  <2>2. reader' = [reader EXCEPT ![r] = v]
    BY <1>0, <1>5 DEF CompressedPut
  <2> HIDE DEF p
  <2>3. v.mode = reader[r].mode /\ v.ids = reader[r].ids /\ v.texts = reader[r].texts /\ v.answer = p
    BY <1>0 DEF Reader
  <2> HIDE DEF v
  <2>4. Exact(v.answer, v)
    BY <2>1, <2>3
  <2> HIDE DEF Exact
  <2>5. QED
    BY <1>4, <2>2, <2>4
<1>6. ASSUME NEW r \in Readers, NEW mode \in Modes, CompressedRead(r, mode)
      PROVE  CompressedExact'
  <2> DEFINE now   == Payload(mode, Memories, Contents)
             start == [NoRead EXCEPT !.mode = mode, !.ids = Memories, !.texts = Contents]
  <2>0. UNCHANGED entry
    BY <1>6 DEF CompressedRead
  <2>1. now.ids = Memories /\ now.mode = mode /\ now.texts = Contents
    BY DEF Payload
  <2>2. start.mode = mode /\ start.ids = Memories /\ start.texts = Contents /\ start.answer = None
        /\ DOMAIN start = {"pc", "mode", "ids", "texts", "answer"}
    BY DEF NoRead
  <2> HIDE DEF start, now
  <2>3. CASE Hit(mode)
    <3> DEFINE v == [start EXCEPT !.pc = "done", !.answer = cache.payload]
    <3>1. cache.payload.mode = mode /\ cache.payload.ids = Memories /\ Current(cache.payload)
          /\ cache.payload.texts \subseteq Ids \X Texts
      BY <2>3 DEF Hit, TypeInv, TypeOK, ReadsKnown, TextsKnown, Answer
    <3>2. \A p \in cache.payload.texts : entry'[p[1]].edited \/ p \in Contents
      <4>1. ASSUME NEW p \in cache.payload.texts, ~entry[p[1]].edited
            PROVE  p \in Contents
        <5>1. p = <<p[1], p[2]>> /\ p[1] \in Memories /\ p[2] = entry[p[1]].text
          BY <3>1, <4>1 DEF Current
        <5>2. QED
          BY <5>1 DEF Contents
      <4>2. QED
        BY <2>0, <4>1
    <3>3. v.answer = cache.payload /\ v.mode = mode /\ v.ids = Memories /\ v.texts = Contents
      BY <2>2
    <3>4. reader' = [reader EXCEPT ![r] = v]
      BY <1>6, <2>3 DEF CompressedRead, start
    <3> HIDE DEF v
    <3>5. Exact(v.answer, v)
      BY <3>1, <3>2, <3>3
    <3> HIDE DEF Exact
    <3>6. QED
      BY <1>4, <3>4, <3>5
  <2>4. CASE ~Hit(mode) /\ mode \in SlowModes
    <3> DEFINE v == [start EXCEPT !.pc = "llm"]
    <3>1. reader' = [reader EXCEPT ![r] = v]
      BY <1>6, <2>4 DEF CompressedRead, start
    <3>2. v.answer = None
      BY <2>2
    <3> HIDE DEF v, Exact
    <3>3. QED
      BY <1>4, <3>1, <3>2
  <2>5. CASE ~Hit(mode) /\ mode \notin SlowModes
    <3> DEFINE v == [start EXCEPT !.pc = "done", !.answer = now]
    <3>1. reader' = [reader EXCEPT ![r] = v]
      BY <1>6, <2>5 DEF CompressedRead, start, now
    <3>2. v.answer = now /\ v.mode = mode /\ v.ids = Memories /\ v.texts = Contents
      BY <2>2
    <3> HIDE DEF v
    <3>3. Exact(v.answer, v)
      BY <2>1, <3>2
    <3> HIDE DEF Exact
    <3>4. QED
      BY <1>4, <3>1, <3>3
  <2>6. QED
    BY <2>3, <2>4, <2>5
<1>7. ASSUME Restart
      PROVE  CompressedExact'
  BY <1>7 DEF Restart, CompressedExact, NoRead
<1>8. CASE Users
  BY <1>3, <1>8 DEF Users, Create, Update, Delete, Retime, NextDay, reads
<1>9. CASE Consolidation
  BY <1>3, <1>9 DEF Consolidation, SetPolicy, PassStart, PassStep, PassPage, PassWrite, PassPolicy,
                    PassArchive, PassDeadlock, PassFail, reads
<1>10. CASE Reads
  BY <1>3, <1>5, <1>6, <1>7, <1>10 DEF Reads, WalkPage, WalkStart, reads
<1>11. QED
  BY <1>3, <1>8, <1>9, <1>10 DEF Next, vars

LEMMA CompressedInit == Init => CompressedExact
BY DEF Init, CompressedExact, NoRead

-----------------------------------------------------------------------------
(* Decay                                                                   *)

PassesKnown == \A p \in Passes : PassKnown(pass[p])

LEMMA DecayInit == Init => DecayPerPass /\ PassesKnown
<1> SUFFICES ASSUME Init PROVE DecayPerPass /\ PassesKnown
  OBVIOUS
<1>1. DecayPerPass
  BY ConstantsTyped DEF Init, DecayPerPass, NoEntry
<1>2. \A m \in Ids : NoPass.met[m] = 0
  BY DEF NoPass
<1>3. PassesKnown
  BY <1>2, NoPassTyped DEF Init, PassesKnown, PassKnown
<1>4. QED
  BY <1>1, <1>3

\* What keeps the weights, the counts and the passes keeps the decays.
LEMMA DecayFrame ==
    ASSUME DecayPerPass, PassesKnown, UNCHANGED seen,
           \A m \in Ids : entry'[m].weight = entry[m].weight,
           \A p \in Passes : pass'[p] = pass[p] \/ PassKnown(pass[p])'
    PROVE  DecayPerPass' /\ PassesKnown'
BY DEF DecayPerPass, PassesKnown, PassKnown

LEMMA IdlePassKnown ==
    ASSUME NEW pc, pc \in {"idle", "page", "policy"}
    PROVE  LET q == [NoPass EXCEPT !.pc = pc]
           IN q.page = {} /\ DOMAIN q.read = {} /\ DOMAIN q.write = {} /\ \A m \in Ids : q.met[m] = 0
BY NoPassTyped DEF NoPass

LEMMA IdsFinite == IsFiniteSet(Ids) /\ Cardinality(Ids) = MaxId
<1>1. MaxId \in Nat
  BY ConstantsTyped
<1>2. IsFiniteSet(1..MaxId) /\ Cardinality(1..MaxId) = MaxId
  BY <1>1, FS_Interval
<1>3. QED
  BY <1>2 DEF Ids

LEMMA DecayPage ==
    ASSUME TypeInv, DecayPerPass, PassesKnown, NEW p \in Passes, NEW S \in SUBSET Ids, PassPage(p, S)
    PROVE  DecayPerPass' /\ PassesKnown'
<1>0. /\ pass \in [Passes -> Pass] /\ entry \in [Ids -> Entry] /\ seen \in [Ids -> 0..MaxWeight]
      /\ MaxWeight \in Nat
  BY ConstantsTyped DEF TypeInv, TypeOK
<1>1. \A q \in Passes : /\ DOMAIN pass[q].read \subseteq Ids /\ DOMAIN pass[q].write \subseteq Ids
                        /\ \A m \in DOMAIN pass[q].read : pass[q].read[m] \in 0..MaxWeight
                        /\ \A m \in DOMAIN pass[q].write : pass[q].write[m] \in 0..MaxWeight
                        /\ \A m \in Ids : pass[q].met[m] \in 0..MaxWeight
  BY <1>0 DEF Pass, Levels
<1>2. CASE S = {}
  <2> DEFINE w == pass[p].write
             met == pass[p].met
  <2>1. /\ entry' = [e \in Ids |-> IF e \in DOMAIN w THEN [entry[e] EXCEPT !.weight = w[e]] ELSE entry[e]]
        /\ seen' = [e \in Ids |-> Counted(seen[e] + met[e])]
        /\ pass' = [pass EXCEPT ![p] = [NoPass EXCEPT !.pc = "policy"]]
    BY <1>2 DEF PassPage, Move
  <2>2. ASSUME NEW m \in Ids
        PROVE  /\ seen[m] \in 0..MaxWeight /\ seen'[m] \in 0..MaxWeight /\ seen[m] <= seen'[m]
               /\ MaxWeight - entry'[m].weight <= seen'[m]
               /\ seen'[m] > 0 => entry'[m].weight < MaxWeight
    <3>1. seen[m] \in 0..MaxWeight /\ entry[m] \in Entry /\ entry[m].weight \in 0..MaxWeight
          /\ met[m] \in 0..MaxWeight
      BY <1>0, <1>1 DEF Entry
    <3>2. seen'[m] = IF seen[m] + met[m] < MaxWeight THEN seen[m] + met[m] ELSE MaxWeight
      BY <2>1 DEF Counted
    <3>3. entry'[m].weight = IF m \in DOMAIN w THEN w[m] ELSE entry[m].weight
      BY <2>1, <3>1 DEF Entry
    <3>4. /\ m \in DOMAIN w => /\ w[m] \in 0..MaxWeight
                               /\ MaxWeight - w[m] <= seen[m] + met[m]
                               /\ MaxWeight > 0 => w[m] < MaxWeight
          /\ m \notin DOMAIN w => ~(met[m] > 0)
      BY <1>1 DEF PassesKnown, PassKnown
    <3>5. MaxWeight - entry[m].weight <= seen[m] /\ (seen[m] > 0 => entry[m].weight < MaxWeight)
      BY DEF DecayPerPass
    <3> HIDE DEF w, met
    <3>6. QED
      BY <1>0, <3>1, <3>2, <3>3, <3>4, <3>5
  <2> HIDE DEF w, met
  <2>3. DecayPerPass'
    BY <2>2 DEF DecayPerPass
  <2>4. ASSUME NEW q \in Passes
        PROVE  PassKnown(pass[q])'
    <3>1. CASE q = p
      <4> DEFINE r == [NoPass EXCEPT !.pc = "policy"]
      <4>1. pass'[q] = r
        BY <1>0, <2>1, <3>1
      <4>2. r.page = {} /\ DOMAIN r.read = {} /\ DOMAIN r.write = {} /\ \A m \in Ids : r.met[m] = 0
        BY IdlePassKnown
      <4> HIDE DEF r
      <4>3. QED
        BY <4>1, <4>2 DEF PassKnown
    <3>2. CASE q # p
      <4>1. pass'[q] = pass[q] /\ PassKnown(pass[q])
        BY <1>0, <2>1, <3>2 DEF PassesKnown
      <4>2. \A m \in DOMAIN pass[q].read : MaxWeight - pass[q].read[m] <= seen'[m] + pass[q].met[m]
        BY <1>0, <1>1, <2>2, <4>1 DEF PassKnown
      <4>3. \A m \in DOMAIN pass[q].write : MaxWeight - pass[q].write[m] <= seen'[m] + pass[q].met[m]
        BY <1>0, <1>1, <2>2, <4>1 DEF PassKnown
      <4>4. QED
        BY <4>1, <4>2, <4>3 DEF PassKnown
    <3>3. QED
      BY <3>1, <3>2
  <2>5. QED
    BY <2>3, <2>4 DEF PassesKnown
<1>3. CASE S # {}
  <2> DEFINE rd == [m \in S |-> Weight(p, m)]
             q  == [pass[p] EXCEPT !.pc = "write", !.page = S, !.offset = NextOffset(p), !.read = rd]
  <2>1. PassKnown(pass[p])
    BY DEF PassesKnown
  <2>2. DOMAIN rd = S /\ \A m \in S : MaxWeight - rd[m] <= seen[m] + pass[p].met[m]
    <3>1. ASSUME NEW m \in S
          PROVE  MaxWeight - Weight(p, m) <= seen[m] + pass[p].met[m]
      <4>1. /\ seen[m] \in 0..MaxWeight /\ pass[p].met[m] \in 0..MaxWeight
            /\ entry[m].weight \in 0..MaxWeight /\ MaxWeight - entry[m].weight <= seen[m]
        BY <1>0, <1>1 DEF Entry, DecayPerPass
      <4>2. m \in DOMAIN pass[p].write => MaxWeight - pass[p].write[m] <= seen[m] + pass[p].met[m]
        BY <2>1 DEF PassKnown
      <4>3. QED
        BY <1>0, <4>1, <4>2 DEF Weight
    <3>2. QED
      BY <3>1
  <2>3. pass' = [pass EXCEPT ![p] = q] /\ UNCHANGED <<entry, seen>>
    BY <1>3 DEF PassPage, Move
  <2> HIDE DEF rd
  <2>4. q.page = S /\ q.read = rd /\ q.write = pass[p].write /\ q.met = pass[p].met
    BY <1>0 DEF Pass
  <2> HIDE DEF q
  <2>5. pass'[p] = q /\ \A u \in Passes \ {p} : pass'[u] = pass[u]
    BY <1>0, <2>3
  <2>6. PassKnown(pass[p])'
    BY <2>1, <2>2, <2>3, <2>4, <2>5 DEF PassKnown
  <2>7. \A u \in Passes : pass'[u] = pass[u] \/ PassKnown(pass[u])'
    BY <2>5, <2>6
  <2>8. QED
    BY <2>3, <2>7, DecayFrame
<1>4. QED
  BY <1>2, <1>3

LEMMA DecayWrite ==
    ASSUME TypeInv, DecayPerPass, PassesKnown, NEW p \in Passes, NEW m \in Ids, PassWrite(p, m)
    PROVE  DecayPerPass' /\ PassesKnown'
<1> DEFINE rest == pass[p].page \ {m}
           w    == [e \in DOMAIN pass[p].write \cup {m} |->
                       IF e = m THEN Decayed(pass[p].read[m]) ELSE pass[p].write[e]]
           met  == [pass[p].met EXCEPT ![m] = Counted(@ + 1)]
           pc   == IF rest = {} THEN "page" ELSE "write"
           q    == [pass[p] EXCEPT !.page = rest, !.write = w, !.met = met, !.pc = pc]
<1>0. /\ pass \in [Passes -> Pass] /\ entry \in [Ids -> Entry] /\ seen \in [Ids -> 0..MaxWeight]
      /\ MaxWeight \in Nat /\ PassKnown(pass[p])
  BY ConstantsTyped DEF TypeInv, TypeOK, PassesKnown
<1>1. pass' = [pass EXCEPT ![p] = q] /\ UNCHANGED <<entry, seen>>
  BY DEF PassWrite, Move
<1>2. /\ m \in DOMAIN pass[p].read /\ pass[p].read[m] \in 0..MaxWeight /\ seen[m] \in 0..MaxWeight
      /\ pass[p].met \in [Ids -> 0..MaxWeight] /\ pass[p].met[m] \in 0..MaxWeight
      /\ MaxWeight - pass[p].read[m] <= seen[m] + pass[p].met[m]
  <2>1. m \in DOMAIN pass[p].read
    BY <1>0 DEF PassKnown, PassWrite
  <2>2. pass[p].read \in Levels /\ pass[p].met \in [Ids -> 0..MaxWeight]
    BY <1>0 DEF Pass
  <2>3. QED
    BY <1>0, <2>1, <2>2 DEF PassKnown, Levels
<1>3. /\ MaxWeight - Decayed(pass[p].read[m]) <= seen[m] + Counted(pass[p].met[m] + 1)
      /\ MaxWeight > 0 => Decayed(pass[p].read[m]) < MaxWeight
      /\ pass[p].met[m] <= Counted(pass[p].met[m] + 1)
      /\ Counted(pass[p].met[m] + 1) \in 0..MaxWeight
  BY <1>0, <1>2 DEF Decayed, Counted
<1>4. met[m] = Counted(pass[p].met[m] + 1) /\ \A e \in Ids \ {m} : met[e] = pass[p].met[e]
  BY <1>2
<1>5. \A e \in DOMAIN w : /\ MaxWeight - w[e] <= seen[e] + met[e]
                          /\ MaxWeight > 0 => w[e] < MaxWeight
  <2>1. ASSUME NEW e \in DOMAIN pass[p].write, e # m
        PROVE  MaxWeight - pass[p].write[e] <= seen[e] + met[e]
               /\ (MaxWeight > 0 => pass[p].write[e] < MaxWeight)
    <3>1. e \in Ids \ {m}
      BY <1>0, <2>1 DEF Pass, Levels
    <3>2. QED
      BY <1>0, <1>4, <3>1 DEF PassKnown
  <2> HIDE DEF met
  <2>2. QED
    BY <1>3, <1>4, <2>1
<1>6. \A e \in DOMAIN pass[p].read : MaxWeight - pass[p].read[e] <= seen[e] + met[e]
  <2>1. ASSUME NEW e \in DOMAIN pass[p].read, e # m
        PROVE  MaxWeight - pass[p].read[e] <= seen[e] + met[e]
    <3>1. e \in Ids \ {m}
      BY <1>0, <2>1 DEF Pass, Levels
    <3>2. QED
      BY <1>0, <1>4, <3>1 DEF PassKnown
  <2>2. MaxWeight - pass[p].read[m] <= seen[m] + met[m]
    BY <1>0, <1>2, <1>3, <1>4
  <2> HIDE DEF met
  <2>3. QED
    BY <2>1, <2>2
<1>7. \A e \in Ids : met[e] > 0 => e \in DOMAIN w
  BY <1>0, <1>4 DEF PassKnown
<1>8. rest \subseteq DOMAIN pass[p].read
  BY <1>0 DEF PassKnown
<1> HIDE DEF w, pc, rest, met
<1>9. q.page = rest /\ q.write = w /\ q.met = met /\ q.read = pass[p].read
  BY <1>0 DEF Pass
<1> HIDE DEF q
<1>10. pass'[p] = q /\ \A u \in Passes \ {p} : pass'[u] = pass[u]
  BY <1>0, <1>1
<1>11. PassKnown(pass[p])'
  BY <1>1, <1>5, <1>6, <1>7, <1>8, <1>9, <1>10 DEF PassKnown
<1>12. \A u \in Passes : pass'[u] = pass[u] \/ PassKnown(pass[u])'
  BY <1>10, <1>11
<1>13. QED
  BY <1>1, <1>12, DecayFrame

LEMMA DecayStep ==
    ASSUME TypeInv, DecayPerPass, PassesKnown, [Next]_vars
    PROVE  DecayPerPass' /\ PassesKnown'
<1>0. pass \in [Passes -> Pass] /\ entry \in [Ids -> Entry] /\ BatchSize \in Nat \ {0}
  BY ConstantsTyped DEF TypeInv, TypeOK
<1>1. ASSUME UNCHANGED <<pass, seen>>, \A m \in Ids : entry'[m].weight = entry[m].weight
      PROVE  DecayPerPass' /\ PassesKnown'
  BY <1>1, DecayFrame
<1>2. CASE Users
  <2>1. UNCHANGED <<pass, seen>>
    BY <1>2 DEF Users, Create, Update, Delete, Retime, NextDay, upkeep
  <2>2. ASSUME NEW m \in Ids
        PROVE  entry'[m].weight = entry[m].weight
    <3>1. /\ DOMAIN entry = Ids
          /\ \A e \in Ids : DOMAIN entry[e] = {"life", "at", "born", "src", "status", "weight", "text",
                                             "edited"}
      BY <1>0 DEF Entry
    <3>2. ASSUME NEW e \in Ids, NEW at, NEW src, NEW text, Create(e, at, src, text)
          PROVE  entry'[m].weight = entry[m].weight
      BY <3>1, <3>2 DEF Create
    <3>3. ASSUME NEW e \in Ids, NEW text, Update(e, text)
          PROVE  entry'[m].weight = entry[m].weight
      BY <3>1, <3>3 DEF Update
    <3>4. ASSUME NEW e \in Ids, Delete(e)
          PROVE  entry'[m].weight = entry[m].weight
      BY <3>1, <3>4 DEF Delete
    <3>5. ASSUME NEW c \in Chats, NEW at, Retime(c, at)
          PROVE  entry'[m].weight = entry[m].weight
      BY <3>1, <3>5, ConstantsTyped DEF Retime
    <3>6. QED
      BY <1>2, <3>2, <3>3, <3>4, <3>5 DEF Users, NextDay
  <2>3. QED
    BY <1>1, <2>1, <2>2
<1>3. CASE Reads
  BY <1>1, <1>3 DEF Reads, CompressedPut, CompressedRead, Restart, WalkPage, WalkStart, upkeep
<1>4. ASSUME NEW p \in Passes, NEW pc \in {"idle", "page", "policy"}, UNCHANGED seen,
             pass' = [pass EXCEPT ![p] = [NoPass EXCEPT !.pc = pc]],
             \A m \in Ids : entry'[m].weight = entry[m].weight
      PROVE  DecayPerPass' /\ PassesKnown'
  <2> DEFINE q == [NoPass EXCEPT !.pc = pc]
  <2>1. q.page = {} /\ DOMAIN q.read = {} /\ DOMAIN q.write = {} /\ \A m \in Ids : q.met[m] = 0
    BY <1>4, IdlePassKnown
  <2>2. pass'[p] = q /\ \A u \in Passes \ {p} : pass'[u] = pass[u]
    BY <1>0, <1>4
  <2> HIDE DEF q
  <2>3. PassKnown(pass[p])'
    BY <2>1, <2>2 DEF PassKnown
  <2>4. \A u \in Passes : pass'[u] = pass[u] \/ PassKnown(pass[u])'
    BY <2>2, <2>3
  <2>5. QED
    BY <1>4, <2>4, DecayFrame
<1>5. NoPass = [NoPass EXCEPT !.pc = "idle"]
  <2>1. NoPass.pc = "idle"
    BY DEF NoPass
  <2>2. QED
    BY <2>1, NoPassTyped DEF Pass
<1>6. ASSUME NEW p \in Passes, PassPolicy(p)
      PROVE  DecayPerPass' /\ PassesKnown'
  <2> DEFINE c == today - RetentionDays
             q == [pass[p] EXCEPT !.pc = "archive", !.cutoff = c]
  <2> HIDE DEF c
  <2>1. /\ q.page = pass[p].page /\ q.met = pass[p].met /\ q.read = pass[p].read
        /\ q.write = pass[p].write
    BY <1>0 DEF Pass
  <2>2. pass' = [pass EXCEPT ![p] = q] /\ UNCHANGED <<entry, seen>>
    BY <1>6 DEF PassPolicy, Move, c
  <2>3. pass'[p] = q /\ \A u \in Passes \ {p} : pass'[u] = pass[u]
    BY <1>0, <2>2
  <2> HIDE DEF q
  <2>4. PassKnown(pass[p])'
    BY <2>1, <2>2, <2>3 DEF PassKnown, PassesKnown
  <2>5. \A u \in Passes : pass'[u] = pass[u] \/ PassKnown(pass[u])'
    BY <2>3, <2>4
  <2>6. QED
    BY <2>2, <2>5, DecayFrame
<1>7. ASSUME NEW p \in Passes, PassArchive(p)
      PROVE  DecayPerPass' /\ PassesKnown'
  <2>1. pass' = [pass EXCEPT ![p] = [NoPass EXCEPT !.pc = "idle"]] /\ UNCHANGED seen
    BY <1>5, <1>7 DEF PassArchive, Move
  <2>2. ASSUME NEW m \in Ids
        PROVE  entry'[m].weight = entry[m].weight
    BY <1>0, <1>7 DEF PassArchive, Entry
  <2>3. QED
    BY <1>4, <2>1, <2>2
<1>8. ASSUME NEW p \in Passes, PassFail(p) \/ PassDeadlock(p)
      PROVE  DecayPerPass' /\ PassesKnown'
  <2>1. pass' = [pass EXCEPT ![p] = [NoPass EXCEPT !.pc = "idle"]] /\ UNCHANGED <<seen, entry>>
    BY <1>5, <1>8 DEF PassFail, PassDeadlock, Move
  <2>2. QED
    BY <1>4, <2>1
<1>9. ASSUME NEW p \in Passes, PassStart(p)
      PROVE  DecayPerPass' /\ PassesKnown'
  <2>1. pass' = [pass EXCEPT ![p] = [NoPass EXCEPT !.pc = "page"]] /\ UNCHANGED <<seen, entry>>
    BY <1>9 DEF PassStart, Move
  <2>2. QED
    BY <1>4, <2>1
<1>10. CASE Consolidation
  <2>1. ASSUME NEW days, NEW auto, SetPolicy(days, auto)
        PROVE  DecayPerPass' /\ PassesKnown'
    BY <1>1, <2>1 DEF SetPolicy
  <2>2. QED
    BY <1>6, <1>7, <1>8, <1>9, <1>10, <2>1, DecayPage, DecayWrite DEF Consolidation, PassStep
<1>11. CASE UNCHANGED vars
  BY <1>1, <1>11 DEF vars
<1>12. QED
  BY <1>2, <1>3, <1>10, <1>11 DEF Next

-----------------------------------------------------------------------------
(* The walk                                                                *)

\* What WalkExact and WalkKnown read of an entry.
SameView(e) ==
    /\ entry'[e].life = entry[e].life /\ entry'[e].src = entry[e].src /\ entry'[e].at = entry[e].at

LEMMA WalkInit == Init => WalkKnown /\ WalkExact
BY DEF Init, WalkKnown, WalkExact, NoWalk, NoEntry, Live

\* A step that leaves the walk and what it reads alone.
LEMMA WalkFrame ==
    ASSUME TypeOK, WalkKnown, WalkExact, UNCHANGED walk, \A e \in Ids : SameView(e)
    PROVE  WalkKnown' /\ WalkExact'
<1>1. Live' = Live
  BY DEF Live, SameView
<1>2. \A e \in Ids : entry[e].src # None => entry[e].src \in Ids
  BY ConstantsTyped DEF TypeOK, Entry
<1>3. \A e \in Ids : Time(e)' = Time(e)
  BY <1>2 DEF Time, SameView
<1>4. \A e \in Ids : After(e, walk.cursor)' = After(e, walk.cursor)
  BY <1>3 DEF After
<1>5. walk.steady \subseteq Ids
  BY DEF TypeOK, Walk
<1>6. WalkExact'
  BY DEF WalkExact
<1>7. \A e \in Ids : /\ entry'[e].src # None => entry'[entry'[e].src].life # "absent"
                     /\ entry'[e].life = "absent" => entry'[e].src = None /\ walk'.shown[e] = 0
  BY <1>2 DEF WalkKnown, SameView
<1>8. QED
  BY <1>1, <1>4, <1>5, <1>6, <1>7 DEF WalkKnown

LEMMA WalkCreate ==
    ASSUME TypeOK, WalkKnown, WalkExact, NEW e \in Ids, NEW at, NEW src \in Chats \cup {None}, NEW text,
           Create(e, at, src, text)
    PROVE  WalkKnown' /\ WalkExact'
<1>1. /\ \A f \in Ids \ {e} : entry'[f] = entry[f]
      /\ entry'[e].life = "live" /\ entry'[e].src = src /\ entry[e].life = "absent"
      /\ src # None => src \in Ids \ {e} /\ entry[src].life # "absent"
  <2>1. entry \in [Ids -> Entry]
    BY DEF TypeOK
  <2>2. QED
    BY <2>1, ConstantsTyped DEF Create, Entry
<1>2. UNCHANGED walk
  BY DEF Create
<1>3. \A f \in Ids : entry[f].src # None => entry[f].src \in Ids /\ entry[f].src # e
  <2>1. \A f \in Ids : entry[f].src # None => entry[f].src \in Ids
    BY ConstantsTyped DEF TypeOK, Entry
  <2>2. QED
    BY <1>1, <2>1 DEF WalkKnown
<1>4. \A f \in Ids \ {e} : Time(f)' = Time(f)
  BY <1>1, <1>3 DEF Time
<1>5. \A f \in Ids \ {e} : After(f, walk.cursor)' = After(f, walk.cursor)
  BY <1>2, <1>4 DEF After
<1>6. walk.shown[e] = 0 /\ e \notin walk.steady /\ walk.steady \subseteq Ids
  BY <1>1 DEF WalkKnown, Live
<1>7. walk.steady \subseteq Live' \ walk.moved
  BY <1>1, <1>6 DEF WalkKnown, Live
<1>8. \A f \in Ids : /\ entry'[f].src # None => entry'[entry'[f].src].life # "absent"
                     /\ entry'[f].life = "absent" => entry'[f].src = None /\ walk'.shown[f] = 0
  BY <1>1, <1>2, <1>3 DEF WalkKnown
<1>9. WalkExact'
  BY <1>2 DEF WalkExact
<1>10. QED
  BY <1>2, <1>5, <1>6, <1>7, <1>8, <1>9 DEF WalkKnown

\* Entries that are deleted or whose time changes are marked.
LEMMA WalkDisturbed ==
    ASSUME TypeOK, WalkKnown, WalkExact, NEW S \in SUBSET Ids, Disturb(S),
           \A e \in Ids : entry'[e].src = entry[e].src,
           \A e \in Ids : entry[e].life = "absent" <=> entry'[e].life = "absent",
           \A e \in Ids \ S : entry'[e].life = entry[e].life,
           \A e \in Ids \ S : Time(e)' = Time(e)
    PROVE  WalkKnown' /\ WalkExact'
<1>1. /\ walk'.pc = walk.pc /\ walk'.limit = walk.limit /\ walk'.cursor = walk.cursor
      /\ walk'.shown = walk.shown /\ walk'.steady = walk.steady \ S /\ walk'.moved = walk.moved \cup S
  BY DEF Disturb, TypeOK, Walk
<1>2. \A e \in Ids \ S : After(e, walk.cursor)' = After(e, walk.cursor)
  BY <1>1 DEF After
<1>3. \A e \in Ids : entry[e].src # None => entry[e].src \in Ids
  BY ConstantsTyped DEF TypeOK, Entry
<1>4. walk'.steady \subseteq Live' \ walk'.moved
  BY <1>1 DEF WalkKnown, Live
<1>5. \A e \in Ids : /\ entry'[e].src # None => entry'[entry'[e].src].life # "absent"
                     /\ entry'[e].life = "absent" => entry'[e].src = None /\ walk'.shown[e] = 0
  BY <1>1, <1>3 DEF WalkKnown
<1>6. WalkExact'
  BY <1>1 DEF WalkExact
<1>7. walk.steady \subseteq Ids
  BY DEF WalkKnown, Live
<1>8. walk'.pc = "walking" =>
          /\ walk'.limit \in Limits
          /\ \A e \in Ids \ walk'.moved : walk'.shown[e] > 0 => ~After(e, walk.cursor)'
          /\ \A e \in walk'.steady : walk'.shown[e] = 0 => After(e, walk.cursor)'
  BY <1>1, <1>2, <1>7 DEF WalkKnown
<1>9. QED
  BY <1>4, <1>5, <1>6, <1>8 DEF WalkKnown

LEMMA WalkDelete ==
    ASSUME TypeOK, WalkKnown, WalkExact, NEW e \in Ids, Delete(e)
    PROVE  WalkKnown' /\ WalkExact'
<1>1. entry \in [Ids -> Entry]
  BY DEF TypeOK
<1>2. entry' = [entry EXCEPT ![e].life = "gone"] /\ entry[e].life = "live" /\ Disturb({e})
  BY DEF Delete, Live
<1>3. /\ \A f \in Ids \ {e} : entry'[f] = entry[f]
      /\ entry'[e].life = "gone" /\ entry'[e].src = entry[e].src /\ entry'[e].at = entry[e].at
  BY <1>1, <1>2 DEF Entry
<1>4. \A f \in Ids : entry[f].src # None => entry[f].src \in Ids
  BY ConstantsTyped DEF TypeOK, Entry
<1>5. \A f \in Ids \ {e} : Time(f)' = Time(f)
  BY <1>3, <1>4 DEF Time
<1>6. QED
  BY <1>2, <1>3, <1>5, WalkDisturbed

LEMMA WalkRetime ==
    ASSUME TypeOK, WalkKnown, WalkExact, NEW c \in Chats, NEW at, Retime(c, at)
    PROVE  WalkKnown' /\ WalkExact'
<1> DEFINE S == {c} \cup {m \in Ids : entry[m].src = c}
<1>1. entry \in [Ids -> Entry] /\ c \in Ids /\ S \in SUBSET Ids
  BY ConstantsTyped DEF TypeOK
<1>2. entry' = [entry EXCEPT ![c].at = at] /\ entry[c].life = "live" /\ Disturb(S)
  BY DEF Retime, Live
<1>3. /\ \A f \in Ids \ {c} : entry'[f] = entry[f]
      /\ entry'[c].life = "live" /\ entry'[c].src = entry[c].src
  BY <1>1, <1>2 DEF Entry
<1>4. \A f \in Ids : entry[f].src # None => entry[f].src \in Ids
  BY ConstantsTyped DEF TypeOK, Entry
<1>5. \A f \in Ids \ S : Time(f)' = Time(f)
  BY <1>3, <1>4 DEF Time
<1> HIDE DEF S
<1>6. \A f \in Ids \ S : f # c
  BY DEF S
<1>7. QED
  BY <1>1, <1>2, <1>3, <1>5, <1>6, WalkDisturbed

\* Where the page ends: its entries are not behind the new cursor, the rest
\* of the rest is.
LEMMA PageCuts ==
    ASSUME TypeOK, walk.limit \in Limits, NEW page, page = PageOf(Rest), NEW last \in page,
           \A f \in page : f = last \/ Newer(f, last), NEW e \in Ids
    PROVE  LET c == <<Time(last), last>>
           IN  /\ e \in page => ~After(e, c)
               /\ e \in Rest \ page => After(e, c)
               /\ ~After(e, walk.cursor) => ~After(e, c)
<1> DEFINE c == <<Time(last), last>>
<1>1. Rest \subseteq Ids /\ page \subseteq Rest /\ last \in Ids
  BY DEF PageOf, Rest, Live
<1>2. \A f \in Ids : Time(f) \in Nat /\ f \in Nat /\ Time(f) \in Days
  BY TimeTyped
<1>3. c # None /\ c[1] = Time(last) /\ c[2] = last
  BY <1>1, <1>2, ConstantsTyped
<1>4. e \in page => ~After(e, c)
  BY <1>1, <1>2, <1>3 DEF After, Newer
<1>5. ASSUME e \in Rest \ page
      PROVE  After(e, c)
  <2> DEFINE above(x) == {f \in Rest : Newer(f, x)}
  <2>1. ASSUME Newer(e, last)
        PROVE  FALSE
    <3>1. above(e) \subseteq above(last)
      BY <1>1, <1>2, <2>1 DEF Newer
    <3>2. IsFiniteSet(above(last))
      <4>1. IsFiniteSet(Ids)
        BY IdsFinite
      <4>2. above(last) \subseteq Ids
        BY <1>1
      <4>3. QED
        BY <4>1, <4>2, FS_Subset
    <3>3. /\ Cardinality(above(e)) <= Cardinality(above(last))
          /\ Cardinality(above(e)) \in Nat /\ Cardinality(above(last)) \in Nat
      BY <3>1, <3>2, FS_Subset, FS_CardinalityType
    <3>4. Cardinality(above(last)) < walk.limit /\ ~(Cardinality(above(e)) < walk.limit)
      BY <1>5 DEF PageOf, Rank
    <3>5. walk.limit \in Nat
      BY ConstantsTyped
    <3> HIDE DEF above
    <3>6. QED
      BY <3>3, <3>4, <3>5
  <2>2. e # last
    BY <1>5
  <2>3. QED
    BY <1>1, <1>2, <1>3, <2>1, <2>2 DEF After, Newer
<1>6. ~After(e, walk.cursor) => ~After(e, c)
  <2>1. After(last, walk.cursor)
    BY <1>1 DEF Rest
  <2>2. walk.cursor # None => walk.cursor[1] \in Nat /\ walk.cursor[2] \in Nat
    BY ConstantsTyped DEF TypeOK, Walk, Days, Ids
  <2>3. QED
    BY <1>1, <1>2, <1>3, <2>1, <2>2 DEF After
<1>7. QED
  BY <1>4, <1>5, <1>6

LEMMA WalkPaged ==
    ASSUME TypeOK, WalkKnown, WalkExact, WalkPage
    PROVE  WalkKnown' /\ WalkExact'
<1> DEFINE page == PageOf(Rest)
           last == CHOOSE e \in page : \A f \in page : f = e \/ Newer(f, e)
           sh   == [e \in Ids |-> IF e \in page THEN walk.shown[e] + 1 ELSE walk.shown[e]]
           cu   == IF page = {} THEN walk.cursor ELSE <<Time(last), last>>
           pc   == IF Rest = page THEN "done" ELSE "walking"
<1>1. walk' = [walk EXCEPT !.shown = sh, !.cursor = cu, !.pc = pc] /\ UNCHANGED entry
  BY DEF WalkPage
<1>2. page \in SUBSET Ids /\ page \subseteq Rest /\ Rest \subseteq Live /\ Live \subseteq Ids
      /\ \A e \in Live : e \in Rest <=> After(e, walk.cursor)
  BY DEF PageOf, Rest, Live
<1>3. page # {} => last \in page /\ \A f \in page : f = last \/ Newer(f, last)
  BY <1>2, LastExists
<1>4. walk.pc = "walking" /\ walk.limit \in Limits
  BY DEF WalkPage, WalkKnown
<1>5. ASSUME NEW e \in Ids
      PROVE  /\ e \in page => ~After(e, cu)
             /\ e \in Rest \ page => After(e, cu)
             /\ ~After(e, walk.cursor) => ~After(e, cu)
  <2>1. CASE page = {}
    BY <1>2, <2>1 DEF Rest
  <2>2. CASE page # {}
    <3>1. cu = <<Time(last), last>>
      BY <2>2
    <3>2. last \in page /\ \A f \in page : f = last \/ Newer(f, last)
      BY <1>3, <2>2
    <3> HIDE DEF cu, last
    <3>3. QED
      BY <1>4, <3>1, <3>2, PageCuts
  <2>3. QED
    BY <2>1, <2>2
<1>6. \A e \in Ids : sh[e] = IF e \in page THEN walk.shown[e] + 1 ELSE walk.shown[e]
  OBVIOUS
<1>7. \A e \in Ids : walk.shown[e] \in Nat
  BY DEF TypeOK, Walk
<1>8. pc = "done" <=> Rest = page
  OBVIOUS
<1> HIDE DEF page, last, sh, cu, pc
<1>9. /\ walk'.pc = pc /\ walk'.limit = walk.limit /\ walk'.cursor = cu /\ walk'.shown = sh
      /\ walk'.steady = walk.steady /\ walk'.moved = walk.moved
  BY <1>1 DEF TypeOK, Walk
<1>10. \A e \in Ids : After(e, walk.cursor)' <=> After(e, cu)
  BY <1>1, <1>9 DEF After, Time
<1>11. \A e \in Ids \ walk.moved : walk.shown[e] > 0 => ~After(e, walk.cursor) /\ e \notin page
  BY <1>2, <1>4 DEF WalkKnown
<1>12. \A e \in Ids : sh[e] > 1 => e \in walk.moved
  BY <1>6, <1>7, <1>11 DEF WalkExact
<1>13. ASSUME NEW e \in walk.steady
       PROVE  /\ e \in Live /\ e \in Ids \ walk.moved /\ walk.shown[e] \in {0, 1}
              /\ walk.shown[e] = 0 <=> e \in Rest
  <2>1. e \in Live /\ e \in Ids \ walk.moved
    BY <1>2 DEF WalkKnown
  <2>2. walk.shown[e] \in {0, 1}
    BY <1>7, <2>1 DEF WalkExact
  <2>3. walk.shown[e] = 0 => After(e, walk.cursor)
    BY <1>4 DEF WalkKnown
  <2>4. walk.shown[e] = 1 => ~After(e, walk.cursor)
    BY <1>11, <2>1
  <2>5. QED
    BY <1>2, <2>1, <2>2, <2>3, <2>4
<1>14. WalkExact'
  <2>1. ASSUME pc = "done", NEW e \in walk.steady
        PROVE  sh[e] = 1
    BY <1>6, <1>8, <1>13, <2>1
  <2>2. QED
    BY <1>9, <1>12, <2>1 DEF WalkExact
<1>15. WalkKnown'
  <2>1. \A e \in Ids : /\ entry'[e].src # None => entry'[entry'[e].src].life # "absent"
                       /\ entry'[e].life = "absent" => entry'[e].src = None /\ walk'.shown[e] = 0
    BY <1>1, <1>2, <1>6, <1>9 DEF WalkKnown, Live
  <2>2. walk'.steady \subseteq Live' \ walk'.moved
    BY <1>1, <1>9 DEF WalkKnown, Live
  <2>3. \A e \in Ids \ walk.moved : sh[e] > 0 => ~After(e, cu)
    BY <1>5, <1>6, <1>7, <1>11
  <2>4. \A e \in walk.steady : sh[e] = 0 => After(e, cu)
    BY <1>5, <1>6, <1>7, <1>13
  <2>5. walk.steady \subseteq Ids
    BY <1>13
  <2>6. QED
    BY <1>4, <1>9, <1>10, <2>1, <2>2, <2>3, <2>4, <2>5 DEF WalkKnown
<1>16. QED
  BY <1>14, <1>15

LEMMA WalkStep ==
    ASSUME TypeInv, WalkKnown, WalkExact, [Next]_vars
    PROVE  WalkKnown' /\ WalkExact'
<1>0. TypeOK /\ entry \in [Ids -> Entry]
  BY DEF TypeInv, TypeOK
<1>1. ASSUME UNCHANGED <<walk, entry>>
      PROVE  WalkKnown' /\ WalkExact'
  BY <1>0, <1>1, WalkFrame DEF SameView
<1>2. ASSUME NEW m \in Ids, NEW text, Update(m, text)
      PROVE  WalkKnown' /\ WalkExact'
  <2>1. \A e \in Ids : SameView(e)
    BY <1>0, <1>2 DEF Update, SameView, Entry
  <2>2. QED
    BY <1>0, <1>2, <2>1, WalkFrame DEF Update
<1>3. ASSUME NEW p \in Passes, NEW S, PassPage(p, S) \/ PassArchive(p)
      PROVE  WalkKnown' /\ WalkExact'
  <2>1. \A e \in Ids : \/ entry'[e] = entry[e]
                       \/ \E w : entry'[e] = [entry[e] EXCEPT !.weight = w]
                       \/ entry'[e] = [entry[e] EXCEPT !.status = "archived"]
    <3>1. CASE PassArchive(p)
      BY <3>1 DEF PassArchive
    <3>2. CASE PassPage(p, S) /\ S # {}
      BY <3>2 DEF PassPage
    <3>3. CASE PassPage(p, S) /\ S = {}
      <4>1. \A e \in Ids : entry'[e] = IF e \in DOMAIN pass[p].write
                                       THEN [entry[e] EXCEPT !.weight = pass[p].write[e]] ELSE entry[e]
        BY <3>3 DEF PassPage
      <4>2. QED
        BY <4>1
    <3>4. QED
      BY <1>3, <3>1, <3>2, <3>3
  <2>2. ASSUME NEW e \in Ids
        PROVE  SameView(e)
    <3>1. entry[e] \in Entry
      BY <1>0
    <3>2. CASE entry'[e] = entry[e]
      BY <3>2 DEF SameView
    <3>3. ASSUME NEW w, entry'[e] = [entry[e] EXCEPT !.weight = w]
          PROVE  SameView(e)
      BY <3>1, <3>3 DEF SameView, Entry
    <3>4. CASE entry'[e] = [entry[e] EXCEPT !.status = "archived"]
      BY <3>1, <3>4 DEF SameView, Entry
    <3>5. QED
      BY <2>1, <3>2, <3>3, <3>4
  <2>3. UNCHANGED walk
    BY <1>3 DEF PassPage, PassArchive
  <2>4. QED
    BY <1>0, <2>2, <2>3, WalkFrame
<1>4. ASSUME NEW limit \in Limits, WalkStart(limit)
      PROVE  WalkKnown' /\ WalkExact'
  <2>1. walk' = [NoWalk EXCEPT !.pc = "walking", !.limit = limit, !.steady = Live] /\ UNCHANGED entry
    BY <1>4 DEF WalkStart
  <2>2. /\ walk'.pc = "walking" /\ walk'.limit = limit /\ walk'.steady = Live /\ walk'.moved = {}
        /\ walk'.cursor = None /\ \A e \in Ids : walk'.shown[e] = 0
    BY <2>1 DEF NoWalk
  <2>3. Live' = Live /\ Live \subseteq Ids
    BY <2>1 DEF Live
  <2>4. QED
    BY <2>1, <2>2, <2>3 DEF WalkKnown, WalkExact, After
<1>5. CASE Users
  <2>1. mix.srcs \subseteq Chats \cup {None}
    BY <1>0, ConstantsTyped DEF TypeOK
  <2>2. QED
    BY <1>0, <1>1, <1>2, <1>5, <2>1, WalkCreate, WalkDelete, WalkRetime DEF Users, NextDay
<1>6. CASE Consolidation
  <2>1. ASSUME NEW p \in Passes, PassStart(p) \/ PassPolicy(p) \/ PassFail(p) \/ PassDeadlock(p)
                                 \/ \E m \in Ids : PassWrite(p, m)
        PROVE  UNCHANGED <<walk, entry>>
    BY <2>1 DEF PassStart, PassPolicy, PassFail, PassDeadlock, PassWrite
  <2>2. ASSUME NEW days, NEW auto, SetPolicy(days, auto)
        PROVE  UNCHANGED <<walk, entry>>
    BY <2>2 DEF SetPolicy
  <2>3. QED
    BY <1>1, <1>3, <1>6, <2>1, <2>2 DEF Consolidation, PassStep
<1>7. CASE Reads
  <2>1. ASSUME NEW r \in Readers, CompressedPut(r) \/ Restart \/ \E mode \in Modes : CompressedRead(r, mode)
        PROVE  UNCHANGED <<walk, entry>>
    BY <2>1 DEF CompressedPut, Restart, CompressedRead
  <2>2. ASSUME Restart
        PROVE  UNCHANGED <<walk, entry>>
    BY <2>2 DEF Restart
  <2>3. QED
    BY <1>0, <1>1, <1>4, <1>7, <2>1, <2>2, WalkPaged DEF Reads
<1>8. CASE UNCHANGED vars
  BY <1>1, <1>8 DEF vars
<1>9. QED
  BY <1>5, <1>6, <1>7, <1>8 DEF Next

-----------------------------------------------------------------------------
(* Folds over the subsets of a finite set, with a set or a function in the *)
(* place of what would be an operator.                                     *)

LEMMA SetInduction ==
    ASSUME NEW T, 0 \in T, \A n \in Nat : n \in T => n + 1 \in T
    PROVE  Nat \subseteq T
<1> DEFINE Out == Nat \ T
<1>1. ASSUME Out # {}
      PROVE  FALSE
  <2>1. PICK n \in Out : \A y \in Out : n <= y
    BY <1>1, LeastNat
  <2>2. n - 1 \in Nat /\ n - 1 < n /\ (n - 1) + 1 = n
    OBVIOUS
  <2>3. n - 1 \in Out
    BY <2>2
  <2>4. QED
    BY <2>1, <2>2, <2>3
<1>2. QED
  BY <1>1

LEMMA SubsetSizes ==
    ASSUME NEW S, IsFiniteSet(S)
    PROVE  \A s \in SUBSET S : /\ IsFiniteSet(s) /\ Cardinality(s) \in Nat
                               /\ Cardinality(s) = 0 <=> s = {}
                               /\ Cardinality(s) <= Cardinality(S)
                               /\ \A x \in s : Cardinality(s \ {x}) = Cardinality(s) - 1
BY FS_Subset, FS_CardinalityType, FS_EmptySet, FS_RemoveElement

\* A family of subsets with the empty set and every set whose smaller ones
\* it has, has them all.
LEMMA SubsetInduction ==
    ASSUME NEW S, IsFiniteSet(S), NEW Q, {} \in Q,
           \A s \in SUBSET S : s # {} /\ (\A x \in s : s \ {x} \in Q) => s \in Q
    PROVE  SUBSET S \subseteq Q
<1> DEFINE T == {n \in Nat : \A s \in SUBSET S : Cardinality(s) = n => s \in Q}
<1>1. 0 \in T
  BY SubsetSizes
<1>2. ASSUME NEW n \in Nat, n \in T
      PROVE  n + 1 \in T
  <2>1. ASSUME NEW s \in SUBSET S, Cardinality(s) = n + 1
        PROVE  s \in Q
    <3>1. s # {} /\ \A x \in s : s \ {x} \in SUBSET S /\ Cardinality(s \ {x}) = n
      BY <2>1, SubsetSizes
    <3>2. \A x \in s : s \ {x} \in Q
      BY <1>2, <3>1
    <3>3. QED
      BY <3>1, <3>2
  <2>2. QED
    BY <2>1
<1> HIDE DEF T
<1>3. Nat \subseteq T
  BY <1>1, <1>2, SetInduction
<1>4. QED
  BY <1>3, SubsetSizes DEF T

\* A fold over the subsets of S: pk takes an element out, h adds it.
IsFold(S, A, base, h, pk) ==
    /\ IsFiniteSet(S) /\ base \in A /\ h \in [S -> [A -> A]]
    /\ pk \in [(SUBSET S) \ {{}} -> S] /\ \A s \in (SUBSET S) \ {{}} : pk[s] \in s

FoldsTo(S, A, base, h, pk, g) ==
    /\ g \in [SUBSET S -> A]
    /\ \A s \in SUBSET S : g[s] = IF s = {} THEN base ELSE h[pk[s]][g[s \ {pk[s]}]]

\* It has a value for every subset.
LEMMA FoldExists ==
    ASSUME NEW S, NEW A, NEW base, NEW h, NEW pk, IsFold(S, A, base, h, pk)
    PROVE  \E g : FoldsTo(S, A, base, h, pk, g)
<1> DEFINE Sub(n) == {s \in SUBSET S : Cardinality(s) <= n}
           Eq(g, n) == \A s \in Sub(n) : g[s] = IF s = {} THEN base ELSE h[pk[s]][g[s \ {pk[s]}]]
           T == {n \in Nat : \E g \in [Sub(n) -> A] : Eq(g, n)}
<1>0. /\ IsFiniteSet(S) /\ base \in A /\ h \in [S -> [A -> A]]
      /\ pk \in [(SUBSET S) \ {{}} -> S] /\ \A s \in (SUBSET S) \ {{}} : pk[s] \in s
  BY DEF IsFold
<1> USE <1>0
<1>1. 0 \in T
  <2> DEFINE g == [s \in Sub(0) |-> base]
  <2>1. \A s \in Sub(0) : s = {}
    BY SubsetSizes
  <2>2. g \in [Sub(0) -> A] /\ Eq(g, 0)
    BY <2>1
  <2>3. QED
    BY <2>2
<1>2. ASSUME NEW n \in Nat, n \in T
      PROVE  n + 1 \in T
  <2>1. PICK g \in [Sub(n) -> A] : Eq(g, n)
    BY <1>2
  <2> DEFINE k == [s \in Sub(n + 1) |-> IF s = {} THEN base ELSE h[pk[s]][g[s \ {pk[s]}]]]
  <2>2. ASSUME NEW s \in Sub(n + 1), s # {}
        PROVE  s \ {pk[s]} \in Sub(n) /\ s \ {pk[s]} \in Sub(n + 1) /\ pk[s] \in S
    <3>1. pk[s] \in s
      BY <2>2
    <3>2. Cardinality(s) \in Nat /\ Cardinality(s \ {pk[s]}) = Cardinality(s) - 1
      BY <3>1, SubsetSizes
    <3>3. QED
      BY <3>1, <3>2
  <2>3. k \in [Sub(n + 1) -> A]
    <3>1. ASSUME NEW s \in Sub(n + 1)
          PROVE  (IF s = {} THEN base ELSE h[pk[s]][g[s \ {pk[s]}]]) \in A
      <4>1. CASE s # {}
        <5>1. g[s \ {pk[s]}] \in A /\ h[pk[s]] \in [A -> A]
          BY <2>2, <4>1
        <5>2. QED
          BY <4>1, <5>1
      <4>2. QED
        BY <4>1
    <3>2. QED
      BY <3>1
  <2>4. \A s \in Sub(n) : s \in Sub(n + 1) /\ k[s] = g[s]
    <3> TAKE s \in Sub(n)
    <3>1. s \in Sub(n + 1)
      BY SubsetSizes
    <3>2. QED
      BY <3>1, <2>1
  <2>5. Eq(k, n + 1)
    <3> SUFFICES ASSUME NEW s \in Sub(n + 1)
                 PROVE  k[s] = IF s = {} THEN base ELSE h[pk[s]][k[s \ {pk[s]}]]
      OBVIOUS
    <3>1. CASE s = {}
      BY <3>1
    <3>2. CASE s # {}
      <4>1. k[s \ {pk[s]}] = g[s \ {pk[s]}]
        BY <3>2, <2>2, <2>4
      <4>2. k[s] = h[pk[s]][g[s \ {pk[s]}]]
        BY <3>2
      <4> HIDE DEF k
      <4>3. QED
        BY <3>2, <4>1, <4>2
    <3>3. QED
      BY <3>1, <3>2
  <2> HIDE DEF k, Eq, Sub
  <2>6. \E z \in [Sub(n + 1) -> A] : Eq(z, n + 1)
    BY <2>3, <2>5
  <2>7. QED
    BY <2>6
<1>3. Nat \subseteq T
  <2> HIDE DEF T
  <2>1. QED
    BY <1>1, <1>2, SetInduction
<1>4. Cardinality(S) \in T
  BY <1>3, SubsetSizes
<1>5. PICK g \in [Sub(Cardinality(S)) -> A] : Eq(g, Cardinality(S))
  BY <1>4
<1>6. Sub(Cardinality(S)) = SUBSET S
  BY SubsetSizes
<1>7. QED
  BY <1>5, <1>6 DEF FoldsTo

-----------------------------------------------------------------------------
(* group_items                                                             *)

LEMMA MaxIn ==
    ASSUME NEW S \in SUBSET Nat, IsFiniteSet(S), S # {}
    PROVE  Max(S) \in S
<1> DEFINE Q == {s \in SUBSET S : s = {} \/ \E m \in s : \A y \in s : m >= y}
<1>1. {} \in Q
  OBVIOUS
<1>2. ASSUME NEW s \in SUBSET S, s # {}, \A x \in s : s \ {x} \in Q
      PROVE  s \in Q
  <2>1. PICK x \in s : TRUE
    BY <1>2
  <2>2. CASE s \ {x} = {}
    <3>1. \A y \in s : x >= y
      BY <2>2
    <3>2. QED
      BY <3>1
  <2>3. CASE s \ {x} # {}
    <3>1. PICK m \in s \ {x} : \A y \in s \ {x} : m >= y
      BY <1>2, <2>3
    <3>2. m \in Nat /\ x \in Nat /\ \A y \in s : y \in Nat
      OBVIOUS
    <3>3. (\A y \in s : m >= y) \/ (\A y \in s : x >= y)
      BY <3>1, <3>2
    <3>4. QED
      BY <3>1, <3>3
  <2>4. QED
    BY <2>2, <2>3
<1> HIDE DEF Q
<1>3. SUBSET S \subseteq Q
  BY <1>1, <1>2, SubsetInduction
<1>4. S \in Q
  BY <1>3
<1>5. QED
  BY <1>4 DEF Q, Max

LEMMA RangeAppend ==
    ASSUME NEW X, NEW q \in Seq(X), NEW x
    PROVE  Range(Append(q, x)) = Range(q) \cup {x}
<1>1. /\ DOMAIN Append(q, x) = 1..Len(q) + 1 /\ DOMAIN q = 1..Len(q) /\ Len(q) \in Nat
      /\ \A i \in 1..Len(q) : Append(q, x)[i] = q[i]
      /\ Append(q, x)[Len(q) + 1] = x
  OBVIOUS
<1> DEFINE a == Append(q, x)
<1> HIDE DEF a
<1>2. ASSUME NEW v
      PROVE  v \in Range(a) <=> v \in Range(q) \cup {x}
  <2>1. v \in Range(a) <=> \E i \in 1..Len(q) + 1 : v = a[i]
    BY <1>1 DEF Range, a
  <2>2. v \in Range(q) <=> \E i \in 1..Len(q) : v = q[i]
    BY <1>1 DEF Range
  <2>3. \A i \in 1..Len(q) + 1 : i \in 1..Len(q) \/ i = Len(q) + 1
    BY <1>1
  <2>4. QED
    BY <1>1, <2>1, <2>2, <2>3 DEF a
<1>3. QED
  BY <1>2 DEF a

\* The items of s are in the groups at most once.
Grouped(groups, s) ==
    /\ groups \in Seq(Group) /\ Disjoint(groups)
    /\ \A i \in DOMAIN groups : Range(groups[i].members) \subseteq s

LEMMA PlaceTyped ==
    ASSUME NEW groups \in Seq(Group), NEW x \in SegItems, NEW p \in Proposals
    PROVE  /\ Place(groups, x, p) \in Seq(Group)
           /\ \A s \in SUBSET SegItems : x \notin s /\ Grouped(groups, s) =>
                 Grouped(Place(groups, x, p), s \cup {x})
<1> DEFINE fits == {i \in DOMAIN groups : Fits(groups[i], p)}
           new  == [slug |-> p.slug, entities |-> p.entities, members |-> <<x>>]
<1>0. p.slug \in Slugs /\ p.entities \in SUBSET Entities /\ <<p.slug, p.slug>> \in Near
  BY SegmentAssumption DEF Entities
<1>1. CASE fits = {}
  <2>1. Place(groups, x, p) = Append(groups, new)
    BY <1>1 DEF Place
  <2>2. <<x>> \in Seq(SegItems) /\ Range(<<x>>) = {x}
    BY DEF Range
  <2>3. new \in Group /\ new.slug = p.slug /\ new.members = <<x>>
    BY <1>0, <2>2 DEF Group
  <2> HIDE DEF new
  <2>4. Append(groups, new) \in Seq(Group)
    BY <2>3
  <2>5. ASSUME NEW s \in SUBSET SegItems, x \notin s, Grouped(groups, s)
        PROVE  Grouped(Append(groups, new), s \cup {x})
    <3> DEFINE a == Append(groups, new)
    <3>1. /\ DOMAIN a = 1..Len(groups) + 1 /\ DOMAIN groups = 1..Len(groups) /\ Len(groups) \in Nat
          /\ \A i \in 1..Len(groups) : a[i] = groups[i]
          /\ a[Len(groups) + 1] = new
      OBVIOUS
    <3> HIDE DEF a
    <3>2. \A i \in DOMAIN groups : groups[i].slug # p.slug
      BY <1>0, <1>1 DEF Fits
    <3>3. \A i \in DOMAIN groups : Range(groups[i].members) \subseteq s
      BY <2>5 DEF Grouped
    <3>4. \A i \in DOMAIN a : \/ i \in DOMAIN groups /\ a[i] = groups[i]
                              \/ i = Len(groups) + 1 /\ a[i] = new
      <4> TAKE i \in DOMAIN a
      <4>1. i \in DOMAIN groups \/ i = Len(groups) + 1
        BY <3>1
      <4>2. QED
        BY <3>1, <4>1
    <3>5. \A i \in DOMAIN a : Range(a[i].members) \subseteq s \cup {x}
      BY <2>2, <2>3, <3>3, <3>4
    <3>6. Disjoint(a)
      <4> SUFFICES ASSUME NEW i \in DOMAIN a, NEW j \in DOMAIN a, i # j
                   PROVE  /\ a[i].slug # a[j].slug
                          /\ Range(a[i].members) \cap Range(a[j].members) = {}
        BY DEF Disjoint
      <4>1. CASE i \in DOMAIN groups /\ a[i] = groups[i] /\ j \in DOMAIN groups /\ a[j] = groups[j]
        BY <2>5, <4>1 DEF Grouped, Disjoint
      <4>2. CASE i \in DOMAIN groups /\ a[i] = groups[i] /\ a[j] = new
        BY <2>2, <2>3, <2>5, <3>2, <3>3, <4>2
      <4>3. CASE a[i] = new /\ j \in DOMAIN groups /\ a[j] = groups[j]
        BY <2>2, <2>3, <2>5, <3>2, <3>3, <4>3
      <4>4. QED
        BY <3>4, <4>1, <4>2, <4>3
    <3>7. QED
      BY <2>4, <3>5, <3>6 DEF Grouped, a
  <2>6. QED
    BY <2>1, <2>4, <2>5
<1>2. CASE fits # {}
  <2> DEFINE k == Min(fits)
             g == [groups[k] EXCEPT !.entities = @ \cup p.entities, !.members = Append(@, x)]
  <2>1. k \in fits
    <3>1. fits \in SUBSET Nat
      OBVIOUS
    <3>2. \E n \in fits : \A y \in fits : n =< y
      BY <1>2, <3>1, LeastNat
    <3> HIDE DEF fits
    <3>3. QED
      BY <3>2 DEF Min
  <2>2. k \in DOMAIN groups /\ groups[k] \in Group
    BY <2>1
  <2>3. Place(groups, x, p) = [groups EXCEPT ![k] = g]
    BY <1>2 DEF Place
  <2> HIDE DEF k, fits
  <2>4. g \in Group /\ g.slug = groups[k].slug /\ g.members = Append(groups[k].members, x)
    <3>1. groups[k].members \in Seq(SegItems)
      BY <2>2 DEF Group
    <3>2. Append(groups[k].members, x) \in Seq(SegItems)
      BY <3>1
    <3> DEFINE b == Append(groups[k].members, x)
               e == groups[k].entities \cup p.entities
    <3>3. e \in SUBSET Entities
      BY <1>0, <2>2 DEF Group
    <3>4. g = [groups[k] EXCEPT !.entities = e, !.members = b]
      OBVIOUS
    <3> HIDE DEF b, e, g
    <3>5. b \in Seq(SegItems)
      BY <3>2 DEF b
    <3>6. g \in Group /\ g.slug = groups[k].slug /\ g.members = b
      BY <2>2, <3>3, <3>4, <3>5 DEF Group
    <3>7. QED
      BY <3>6 DEF b
  <2>5. groups[k].members \in Seq(SegItems)
    BY <2>2 DEF Group
  <2>6. Range(g.members) = Range(groups[k].members) \cup {x}
    BY <2>4, <2>5, RangeAppend
  <2> HIDE DEF g
  <2> DEFINE a == [groups EXCEPT ![k] = g]
  <2>7. a \in Seq(Group) /\ DOMAIN a = DOMAIN groups /\ a[k] = g
        /\ \A i \in DOMAIN groups \ {k} : a[i] = groups[i]
    BY <2>2, <2>4
  <2> HIDE DEF a
  <2>8. ASSUME NEW s \in SUBSET SegItems, x \notin s, Grouped(groups, s)
        PROVE  Grouped(a, s \cup {x})
    <3>1. \A i \in DOMAIN groups : Range(groups[i].members) \subseteq s
      BY <2>8 DEF Grouped
    <3>2. \A i \in DOMAIN a : Range(a[i].members) \subseteq s \cup {x}
      BY <2>2, <2>6, <2>7, <3>1
    <3>3. Disjoint(a)
      <4> SUFFICES ASSUME NEW i \in DOMAIN a, NEW j \in DOMAIN a, i # j
                   PROVE  /\ a[i].slug # a[j].slug
                          /\ Range(a[i].members) \cap Range(a[j].members) = {}
        BY DEF Disjoint
      <4>1. /\ groups[i].slug # groups[j].slug
            /\ Range(groups[i].members) \cap Range(groups[j].members) = {}
        BY <2>7, <2>8 DEF Grouped, Disjoint
      <4>2. /\ a[i].slug = groups[i].slug /\ a[j].slug = groups[j].slug
            /\ Range(a[i].members) = Range(groups[i].members) \cup (IF i = k THEN {x} ELSE {})
            /\ Range(a[j].members) = Range(groups[j].members) \cup (IF j = k THEN {x} ELSE {})
        BY <2>4, <2>6, <2>7
      <4>3. QED
        BY <2>7, <2>8, <3>1, <4>1, <4>2
    <3>4. QED
      BY <2>7, <3>2, <3>3 DEF Grouped
  <2>9. QED
    BY <2>3, <2>7, <2>8 DEF a
<1>3. QED
  BY <1>1, <1>2

\* One item of the fold.
Taken(groups, x, p) == IF p = None THEN groups ELSE Place(groups, x, p)

Groupings(items, proposal, g) ==
    g = [s \in SUBSET items |->
            IF s = {} THEN <<>> ELSE Taken(g[s \ {Max(s)}], Max(s), proposal[Max(s)])]

LEMMA GroupsOfItems ==
    ASSUME NEW items \in SUBSET SegItems, NEW proposal \in [items -> Proposals \cup {None}]
    PROVE  LET groups == GroupItems(items, proposal) IN groups \in Seq(Group) /\ Disjoint(groups)
<1> DEFINE A  == Seq(Group)
           h  == [x \in items |-> [a \in A |-> Taken(a, x, proposal[x])]]
           pk == [s \in (SUBSET items) \ {{}} |-> Max(s)]
           G  == CHOOSE g : Groupings(items, proposal, g)
<1>1. IsFiniteSet(items) /\ items \subseteq Nat
  BY SegmentAssumption, FS_Subset
<1>2. \A s \in (SUBSET items) \ {{}} : Max(s) \in s
  <2> TAKE s \in (SUBSET items) \ {{}}
  <2>1. s \in SUBSET Nat /\ IsFiniteSet(s)
    BY <1>1, FS_Subset
  <2>2. QED
    BY <2>1, MaxIn
<1>3. \A x \in items, a \in A : Taken(a, x, proposal[x]) \in A
  BY PlaceTyped DEF Taken
<1>4. h \in [items -> [A -> A]] /\ pk \in [(SUBSET items) \ {{}} -> items]
  BY <1>2, <1>3
<1>5. PICK g \in [SUBSET items -> A] :
          \A s \in SUBSET items : g[s] = IF s = {} THEN <<>> ELSE h[pk[s]][g[s \ {pk[s]}]]
  <2>1. <<>> \in A /\ \A s \in (SUBSET items) \ {{}} : pk[s] \in s
    BY <1>2
  <2> DEFINE none == <<>>
  <2> HIDE DEF A, h, pk, none
  <2>2. none \in A
    BY <2>1 DEF none
  <2>3. \E g \in [SUBSET items -> A] :
          \A s \in SUBSET items : g[s] = IF s = {} THEN none ELSE h[pk[s]][g[s \ {pk[s]}]]
    <3>1. IsFold(items, A, none, h, pk)
      BY <1>1, <1>4, <2>1, <2>2 DEF IsFold
    <3>2. \E g : FoldsTo(items, A, none, h, pk, g)
      BY <3>1, FoldExists
    <3>3. QED
      BY <3>2 DEF FoldsTo
  <2>4. QED
    BY <2>3 DEF none
<1>6. Groupings(items, proposal, g)
  <2>1. ASSUME NEW s \in SUBSET items, s # {}
        PROVE  h[pk[s]][g[s \ {pk[s]}]] = Taken(g[s \ {Max(s)}], Max(s), proposal[Max(s)])
    <3>1. pk[s] = Max(s) /\ Max(s) \in items /\ s \ {Max(s)} \in SUBSET items
      BY <1>2, <2>1
    <3>2. g[s \ {Max(s)}] \in A
      BY <3>1
    <3>3. QED
      BY <3>1, <3>2
  <2> HIDE DEF h, pk
  <2>2. QED
    BY <1>5, <2>1 DEF Groupings
<1> HIDE DEF h, pk, A
<1>7. Groupings(items, proposal, G)
  BY <1>6
<1>8. GroupItems(items, proposal) = G[items]
  BY DEF GroupItems, MapThenFoldSet, Groupings, Taken
<1> HIDE DEF G
<1>9. \A s \in SUBSET items :
         G[s] = IF s = {} THEN <<>> ELSE Taken(G[s \ {Max(s)}], Max(s), proposal[Max(s)])
  BY <1>7 DEF Groupings
<1> DEFINE Q == {s \in SUBSET items : Grouped(G[s], s)}
<1>10. {} \in Q
  <2>1. G[{}] = <<>>
    BY <1>9
  <2>2. Grouped(<<>>, {})
    BY DEF Grouped, Disjoint
  <2>3. QED
    BY <2>1, <2>2
<1>11. ASSUME NEW s \in SUBSET items, s # {}, \A x \in s : s \ {x} \in Q
       PROVE  s \in Q
  <2> DEFINE x == Max(s)
             t == s \ {x}
  <2>1. x \in s /\ x \in items /\ x \in SegItems /\ t \in SUBSET SegItems /\ x \notin t /\ t \cup {x} = s
    BY <1>2, <1>11
  <2>2. Grouped(G[t], t)
    BY <1>11, <2>1
  <2>3. G[s] = Taken(G[t], x, proposal[x])
    BY <1>9, <1>11
  <2> HIDE DEF x, t
  <2>4. Grouped(G[t], s)
    BY <2>1, <2>2 DEF Grouped
  <2>5. proposal[x] # None => Grouped(Place(G[t], x, proposal[x]), s)
    <3>1. G[t] \in Seq(Group)
      BY <2>2 DEF Grouped
    <3>2. proposal[x] # None => proposal[x] \in Proposals
      BY <2>1
    <3>3. QED
      BY <2>1, <2>2, <3>1, <3>2, PlaceTyped
  <2>6. Grouped(G[s], s)
    BY <2>3, <2>4, <2>5 DEF Taken
  <2>7. QED
    BY <2>6
<1> HIDE DEF Q
<1>12. items \in Q
  BY <1>1, <1>10, <1>11, SubsetInduction
<1>13. QED
  BY <1>8, <1>12 DEF Q, Grouped

-----------------------------------------------------------------------------
(* The rows of the segments                                                *)

LEMMA SegmentsTyped ==
    /\ SegItems = SegChats \cup SegMems /\ SegChats \cap SegMems = {}
    /\ Source \in [SegMems -> SegChats \cup {None}] /\ Home \in Homes /\ MaxEdits \in Nat
<1>1. ASSUME NEW x \in SegChats \cap SegMems
      PROVE  FALSE
  <2>1. x \in Nat /\ x < x
    BY SegmentAssumption DEF SegItems
  <2>2. QED
    BY <2>1
<1>2. QED
  BY <1>1, SegmentAssumption DEF SegItems

LEMMA NoScriptTyped ==
    /\ NoScript \in Script /\ Ended \in Script /\ Ended.pc = "done" /\ NoScript.pc = "idle"
    /\ NoScript.chats = {} /\ NoScript.fresh = {} /\ NoScript.mems = {} /\ NoScript.groups = <<>>
    /\ Ended.chats = {} /\ Ended.fresh = {} /\ Ended.mems = {} /\ Ended.groups = <<>>
<1>1. <<>> \in Seq(Group)
  OBVIOUS
<1>2. NoScript \in Script
  BY <1>1 DEF NoScript, Script
<1>3. Ended \in Script
  BY <1>2 DEF Ended, Script
<1>4. QED
  BY <1>2, <1>3 DEF NoScript, Ended

LEMMA SegmentInit == SegInit => SegmentInv
<1> SUFFICES ASSUME SegInit PROVE SegmentInv
  OBVIOUS
<1>1. \A x \in SegItems : /\ item[x].life = IF x \in SegChats THEN "live" ELSE "absent"
                          /\ item[x].ns = Home /\ item[x].tag = None
  BY DEF SegInit
<1>2. item \in [SegItems -> Item]
  BY SegmentsTyped DEF SegInit, Item
<1>3. art \in [SegChats -> Homes] /\ \A c \in SegChats : art[c] = item[c].ns
  BY <1>1, SegmentsTyped DEF SegInit
<1>4. \A m \in SegMems : item[m].life = "absent"
  BY <1>1, SegmentsTyped
<1>5. script = NoScript /\ edits = 0 /\ profile \in [Homes \X Slugs -> {"none", "active", "retired"}]
  BY DEF SegInit
<1>6. ScriptKnown(script)
  BY <1>5, NoScriptTyped DEF ScriptKnown, Disjoint
<1>7. QED
  BY <1>1, <1>2, <1>3, <1>4, <1>5, <1>6, SegmentsTyped DEF SegmentInv

\* A request that leaves alone what it does not name keeps what the script
\* knows.
LEMMA EditKeepsScript ==
    ASSUME SegmentInv, NEW rows, NEW S, Edit(rows, S),
           \A x \in SegItems \ S : rows[x] = item[x],
           \A x \in SegItems : rows[x].life = "absent" => item[x].life = "absent"
    PROVE  ScriptKnown(script)' /\ edits' \in 0..MaxEdits /\ item' = rows
<1>1. item' = rows /\ script' = [script EXCEPT !.steady = @ \ S]
  BY DEF Edit
<1>2. script \in Script
  BY DEF SegmentInv, ScriptKnown
<1>3. /\ script'.pc = script.pc /\ script'.ns = script.ns /\ script'.tag = script.tag
      /\ script'.to = script.to /\ script'.chats = script.chats /\ script'.fresh = script.fresh
      /\ script'.mems = script.mems /\ script'.groups = script.groups
      /\ script'.steady = script.steady \ S /\ script' \in Script
  BY <1>1, <1>2 DEF Script
<1>4. /\ script.chats \subseteq SegItems /\ script.fresh \subseteq SegItems /\ script.mems \subseteq SegItems
      /\ script.steady \subseteq SegItems
  BY <1>2 DEF Script, SegItems
<1> DEFINE held == Segment(script.ns, script.tag, SegItems)
<1>5. held \ S \subseteq held'
  BY <1>1, <1>3 DEF Segment, Alive
<1>6. \A x \in script.chats \cup script.fresh \cup script.mems : item'[x].life # "absent"
  BY <1>1, <1>4 DEF SegmentInv, ScriptKnown
<1>7. Disjoint(script'.groups)
  BY <1>3 DEF SegmentInv, ScriptKnown
<1>8. /\ script'.pc = "pchats" => script'.steady \subseteq held'
      /\ script'.pc = "pmems" => script'.steady \subseteq script'.chats \cup (held' \cap SegMems)
      /\ script'.pc \in {"preflight", "move"} => script'.steady \subseteq script'.chats \cup script'.mems
  BY <1>3, <1>5 DEF SegmentInv, ScriptKnown
<1> HIDE DEF held
<1>9. ScriptKnown(script)'
  <2>1. \A m, n \in script.mems : Hash[m] = Hash[n] => m = n
    BY DEF SegmentInv, ScriptKnown
  <2>2. /\ script'.pc \in {"mems", "propose", "apply", "pchats", "pmems", "preflight", "move"} => script'.ns \in Homes
        /\ script'.pc \in {"pchats", "pmems", "preflight", "move"} => script'.tag \in Slugs /\ script'.to \in Homes
    BY <1>3 DEF SegmentInv, ScriptKnown
  <2>3. QED
    BY <1>3, <1>6, <1>7, <1>8, <2>1, <2>2 DEF ScriptKnown, held
<1>10. edits' \in 0..MaxEdits
  BY SegmentsTyped DEF Edit, SegmentInv
<1>11. QED
  BY <1>1, <1>9, <1>10

\* Rows whose memories keep life and namespace, or die, collide no more than
\* before.
LEMMA FewerCollide ==
    ASSUME SegmentInv, \A m \in SegMems : item'[m].life = "live" => item[m].life = "live" /\ item'[m].ns = item[m].ns
    PROVE  \A m \in SegMems : item'[m].life = "live" => ~Collides(m, item[m].ns)'
BY DEF SegmentInv, Collides, Alive

LEMMA MoveSegment ==
    ASSUME SegmentInv, NEW c \in SegChats, NEW ns \in Homes, MoveSegChat(c, ns)
    PROVE  SegmentInv'
<1> DEFINE r == [item[c] EXCEPT !.ns = ns, !.tag = None]
           rows == [item EXCEPT ![c] = r]
<1>1. item \in [SegItems -> Item] /\ c \in SegItems /\ c \notin SegMems /\ art \in [SegChats -> Homes]
  BY SegmentsTyped DEF SegmentInv
<1>2. Edit(rows, {c})
  BY DEF MoveSegChat
<1>3. r \in Item /\ r.life = "live" /\ r.ns = ns /\ r.tag = None
  BY <1>1 DEF Item, MoveSegChat
<1> HIDE DEF r
<1>4. rows \in [SegItems -> Item] /\ rows[c] = r /\ \A x \in SegItems \ {c} : rows[x] = item[x]
  BY <1>1, <1>3
<1> HIDE DEF rows
<1>5. ScriptKnown(script)' /\ edits' \in 0..MaxEdits /\ item' = rows
  BY <1>2, <1>3, <1>4, EditKeepsScript
<1>6. \A x \in SegItems : item'[x].life = "absent" => item'[x].tag = None
  BY <1>3, <1>4, <1>5 DEF SegmentInv
<1>7. art' = [art EXCEPT ![c] = ns] /\ UNCHANGED profile
  BY DEF MoveSegChat
<1>8. art' \in [SegChats -> Homes] /\ \A d \in SegChats : art'[d] = item'[d].ns
  BY <1>1, <1>3, <1>4, <1>5, <1>7, SegmentsTyped DEF SegmentInv
<1>9. \A m \in SegMems : item'[m] = item[m]
  BY <1>1, <1>4, <1>5, SegmentsTyped
<1>10. \A m \in SegMems : item'[m].life = "live" => ~Collides(m, item[m].ns)'
  BY <1>9, FewerCollide
<1>11. QED
  BY <1>4, <1>5, <1>6, <1>7, <1>8, <1>10 DEF SegmentInv

LEMMA CreateSegment ==
    ASSUME SegmentInv, NEW m \in SegMems, NEW ns \in Homes, NEW tag \in Slugs \cup {None},
           CreateSegMem(m, ns, tag)
    PROVE  SegmentInv'
<1> DEFINE r == [life |-> "live", ns |-> ns, tag |-> tag]
           rows == [item EXCEPT ![m] = r]
<1>1. item \in [SegItems -> Item] /\ m \in SegItems /\ m \notin SegChats /\ SegMems \subseteq SegItems
  BY SegmentsTyped DEF SegmentInv
<1>2. Edit(rows, {m}) /\ ~Collides(m, ns) /\ UNCHANGED <<art, profile>>
  BY DEF CreateSegMem
<1>3. r \in Item /\ r.life = "live" /\ r.ns = ns
  BY DEF Item
<1> HIDE DEF r
<1>4. rows \in [SegItems -> Item] /\ rows[m] = r /\ \A x \in SegItems \ {m} : rows[x] = item[x]
  BY <1>1, <1>3
<1> HIDE DEF rows
<1>5. ScriptKnown(script)' /\ edits' \in 0..MaxEdits /\ item' = rows
  BY <1>2, <1>3, <1>4, EditKeepsScript
<1>6. \A x \in SegItems : item'[x].life = "absent" => item'[x].tag = None
  BY <1>3, <1>4, <1>5 DEF SegmentInv
<1>7. \A c \in SegChats : art'[c] = item'[c].ns
  BY <1>1, <1>2, <1>4, <1>5, SegmentsTyped DEF SegmentInv
<1>8. ASSUME NEW n \in SegMems, item'[n].life = "live",
             NEW k \in SegMems \ {n}, item'[k].life = "live", item'[k].ns = item'[n].ns, Hash[k] = Hash[n]
      PROVE  FALSE
  <2>1. CASE n = m
    <3>1. k \in Alive(SegMems, ns) \ {m} /\ Hash[k] = Hash[m]
      BY <1>1, <1>3, <1>4, <1>5, <1>8, <2>1 DEF Alive
    <3>2. QED
      BY <1>2, <3>1 DEF Collides
  <2>2. CASE k = m
    <3>1. n \in Alive(SegMems, ns) \ {m} /\ Hash[n] = Hash[m]
      BY <1>1, <1>3, <1>4, <1>5, <1>8, <2>2 DEF Alive
    <3>2. QED
      BY <1>2, <3>1 DEF Collides
  <2>3. CASE n # m /\ k # m
    <3>1. item'[n] = item[n] /\ item'[k] = item[k]
      BY <1>1, <1>4, <1>5, <2>3
    <3>2. k \in Alive(SegMems, item[n].ns) \ {n}
      BY <1>8, <3>1 DEF Alive
    <3>3. QED
      BY <1>8, <3>1, <3>2 DEF SegmentInv, Collides
  <2>4. QED
    BY <2>1, <2>2, <2>3
<1>9. \A n \in SegMems : item'[n].life = "live" => ~Collides(n, item[n].ns)'
  BY <1>8 DEF Collides, Alive
<1>10. QED
  BY <1>2, <1>4, <1>5, <1>6, <1>7, <1>9 DEF SegmentInv

LEMMA DeleteSegment ==
    ASSUME SegmentInv, NEW x \in SegItems, DeleteSegItem(x)
    PROVE  SegmentInv'
<1> DEFINE r == [item[x] EXCEPT !.life = "gone"]
           rows == [item EXCEPT ![x] = r]
<1>1. item \in [SegItems -> Item] /\ SegMems \subseteq SegItems /\ SegChats \subseteq SegItems
  BY SegmentsTyped DEF SegmentInv
<1>2. Edit(rows, {x}) /\ UNCHANGED <<art, profile>>
  BY DEF DeleteSegItem
<1>3. r \in Item /\ r.life = "gone" /\ r.ns = item[x].ns /\ r.tag = item[x].tag
  BY <1>1 DEF Item
<1> HIDE DEF r
<1>4. rows \in [SegItems -> Item] /\ rows[x] = r /\ \A y \in SegItems \ {x} : rows[y] = item[y]
  BY <1>1, <1>3
<1> HIDE DEF rows
<1>5. ScriptKnown(script)' /\ edits' \in 0..MaxEdits /\ item' = rows
  BY <1>2, <1>3, <1>4, EditKeepsScript
<1>6. \A y \in SegItems : item'[y].life = "absent" => item'[y].tag = None
  BY <1>3, <1>4, <1>5 DEF SegmentInv
<1>7. \A c \in SegChats : art'[c] = item'[c].ns
  BY <1>1, <1>2, <1>3, <1>4, <1>5 DEF SegmentInv
<1>8. \A m \in SegMems : item'[m].life = "live" => item[m].life = "live" /\ item'[m].ns = item[m].ns
  BY <1>1, <1>3, <1>4, <1>5
<1>9. \A m \in SegMems : item'[m].life = "live" => ~Collides(m, item[m].ns)'
  BY <1>8, FewerCollide
<1>10. QED
  BY <1>2, <1>4, <1>5, <1>6, <1>7, <1>9 DEF SegmentInv

LEMMA TagSegment ==
    ASSUME SegmentInv, NEW c \in SegChats, NEW slug \in Slugs, TagSegChat(c, slug)
    PROVE  SegmentInv'
<1> DEFINE home == item[c].ns
           follows(x) == x = c \/ /\ x \in SegMems /\ Source[x] = c /\ item[x].life # "absent"
                                  /\ item[x].ns = home /\ item[x].tag = None
           rows == [x \in SegItems |-> IF follows(x) THEN [item[x] EXCEPT !.tag = slug] ELSE item[x]]
           S == {x \in SegItems : follows(x)}
<1>1. item \in [SegItems -> Item] /\ SegMems \subseteq SegItems /\ SegChats \subseteq SegItems /\ c \in SegItems
  BY SegmentsTyped DEF SegmentInv
<1>2. Edit(rows, S) /\ item[c].life = "live" /\ UNCHANGED art
  BY DEF TagSegChat
<1>3. ASSUME NEW x \in SegItems
      PROVE  /\ rows[x] \in Item /\ rows[x].life = item[x].life /\ rows[x].ns = item[x].ns
             /\ x \notin S => rows[x] = item[x]
             /\ rows[x].life = "absent" => rows[x] = item[x]
  <2>1. rows[x] = IF follows(x) THEN [item[x] EXCEPT !.tag = slug] ELSE item[x]
    OBVIOUS
  <2>2. item[x] \in Item /\ (follows(x) => item[x].life # "absent") /\ (follows(x) <=> x \in S)
    BY <1>1, <1>2
  <2> HIDE DEF rows, S, follows
  <2>3. QED
    BY <2>1, <2>2 DEF Item
<1>4. rows \in [SegItems -> Item]
  BY <1>3
<1> HIDE DEF rows, S, home
<1>5. ScriptKnown(script)' /\ edits' \in 0..MaxEdits /\ item' = rows
  BY <1>2, <1>3, EditKeepsScript
<1>6. \A y \in SegItems : item'[y].life = "absent" => item'[y].tag = None
  BY <1>3, <1>5 DEF SegmentInv
<1>7. \A d \in SegChats : art'[d] = item'[d].ns
  BY <1>1, <1>2, <1>3, <1>5 DEF SegmentInv
<1>8. \A m \in SegMems : item'[m].life = "live" => item[m].life = "live" /\ item'[m].ns = item[m].ns
  BY <1>1, <1>3, <1>5
<1>9. \A m \in SegMems : item'[m].life = "live" => ~Collides(m, item[m].ns)'
  BY <1>8, FewerCollide
<1>10. profile' \in [Homes \X Slugs -> {"none", "active", "retired"}]
  BY DEF TagSegChat, SegmentInv
<1>11. QED
  BY <1>2, <1>4, <1>5, <1>6, <1>7, <1>9, <1>10 DEF SegmentInv

-----------------------------------------------------------------------------
(* The scripts                                                             *)

\* A statement that only reads goes on with what it knows.
LEMMA AdvanceKeeps ==
    ASSUME SegmentInv, NEW q, Advance(q), ScriptKnown(q)
    PROVE  SegmentInv'
<1>1. script' = q /\ UNCHANGED <<item, art, profile, edits>>
  BY DEF Advance
<1>2. ScriptKnown(script)'
  BY <1>1 DEF ScriptKnown, Segment, Alive
<1>3. QED
  BY <1>1, <1>2 DEF SegmentInv, Collides, Alive

LEMMA EndedKnown == ScriptKnown(Ended)
<1>1. Disjoint(Ended.groups)
  BY NoScriptTyped DEF Disjoint
<1>2. QED
  BY <1>1, NoScriptTyped DEF ScriptKnown

LEMMA AliveFacts ==
    ASSUME SegmentInv, NEW ns
    PROVE  /\ Alive(SegChats, ns) \in SUBSET SegChats /\ Alive(SegMems, ns) \in SUBSET SegMems
           /\ \A x \in Alive(SegItems, ns) : item[x].life # "absent"
           /\ \A x \in Alive(SegChats, ns) \cup Alive(SegMems, ns) : x \in Alive(SegItems, ns)
           /\ \A m, n \in Alive(SegMems, ns) : Hash[m] = Hash[n] => m = n
<1>1. ASSUME NEW m \in Alive(SegMems, ns), NEW n \in Alive(SegMems, ns), Hash[m] = Hash[n], m # n
      PROVE  FALSE
  <2>1. item[m].life = "live" /\ item[m].ns = ns /\ m \in SegMems
    BY DEF Alive
  <2>2. Collides(m, item[m].ns)
    BY <1>1, <2>1 DEF Collides
  <2>3. QED
    BY <2>1, <2>2 DEF SegmentInv
<1>2. QED
  BY <1>1, SegmentsTyped DEF Alive

LEMMA BackfillSteps ==
    ASSUME SegmentInv,
           (\E ns \in Homes : BackfillChats(ns)) \/ BackfillMems \/ BackfillPropose
    PROVE  SegmentInv'
<1>0. script \in Script /\ ScriptKnown(script)
  BY DEF SegmentInv, ScriptKnown
<1>1. ASSUME NEW ns \in Homes, BackfillChats(ns)
      PROVE  SegmentInv'
  <2> DEFINE cs == Alive(SegChats, ns)
             fr == {c \in cs : item[c].tag = None}
             q  == [NoScript EXCEPT !.pc = "mems", !.ns = ns, !.chats = cs, !.fresh = fr]
  <2>1. cs \in SUBSET SegChats /\ fr \in SUBSET cs /\ \A x \in cs : item[x].life # "absent"
    BY AliveFacts
  <2>2. Advance(q)
    BY <1>1 DEF BackfillChats
  <2> HIDE DEF cs, fr
  <2>3. q \in Script /\ q.pc = "mems" /\ q.ns = ns /\ q.chats = cs /\ q.fresh = fr /\ q.mems = {}
        /\ q.groups = <<>>
    BY <2>1, NoScriptTyped DEF Script
  <2> HIDE DEF q
  <2>4. Disjoint(q.groups)
    BY <2>3 DEF Disjoint
  <2>5. ScriptKnown(q)
    BY <2>1, <2>3, <2>4 DEF ScriptKnown
  <2>6. QED
    BY <2>2, <2>5, AdvanceKeeps
<1>2. ASSUME BackfillMems
      PROVE  SegmentInv'
  <2> DEFINE ms == {m \in Alive(SegMems, script.ns) : item[m].tag = None}
             q  == [script EXCEPT !.pc = "propose", !.mems = ms]
  <2>1. ms \in SUBSET SegMems /\ (\A x \in ms : item[x].life # "absent")
        /\ \A m, n \in ms : Hash[m] = Hash[n] => m = n
    BY AliveFacts
  <2>2. Advance(q) \/ Advance(Ended)
    BY <1>2 DEF BackfillMems
  <2> HIDE DEF ms
  <2>3. /\ q \in Script /\ q.pc = "propose" /\ q.ns = script.ns /\ q.chats = script.chats
        /\ q.fresh = script.fresh /\ q.mems = ms /\ q.groups = script.groups /\ script.pc = "mems"
    BY <1>0, <1>2, <2>1 DEF Script, BackfillMems
  <2> HIDE DEF q
  <2>4. ScriptKnown(q)
    BY <1>0, <2>1, <2>3 DEF ScriptKnown
  <2>5. QED
    BY <2>2, <2>4, AdvanceKeeps, EndedKnown
<1>3. ASSUME BackfillPropose
      PROVE  SegmentInv'
  <2> DEFINE items == script.fresh \cup {m \in script.mems : ~Bridged(m)}
  <2>1. items \in SUBSET SegItems
    BY <1>0 DEF Script, SegItems
  <2>2. PICK proposal \in [items -> Proposals \cup {None}] :
            LET groups == GroupItems(items, proposal)
            IN  Advance(IF groups = <<>> THEN Ended ELSE [script EXCEPT !.pc = "apply", !.groups = groups])
    BY <1>3 DEF BackfillPropose
  <2> DEFINE groups == GroupItems(items, proposal)
             q == [script EXCEPT !.pc = "apply", !.groups = groups]
  <2>3. groups \in Seq(Group) /\ Disjoint(groups)
    BY <2>1, GroupsOfItems
  <2>4. Advance(q) \/ Advance(Ended)
    BY <2>2
  <2> HIDE DEF groups
  <2>5. /\ q \in Script /\ q.pc = "apply" /\ q.ns = script.ns /\ q.chats = script.chats
        /\ q.fresh = script.fresh /\ q.mems = script.mems /\ q.groups = groups /\ script.pc = "propose"
    BY <1>0, <1>3, <2>3 DEF Script, BackfillPropose
  <2> HIDE DEF q
  <2>6. ScriptKnown(q)
    BY <1>0, <2>3, <2>5 DEF ScriptKnown
  <2>7. QED
    BY <2>4, <2>6, AdvanceKeeps, EndedKnown
<1>4. QED
  BY <1>1, <1>2, <1>3

LEMMA BackfillApplied ==
    ASSUME SegmentInv, BackfillApply
    PROVE  SegmentInv'
<1>0. item \in [SegItems -> Item] /\ SegMems \subseteq SegItems /\ SegChats \subseteq SegItems
      /\ script \in Script
  BY SegmentsTyped DEF SegmentInv, ScriptKnown
<1>1. ASSUME NEW x
      PROVE  /\ Proposed(x) \in Slugs \cup {None}
             /\ Proposed(x) # None => x \in script.fresh \cup script.mems
  <2> DEFINE lead == IF x \in SegMems /\ Bridged(x) THEN Source[x] ELSE x
             of   == {g \in Range(script.groups) : lead \in Range(g.members)}
  <2>1. Range(script.groups) \subseteq Group
    BY <1>0 DEF Script, Range
  <2>2. of # {} => (CHOOSE g \in of : TRUE) \in Group
    BY <2>1
  <2>3. Proposed(x) = IF x \in script.fresh \cup script.mems /\ of # {} THEN (CHOOSE g \in of : TRUE).slug ELSE None
    BY DEF Proposed
  <2> HIDE DEF of
  <2>4. QED
    BY <2>2, <2>3 DEF Group
<1>2. ASSUME NEW x \in SegItems
      PROVE  /\ Stamped(x) \in Item /\ Stamped(x).life = item[x].life /\ Stamped(x).ns = item[x].ns
             /\ Stamped(x).life = "absent" => Stamped(x) = item[x]
  <2>1. Proposed(x) # None => item[x].life # "absent" /\ Proposed(x) \in Slugs
    BY <1>1 DEF SegmentInv, ScriptKnown
  <2>2. item[x] \in Item
    BY <1>0
  <2>3. QED
    BY <2>1, <2>2 DEF Stamped, Item
<1>3. \A x \in SegItems : item'[x] = Stamped(x)
  BY DEF BackfillApply
<1>4. item' \in [SegItems -> Item]
  BY <1>2 DEF BackfillApply
<1>5. script' = Ended /\ UNCHANGED <<art, edits>>
  BY DEF BackfillApply
<1>6. profile' \in [Homes \X Slugs -> {"none", "active", "retired"}]
  <2>1. profile \in [Homes \X Slugs -> {"none", "active", "retired"}]
    BY DEF SegmentInv
  <2>2. profile' = [t \in DOMAIN profile |->
                      IF /\ profile[t] = "none" /\ t[1] = script.ns
                         /\ t[2] \in {g.slug : g \in Range(script.groups)}
                      THEN "active" ELSE profile[t]]
    BY DEF BackfillApply
  <2>3. QED
    BY <2>1, <2>2
<1>7. ScriptKnown(script)'
  <2>1. Disjoint(Ended.groups)
    BY NoScriptTyped DEF Disjoint
  <2>2. QED
    BY <1>5, <2>1, NoScriptTyped DEF ScriptKnown
<1>8. \A y \in SegItems : item'[y].life = "absent" => item'[y].tag = None
  BY <1>2, <1>3 DEF SegmentInv
<1>9. \A d \in SegChats : art'[d] = item'[d].ns
  BY <1>0, <1>2, <1>3, <1>5 DEF SegmentInv
<1>10. \A m \in SegMems : item'[m].life = "live" => item[m].life = "live" /\ item'[m].ns = item[m].ns
  BY <1>0, <1>2, <1>3
<1>11. \A m \in SegMems : item'[m].life = "live" => ~Collides(m, item[m].ns)'
  BY <1>10, FewerCollide
<1>12. QED
  BY <1>4, <1>5, <1>6, <1>7, <1>8, <1>9, <1>11 DEF SegmentInv

LEMMA PromoteSteps ==
    ASSUME SegmentInv,
           \/ \E ns, to \in Homes, tag \in Slugs : PromoteStart(ns, tag, to)
           \/ PromoteChats \/ PromoteMems \/ ScriptFails
           \/ \E dry \in BOOLEAN : Preflight(dry)
    PROVE  SegmentInv'
<1>0. script \in Script /\ ScriptKnown(script)
  BY DEF SegmentInv, ScriptKnown
<1>1. ASSUME NEW ns \in Homes, NEW to \in Homes, NEW tag \in Slugs, PromoteStart(ns, tag, to)
      PROVE  SegmentInv'
  <2> DEFINE st == Segment(ns, tag, SegItems)
             q  == [NoScript EXCEPT !.pc = "pchats", !.ns = ns, !.tag = tag, !.to = to, !.steady = st]
  <2>1. st \in SUBSET SegItems
    BY DEF Segment, Alive
  <2>2. Advance(q)
    BY <1>1 DEF PromoteStart
  <2> HIDE DEF st
  <2>3. /\ q \in Script /\ q.pc = "pchats" /\ q.ns = ns /\ q.tag = tag /\ q.to = to /\ q.steady = st
        /\ q.chats = {} /\ q.fresh = {} /\ q.mems = {} /\ q.groups = <<>>
    BY <2>1, NoScriptTyped DEF Script
  <2> HIDE DEF q
  <2>4. Disjoint(q.groups)
    BY <2>3 DEF Disjoint
  <2>5. ScriptKnown(q)
    BY <2>3, <2>4 DEF ScriptKnown, st
  <2>6. QED
    BY <2>2, <2>5, AdvanceKeeps
<1>2. ASSUME PromoteChats
      PROVE  SegmentInv'
  <2> DEFINE cs == Segment(script.ns, script.tag, SegChats)
             held == Segment(script.ns, script.tag, SegItems)
             q  == [script EXCEPT !.pc = "pmems", !.chats = cs]
  <2>1. cs \in SUBSET SegChats /\ (\A x \in cs : item[x].life # "absent") /\ held \subseteq cs \cup (held \cap SegMems)
    BY SegmentsTyped DEF Segment, Alive
  <2>2. Advance(q) /\ script.pc = "pchats"
    BY <1>2 DEF PromoteChats
  <2>3. script.steady \subseteq held
    BY <1>0, <2>2 DEF ScriptKnown
  <2> HIDE DEF cs
  <2>4. /\ q \in Script /\ q.pc = "pmems" /\ q.ns = script.ns /\ q.tag = script.tag /\ q.to = script.to
        /\ q.steady = script.steady /\ q.chats = cs /\ q.fresh = script.fresh /\ q.mems = script.mems
        /\ q.groups = script.groups
    BY <1>0, <2>1 DEF Script
  <2> HIDE DEF q
  <2>5. q.steady \subseteq q.chats \cup (Segment(q.ns, q.tag, SegItems) \cap SegMems)
    BY <2>1, <2>3, <2>4
  <2>6. ScriptKnown(q)
    BY <1>0, <2>1, <2>2, <2>4, <2>5 DEF ScriptKnown
  <2>7. QED
    BY <2>2, <2>6, AdvanceKeeps
<1>3. ASSUME PromoteMems
      PROVE  SegmentInv'
  <2> DEFINE ms == Segment(script.ns, script.tag, SegMems)
             held == Segment(script.ns, script.tag, SegItems)
             q  == [script EXCEPT !.pc = "preflight", !.mems = ms]
  <2>1. /\ ms \in SUBSET SegMems /\ (\A x \in ms : item[x].life # "absent") /\ held \cap SegMems \subseteq ms
        /\ \A m, n \in ms : Hash[m] = Hash[n] => m = n
    BY SegmentsTyped, AliveFacts DEF Segment, Alive
  <2>2. Advance(q) /\ script.pc = "pmems"
    BY <1>3 DEF PromoteMems
  <2>3. script.steady \subseteq script.chats \cup (held \cap SegMems)
    BY <1>0, <2>2 DEF ScriptKnown
  <2> HIDE DEF ms, held
  <2>4. /\ q \in Script /\ q.pc = "preflight" /\ q.ns = script.ns /\ q.tag = script.tag /\ q.to = script.to
        /\ q.steady = script.steady /\ q.chats = script.chats /\ q.fresh = script.fresh /\ q.mems = ms
        /\ q.groups = script.groups
    BY <1>0, <2>1 DEF Script
  <2> HIDE DEF q
  <2>5. q.steady \subseteq q.chats \cup q.mems
    BY <2>1, <2>3, <2>4
  <2>6. ScriptKnown(q)
    BY <1>0, <2>1, <2>2, <2>4, <2>5 DEF ScriptKnown
  <2>7. QED
    BY <2>2, <2>6, AdvanceKeeps
<1>4. ASSUME NEW dry \in BOOLEAN, Preflight(dry)
      PROVE  SegmentInv'
  <2> DEFINE q == [script EXCEPT !.pc = "move"]
  <2>1. (Advance(q) \/ Advance(Ended)) /\ script.pc = "preflight"
    BY <1>4 DEF Preflight
  <2>2. /\ q \in Script /\ q.pc = "move" /\ q.ns = script.ns /\ q.tag = script.tag /\ q.to = script.to
        /\ q.steady = script.steady /\ q.chats = script.chats /\ q.fresh = script.fresh
        /\ q.mems = script.mems /\ q.groups = script.groups
    BY <1>0 DEF Script
  <2> HIDE DEF q
  <2>3. ScriptKnown(q)
    BY <1>0, <2>1, <2>2 DEF ScriptKnown
  <2>4. QED
    BY <2>1, <2>3, AdvanceKeeps, EndedKnown
<1>5. ASSUME ScriptFails
      PROVE  SegmentInv'
  BY <1>5, AdvanceKeeps, EndedKnown DEF ScriptFails
<1>6. QED
  BY <1>1, <1>2, <1>3, <1>4, <1>5

LEMMA PromoteApplied ==
    ASSUME SegmentInv, PromoteApply
    PROVE  SegmentInv'
<1> DEFINE S  == script.chats \cup script.mems
           to == script.to
<1>0. /\ item \in [SegItems -> Item] /\ SegMems \subseteq SegItems /\ SegChats \subseteq SegItems
      /\ SegChats \cap SegMems = {} /\ script.chats \subseteq SegChats /\ script.mems \subseteq SegMems
      /\ to \in Homes /\ art \in [SegChats -> Homes]
      /\ \A m, n \in script.mems : Hash[m] = Hash[n] => m = n
  BY SegmentsTyped DEF SegmentInv, ScriptKnown, Script, PromoteApply
<1>1. item' = Moved(S) /\ script' = Ended /\ UNCHANGED edits /\ \A m \in script.mems : ~Refused(m)
  BY DEF PromoteApply
<1>2. ASSUME NEW x \in SegItems
      PROVE  /\ item'[x] \in Item /\ item'[x].life = item[x].life
             /\ item'[x].ns = IF x \in S THEN to ELSE item[x].ns
             /\ item[x].tag = None => item'[x].tag = None
  <2>1. item'[x] = IF x \in S THEN [item[x] EXCEPT !.ns = to, !.tag = None] ELSE item[x]
    BY <1>1 DEF Moved
  <2>2. item[x] \in Item
    BY <1>0
  <2> HIDE DEF S, to
  <2>3. QED
    BY <1>0, <2>1, <2>2 DEF Item
<1>3. item' \in [SegItems -> Item]
  <2>1. item' = [x \in SegItems |-> item'[x]]
    BY <1>1 DEF Moved
  <2>2. QED
    BY <1>2, <2>1
<1>4. art' = [c \in SegChats |-> IF c \in script.chats THEN to ELSE art[c]]
  BY DEF PromoteApply
<1>5. art' \in [SegChats -> Homes] /\ \A c \in SegChats : art'[c] = item'[c].ns
  BY <1>0, <1>2, <1>4 DEF SegmentInv
<1>6. profile' \in [Homes \X Slugs -> {"none", "active", "retired"}]
  BY DEF PromoteApply, SegmentInv
<1>7. ScriptKnown(script)'
  <2>1. Disjoint(Ended.groups)
    BY NoScriptTyped DEF Disjoint
  <2>2. QED
    BY <1>1, <2>1, NoScriptTyped DEF ScriptKnown
<1>8. \A y \in SegItems : item'[y].life = "absent" => item'[y].tag = None
  BY <1>2 DEF SegmentInv
<1>9. \A m \in SegMems : m \in S <=> m \in script.mems
  BY <1>0
<1> HIDE DEF S
<1>10. ASSUME NEW m \in SegMems, NEW n \in SegMems, m # n, item[m].life = "live", item[n].life = "live",
              Hash[m] = Hash[n], item'[m].ns = item'[n].ns
       PROVE  FALSE
  <2>1. CASE m \in script.mems /\ n \in script.mems
    BY <1>0, <1>10, <2>1
  <2>2. CASE m \in script.mems /\ n \notin script.mems
    <3>1. n \in Alive(SegMems, to) \ {m}
      BY <1>0, <1>2, <1>9, <1>10, <2>2 DEF Alive
    <3>2. Refused(m)
      BY <1>10, <3>1 DEF Refused, Collides
    <3>3. QED
      BY <1>1, <2>2, <3>2
  <2>3. CASE m \notin script.mems /\ n \in script.mems
    <3>1. m \in Alive(SegMems, to) \ {n}
      BY <1>0, <1>2, <1>9, <1>10, <2>3 DEF Alive
    <3>2. Refused(n)
      BY <1>10, <3>1 DEF Refused, Collides
    <3>3. QED
      BY <1>1, <2>3, <3>2
  <2>4. CASE m \notin script.mems /\ n \notin script.mems
    <3>1. item[m].ns = item[n].ns
      BY <1>0, <1>2, <1>9, <1>10, <2>4
    <3>2. n \in Alive(SegMems, item[m].ns) \ {m}
      BY <1>10, <3>1 DEF Alive
    <3>3. QED
      BY <1>10, <3>2 DEF SegmentInv, Collides
  <2>5. QED
    BY <2>1, <2>2, <2>3, <2>4
<1>11. \A m \in SegMems : item'[m].life = "live" => ~Collides(m, item[m].ns)'
  BY <1>0, <1>2, <1>10 DEF Collides, Alive
<1>12. QED
  BY <1>1, <1>3, <1>5, <1>6, <1>7, <1>8, <1>11 DEF SegmentInv

LEMMA SegmentStep ==
    ASSUME SegmentInv, [SegNext]_<<vars, segVars>>
    PROVE  SegmentInv'
<1>1. ASSUME UNCHANGED segVars
      PROVE  SegmentInv'
  BY <1>1 DEF segVars, SegmentInv, ScriptKnown, Segment, Alive, Collides
<1>2. CASE SegRequests
  BY <1>2, MoveSegment, CreateSegment, DeleteSegment, TagSegment DEF SegRequests
<1>3. CASE Scripts
  BY <1>3, BackfillSteps, BackfillApplied, PromoteSteps, PromoteApplied DEF Scripts
<1>4. QED
  BY <1>1, <1>2, <1>3 DEF SegNext

-----------------------------------------------------------------------------
(* Both together                                                           *)

\* The scripts leave what NamespaceUpkeep keeps alone.
LEMMA SegmentsApart ==
    ASSUME [SegNext]_<<vars, segVars>>
    PROVE  [Next]_vars
<1>1. CASE SegRequests
  BY <1>1 DEF SegRequests, MoveSegChat, CreateSegMem, DeleteSegItem, TagSegChat, Edit
<1>2. CASE Scripts
  BY <1>2 DEF Scripts, BackfillChats, BackfillMems, BackfillPropose, BackfillApply, PromoteStart,
              PromoteChats, PromoteMems, PromoteApply, ScriptFails, Preflight, Advance
<1>3. QED
  BY <1>1, <1>2 DEF SegNext

UpkeepParts == TypeInv /\ TextsKnown /\ DecayPerPass /\ PassesKnown /\ WalkKnown /\ WalkExact

(* What the consolidation passes, the compressed reads, the timeline and   *)
(* the scripts rely on holds for namespaces of any size and any            *)
(* _BATCH_SIZE of _decay_weights: passes that overlap, or whose pages show *)
(* a memory twice, never lose all of the decays, the index of active       *)
(* memories holds under promote_namespace_tag.py, and a promotion moves    *)
(* every row that stayed in its segment.                                   *)
THEOREM MaintenanceInvariant == SegSpec => []MaintenanceInv
<1>1. SegInit => UpkeepParts /\ SegmentInv
  BY TypeInit, TextsInit, DecayInit, WalkInit, SegmentInit DEF SegInit, UpkeepParts
<1>2. UpkeepParts /\ SegmentInv /\ [SegNext]_<<vars, segVars>> => UpkeepParts' /\ SegmentInv'
  BY SegmentsApart, SegmentStep, TypeStep, TextsStep, DecayStep, WalkStep DEF UpkeepParts
<1>3. UpkeepParts /\ SegmentInv => MaintenanceInv
  BY DEF UpkeepParts, MaintenanceInv, UpkeepInv, TypeInv, PassesKnown
<1>4. QED
  BY <1>1, <1>2, <1>3, PTL DEF SegSpec

(* get_namespace_compressed answers with the mode and the memories of its  *)
(* request, and with their contents then unless a memory has been edited,  *)
(* whatever slow syntheses put in the cache meanwhile.                     *)
THEOREM CompressedAnswersExact == SegSpec => []CompressedExact
<1>1. SegInit => TypeInv /\ TextsKnown /\ CompressedExact
  BY TypeInit, TextsInit, CompressedInit DEF SegInit
<1>2. TypeInv /\ TextsKnown /\ CompressedExact /\ [SegNext]_<<vars, segVars>>
         => TypeInv' /\ TextsKnown' /\ CompressedExact'
  BY SegmentsApart, TypeStep, TextsStep, CompressedStep
<1>3. QED
  BY <1>1, <1>2, PTL DEF SegSpec

(* A walk along get_namespace_timeline shows every entry that stays in the *)
(* namespace exactly once, for pages of any size, any number of equal      *)
(* source times and any disturbance of the other entries.                  *)
THEOREM WalksAreExact == SegSpec => []WalkExact
<1>1. SegInit => TypeInv /\ WalkKnown /\ WalkExact
  BY TypeInit, WalkInit DEF SegInit
<1>2. TypeInv /\ WalkKnown /\ WalkExact /\ [SegNext]_<<vars, segVars>>
         => TypeInv' /\ WalkKnown' /\ WalkExact'
  BY SegmentsApart, TypeStep, WalkStep
<1>3. QED
  BY <1>1, <1>2, PTL DEF SegSpec

\* No row exchanges a tag for another.
Settled(x) == item[x].tag # None /\ item'[x].tag # None => item'[x].tag = item[x].tag

LEMMA SettledStep ==
    ASSUME SegmentInv, [SegNext]_<<vars, segVars>>, NEW x \in SegItems
    PROVE  Settled(x)
<1>0. item \in [SegItems -> Item] /\ SegChats \subseteq SegItems /\ SegMems \subseteq SegItems
  BY DEF SegmentInv, SegItems
<1>1. ASSUME UNCHANGED item
      PROVE  Settled(x)
  BY <1>1 DEF Settled
<1>2. ASSUME NEW c \in SegChats, NEW ns \in Homes, MoveSegChat(c, ns)
      PROVE  Settled(x)
  BY <1>0, <1>2 DEF MoveSegChat, Edit, Settled, Item
<1>3. ASSUME NEW m \in SegMems, NEW ns \in Homes, NEW tag \in Slugs \cup {None}, CreateSegMem(m, ns, tag)
      PROVE  Settled(x)
  BY <1>0, <1>3 DEF CreateSegMem, Edit, Settled, Item, SegmentInv
<1>4. ASSUME NEW y \in SegItems, DeleteSegItem(y)
      PROVE  Settled(x)
  BY <1>0, <1>4 DEF DeleteSegItem, Edit, Settled, Item
<1>5. ASSUME NEW c \in SegChats, NEW slug \in Slugs, TagSegChat(c, slug)
      PROVE  Settled(x)
  BY <1>0, <1>5 DEF TagSegChat, Edit, Settled, Item
<1>6. CASE BackfillApply
  BY <1>0, <1>6 DEF BackfillApply, Stamped, Settled, Item
<1>7. CASE PromoteApply
  BY <1>0, <1>7 DEF PromoteApply, Moved, Settled, Item
<1>8. CASE Scripts /\ ~BackfillApply /\ ~PromoteApply
  <2>1. UNCHANGED item
    BY <1>8 DEF Scripts, BackfillChats, BackfillMems, BackfillPropose, PromoteStart, PromoteChats,
                PromoteMems, ScriptFails, Preflight, Advance
  <2>2. QED
    BY <1>1, <2>1
<1>9. CASE SegRequests
  BY <1>2, <1>3, <1>4, <1>5, <1>9 DEF SegRequests
<1>10. QED
  BY <1>1, <1>6, <1>7, <1>8, <1>9 DEF SegNext, segVars

(* backfill_namespace_tags.py and the tag tasks never put another tag in   *)
(* place of one that a row has, however long ago the script looked for     *)
(* untagged rows.                                                          *)
THEOREM TagsStaySettled == SegSpec => TagsSettled
<1>1. SegInit => SegmentInv
  BY SegmentInit
<1>2. SegmentInv /\ [SegNext]_<<vars, segVars>> => SegmentInv'
  BY SegmentStep
<1>3. SegmentInv /\ [SegNext]_<<vars, segVars>>
         => [\A x \in SegItems : item[x].tag # None /\ item'[x].tag # None
                                     => item'[x].tag = item[x].tag]_item
  BY SettledStep DEF Settled
<1>4. QED
  BY <1>1, <1>2, <1>3, PTL DEF SegSpec, TagsSettled

=============================================================================
