------------------------- MODULE LibraryVaultProofs -------------------------
(***************************************************************************)
(* Proofs about LibraryVault, for any number of episodes, sessions and     *)
(* callers, and for both backends.                                         *)
(***************************************************************************)
EXTENDS LibraryVault, FiniteSetTheorems, WellFoundedInduction, TLAPS

-----------------------------------------------------------------------------
(* What the statements do to the store.                                    *)

Lives == {"absent", "live", "faded", "gone"}

\* The row of an episode whose lifetime was set.
LEMMA RelivedRow ==
    ASSUME db \in Stores, NEW e \in Ids, NEW v \in Lives
    PROVE  LET r == [db.row[e] EXCEPT !.life = v]
           IN  /\ r \in Row /\ r.life = v /\ r.sess = db.row[e].sess
               /\ r.sources = db.row[e].sources /\ r.into = db.row[e].into
<1>1. db.row[e] \in Row
  BY DEF Stores
<1>2. QED
  BY <1>1 DEF Row, Lives

-----------------------------------------------------------------------------
(* What every step keeps.                                                  *)

\* The moves of a lifetime that a step makes and commits.
Ages == {<<"absent", "live">>, <<"live", "gone">>, <<"live", "faded">>}

\* Episodes, what they were made from and edges are never taken back, and a
\* step that commits moves lifetimes along Ages.
Grows ==
    /\ db' \in Stores /\ Exists(db) \subseteq Exists(db')
    /\ \A e \in Exists(db) : db'.row[e].sources = db.row[e].sources
    /\ Triples(db.edge) \subseteq Triples(db'.edge)
    /\ \/ saved' = saved
       \/ \A e \in Ids : \/ db'.row[e].life = db.row[e].life
                         \/ <<db.row[e].life, db'.row[e].life>> \in Ages

\* A mark is kept, taken back, or names a reflection made from the episode.
MarksFollow ==
    \A e \in Ids : LET r == db'.row[e].into
                   IN r \in {None, db.row[e].into} \/ (r \in Exists(db') /\ e \in db'.row[r].sources)

\* Linked pairs, one by one.
SupersededNow(p) == backend = "local" => <<p[2], p[1], "supersedes">> \in Triples(db'.edge)

LEMMA TripleOf ==
    ASSUME NEW E \in SUBSET Edges, NEW a \in Ids, NEW b \in Ids, NEW rel
    PROVE  <<a, b, rel>> \in Triples(E) <=> \E x \in E : x[1] = a /\ x[2] = b /\ x[3] = rel
BY DEF Triples

LEMMA KeepsInv ==
    ASSUME LibraryInv, UNCHANGED <<backend, mix>>, up' \in BOOLEAN, Grows, MarksFollow,
           saved' = db' \/ (saved' = saved /\ LivesPend'),
           task' \in [Tasks -> Callers], cache' \in Entries \cup {None},
           skipped' \subseteq Ids, resolved' \subseteq Ids \X Ids,
           \A t \in Tasks : task'[t] = task[t] \/ TaskKnown(task[t])',
           \A p \in resolved' : p \in resolved \/ SupersededNow(p),
           IndexesKnown', ContextKnown'
    PROVE  LibraryInv'
<1>1. TypeOK'
  BY DEF LibraryInv, TypeOK, Grows
<1>2. LivesPend'
  BY DEF LivesPend
<1>3. TasksKnown'
  <2> SUFFICES ASSUME NEW t \in Tasks, task'[t] = task[t]
               PROVE  TaskKnown(task[t])'
    BY DEF TasksKnown
  <2>1. TaskKnown(task[t])
    BY DEF LibraryInv, TasksKnown
  <2>2. \A e \in Exists(db) : e \in Exists(db') /\ db'.row[e].sources = db.row[e].sources
    BY DEF Grows
  <2>3. QED
    BY <2>1, <2>2 DEF TaskKnown, Grows
<1>4. MarksMatchSources'
  <2>1. \A e \in Ids : /\ saved'.row[e].into = db'.row[e].into
                       /\ saved'.row[e].sources = db'.row[e].sources
                       /\ saved.row[e].into = db.row[e].into
                       /\ saved.row[e].sources = db.row[e].sources
                       /\ e \in Exists(saved') <=> e \in Exists(db')
                       /\ e \in Exists(saved) <=> e \in Exists(db)
    BY <1>2 DEF LibraryInv, LivesPend, Exists
  <2> SUFFICES ASSUME NEW e \in Ids, saved'.row[e].into # None
               PROVE  /\ saved'.row[e].into \in Exists(saved')
                      /\ e \in saved'.row[saved'.row[e].into].sources
    BY DEF MarksMatchSources
  <2> DEFINE r == db'.row[e].into
  <2>2. saved'.row[e].into = r /\ r # None
    BY <2>1
  <2>3. r \in Exists(db') /\ e \in db'.row[r].sources
    <3>1. CASE r = db.row[e].into
      <4>1. saved.row[e].into = r
        BY <2>1, <3>1
      <4>2. r \in Exists(saved) /\ e \in saved.row[r].sources
        BY <2>2, <4>1 DEF LibraryInv, MarksMatchSources
      <4>3. r \in Ids /\ r \in Exists(db) /\ e \in db.row[r].sources
        BY <2>1, <4>2 DEF Exists
      <4>4. QED
        BY <4>3 DEF Grows
    <3>2. QED
      BY <2>2, <3>1 DEF MarksFollow
  <2>4. r \in Ids
    BY <2>3 DEF Exists
  <2>5. QED
    BY <2>1, <2>2, <2>3, <2>4
<1>5. SupersededLinked'
  <2>1. \A p \in resolved' : p[1] \in Ids /\ p[2] \in Ids
    OBVIOUS
  <2>2. Triples(saved'.edge) = Triples(db'.edge) /\ Triples(saved.edge) = Triples(db.edge)
    BY <1>2 DEF LibraryInv, LivesPend
  <2>3. saved.edge \in SUBSET Edges /\ saved'.edge \in SUBSET Edges
    BY <1>1 DEF LibraryInv, TypeOK, Stores
  <2>4. ASSUME NEW p \in resolved', backend = "local"
        PROVE  <<p[2], p[1], "supersedes">> \in Triples(db'.edge)
    <3>1. CASE p \in resolved
      <4>1. \E x \in saved.edge : x[1] = p[2] /\ x[2] = p[1] /\ x[3] = "supersedes"
        BY <2>4, <3>1 DEF LibraryInv, SupersededLinked
      <4>2. <<p[2], p[1], "supersedes">> \in Triples(saved.edge)
        BY <2>1, <2>3, <4>1, TripleOf
      <4>3. QED
        BY <2>2, <4>2 DEF Grows
    <3>2. QED
      BY <2>4, <3>1 DEF SupersededNow
  <2>5. ASSUME NEW p \in resolved', backend' = "local"
        PROVE  \E x \in saved'.edge : x[1] = p[2] /\ x[2] = p[1] /\ x[3] = "supersedes"
    <3>1. <<p[2], p[1], "supersedes">> \in Triples(saved'.edge)
      BY <2>2, <2>4, <2>5
    <3>2. QED
      BY <2>1, <2>3, <3>1, TripleOf
  <2>6. QED
    BY <2>5 DEF SupersededLinked
<1>7. QED
  BY <1>1, <1>2, <1>3, <1>4, <1>5 DEF LibraryInv

\* The indexes are left alone, and no insert is finished.
LEMMA IndexesStay ==
    ASSUME IndexesKnown, UNCHANGED <<backend, skipped>>, up' = up, Exists(db) \subseteq Exists(db'),
           db'.fts = db.fts, db'.vec = db.vec,
           \A e \in Exists(db') : e \in Exists(db) \/ (up /\ backend = "local" => e \in Adding'),
           \A t \in Tasks : task[t].pc \in {"fts", "vec"} =>
              task'[t].pc \in {"fts", "vec"} /\ task'[t].e = task[t].e
    PROVE  IndexesKnown'
<1>1. Adding \subseteq Adding'
  BY DEF Adding
<1>2. QED
  BY <1>1 DEF IndexesKnown

\* A caller whose access is under way.
Recalling(c) == c.pc \in {"promote", "edges", "commit"}

\* One caller goes on, and does not end an access.
LEMMA RecalledStay ==
    ASSUME NEW t \in Tasks, \A u \in Tasks \ {t} : task'[u] = task[u],
           Recalling(task[t]) => Recalling(task'[t]) /\ task'[t].e = task[t].e
    PROVE  Recalled \subseteq Recalled'
BY DEF Recalled, Recalling

\* What waits for a commit goes on waiting.
LEMMA PendingStays ==
    ASSUME LivesPend, db' = db, saved' = saved, Recalled \subseteq Recalled'
    PROVE  LivesPend'
BY DEF LivesPend

-----------------------------------------------------------------------------
(* Callers that read.                                                      *)

LEMMA IdleCaller == Idle \in Callers /\ Idle.pc = "idle" /\ Idle.marks = FALSE /\ Idle.todo = {}
BY DEF Idle, Callers

LEMMA QuietGrows ==
    ASSUME LibraryInv, db' = db
    PROVE  Grows /\ MarksFollow
BY DEF LibraryInv, TypeOK, Grows, MarksFollow

\* One caller goes on and the store is left alone.
LEMMA QuietStep ==
    ASSUME LibraryInv, UNCHANGED <<backend, mix, up, db, saved, cache, skipped, resolved>>,
           NEW t \in Tasks, task[t].pc = "idle", task' \in [Tasks -> Callers],
           \A u \in Tasks \ {t} : task'[u] = task[u], TaskKnown(task[t])'
    PROVE  LibraryInv' /\ Grows
<1>1. Grows /\ MarksFollow
  BY QuietGrows
<1>2. LivesPend' /\ ContextKnown'
  <2>1. Recalled \subseteq Recalled'
    BY RecalledStay DEF Recalling
  <2>2. QED
    BY <2>1, PendingStays DEF LibraryInv, ContextKnown, Top, Newest
<1>3. IndexesKnown'
  <2>1. \A u \in Tasks : task[u].pc \in {"fts", "vec"} =>
              task'[u].pc \in {"fts", "vec"} /\ task'[u].e = task[u].e
    OBVIOUS
  <2>2. QED
    BY <2>1, IndexesStay DEF LibraryInv
<1>5. QED
  BY <1>1, <1>2, <1>3, KeepsInv DEF LibraryInv, TypeOK

LEMMA GetTrackedInv ==
    ASSUME LibraryInv, NEW t \in Tasks, NEW e \in Ids, GetTracked(t, e)
    PROVE  LibraryInv' /\ Grows
<1> DEFINE c == [Idle EXCEPT !.e = e,
                    !.pc = IF db.row[e].life = "faded" THEN "promote" ELSE "touch"]
<1>1. c \in Callers /\ c.pc \in {"promote", "touch"} /\ c.e = e
  BY IdleCaller DEF Callers
<1>2. task' = [task EXCEPT ![t] = c] /\ task[t].pc = "idle"
  BY DEF GetTracked
<1> HIDE DEF c
<1>3. task'[t] = c /\ task' \in [Tasks -> Callers] /\ \A u \in Tasks \ {t} : task'[u] = task[u]
  BY <1>1, <1>2 DEF LibraryInv, TypeOK
<1>4. TaskKnown(task[t])'
  BY <1>1, <1>3 DEF TaskKnown, GetTracked, Exists
<1>5. QED
  BY <1>1, <1>2, <1>3, <1>4, QuietStep DEF GetTracked

LEMMA ResolveConflictInv ==
    ASSUME LibraryInv, NEW t \in Tasks, NEW s \in Ids, NEW d \in Ids, ResolveConflict(t, s, d)
    PROVE  LibraryInv' /\ Grows
<1> DEFINE c == [Idle EXCEPT !.pc = ConflictFirst, !.e = s, !.f = d]
<1>1. /\ c \in Callers /\ c.pc \in {"link", "invalidate"} /\ c.e = s /\ c.f = d
      /\ c.pc = "invalidate" => backend # "local"
  BY IdleCaller DEF Callers, ConflictFirst
<1>2. task' = [task EXCEPT ![t] = c] /\ task[t].pc = "idle"
  BY DEF ResolveConflict
<1> HIDE DEF c
<1>3. task'[t] = c /\ task' \in [Tasks -> Callers] /\ \A u \in Tasks \ {t} : task'[u] = task[u]
  BY <1>1, <1>2 DEF LibraryInv, TypeOK
<1>4. TaskKnown(task[t])'
  BY <1>1, <1>3 DEF TaskKnown, ResolveConflict
<1>5. QED
  BY <1>1, <1>2, <1>3, <1>4, QuietStep DEF ResolveConflict

LEMMA PruneReadInv ==
    ASSUME LibraryInv, NEW t \in Tasks, NEW S \in SUBSET Ids, PruneRead(t, S)
    PROVE  LibraryInv' /\ Grows
<1> DEFINE c == [Idle EXCEPT !.pc = "decay", !.todo = S]
<1>1. c \in Callers /\ c.pc = "decay"
  BY IdleCaller DEF Callers
<1>2. task' = [task EXCEPT ![t] = c] /\ task[t].pc = "idle"
  BY DEF PruneRead
<1> HIDE DEF c
<1>3. task'[t] = c /\ task' \in [Tasks -> Callers] /\ \A u \in Tasks \ {t} : task'[u] = task[u]
  BY <1>1, <1>2 DEF LibraryInv, TypeOK
<1>4. TaskKnown(task[t])'
  BY <1>1, <1>3 DEF TaskKnown
<1>5. QED
  BY <1>1, <1>2, <1>3, <1>4, QuietStep DEF PruneRead

LEMMA ReflectInv ==
    ASSUME LibraryInv, NEW t \in Tasks, NEW sess \in Sessions, NEW S \in SUBSET Ids,
           NEW marks \in BOOLEAN, Reflect(t, sess, S, marks)
    PROVE  LibraryInv' /\ Grows
<1> DEFINE c == [Idle EXCEPT !.pc = "reflect", !.sess = sess, !.todo = S, !.marks = marks]
<1>1. c \in Callers /\ c.pc = "reflect"
  BY IdleCaller DEF Callers
<1>2. task' = [task EXCEPT ![t] = c] /\ task[t].pc = "idle"
  BY DEF Reflect
<1> HIDE DEF c
<1>3. task'[t] = c /\ task' \in [Tasks -> Callers] /\ \A u \in Tasks \ {t} : task'[u] = task[u]
  BY <1>1, <1>2 DEF LibraryInv, TypeOK
<1>4. TaskKnown(task[t])'
  BY <1>1, <1>3 DEF TaskKnown
<1>5. QED
  BY <1>1, <1>2, <1>3, <1>4, QuietStep DEF Reflect

-----------------------------------------------------------------------------
(* Callers that add an episode.                                            *)

LEMMA LeastBelow ==
    ASSUME NEW S \in SUBSET Nat, S # {}
    PROVE  \E n \in S : \A y \in S : n <= y
<1>1. PICK n \in S : \A y \in S : <<y, n>> \notin OpToRel(<, Nat)
  BY NatLessThanWellFounded, WFMin
<1>2. ASSUME NEW y \in S
      PROVE  n <= y
  <2>1. y \in Nat /\ n \in Nat /\ <<y, n>> \notin OpToRel(<, Nat)
    BY <1>1
  <2>2. QED
    BY <2>1 DEF OpToRel
<1>3. QED
  BY <1>2

LEMMA LeastNat ==
    ASSUME NEW S \in SUBSET Nat, S # {}
    PROVE  Min(S) \in S
BY LeastBelow DEF Min

LEMMA FreshId ==
    ASSUME TypeOK, Fresh # 0
    PROVE  Fresh \in Ids /\ db.row[Fresh].life = "absent" /\ Fresh \notin Exists(db)
<1> DEFINE free == 1..mix.eps \ Exists(db)
<1>1. mix.eps \in 1..MaxEps /\ MaxEps \in Nat
  BY LibraryAssumption DEF TypeOK
<1>2. free # {} /\ Fresh = Min(free)
  BY DEF Fresh
<1>3. free \in SUBSET Nat
  OBVIOUS
<1>4. Fresh \in free
  BY <1>2, <1>3, LeastNat
<1>5. QED
  BY <1>1, <1>4 DEF Ids, Exists

LEMMA InsertInv ==
    ASSUME LibraryInv, UNCHANGED <<backend, mix, up, cache, skipped, resolved>>,
           NEW t \in Tasks, task[t].pc \notin {"fts", "vec"}, NEW sess \in Sessions \cup {None},
           NEW sources \in SUBSET Ids, NEW next \in Callers, next.marks => next.todo \subseteq sources,
           Insert(t, sess, sources, next)
    PROVE  LibraryInv' /\ Grows /\ saved' = db'
<1> DEFINE n == Fresh
           r == NewRow(sess, sources)
           c == [next EXCEPT !.e = n, !.pc = FirstIndex]
<1>1. n \in Ids /\ db.row[n].life = "absent" /\ n \notin Exists(db)
  BY FreshId DEF Insert, LibraryInv
<1>2. db \in Stores /\ backend \in Backends
  BY DEF LibraryInv, TypeOK
<1>3. r \in Row /\ r.life = "live" /\ r.sources = sources /\ r.into = None
  <2>1. NoRow \in Row /\ NoRow.into = None
    BY DEF NoRow, Row
  <2>2. QED
    BY <2>1 DEF NewRow, Row
<1>4. db' = [db EXCEPT !.row[n] = r] /\ saved' = db' /\ task' = [task EXCEPT ![t] = c]
  BY DEF Insert, Commit
<1>5. /\ c \in Callers /\ c.e = n /\ c.todo = next.todo /\ c.marks = next.marks
      /\ c.pc = IF backend = "local" THEN "fts" ELSE "upsert"
  BY <1>1 DEF FirstIndex, Callers
<1> HIDE DEF n, r, c
<1>6. /\ db'.fts = db.fts /\ db'.vec = db.vec /\ db'.edge = db.edge
      /\ db' = [row |-> db'.row, edge |-> db'.edge, fts |-> db'.fts, vec |-> db'.vec]
      /\ db'.row = [db.row EXCEPT ![n] = r]
  BY <1>2, <1>4 DEF Stores
<1>7. db'.row \in [Ids -> Row] /\ db'.row[n] = r /\ \A e \in Ids \ {n} : db'.row[e] = db.row[e]
  BY <1>1, <1>2, <1>3, <1>6 DEF Stores
<1>8. db' \in Stores
  BY <1>2, <1>6, <1>7 DEF Stores
<1>9. Exists(db') = Exists(db) \cup {n}
  BY <1>1, <1>3, <1>7 DEF Exists
<1>10. task'[t] = c /\ task' \in [Tasks -> Callers] /\ \A u \in Tasks \ {t} : task'[u] = task[u]
  BY <1>4, <1>5 DEF LibraryInv, TypeOK
<1>11. Grows
  <2>1. \A e \in Exists(db) : db'.row[e].sources = db.row[e].sources
    BY <1>1, <1>7 DEF Exists
  <2>2. \A e \in Ids : db'.row[e].life = db.row[e].life \/ <<db.row[e].life, db'.row[e].life>> \in Ages
    BY <1>1, <1>3, <1>7 DEF Ages
  <2>3. QED
    BY <1>6, <1>8, <1>9, <2>1, <2>2 DEF Grows
<1>12. MarksFollow
  BY <1>1, <1>3, <1>7 DEF MarksFollow
<1>13. TaskKnown(task[t])'
  BY <1>2, <1>3, <1>5, <1>7, <1>9, <1>10, LibraryAssumption DEF TaskKnown
<1>14. IndexesKnown'
  <2>1. up /\ backend = "local" => n \in Adding'
    BY <1>5, <1>10 DEF Adding
  <2>2. \A u \in Tasks : task[u].pc \in {"fts", "vec"} =>
              task'[u].pc \in {"fts", "vec"} /\ task'[u].e = task[u].e
    BY <1>10
  <2>3. QED
    BY <1>6, <1>9, <2>1, <2>2, IndexesStay DEF LibraryInv
<1>16. ContextKnown'
  BY DEF LibraryInv, ContextKnown, Top, Newest
<1>17. LibraryInv'
  BY <1>4, <1>10, <1>11, <1>12, <1>13, <1>14, <1>16, KeepsInv DEF LibraryInv, TypeOK
<1>18. QED
  BY <1>4, <1>11, <1>17

LEMMA RememberInv ==
    ASSUME LibraryInv, NEW t \in Tasks, NEW sess \in Sessions,
           Remember(t, sess) \/ ObserveAndRemember(t, sess)
    PROVE  LibraryInv' /\ Grows /\ saved' = db'
BY IdleCaller, InsertInv DEF Remember, ObserveAndRemember

LEMMA ReflectStoreInv ==
    ASSUME LibraryInv, NEW t \in Tasks, ReflectStore(t)
    PROVE  LibraryInv' /\ Grows /\ saved' = db'
<1>1. /\ task[t] \in Callers /\ task[t].sess \in Sessions \cup {None}
      /\ task[t].todo \in SUBSET Ids
  BY DEF LibraryInv, TypeOK, Callers
<1>2. QED
  BY <1>1, InsertInv DEF ReflectStore

\* An index entry is added for the episode the caller is adding.
LEMMA IndexGrows ==
    ASSUME LibraryInv, NEW F \in SUBSET Exists(db), NEW V \in SUBSET Exists(db),
           db' = [db EXCEPT !.fts = F, !.vec = V]
    PROVE  /\ Grows /\ MarksFollow /\ Exists(db') = Exists(db)
           /\ db'.fts = F /\ db'.vec = V /\ db'.row = db.row
<1>1. db \in Stores /\ Exists(db) \subseteq Ids
  BY DEF LibraryInv, TypeOK, Exists
<1>2. /\ db' \in Stores /\ db'.row = db.row /\ db'.edge = db.edge /\ db'.fts = F /\ db'.vec = V
  BY <1>1 DEF Stores
<1>3. QED
  BY <1>2 DEF Grows, MarksFollow, Exists

LEMMA IndexFtsInv ==
    ASSUME LibraryInv, NEW t \in Tasks, NEW ok \in BOOLEAN, IndexFts(t, ok)
    PROVE  LibraryInv' /\ Grows /\ (saved' = db' \/ saved' = saved)
<1> DEFINE c == [task[t] EXCEPT !.pc = "vec"]
<1>0. task[t] \in Callers /\ TaskKnown(task[t]) /\ task[t].pc = "fts"
  BY DEF LibraryInv, TypeOK, TasksKnown, IndexFts
<1>1. /\ c \in Callers /\ c.pc = "vec" /\ c.e = task[t].e /\ c.todo = task[t].todo
      /\ c.marks = task[t].marks
  BY <1>0 DEF Callers
<1>2. task' = [task EXCEPT ![t] = c]
  BY DEF IndexFts
<1> HIDE DEF c
<1>3. task'[t] = c /\ task' \in [Tasks -> Callers] /\ \A u \in Tasks \ {t} : task'[u] = task[u]
  BY <1>1, <1>2 DEF LibraryInv, TypeOK
<1>4. task[t].e \in Exists(db)
  BY <1>0 DEF TaskKnown
<1>5. /\ Grows /\ MarksFollow /\ Exists(db') = Exists(db) /\ db'.row = db.row
      /\ db'.fts \subseteq Exists(db) /\ db'.vec = db.vec
      /\ saved' = db' \/ (saved' = saved /\ db' = db)
  <2>1. CASE ok
    <3>1. db' = [db EXCEPT !.fts = db.fts \cup {task[t].e}] /\ saved' = db'
      BY <2>1 DEF IndexFts, Commit
    <3>2. db.fts \cup {task[t].e} \in SUBSET Exists(db) /\ db.vec \in SUBSET Exists(db)
      BY <1>4 DEF LibraryInv, IndexesKnown
    <3>3. db' = [db EXCEPT !.fts = db.fts \cup {task[t].e}, !.vec = db.vec]
      BY <3>1 DEF LibraryInv, TypeOK, Stores
    <3>4. QED
      BY <3>1, <3>2, <3>3, IndexGrows
  <2>2. CASE ~ok
    <3>1. db' = db /\ saved' = saved
      BY <2>2 DEF IndexFts
    <3>2. QED
      BY <3>1, QuietGrows DEF LibraryInv, IndexesKnown
  <2>3. QED
    BY <2>1, <2>2
<1>6. TaskKnown(task[t])'
  BY <1>0, <1>1, <1>3, <1>5 DEF TaskKnown
<1>7. IndexesKnown'
  <2>1. Adding \subseteq Adding'
    <3>1. \A u \in Tasks : task[u].pc \in {"fts", "vec"} =>
              task'[u].pc \in {"fts", "vec"} /\ task'[u].e = task[u].e
      BY <1>1, <1>3
    <3>2. QED
      BY <3>1 DEF Adding
  <2>2. QED
    BY <1>5, <2>1 DEF IndexFts, LibraryInv, IndexesKnown
<1>9. ContextKnown' /\ LivesPend'
  <2>1. Recalled \subseteq Recalled'
    BY <1>0, <1>3, RecalledStay DEF Recalling
  <2>2. (saved' = saved /\ db' = db) => LivesPend'
    BY <2>1, PendingStays DEF LibraryInv
  <2>3. saved' = db' => LivesPend'
    BY DEF LivesPend
  <2>4. ContextKnown'
    BY DEF IndexFts, LibraryInv, ContextKnown, Top, Newest
  <2>5. QED
    BY <1>5, <2>2, <2>3, <2>4
<1>10. LibraryInv'
  BY <1>3, <1>5, <1>6, <1>7, <1>9, KeepsInv DEF LibraryInv, TypeOK, IndexFts
<1>11. QED
  BY <1>5, <1>10

LEMMA VectorWrittenInv ==
    ASSUME LibraryInv, NEW t \in Tasks, NEW ok \in BOOLEAN, task[t].pc \in {"vec", "upsert"},
           VectorWritten(t, ok)
    PROVE  LibraryInv' /\ Grows /\ (saved' = db' \/ saved' = saved)
<1> DEFINE c == AfterInsert(task[t])
<1>0. task[t] \in Callers /\ TaskKnown(task[t])
  BY DEF LibraryInv, TypeOK, TasksKnown
<1>1. /\ c \in Callers
      /\ \/ c.pc = "idle"
         \/ c.pc = "mark" /\ task[t].marks /\ c.f = task[t].e /\ c.todo = task[t].todo
  BY <1>0, IdleCaller DEF AfterInsert, Callers
<1>2. task' = [task EXCEPT ![t] = c]
  BY DEF VectorWritten
<1> HIDE DEF c
<1>3. task'[t] = c /\ task' \in [Tasks -> Callers] /\ \A u \in Tasks \ {t} : task'[u] = task[u]
  BY <1>1, <1>2 DEF LibraryInv, TypeOK
<1>4. task[t].e \in Exists(db) /\ task[t].e \in Ids
  BY <1>0 DEF TaskKnown, Exists
<1>5. /\ Grows /\ MarksFollow /\ Exists(db') = Exists(db) /\ db'.row = db.row
      /\ db'.fts = db.fts /\ db'.vec \subseteq Exists(db)
      /\ saved' = db' \/ (saved' = saved /\ db' = db)
      /\ db.vec \cup skipped \cup {task[t].e} \subseteq db'.vec \cup skipped'
      /\ skipped' \subseteq Ids
  <2>1. CASE ok
    <3>1. /\ db' = [db EXCEPT !.vec = db.vec \cup {task[t].e}] /\ saved' = db'
          /\ skipped' = skipped
      BY <2>1 DEF VectorWritten, Commit
    <3>2. db.vec \cup {task[t].e} \in SUBSET Exists(db) /\ db.fts \in SUBSET Exists(db)
      BY <1>4 DEF LibraryInv, IndexesKnown
    <3>3. db' = [db EXCEPT !.fts = db.fts, !.vec = db.vec \cup {task[t].e}]
      BY <3>1 DEF LibraryInv, TypeOK, Stores
    <3>4. /\ Grows /\ MarksFollow /\ Exists(db') = Exists(db) /\ db'.row = db.row
          /\ db'.fts = db.fts /\ db'.vec = db.vec \cup {task[t].e}
      BY <3>2, <3>3, IndexGrows, ZenonT(60)
    <3>5. skipped \subseteq Ids
      BY DEF LibraryInv, TypeOK
    <3>6. QED
      BY <3>1, <3>2, <3>4, <3>5
  <2>2. CASE ~ok
    <3>1. db' = db /\ saved' = saved /\ skipped' = skipped \cup {task[t].e}
      BY <2>2 DEF VectorWritten
    <3>2. QED
      BY <1>4, <3>1, QuietGrows DEF LibraryInv, IndexesKnown, TypeOK
  <2>3. QED
    BY <2>1, <2>2
<1>6. TaskKnown(task[t])'
  BY <1>0, <1>1, <1>3, <1>5 DEF TaskKnown
<1>7. IndexesKnown'
  <2>1. Adding \subseteq Adding' \cup {task[t].e}
    BY <1>3 DEF Adding
  <2>2. QED
    BY <1>5, <2>1 DEF VectorWritten, LibraryInv, IndexesKnown
<1>9. ContextKnown' /\ LivesPend'
  <2>1. Recalled \subseteq Recalled'
    BY <1>0, <1>3, RecalledStay DEF Recalling
  <2>2. (saved' = saved /\ db' = db) => LivesPend'
    BY <2>1, PendingStays DEF LibraryInv
  <2>3. saved' = db' => LivesPend'
    BY DEF LivesPend
  <2>4. ContextKnown'
    BY DEF VectorWritten, LibraryInv, ContextKnown, Top, Newest
  <2>5. QED
    BY <1>5, <2>2, <2>3, <2>4
<1>10. LibraryInv'
  BY <1>3, <1>5, <1>6, <1>7, <1>9, KeepsInv DEF LibraryInv, TypeOK, VectorWritten
<1>11. QED
  BY <1>5, <1>10

-----------------------------------------------------------------------------
(* Invalidations, demotions, promotions and links.                         *)

\* Edges change their weight only.
LEMMA ReweightedEdges ==
    ASSUME NEW E \in SUBSET Edges, NEW e, NEW from, NEW to \in {"low", "half", "full"}
    PROVE  Reweighted(E, e, from, to) \in SUBSET Edges /\ Triples(Reweighted(E, e, from, to)) = Triples(E)
<1> DEFINE W(x) == IF x[4] \in from /\ e \in {x[1], x[2]} THEN <<x[1], x[2], x[3], to>> ELSE x
<1>1. \A x \in E : W(x) \in Edges /\ W(x)[1] = x[1] /\ W(x)[2] = x[2] /\ W(x)[3] = x[3]
  BY DEF Edges
<1>2. Reweighted(E, e, from, to) = {W(x) : x \in E}
  BY DEF Reweighted
<1> HIDE DEF W
<1>3. Triples({W(x) : x \in E}) = Triples(E)
  <2>1. \A x \in E : <<W(x)[1], W(x)[2], W(x)[3]>> = <<x[1], x[2], x[3]>>
    BY <1>1
  <2>2. QED
    BY <2>1 DEF Triples
<1>4. QED
  BY <1>1, <1>2, <1>3

\* The lifetime of one episode moves.
LEMMA LifeGrows ==
    ASSUME LibraryInv, NEW e \in Ids, NEW v \in Lives, db' \in Stores,
           Triples(db'.edge) = Triples(db.edge),
           db'.row[e].life = v, db'.row[e].sources = db.row[e].sources,
           db'.row[e].into = db.row[e].into, \A f \in Ids \ {e} : db'.row[f] = db.row[f],
           db.row[e].life # "absent" => v # "absent",
           saved' = saved \/ v = db.row[e].life \/ <<db.row[e].life, v>> \in Ages
    PROVE  Grows /\ MarksFollow
<1>1. Exists(db) \subseteq Exists(db')
  BY DEF Exists
<1>2. \A f \in Ids : db'.row[f].sources = db.row[f].sources /\ db'.row[f].into = db.row[f].into
  OBVIOUS
<1>3. QED
  BY <1>1, <1>2 DEF Grows, MarksFollow, Exists

\* What a statement on one row that leaves the indexes keeps of LibraryInv.
LEMMA RowStep ==
    ASSUME LibraryInv, UNCHANGED <<backend, mix, up, cache, skipped>>, Grows, MarksFollow,
           saved' = db' \/ (saved' = saved /\ LivesPend'),
           Exists(db') = Exists(db), db'.fts = db.fts, db'.vec = db.vec,
           task' \in [Tasks -> Callers],
           \A u \in Tasks : \/ task'[u] = task[u]
                            \/ task[u].pc \notin {"fts", "vec"} /\ TaskKnown(task[u])',
           resolved' \subseteq Ids \X Ids,
           \A p \in resolved' : p \in resolved \/ SupersededNow(p)
    PROVE  LibraryInv'
<1>1. IndexesKnown'
  <2>1. \A u \in Tasks : task[u].pc \in {"fts", "vec"} =>
              task'[u].pc \in {"fts", "vec"} /\ task'[u].e = task[u].e
    OBVIOUS
  <2>2. QED
    BY <2>1, IndexesStay DEF LibraryInv
<1>2. ContextKnown'
  BY DEF LibraryInv, ContextKnown, Top, Newest
<1>3. QED
  BY <1>1, <1>2, KeepsInv DEF LibraryInv, TypeOK

\* A promotion waits for the commit of its access.
LEMMA PromoteRowInv ==
    ASSUME LibraryInv, NEW t \in Tasks, PromoteRow(t)
    PROVE  LibraryInv' /\ Grows /\ saved' = saved
<1> DEFINE e == task[t].e
           c == [task[t] EXCEPT !.pc = "edges"]
<1>1. e \in Ids /\ e \in Exists(db) /\ db \in Stores /\ saved \in Stores /\ task[t] \in Callers
  BY DEF PromoteRow, LibraryInv, TypeOK, TasksKnown, TaskKnown, Exists
<1>2. db' = [db EXCEPT !.row[e].life = "live"] /\ saved' = saved /\ task' = [task EXCEPT ![t] = c]
  BY DEF PromoteRow, Execute, Promoted
<1>3. c \in Callers /\ c.pc = "edges" /\ c.e = e
  BY <1>1 DEF Callers
<1> HIDE DEF c
<1>4. task'[t] = c /\ task' \in [Tasks -> Callers] /\ \A u \in Tasks \ {t} : task'[u] = task[u]
  BY <1>2, <1>3 DEF LibraryInv, TypeOK
<1>5. /\ db' \in Stores /\ db'.fts = db.fts /\ db'.vec = db.vec /\ db'.edge = db.edge
      /\ db'.row[e].life = "live" /\ db'.row[e].sess = db.row[e].sess
      /\ db'.row[e].sources = db.row[e].sources /\ db'.row[e].into = db.row[e].into
      /\ \A f \in Ids \ {e} : db'.row[f] = db.row[f]
  <2> DEFINE r == [db.row[e] EXCEPT !.life = "live"]
  <2>1. /\ r \in Row /\ r.life = "live" /\ r.sess = db.row[e].sess
        /\ r.sources = db.row[e].sources /\ r.into = db.row[e].into
    BY <1>1, RelivedRow DEF Lives
  <2>2. /\ db'.row = [db.row EXCEPT ![e] = r] /\ db'.fts = db.fts /\ db'.vec = db.vec
        /\ db'.edge = db.edge
        /\ db' = [row |-> db'.row, edge |-> db'.edge, fts |-> db'.fts, vec |-> db'.vec]
    BY <1>1, <1>2 DEF Stores
  <2> HIDE DEF r
  <2>3. QED
    BY <1>1, <2>1, <2>2 DEF Stores
<1>6. e \in Recalled /\ Recalled \subseteq Recalled'
  <2>1. task[t].pc = "promote"
    BY DEF PromoteRow
  <2>2. Recalled \subseteq Recalled'
    BY <1>3, <1>4, RecalledStay DEF Recalling
  <2>3. QED
    BY <2>1, <2>2 DEF Recalled
<1> HIDE DEF e
<1>7. Grows /\ MarksFollow
  BY <1>1, <1>2, <1>5, LifeGrows DEF Lives
<1>8. Exists(db') = Exists(db)
  BY <1>1, <1>5 DEF Exists
<1>9. LivesPend'
  <2>1. /\ saved.row[e].life \in {"live", "faded", "gone"}
        /\ saved.row[e].sess = db'.row[e].sess /\ saved.row[e].sources = db'.row[e].sources
        /\ saved.row[e].into = db'.row[e].into
    BY <1>1, <1>5 DEF LibraryInv, LivesPend, Exists, Stores, Row
  <2>2. QED
    BY <1>2, <1>5, <1>6, <2>1 DEF LibraryInv, LivesPend
<1>10. resolved \subseteq Ids \X Ids
  BY DEF LibraryInv, TypeOK
<1>11. task[t].pc \notin {"fts", "vec"} /\ TaskKnown(task[t])'
  BY <1>1, <1>3, <1>4, <1>8 DEF TaskKnown, PromoteRow
<1>12. \A u \in Tasks : \/ task'[u] = task[u]
                        \/ task[u].pc \notin {"fts", "vec"} /\ TaskKnown(task[u])'
  BY <1>4, <1>11
<1>13. LibraryInv'
  BY <1>2, <1>4, <1>5, <1>7, <1>8, <1>9, <1>10, <1>12, RowStep DEF PromoteRow
<1>14. QED
  BY <1>2, <1>7, <1>13

LEMMA PromoteEdgesInv ==
    ASSUME LibraryInv, NEW t \in Tasks, PromoteEdges(t)
    PROVE  LibraryInv' /\ Grows /\ saved' = saved
<1> DEFINE E == Reweighted(db.edge, task[t].e, {"low", "half"}, "full")
           c == [task[t] EXCEPT !.pc = "commit"]
<1>1. /\ task[t].e \in Exists(db) /\ db \in Stores /\ db.edge \in SUBSET Edges
      /\ task[t] \in Callers
  BY DEF PromoteEdges, LibraryInv, TypeOK, Stores, TasksKnown, TaskKnown
<1>2. E \in SUBSET Edges /\ Triples(E) = Triples(db.edge)
  BY <1>1, ReweightedEdges
<1>3. db' = [db EXCEPT !.edge = E] /\ saved' = saved /\ task' = [task EXCEPT ![t] = c]
  BY DEF PromoteEdges, Execute
<1>4. c \in Callers /\ c.pc = "commit" /\ c.e = task[t].e
  BY <1>1 DEF Callers
<1> HIDE DEF c, E
<1>5. task'[t] = c /\ task' \in [Tasks -> Callers] /\ \A u \in Tasks \ {t} : task'[u] = task[u]
  BY <1>3, <1>4 DEF LibraryInv, TypeOK
<1>6. /\ db' \in Stores /\ db'.row = db.row /\ db'.fts = db.fts /\ db'.vec = db.vec
      /\ db'.edge = E
  BY <1>1, <1>2, <1>3 DEF Stores
<1>7. Grows /\ MarksFollow /\ Exists(db') = Exists(db)
  BY <1>2, <1>6 DEF Grows, MarksFollow, Exists
<1>8. Recalled \subseteq Recalled'
  BY <1>4, <1>5, RecalledStay DEF Recalling
<1>9. LivesPend'
  BY <1>2, <1>3, <1>6, <1>8 DEF LibraryInv, LivesPend
<1>10. resolved \subseteq Ids \X Ids
  BY DEF LibraryInv, TypeOK
<1>11. task[t].pc \notin {"fts", "vec"} /\ TaskKnown(task[t])'
  BY <1>1, <1>4, <1>5, <1>7 DEF TaskKnown, PromoteEdges
<1>12. \A u \in Tasks : \/ task'[u] = task[u]
                        \/ task[u].pc \notin {"fts", "vec"} /\ TaskKnown(task[u])'
  BY <1>5, <1>11
<1>13. LibraryInv'
  BY <1>3, <1>5, <1>6, <1>7, <1>9, <1>10, <1>12, RowStep DEF PromoteEdges
<1>14. QED
  BY <1>3, <1>7, <1>13

LEMMA AccessCommitInv ==
    ASSUME LibraryInv, NEW t \in Tasks, AccessCommit(t)
    PROVE  LibraryInv' /\ Grows /\ saved' = db'
<1>1. /\ db' = db /\ saved' = db' /\ task' = [task EXCEPT ![t] = Idle]
      /\ UNCHANGED <<backend, mix, up, cache, skipped, resolved>>
  BY DEF AccessCommit, Commit
<1>2. Grows /\ MarksFollow
  BY <1>1, QuietGrows
<1>3. /\ task' \in [Tasks -> Callers] /\ task'[t] = Idle
      /\ \A u \in Tasks \ {t} : task'[u] = task[u]
  BY <1>1, IdleCaller DEF LibraryInv, TypeOK
<1>4. task[t].pc \notin {"fts", "vec"} /\ TaskKnown(task[t])'
  BY <1>3, IdleCaller DEF TaskKnown, AccessCommit
<1>5. \A u \in Tasks : \/ task'[u] = task[u]
                       \/ task[u].pc \notin {"fts", "vec"} /\ TaskKnown(task[u])'
  BY <1>3, <1>4
<1>6. resolved \subseteq Ids \X Ids
  BY DEF LibraryInv, TypeOK
<1>7. Exists(db') = Exists(db) /\ db'.fts = db.fts /\ db'.vec = db.vec
  BY <1>1
<1>8. LibraryInv'
  BY <1>1, <1>2, <1>3, <1>5, <1>6, <1>7, RowStep
<1>9. QED
  BY <1>1, <1>2, <1>8

LEMMA InvalidatedFacts ==
    ASSUME LibraryInv, NEW e \in Ids, db' = Invalidated(e)
    PROVE  /\ Grows /\ MarksFollow /\ Exists(db') = Exists(db)
           /\ db'.fts = db.fts /\ db'.vec = db.vec /\ db'.edge = db.edge
           /\ db.row[e].life = "live" => db'.row[e].life = "gone"
           /\ \A f \in Ids : db.row[f].life = "faded" => db'.row[f].life = "faded"
<1> DEFINE v == IF db.row[e].life = "live" THEN "gone" ELSE db.row[e].life
           r == [db.row[e] EXCEPT !.life = v]
<1>1. db \in Stores /\ db.row[e].life \in Lives
  BY DEF LibraryInv, TypeOK, Stores, Row, Lives
<1>2. v \in Lives /\ (v = db.row[e].life \/ <<db.row[e].life, v>> \in Ages)
  BY <1>1 DEF Lives, Ages
<1>3. /\ db'.row = [db.row EXCEPT ![e] = r] /\ db'.fts = db.fts /\ db'.vec = db.vec
      /\ db'.edge = db.edge
      /\ db' = [row |-> db'.row, edge |-> db'.edge, fts |-> db'.fts, vec |-> db'.vec]
  BY <1>1 DEF Stores, Invalidated
<1> HIDE DEF v
<1>4. r \in Row /\ r.life = v /\ r.sources = db.row[e].sources /\ r.into = db.row[e].into
  BY <1>1, <1>2, RelivedRow
<1> HIDE DEF r
<1>5. /\ db' \in Stores /\ db'.row[e].life = v
      /\ db'.row[e].sources = db.row[e].sources /\ db'.row[e].into = db.row[e].into
      /\ \A f \in Ids \ {e} : db'.row[f] = db.row[f]
  BY <1>1, <1>3, <1>4 DEF Stores
<1>6. v = "absent" <=> db.row[e].life = "absent"
  BY DEF v
<1>7. Grows /\ MarksFollow
  BY <1>2, <1>3, <1>5, <1>6, LifeGrows
<1>8. Exists(db') = Exists(db)
  BY <1>5, <1>6 DEF Exists
<1>9. /\ db.row[e].life = "live" => db'.row[e].life = "gone"
      /\ \A f \in Ids : db.row[f].life = "faded" => db'.row[f].life = "faded"
  BY <1>5 DEF v
<1>10. QED
  BY <1>3, <1>7, <1>8, <1>9

LEMMA ForgetInv ==
    ASSUME LibraryInv, NEW e \in Ids, Forget(e)
    PROVE  LibraryInv' /\ Grows /\ saved' = db'
<1>1. db' = Invalidated(e) /\ saved' = db' /\ UNCHANGED <<backend, mix, up, task, cache, skipped, resolved>>
  BY DEF Forget, Commit
<1>2. /\ Grows /\ MarksFollow /\ Exists(db') = Exists(db)
      /\ db'.fts = db.fts /\ db'.vec = db.vec
      /\ \A f \in Ids : db.row[f].life = "faded" => db'.row[f].life = "faded"
  BY <1>1, InvalidatedFacts
<1>4. task \in [Tasks -> Callers] /\ resolved \subseteq Ids \X Ids
  BY DEF LibraryInv, TypeOK
<1>5. QED
  BY <1>1, <1>2, <1>4, RowStep

LEMMA ResolveInvalidateInv ==
    ASSUME LibraryInv, NEW t \in Tasks, ResolveInvalidate(t)
    PROVE  LibraryInv' /\ Grows /\ saved' = db'
<1> DEFINE c == task[t]
           e == c.e
           d == IF ConflictFirst = "invalidate" /\ e \in Live(db) THEN [c EXCEPT !.pc = "link"] ELSE Idle
<1>1. /\ c \in Callers /\ c.pc = "invalidate" /\ e \in Ids /\ c.f \in Ids
      /\ backend = "local" => <<c.f, e, "supersedes">> \in Triples(db.edge)
  BY DEF ResolveInvalidate, LibraryInv, TypeOK, TasksKnown, TaskKnown
<1>2. db' = Invalidated(e) /\ saved' = db' /\ task' = [task EXCEPT ![t] = d]
  BY DEF ResolveInvalidate, Commit
<1>3. /\ Grows /\ MarksFollow /\ Exists(db') = Exists(db)
      /\ db'.fts = db.fts /\ db'.vec = db.vec /\ db'.edge = db.edge
      /\ db.row[e].life = "live" => db'.row[e].life = "gone"
      /\ \A f \in Ids : db.row[f].life = "faded" => db'.row[f].life = "faded"
  BY <1>1, <1>2, InvalidatedFacts
<1>4. d \in Callers /\ (d.pc = "idle" \/ (d.pc = "link" /\ d.e \in Ids /\ d.f \in Ids))
  BY <1>1, IdleCaller DEF Callers
<1> HIDE DEF d
<1>5. task'[t] = d /\ task' \in [Tasks -> Callers] /\ \A u \in Tasks \ {t} : task'[u] = task[u]
  BY <1>2, <1>4 DEF LibraryInv, TypeOK
<1>6. \A u \in Tasks : \/ task'[u] = task[u]
                       \/ task[u].pc \notin {"fts", "vec"} /\ TaskKnown(task[u])'
  BY <1>1, <1>4, <1>5 DEF TaskKnown
<1>7. resolved' \subseteq Ids \X Ids /\ \A p \in resolved' : p \in resolved \/ SupersededNow(p)
  <2>1. resolved \subseteq Ids \X Ids
    BY DEF LibraryInv, TypeOK
  <2>2. e \in Live(db) => SupersededNow(<<e, c.f>>)
    BY <1>1, <1>3 DEF SupersededNow, Live
  <2>3. resolved' = IF e \in Live(db) THEN resolved \cup {<<e, c.f>>} ELSE resolved
    BY DEF ResolveInvalidate
  <2>4. QED
    BY <1>1, <2>1, <2>2, <2>3
<1>9. QED
  BY <1>2, <1>3, <1>5, <1>6, <1>7, RowStep DEF ResolveInvalidate

LEMMA DemotedFacts ==
    ASSUME LibraryInv, NEW e \in Ids, db' = Demoted(e)
    PROVE  /\ Grows /\ MarksFollow /\ Exists(db') = Exists(db)
           /\ db'.fts = db.fts /\ db'.vec = db.vec /\ Triples(db'.edge) = Triples(db.edge)
           /\ \A f \in Ids :
                 /\ <<db'.row[f].sess, db'.row[f].sources, db'.row[f].into>> =
                       <<db.row[f].sess, db.row[f].sources, db.row[f].into>>
                 /\ \/ db'.row[f].life = db.row[f].life
                    \/ db.row[f].life = "live" /\ db'.row[f].life = "faded"
<1> DEFINE v == IF db.row[e].life = "live" THEN "faded" ELSE db.row[e].life
           r == [db.row[e] EXCEPT !.life = v]
           E == Reweighted(db.edge, e, {"half", "full"}, "low")
<1>1. db \in Stores /\ db.row[e].life \in Lives /\ db.edge \in SUBSET Edges
  BY DEF LibraryInv, TypeOK, Stores, Row, Lives
<1>2. v \in Lives /\ (v = db.row[e].life \/ <<db.row[e].life, v>> \in Ages)
  BY <1>1 DEF Lives, Ages
<1>3. E \in SUBSET Edges /\ Triples(E) = Triples(db.edge)
  BY <1>1, ReweightedEdges
<1> HIDE DEF E
<1>4. /\ db'.row = [db.row EXCEPT ![e] = r] /\ db'.fts = db.fts /\ db'.vec = db.vec
      /\ db'.edge = E
      /\ db' = [row |-> db'.row, edge |-> db'.edge, fts |-> db'.fts, vec |-> db'.vec]
  BY <1>1 DEF Stores, Demoted, E
<1> HIDE DEF v
<1>5. /\ r \in Row /\ r.life = v /\ r.sess = db.row[e].sess
      /\ r.sources = db.row[e].sources /\ r.into = db.row[e].into
  BY <1>1, <1>2, RelivedRow
<1> HIDE DEF r
<1>6. /\ db' \in Stores /\ db'.row[e].life = v /\ db'.row[e].sess = db.row[e].sess
      /\ db'.row[e].sources = db.row[e].sources /\ db'.row[e].into = db.row[e].into
      /\ \A f \in Ids \ {e} : db'.row[f] = db.row[f]
  BY <1>1, <1>3, <1>4, <1>5 DEF Stores
<1>7. v = "absent" <=> db.row[e].life = "absent"
  BY DEF v
<1>8. Grows /\ MarksFollow
  BY <1>2, <1>3, <1>4, <1>6, <1>7, LifeGrows
<1>9. Exists(db') = Exists(db)
  BY <1>6, <1>7 DEF Exists
<1>10. QED
  BY <1>3, <1>4, <1>6, <1>8, <1>9 DEF v

LEMMA PruneStepInv ==
    ASSUME LibraryInv, NEW t \in Tasks, NEW e \in Ids, PruneStep(t, e)
    PROVE  LibraryInv' /\ Grows /\ (saved' = db' \/ saved' = saved)
<1> DEFINE left == task[t].todo \ {e}
           d == IF left = {} THEN Idle ELSE [task[t] EXCEPT !.todo = left]
<1>1. task[t] \in Callers /\ task[t].pc = "decay"
  BY DEF PruneStep, LibraryInv, TypeOK
<1>2. d \in Callers /\ d.pc \in {"idle", "decay"}
  BY <1>1, IdleCaller DEF Callers
<1>3. /\ db' = Demoted(e) /\ task' = [task EXCEPT ![t] = d]
      /\ saved' = db' \/ saved' = saved
  BY DEF PruneStep, Commit, Execute
<1> HIDE DEF d
<1>4. task'[t] = d /\ task' \in [Tasks -> Callers] /\ \A u \in Tasks \ {t} : task'[u] = task[u]
  BY <1>2, <1>3 DEF LibraryInv, TypeOK
<1>5. /\ Grows /\ MarksFollow /\ Exists(db') = Exists(db)
      /\ db'.fts = db.fts /\ db'.vec = db.vec /\ Triples(db'.edge) = Triples(db.edge)
      /\ \A f \in Ids :
            /\ <<db'.row[f].sess, db'.row[f].sources, db'.row[f].into>> =
                  <<db.row[f].sess, db.row[f].sources, db.row[f].into>>
            /\ \/ db'.row[f].life = db.row[f].life
               \/ db.row[f].life = "live" /\ db'.row[f].life = "faded"
  BY <1>3, DemotedFacts
<1>6. saved' = saved => LivesPend'
  <2>1. Recalled \subseteq Recalled'
    BY <1>1, <1>4, RecalledStay DEF Recalling
  <2>2. QED
    BY <1>5, <2>1 DEF LibraryInv, LivesPend
<1>7. \A u \in Tasks : \/ task'[u] = task[u]
                       \/ task[u].pc \notin {"fts", "vec"} /\ TaskKnown(task[u])'
  BY <1>1, <1>2, <1>4 DEF TaskKnown
<1>9. resolved \subseteq Ids \X Ids
  BY DEF LibraryInv, TypeOK
<1>10. QED
  BY <1>3, <1>4, <1>5, <1>6, <1>7, <1>9, RowStep DEF PruneStep

LEMMA PlatformPruneInv ==
    ASSUME LibraryInv, NEW S \in SUBSET Ids, PlatformPrune(S)
    PROVE  LibraryInv' /\ Grows /\ saved' = db'
<1> DEFINE R(e) == IF e \in S THEN [db.row[e] EXCEPT !.life = "gone"] ELSE db.row[e]
<1>0. db \in Stores /\ S \subseteq Live(db)
  BY DEF LibraryInv, TypeOK, PlatformPrune, Fading
<1>1. /\ db'.row = [e \in Ids |-> R(e)] /\ db'.fts = db.fts /\ db'.vec = db.vec
      /\ db'.edge = db.edge /\ saved' = db'
      /\ db' = [row |-> db'.row, edge |-> db'.edge, fts |-> db'.fts, vec |-> db'.vec]
  BY <1>0 DEF PlatformPrune, Commit, Stores
<1>2. ASSUME NEW e \in Ids
      PROVE  /\ R(e) \in Row /\ R(e).sources = db.row[e].sources /\ R(e).into = db.row[e].into
             /\ e \in S => db.row[e].life = "live" /\ R(e).life = "gone"
             /\ e \notin S => R(e).life = db.row[e].life
  BY <1>0, RelivedRow DEF Lives, Live, Stores
<1> HIDE DEF R
<1>3. /\ db' \in Stores
      /\ \A e \in Ids : /\ db'.row[e].sources = db.row[e].sources /\ db'.row[e].into = db.row[e].into
                        /\ e \in S => db.row[e].life = "live" /\ db'.row[e].life = "gone"
                        /\ e \notin S => db'.row[e].life = db.row[e].life
  <2>1. db'.row \in [Ids -> Row]
    BY <1>1, <1>2
  <2>2. QED
    BY <1>0, <1>1, <1>2, <2>1 DEF Stores
<1>4. Exists(db') = Exists(db)
  BY <1>3 DEF Exists
<1>5. Grows /\ MarksFollow
  BY <1>1, <1>3, <1>4 DEF Grows, MarksFollow, Ages, Exists
<1>7. task \in [Tasks -> Callers] /\ resolved \subseteq Ids \X Ids
  BY DEF LibraryInv, TypeOK
<1>8. QED
  BY <1>1, <1>4, <1>5, <1>7, RowStep DEF PlatformPrune

LEMMA LinkedFacts ==
    ASSUME LibraryInv, NEW a \in Ids, NEW b \in Ids,
           NEW rel \in {"supersedes", "elaborates", "related"}, NEW w \in {"low", "half", "full"},
           db' = Linked(a, b, rel, w)
    PROVE  /\ Grows /\ MarksFollow /\ Exists(db') = Exists(db)
           /\ db'.fts = db.fts /\ db'.vec = db.vec /\ db'.row = db.row
           /\ backend = "local" => <<a, b, rel>> \in Triples(db'.edge)
<1> DEFINE new == <<a, b, rel, w>>
           E == {x \in db.edge : <<x[1], x[2], x[3]>> # <<a, b, rel>>} \cup {new}
<1>1. db \in Stores /\ db.edge \in SUBSET Edges /\ new \in Edges
  BY DEF LibraryInv, TypeOK, Stores, Edges
<1>2. CASE backend # "local"
  BY <1>2, QuietGrows DEF Linked
<1>3. CASE backend = "local"
  <2>1. E \in SUBSET Edges
    BY <1>1
  <2>2. db' = [db EXCEPT !.edge = E]
    BY <1>3 DEF Linked, LocallyLinked
  <2>3. <<a, b, rel>> \in Triples(E) /\ Triples(db.edge) \subseteq Triples(E)
    <3>1. new[1] = a /\ new[2] = b /\ new[3] = rel /\ new \in E
      OBVIOUS
    <3>2. <<a, b, rel>> \in Triples(E)
      <4> HIDE DEF new, E
      <4>1. QED
        BY <3>1 DEF Triples
    <3>3. \A x \in db.edge : x \in E \/ <<x[1], x[2], x[3]>> = <<a, b, rel>>
      OBVIOUS
    <3> HIDE DEF E, new
    <3>4. \A x \in db.edge : <<x[1], x[2], x[3]>> \in Triples(E)
      BY <3>2, <3>3 DEF Triples
    <3>5. QED
      BY <3>2, <3>4 DEF Triples
  <2> HIDE DEF E
  <2>4. /\ db' \in Stores /\ db'.row = db.row /\ db'.edge = E /\ db'.fts = db.fts
        /\ db'.vec = db.vec
    BY <1>1, <2>1, <2>2 DEF Stores
  <2>5. QED
    BY <2>3, <2>4 DEF Grows, MarksFollow, Exists
<1>4. QED
  BY <1>2, <1>3

LEMMA LinkInv ==
    ASSUME LibraryInv, NEW a \in Ids, NEW b \in Ids, Link(a, b)
    PROVE  LibraryInv' /\ Grows /\ saved' = db'
<1>1. db' = Linked(a, b, "related", "full") /\ saved' = db'
  BY DEF Link, Commit
<1>2. /\ Grows /\ MarksFollow /\ Exists(db') = Exists(db)
      /\ db'.fts = db.fts /\ db'.vec = db.vec /\ db'.row = db.row
  BY <1>1, LinkedFacts
<1>4. task \in [Tasks -> Callers] /\ resolved \subseteq Ids \X Ids
  BY DEF LibraryInv, TypeOK
<1>5. QED
  BY <1>1, <1>2, <1>4, RowStep DEF Link

\* A caller that links and goes on to d.
LEMMA LinkStep ==
    ASSUME LibraryInv, UNCHANGED <<backend, mix, up, cache, skipped, resolved>>,
           NEW a \in Ids, NEW b \in Ids, NEW rel \in {"supersedes", "elaborates", "related"},
           NEW w \in {"low", "half", "full"}, db' = Linked(a, b, rel, w), saved' = db',
           NEW t \in Tasks, task[t].pc \notin {"fts", "vec"}, task' \in [Tasks -> Callers],
           \A u \in Tasks \ {t} : task'[u] = task[u],
           db'.row = db.row /\ (backend = "local" => <<a, b, rel>> \in Triples(db'.edge)) =>
              TaskKnown(task[t])'
    PROVE  LibraryInv' /\ Grows
<1>1. /\ Grows /\ MarksFollow /\ Exists(db') = Exists(db)
      /\ db'.fts = db.fts /\ db'.vec = db.vec /\ db'.row = db.row
      /\ backend = "local" => <<a, b, rel>> \in Triples(db'.edge)
  BY LinkedFacts
<1>2. TaskKnown(task[t])'
  BY <1>1
<1>4. resolved \subseteq Ids \X Ids
  BY DEF LibraryInv, TypeOK
<1>5. \A u \in Tasks : \/ task'[u] = task[u]
                       \/ task[u].pc \notin {"fts", "vec"} /\ TaskKnown(task[u])'
  BY <1>2
<1>6. QED
  BY <1>1, <1>4, <1>5, RowStep

LEMMA ResolveLinkInv ==
    ASSUME LibraryInv, NEW t \in Tasks, ResolveLink(t)
    PROVE  LibraryInv' /\ Grows /\ saved' = db'
<1> DEFINE c == task[t]
           d == IF ConflictFirst = "link" THEN [c EXCEPT !.pc = "invalidate"] ELSE Idle
<1>1. c \in Callers /\ c.pc = "link" /\ c.e \in Ids /\ c.f \in Ids
  BY DEF ResolveLink, LibraryInv, TypeOK, TasksKnown, TaskKnown
<1>2. db' = Linked(c.f, c.e, "supersedes", "full") /\ saved' = db' /\ task' = [task EXCEPT ![t] = d]
  BY DEF ResolveLink, Commit
<1>3. /\ d \in Callers
      /\ d.pc = "idle" \/ (d.pc = "invalidate" /\ d.e = c.e /\ d.f = c.f)
  BY <1>1, IdleCaller DEF Callers
<1> HIDE DEF d
<1>4. task'[t] = d /\ task' \in [Tasks -> Callers] /\ \A u \in Tasks \ {t} : task'[u] = task[u]
  BY <1>2, <1>3 DEF LibraryInv, TypeOK
<1>5. ASSUME db'.row = db.row, backend = "local" => <<c.f, c.e, "supersedes">> \in Triples(db'.edge)
      PROVE  TaskKnown(task[t])'
  BY <1>1, <1>3, <1>4, <1>5 DEF TaskKnown, ResolveLink
<1>7. /\ db'.row = db.row /\ (backend = "local" => <<c.f, c.e, "supersedes">> \in Triples(db'.edge)) =>
            TaskKnown(task[t])'
      /\ UNCHANGED <<backend, mix, up, cache, skipped, resolved>> /\ task[t].pc \notin {"fts", "vec"}
  BY <1>1, <1>5 DEF ResolveLink
<1>8. LibraryInv' /\ Grows
  BY <1>1, <1>2, <1>4, <1>7, LinkStep
<1>9. QED
  BY <1>2, <1>8

LEMMA MarkEdgeInv ==
    ASSUME LibraryInv, NEW t \in Tasks, MarkEdge(t)
    PROVE  LibraryInv' /\ Grows /\ saved' = db'
<1> DEFINE c == task[t]
           left == c.todo \ {c.e}
           d == IF left = {} THEN Idle ELSE [c EXCEPT !.pc = "mark", !.e = None, !.todo = left]
<1>1. /\ c \in Callers /\ c.pc = "edge" /\ c.e \in Ids /\ c.f \in Exists(db) /\ c.f \in Ids
      /\ c.todo \subseteq db.row[c.f].sources
  BY DEF MarkEdge, LibraryInv, TypeOK, TasksKnown, TaskKnown, Callers, Exists
<1>2. db' = Linked(c.e, c.f, "elaborates", "half") /\ saved' = db' /\ task' = [task EXCEPT ![t] = d]
  BY DEF MarkEdge, Commit
<1>3. /\ d \in Callers
      /\ d.pc = "idle" \/ (d.pc = "mark" /\ d.f = c.f /\ d.todo = left)
  BY <1>1, IdleCaller DEF Callers
<1> HIDE DEF d
<1>4. task'[t] = d /\ task' \in [Tasks -> Callers] /\ \A u \in Tasks \ {t} : task'[u] = task[u]
  BY <1>2, <1>3 DEF LibraryInv, TypeOK
<1>5. ASSUME db'.row = db.row
      PROVE  TaskKnown(task[t])'
  BY <1>1, <1>3, <1>4, <1>5 DEF TaskKnown, Exists
<1>7. /\ db'.row = db.row /\ (backend = "local" => <<c.e, c.f, "elaborates">> \in Triples(db'.edge)) =>
            TaskKnown(task[t])'
      /\ UNCHANGED <<backend, mix, up, cache, skipped, resolved>> /\ task[t].pc \notin {"fts", "vec"}
  BY <1>1, <1>5 DEF MarkEdge
<1>8. LibraryInv' /\ Grows
  BY <1>1, <1>2, <1>4, <1>7, LinkStep
<1>9. QED
  BY <1>2, <1>8

LEMMA MarkInv ==
    ASSUME LibraryInv, NEW t \in Tasks, NEW e \in Ids, Mark(t, e)
    PROVE  LibraryInv' /\ Grows /\ saved' = db'
<1> DEFINE c == task[t]
           d == [c EXCEPT !.pc = "edge", !.e = e]
           r == [db.row[e] EXCEPT !.into = c.f]
<1>0. db \in Stores /\ db.row[e] \in Row
  BY DEF LibraryInv, TypeOK, Stores
<1>1. /\ c \in Callers /\ c.pc = "mark" /\ c.f \in Exists(db) /\ c.f \in Ids
      /\ c.todo \subseteq db.row[c.f].sources /\ e \in c.todo
  BY DEF Mark, LibraryInv, TypeOK, TasksKnown, TaskKnown, Callers, Exists
<1>2. db' = Marked(t, e) /\ saved' = db' /\ task' = [task EXCEPT ![t] = d]
  BY DEF Mark, Commit
<1>3. d \in Callers /\ d.pc = "edge" /\ d.e = e /\ d.f = c.f /\ d.todo = c.todo
  BY <1>1 DEF Callers
<1> HIDE DEF d
<1>4. task'[t] = d /\ task' \in [Tasks -> Callers] /\ \A u \in Tasks \ {t} : task'[u] = task[u]
  BY <1>2, <1>3 DEF LibraryInv, TypeOK
<1>5. /\ r \in Row /\ r.life = db.row[e].life /\ r.sources = db.row[e].sources /\ r.into = c.f
  BY <1>0, <1>1 DEF Row
<1>6. /\ db' \in Stores /\ db'.fts = db.fts /\ db'.vec = db.vec /\ db'.edge = db.edge
      /\ \A f \in Ids : /\ db'.row[f].life = db.row[f].life
                        /\ db'.row[f].sources = db.row[f].sources
                        /\ f # e => db'.row[f].into = db.row[f].into
      /\ db'.row[e].into \in {c.f, db.row[e].into}
  <2>1. CASE backend # "local"
    BY <1>0, <1>2, <2>1 DEF Marked
  <2>2. CASE backend = "local"
    <3>1. /\ db'.row = [db.row EXCEPT ![e] = r] /\ db'.fts = db.fts /\ db'.vec = db.vec
          /\ db'.edge = db.edge
          /\ db' = [row |-> db'.row, edge |-> db'.edge, fts |-> db'.fts, vec |-> db'.vec]
      BY <1>0, <1>2, <2>2 DEF Marked, Stores
    <3> HIDE DEF r
    <3>2. db'.row \in [Ids -> Row] /\ db'.row[e] = r /\ \A f \in Ids \ {e} : db'.row[f] = db.row[f]
      BY <1>0, <1>5, <3>1 DEF Stores
    <3>3. db' \in Stores
      BY <1>0, <3>1, <3>2 DEF Stores
    <3>4. QED
      BY <1>5, <3>1, <3>2, <3>3
  <2>3. QED
    BY <2>1, <2>2
<1> HIDE DEF r
<1>7. Exists(db') = Exists(db)
  BY <1>6 DEF Exists
<1>8. Grows
  BY <1>6, <1>7 DEF Grows, Exists
<1>9. MarksFollow
  BY <1>1, <1>6, <1>7 DEF MarksFollow
<1>10. \A u \in Tasks : \/ task'[u] = task[u]
                        \/ task[u].pc \notin {"fts", "vec"} /\ TaskKnown(task[u])'
  BY <1>1, <1>3, <1>4, <1>6, <1>7 DEF TaskKnown
<1>12. resolved \subseteq Ids \X Ids
  BY DEF LibraryInv, TypeOK
<1>13. QED
  BY <1>2, <1>4, <1>6, <1>7, <1>8, <1>9, <1>10, <1>12, RowStep DEF Mark

-----------------------------------------------------------------------------
(* The lifecycle and the context, and the invariant.                       *)

LEMMA InitialiseInv ==
    ASSUME LibraryInv, NEW bad \in SUBSET Ids, Initialise(bad)
    PROVE  LibraryInv' /\ Grows /\ saved' = db'
<1> DEFINE V == db.vec \cup (Missing \ bad)
<1>1. db' = [db EXCEPT !.vec = V] /\ saved' = db'
  BY DEF Initialise, Commit
<1>2. V \in SUBSET Exists(db) /\ db.fts \in SUBSET Exists(db)
  BY DEF LibraryInv, IndexesKnown, Missing, Live, Exists
<1>3. /\ skipped' \subseteq Ids
      /\ Exists(db) \subseteq V \cup skipped'
  BY DEF Initialise, Missing, Live, Exists
<1> HIDE DEF V
<1>4. db' = [db EXCEPT !.fts = db.fts, !.vec = V]
  BY <1>1 DEF LibraryInv, TypeOK, Stores
<1>5. /\ Grows /\ MarksFollow /\ Exists(db') = Exists(db)
      /\ db'.fts = db.fts /\ db'.vec = V /\ db'.row = db.row
  BY <1>2, <1>4, IndexGrows
<1>6. IndexesKnown'
  BY <1>2, <1>3, <1>5 DEF IndexesKnown
<1>8. ContextKnown'
  BY DEF LibraryInv, ContextKnown, Top, Newest, Initialise
<1>9. /\ task \in [Tasks -> Callers] /\ cache \in Entries \cup {None}
      /\ resolved \subseteq Ids \X Ids
  BY DEF LibraryInv, TypeOK
<1>10. QED
  BY <1>1, <1>3, <1>5, <1>6, <1>8, <1>9, KeepsInv DEF Initialise

\* The store, the callers and the platform's indexes are left alone.
LEMMA RestInv ==
    ASSUME LibraryInv, UNCHANGED <<backend, mix, db, saved, task, skipped, resolved>>,
           up' \in BOOLEAN, up' = up \/ backend # "local",
           cache' \in Entries \cup {None}, ContextKnown'
    PROVE  LibraryInv' /\ Grows
<1>1. Grows /\ MarksFollow
  BY QuietGrows
<1>2. LivesPend'
  BY PendingStays DEF LibraryInv, Recalled
<1>3. IndexesKnown'
  BY DEF LibraryInv, IndexesKnown, Adding
<1>4. QED
  BY <1>1, <1>2, <1>3, KeepsInv DEF LibraryInv, TypeOK

LEMMA VaultContextInv ==
    ASSUME LibraryInv, NEW q \in Contexts, VaultContext(q)
    PROVE  LibraryInv' /\ Grows
<1> DEFINE S == Given(q)
           c == [top |-> Top(S), shown |-> S, budget |-> q.budget]
<1>1. S \in SUBSET Ids /\ Top(S) \in SUBSET Ids /\ q.budget \in Nat
  BY LibraryAssumption DEF Given, Listed, Live, Top, Newest
<1>2. cache' = cache \/ cache' = c
  BY DEF VaultContext
<1>3. c \in Entries /\ c.top = Top(c.shown)
  <2> HIDE DEF S
  <2>1. QED
    BY <1>1 DEF Entries
<1> HIDE DEF c
<1>4. cache' \in Entries \cup {None} /\ ContextKnown'
  <2>1. cache \in Entries \cup {None} /\ ContextKnown
    BY DEF LibraryInv, TypeOK
  <2>2. QED
    BY <1>2, <1>3, <2>1 DEF ContextKnown, Top, Newest
<1>5. up \in BOOLEAN
  BY DEF LibraryInv, TypeOK
<1>6. QED
  BY <1>4, <1>5, RestInv DEF VaultContext

LEMMA PlatformInitialiseInv ==
    ASSUME LibraryInv, PlatformInitialise
    PROVE  LibraryInv' /\ Grows
<1>1. ContextKnown' /\ cache' \in Entries \cup {None}
  BY DEF PlatformInitialise, LibraryInv, TypeOK, ContextKnown, Top, Newest
<1>2. QED
  BY <1>1, RestInv DEF PlatformInitialise

LEMMA StopInv ==
    ASSUME LibraryInv, Stop
    PROVE  LibraryInv' /\ Grows
<1>1. /\ db' = saved /\ saved' = saved /\ up' = FALSE /\ cache' = None
      /\ task' = [t \in Tasks |-> Idle] /\ UNCHANGED <<backend, mix, resolved>>
  BY DEF Stop
<1>2. saved \in Stores /\ LivesPend
  BY DEF LibraryInv, TypeOK
<1>3. Exists(saved) = Exists(db)
  BY <1>2 DEF LivesPend, Exists
<1>4. Grows /\ MarksFollow
  BY <1>1, <1>2, <1>3 DEF Grows, MarksFollow, LivesPend, Ages, Exists
<1>5. /\ task' \in [Tasks -> Callers]
      /\ \A t \in Tasks : task'[t] = Idle /\ task'[t].pc = "idle"
  BY <1>1, IdleCaller
<1>6. \A t \in Tasks : TaskKnown(task[t])'
  BY <1>5 DEF TaskKnown
<1>7. IndexesKnown'
  BY <1>1, <1>2, <1>3 DEF LibraryInv, IndexesKnown, LivesPend
<1>9. cache' \in Entries \cup {None} /\ ContextKnown'
  BY <1>1 DEF ContextKnown
<1>10. skipped' \subseteq Ids
  <2>1. \A t \in Tasks : task[t].pc \in {"fts", "vec", "upsert"} => task[t].e \in Ids
    BY DEF LibraryInv, TasksKnown, TaskKnown, Exists
  <2>2. QED
    BY <2>1 DEF Stop, LibraryInv, TypeOK
<1>11. resolved \subseteq Ids \X Ids
  BY DEF LibraryInv, TypeOK
<1>12. QED
  BY <1>1, <1>4, <1>5, <1>6, <1>7, <1>9, <1>10, <1>11, KeepsInv

LEMMA LibraryInit == Init => LibraryInv
<1> SUFFICES ASSUME Init
             PROVE  LibraryInv
  OBVIOUS
<1>1. Empty \in Stores /\ Empty.fts = {} /\ Empty.vec = {} /\ \A e \in Ids : Empty.row[e] = NoRow
  BY DEF Empty, Stores, NoRow, Row
<1>2. TypeOK
  BY <1>1, IdleCaller DEF Init, TypeOK
<1>3. \A t \in Tasks : task[t].pc = "idle"
  BY IdleCaller DEF Init
<1>4. LivesPend /\ IndexesKnown /\ MarksMatchSources
  BY <1>1 DEF Init, LivesPend, IndexesKnown, MarksMatchSources, NoRow, Exists
<1>5. TasksKnown
  BY <1>3 DEF TasksKnown, TaskKnown
<1>6. SupersededLinked /\ ContextKnown
  BY DEF Init, SupersededLinked, ContextKnown
<1>7. QED
  BY <1>2, <1>4, <1>5, <1>6 DEF LibraryInv

LEMMA TaskStepInv ==
    ASSUME LibraryInv, NEW t \in Tasks, TaskStep(t)
    PROVE  LibraryInv' /\ Grows /\ (saved' = db' \/ saved' = saved)
<1>1. ASSUME NEW sess \in Sessions, ConsolidateSession(t, sess) \/ ReflectSession(t, sess)
      PROVE  LibraryInv' /\ Grows /\ saved' = saved
  <2>1. Eligible(sess) \in SUBSET Ids /\ Listed(sess) \in SUBSET Ids
    BY DEF Eligible, Listed, Live
  <2>2. QED
    BY <1>1, <2>1, ReflectInv DEF ConsolidateSession, ReflectSession, Reflect
<1>2. ASSUME NEW sess \in Sessions, Remember(t, sess) \/ ObserveAndRemember(t, sess)
      PROVE  LibraryInv' /\ Grows /\ saved' = db'
  BY <1>2, RememberInv
<1>3. ASSUME NEW ok \in BOOLEAN, IndexFts(t, ok) \/ IndexVec(t, ok) \/ UpsertVector(t, ok)
      PROVE  LibraryInv' /\ Grows /\ (saved' = db' \/ saved' = saved)
  BY <1>3, IndexFtsInv, VectorWrittenInv DEF IndexVec, UpsertVector
<1>4. ASSUME NEW e \in Ids, GetTracked(t, e)
      PROVE  LibraryInv' /\ Grows /\ saved' = saved
  BY <1>4, GetTrackedInv DEF GetTracked
<1>5. ASSUME NEW e \in Ids, PruneStep(t, e) \/ Mark(t, e)
      PROVE  LibraryInv' /\ Grows /\ (saved' = db' \/ saved' = saved)
  BY <1>5, PruneStepInv, MarkInv
<1>6. ASSUME NEW s \in Ids, NEW d \in Ids, ResolveConflict(t, s, d)
      PROVE  LibraryInv' /\ Grows /\ saved' = saved
  BY <1>6, ResolveConflictInv DEF ResolveConflict
<1>7. ASSUME NEW S \in SUBSET Ids, PruneRead(t, S)
      PROVE  LibraryInv' /\ Grows /\ saved' = saved
  BY <1>7, PruneReadInv DEF PruneRead
<1>8. QED
  BY <1>1, <1>2, <1>3, <1>4, <1>5, <1>6, <1>7, PromoteRowInv, PromoteEdgesInv, AccessCommitInv, ResolveLinkInv, ResolveInvalidateInv,
     ReflectStoreInv, MarkEdgeInv DEF TaskStep

LEMMA LibraryStep ==
    ASSUME LibraryInv, Next
    PROVE  LibraryInv' /\ Grows /\ (saved' = db' \/ saved' = saved)
<1>1. ASSUME NEW q \in Contexts, VaultContext(q)
      PROVE  LibraryInv' /\ Grows /\ saved' = saved
  BY <1>1, VaultContextInv DEF VaultContext
<1>2. CASE PlatformInitialise
  BY <1>2, PlatformInitialiseInv DEF PlatformInitialise
<1>3. CASE Stop
  BY <1>3, StopInv DEF Stop
<1>4. QED
  BY <1>1, <1>2, <1>3, TaskStepInv, ForgetInv, LinkInv, InitialiseInv, PlatformPruneInv DEF Next

LEMMA LibraryStutter ==
    ASSUME LibraryInv, UNCHANGED vars
    PROVE  LibraryInv'
<1>1. UNCHANGED <<backend, mix, up, db, saved, task, cache, skipped, resolved>>
  BY DEF vars
<1>2. TypeOK' /\ MarksMatchSources' /\ SupersededLinked' /\ ContextKnown'
  BY <1>1 DEF LibraryInv, TypeOK, MarksMatchSources, SupersededLinked, ContextKnown, Top, Newest, Exists
<1>3. LivesPend' /\ IndexesKnown'
  BY <1>1 DEF LibraryInv, LivesPend, Recalled, IndexesKnown, Adding, Exists
<1>4. TasksKnown'
  BY <1>1 DEF LibraryInv, TasksKnown, TaskKnown, Exists
<1>5. QED
  BY <1>2, <1>3, <1>4 DEF LibraryInv

\* The library's state is well typed; only demotions, and promotions by
\* accesses under way, ever wait for a commit; the marks of the consolidation
\* worker name reflections made from what they mark; and the indexes hold
\* stored episodes only.
THEOREM LibraryInvariant == Spec => []LibraryInv
<1>1. LibraryInv /\ [Next]_vars => LibraryInv'
  BY LibraryStep, LibraryStutter
<1>2. QED
  BY <1>1, LibraryInit, PTL DEF Spec

\* A superseded episode of the local backend is linked from the episode that
\* superseded it, however the process stops between the two halves.
THEOREM SupersededAreLinked == Spec => []SupersededLinked
<1>1. LibraryInv => SupersededLinked
  BY DEF LibraryInv
<1>2. QED
  BY <1>1, LibraryInvariant, PTL

\* The caller of a step begins an access only of a faded episode.
Accesses(t) ==
    /\ \A u \in Tasks \ {t} : task'[u] = task[u]
    /\ Recalling(task'[t]) =>
          \/ Recalling(task[t]) /\ task'[t].e = task[t].e
          \/ task'[t].e \in Ids /\ db.row[task'[t].e].life = "faded"

LEMMA CallerAccesses ==
    ASSUME LibraryInv, NEW t \in Tasks, TaskStep(t)
    PROVE  Accesses(t)
<1>1. task \in [Tasks -> Callers] /\ task[t] \in Callers
  BY DEF LibraryInv, TypeOK
<1>2. ASSUME NEW c, task' = [task EXCEPT ![t] = c],
             Recalling(c) => \/ Recalling(task[t]) /\ c.e = task[t].e
                             \/ c.e \in Ids /\ db.row[c.e].life = "faded"
      PROVE  Accesses(t)
  BY <1>1, <1>2 DEF Accesses
<1>3. \A c \in Callers : c.pc \notin {"promote", "edges", "commit"} => ~Recalling(c)
  BY DEF Recalling
<1>4. ASSUME NEW sess \in Sessions, Remember(t, sess) \/ ObserveAndRemember(t, sess)
      PROVE  Accesses(t)
  BY <1>2, <1>4 DEF Remember, ObserveAndRemember, Insert, Idle, FirstIndex, Recalling
<1>5. ASSUME NEW sess \in Sessions, ConsolidateSession(t, sess) \/ ReflectSession(t, sess)
      PROVE  Accesses(t)
  BY <1>2, <1>5 DEF ConsolidateSession, ReflectSession, Reflect, Idle, Recalling
<1>6. ASSUME NEW ok \in BOOLEAN, IndexFts(t, ok)
      PROVE  Accesses(t)
  BY <1>1, <1>2, <1>6 DEF IndexFts, Callers, Recalling
<1>7. ASSUME NEW ok \in BOOLEAN, IndexVec(t, ok) \/ UpsertVector(t, ok)
      PROVE  Accesses(t)
  <2>1. task' = [task EXCEPT ![t] = AfterInsert(task[t])]
    BY <1>7 DEF IndexVec, UpsertVector, VectorWritten
  <2>2. ~Recalling(AfterInsert(task[t]))
    BY <1>1 DEF AfterInsert, Callers, Idle, Recalling
  <2>3. QED
    BY <1>2, <2>1, <2>2
<1>8. ASSUME NEW e \in Ids, GetTracked(t, e)
      PROVE  Accesses(t)
  BY <1>2, <1>8 DEF GetTracked, Idle, Recalling
<1>9. ASSUME NEW e \in Ids, PruneStep(t, e)
      PROVE  Accesses(t)
  <2> DEFINE left == task[t].todo \ {e}
             c == IF left = {} THEN Idle ELSE [task[t] EXCEPT !.todo = left]
  <2>1. task' = [task EXCEPT ![t] = c] /\ task[t].pc = "decay"
    BY <1>9 DEF PruneStep
  <2>2. ~Recalling(c)
    BY <1>1, <2>1 DEF Callers, Idle, Recalling
  <2>3. QED
    BY <1>2, <2>1, <2>2
<1>10. ASSUME NEW e \in Ids, Mark(t, e)
       PROVE  Accesses(t)
  <2>1. task' = [task EXCEPT ![t] = [task[t] EXCEPT !.pc = "edge", !.e = e]]
    BY <1>1, <1>10 DEF Mark
  <2>2. ~Recalling([task[t] EXCEPT !.pc = "edge", !.e = e])
    BY <1>1 DEF Callers, Recalling
  <2>3. QED
    BY <1>2, <2>1, <2>2
<1>11. ASSUME NEW a \in Ids, NEW d \in Ids, ResolveConflict(t, a, d)
       PROVE  Accesses(t)
  BY <1>2, <1>11 DEF ResolveConflict, ConflictFirst, Idle, Recalling
<1>12. ASSUME NEW S \in SUBSET Ids, PruneRead(t, S)
       PROVE  Accesses(t)
  BY <1>2, <1>12 DEF PruneRead, Idle, Recalling
<1>13. CASE PromoteRow(t)
  <2>1. task' = [task EXCEPT ![t] = [task[t] EXCEPT !.pc = "edges"]] /\ Recalling(task[t])
    BY <1>13 DEF PromoteRow, Recalling
  <2>2. [task[t] EXCEPT !.pc = "edges"].e = task[t].e
    BY <1>1 DEF Callers
  <2>3. QED
    BY <1>2, <2>1, <2>2
<1>14. CASE PromoteEdges(t)
  <2>1. task' = [task EXCEPT ![t] = [task[t] EXCEPT !.pc = "commit"]] /\ Recalling(task[t])
    BY <1>14 DEF PromoteEdges, Recalling
  <2>2. [task[t] EXCEPT !.pc = "commit"].e = task[t].e
    BY <1>1 DEF Callers
  <2>3. QED
    BY <1>2, <2>1, <2>2
<1>15. CASE AccessCommit(t)
  BY <1>2, <1>15 DEF AccessCommit, Idle, Recalling
<1>16. CASE ResolveLink(t)
  <2> DEFINE c == IF ConflictFirst = "link" THEN [task[t] EXCEPT !.pc = "invalidate"] ELSE Idle
  <2>1. task' = [task EXCEPT ![t] = c]
    BY <1>16 DEF ResolveLink
  <2>2. ~Recalling(c)
    BY <1>1 DEF Callers, Idle, Recalling
  <2>3. QED
    BY <1>2, <2>1, <2>2
<1>17. CASE ResolveInvalidate(t)
  <2> DEFINE c == IF ConflictFirst = "invalidate" /\ task[t].e \in Live(db)
                  THEN [task[t] EXCEPT !.pc = "link"] ELSE Idle
  <2>1. task' = [task EXCEPT ![t] = c]
    BY <1>17 DEF ResolveInvalidate
  <2>2. ~Recalling(c)
    BY <1>1 DEF Callers, Idle, Recalling
  <2>3. QED
    BY <1>2, <2>1, <2>2
<1>18. CASE ReflectStore(t)
  <2>1. task' = [task EXCEPT ![t] = [task[t] EXCEPT !.e = Fresh, !.pc = FirstIndex]]
    BY <1>18 DEF ReflectStore, Insert
  <2>2. ~Recalling([task[t] EXCEPT !.e = Fresh, !.pc = FirstIndex])
    BY <1>1 DEF Callers, FirstIndex, Recalling
  <2>3. QED
    BY <1>2, <2>1, <2>2
<1>19. CASE MarkEdge(t)
  <2> DEFINE left == task[t].todo \ {task[t].e}
             c == IF left = {} THEN Idle
                  ELSE [task[t] EXCEPT !.pc = "mark", !.e = None, !.todo = left]
  <2>1. task' = [task EXCEPT ![t] = c]
    BY <1>19 DEF MarkEdge
  <2>2. ~Recalling(c)
    BY <1>1 DEF Callers, Idle, Recalling
  <2>3. QED
    BY <1>2, <2>1, <2>2
<1>20. QED
  BY <1>4, <1>5, <1>6, <1>7, <1>8, <1>9, <1>10, <1>11, <1>12, <1>13, <1>14, <1>15, <1>16, <1>17,
     <1>18, <1>19 DEF TaskStep

LEMMA RecalledFaded ==
    ASSUME LibraryInv, Next
    PROVE  \A e \in Recalled' \ Recalled : e \in Ids /\ db.row[e].life = "faded"
<1>1. ASSUME NEW t \in Tasks, Accesses(t)
      PROVE  \A e \in Recalled' \ Recalled : e \in Ids /\ db.row[e].life = "faded"
  BY <1>1 DEF Accesses, Recalled, Recalling
<1>2. CASE Stop
  <2>1. \A t \in Tasks : task'[t].pc = "idle"
    BY <1>2 DEF Stop, Idle
  <2>2. QED
    BY <2>1 DEF Recalled
<1>3. CASE task' = task
  BY <1>3 DEF Recalled
<1>4. QED
  BY <1>1, <1>2, <1>3, CallerAccesses
     DEF Next, Forget, Link, VaultContext, Initialise, PlatformInitialise, PlatformPrune

\* What the library commits keeps the promise of StorageBackend about the
\* lifetime of an episode: overlapping accesses are the only way back.
THEOREM LibraryImplementsStore == Spec => StoreSpec
<1>1. Init => Store!Init
  <2> SUFFICES ASSUME Init
               PROVE  Store!Init
    OBVIOUS
  <2>1. \A e \in Ids : saved.row[e].life = "absent"
    BY DEF Init, Empty, NoRow
  <2>2. Recalled = {}
    BY IdleCaller DEF Init, Recalled
  <2>3. QED
    BY <2>1, <2>2 DEF Store!Init
<1>2. ASSUME LibraryInv, LibraryInv', [Next]_vars
      PROVE  [Store!Next]_(<<[e \in Ids |-> saved.row[e].life], Recalled>>)
  <2> DEFINE life == [e \in Ids |-> saved.row[e].life]
  <2>1. CASE UNCHANGED vars
    BY <2>1 DEF vars, Recalled
  <2>2. CASE Next
    <3>1. \A e \in Ids : saved'.row[e].life \in Lives
      BY <1>2 DEF LibraryInv, TypeOK, Stores, Row, Lives
    <3>2. ASSUME NEW e \in Ids
          PROVE  /\ \/ db.row[e].life = saved.row[e].life
                    \/ saved.row[e].life = "live" /\ db.row[e].life = "faded"
                    \/ /\ e \in Recalled /\ saved.row[e].life \in {"faded", "gone"}
                       /\ db.row[e].life \in {"live", "faded"}
      BY <1>2 DEF LibraryInv, LivesPend
    <3>3. ASSUME NEW e \in Ids
          PROVE  \/ saved'.row[e].life = saved.row[e].life
                 \/ <<saved.row[e].life, saved'.row[e].life>> \in Store!Moves
                 \/ e \in Recalled /\ <<saved.row[e].life, saved'.row[e].life>> \in Store!Returns
      <4>1. CASE saved' = saved
        BY <4>1
      <4>2. CASE saved' # saved
        <5>1. saved' = db' /\ Grows
          BY <1>2, <2>2, <4>2, LibraryStep
        <5>2. db'.row[e].life = db.row[e].life \/ <<db.row[e].life, db'.row[e].life>> \in Ages
          BY <4>2, <5>1 DEF Grows
        <5>3. QED
          BY <3>2, <5>1, <5>2 DEF Ages, Store!Moves, Store!Returns
      <4>3. QED
        BY <4>1, <4>2
    <3>4. life' \in [Ids -> {"absent", "live", "faded", "gone"}]
      BY <3>1 DEF Lives
    <3>5. \A e \in Recalled' \ Recalled : life[e] \in {"live", "faded"}
      <4> SUFFICES ASSUME NEW e \in Recalled' \ Recalled
                   PROVE  life[e] \in {"live", "faded"}
        OBVIOUS
      <4>1. e \in Ids /\ db.row[e].life = "faded"
        BY <1>2, <2>2, RecalledFaded
      <4>2. QED
        BY <3>2, <4>1
    <3>6. ASSUME NEW e \in Ids
          PROVE  \/ life'[e] = life[e]
                 \/ <<life[e], life'[e]>> \in Store!Moves
                 \/ e \in Recalled /\ <<life[e], life'[e]>> \in Store!Returns
      <4>1. life[e] = saved.row[e].life /\ life'[e] = saved'.row[e].life
        OBVIOUS
      <4> HIDE DEF life
      <4>2. QED
        BY <3>3, <4>1
    <3>7. QED
      BY <3>4, <3>5, <3>6 DEF Store!Next
  <2>3. QED
    BY <1>2, <2>1, <2>2
<1>3. QED
  BY <1>1, <1>2, LibraryInvariant, PTL DEF Spec, StoreSpec, Store!Spec

-----------------------------------------------------------------------------
(* What is read                                                            *)

LEMMA SubsetsFinite ==
    /\ IsFiniteSet(Ids) /\ Cardinality(Ids) = MaxEps
    /\ \A S \in SUBSET Ids : IsFiniteSet(S) /\ Cardinality(S) \in Nat
<1>1. IsFiniteSet(Ids) /\ Cardinality(Ids) = MaxEps
  <2>1. MaxEps \in Nat
    BY LibraryAssumption
  <2>2. IsFiniteSet(1..MaxEps) /\ Cardinality(1..MaxEps) = MaxEps
    BY <2>1, FS_Interval
  <2>3. QED
    BY <2>2 DEF Ids
<1>2. QED
  BY <1>1, FS_Subset, FS_CardinalityType

LEMMA TopFacts ==
    ASSUME NEW S \in SUBSET Ids
    PROVE  /\ Top(S) \subseteq S
           /\ Cardinality(S) < HashTop => Top(S) = S
           /\ Cardinality(Top(S)) < HashTop => Top(S) = S
<1>1. Top(S) \subseteq S
  BY DEF Top, Newest
<1>2. ASSUME Cardinality(S) < HashTop
      PROVE  Top(S) = S
  <2> SUFFICES ASSUME NEW e \in S
               PROVE  Cardinality({f \in S : f > e}) < HashTop
    BY DEF Top, Newest
  <2> DEFINE above == {f \in S : f > e}
  <2>1. IsFiniteSet(S) /\ Cardinality(S) \in Nat /\ above \subseteq S
    BY SubsetsFinite
  <2> HIDE DEF above
  <2>2. Cardinality(above) \in Nat /\ Cardinality(above) <= Cardinality(S)
    BY <2>1, FS_Subset, FS_CardinalityType
  <2>3. Cardinality(above) < HashTop
    BY <1>2, <2>1, <2>2, LibraryAssumption
  <2>4. QED
    BY <2>3 DEF above
<1>3. ASSUME Cardinality(Top(S)) < HashTop, Top(S) # S
      PROVE  FALSE
  <2> DEFINE rest == S \ Top(S)
  <2>1. rest # {} /\ rest \in SUBSET (1..MaxEps) /\ MaxEps \in Nat
    BY <1>1, <1>3, LibraryAssumption DEF Ids
  <2>2. PICK e \in rest : \A f \in rest : f <= e
    <3> DEFINE N == {MaxEps - f : f \in rest}
    <3>1. N \in SUBSET Nat /\ N # {}
      BY <2>1
    <3>2. PICK n \in N : \A y \in N : n <= y
      BY <3>1, LeastBelow
    <3>3. PICK e \in rest : n = MaxEps - e
      BY <3>2
    <3>4. ASSUME NEW f \in rest
          PROVE  f <= e
      <4>1. n <= MaxEps - f
        BY <3>2
      <4>2. QED
        BY <2>1, <3>3, <4>1
    <3>5. QED
      BY <3>3, <3>4
  <2> DEFINE above == {f \in S : f > e}
  <2>3. above \subseteq Top(S)
    <3> SUFFICES ASSUME NEW f \in S, f > e, f \notin Top(S)
                 PROVE  FALSE
      OBVIOUS
    <3>1. f \in rest /\ f <= e /\ f \in Int /\ e \in Int
      BY <2>1, <2>2
    <3>2. QED
      BY <3>1
  <2> HIDE DEF above
  <2>4. /\ Top(S) \in SUBSET Ids /\ Cardinality(Top(S)) \in Nat
        /\ Cardinality(above) \in Nat /\ Cardinality(above) <= Cardinality(Top(S))
    <3>1. Top(S) \in SUBSET Ids
      BY <1>1
    <3>2. IsFiniteSet(Top(S)) /\ Cardinality(Top(S)) \in Nat
      BY <3>1, SubsetsFinite
    <3>3. QED
      BY <2>3, <3>1, <3>2, FS_Subset, FS_CardinalityType
  <2>5. Cardinality(above) < HashTop
    BY <1>3, <2>4, LibraryAssumption
  <2>6. e \in Top(S)
    BY <2>2, <2>5 DEF Top, Newest, above
  <2>7. QED
    BY <2>2, <2>6
<1>4. QED
  BY <1>1, <1>2, <1>3

\* A context that is answered from the cache has the newest of the episodes
\* listed now, as many as the hash covers, and exactly those listed when they
\* are fewer: for any number of episodes, sessions, limits and budgets.
THEOREM CachedContextIsExact == Spec => []CacheHitIsExact
<1>1. LibraryInv => CacheHitIsExact
  <2> SUFFICES ASSUME LibraryInv, NEW q \in Contexts, Hit(q)
               PROVE  /\ Top(Given(q)) \subseteq cache.shown
                      /\ Cardinality(Given(q)) < HashTop => cache.shown = Given(q)
    BY DEF CacheHitIsExact
  <2>1. cache \in Entries /\ cache.top = Top(cache.shown) /\ cache.top = Top(Given(q))
    BY DEF LibraryInv, TypeOK, ContextKnown, Hit
  <2>2. cache.shown \in SUBSET Ids /\ Given(q) \in SUBSET Ids
    BY <2>1 DEF Entries, Given, Listed, Live, Newest
  <2>3. Top(Given(q)) \subseteq cache.shown
    BY <2>1, <2>2, TopFacts
  <2>4. ASSUME Cardinality(Given(q)) < HashTop
        PROVE  cache.shown = Given(q)
    <3>1. Top(Given(q)) = Given(q)
      BY <2>2, <2>4, TopFacts
    <3>2. Cardinality(Top(cache.shown)) < HashTop
      BY <2>1, <2>4, <3>1
    <3>3. QED
      BY <2>1, <2>2, <3>1, <3>2, TopFacts
  <2>5. QED
    BY <2>3, <2>4
<1>2. QED
  BY <1>1, LibraryInvariant, PTL

LEMMA CutFacts ==
    ASSUME NEW X \in SUBSET Ids, NEW n \in Nat, NEW S \in Cut(X, n)
    PROVE  /\ S \subseteq X /\ Cardinality(S) <= n
           /\ Cardinality(S) # n => S = X
           /\ Cardinality(X) <= n => S = X
<1>1. S \subseteq X /\ Cardinality(S) = IF Cardinality(X) < n THEN Cardinality(X) ELSE n
  BY DEF Cut
<1>2. IsFiniteSet(X) /\ Cardinality(X) \in Nat
  BY SubsetsFinite
<1>3. Cardinality(S) = Cardinality(X) => S = X
  BY <1>1, <1>2, FS_Subset
<1>4. QED
  BY <1>1, <1>2, <1>3

LEMMA SearchesWithinRows ==
    ASSUME LibraryInv
    PROVE  /\ Live(db) \in SUBSET Ids /\ db.fts \in SUBSET Ids /\ db.vec \in SUBSET Ids
           /\ Limit \in Nat /\ 3 * Limit \in Nat
BY LibraryAssumption DEF LibraryInv, TypeOK, Stores, Live

\* What one search makes of the hits F and V.
LEMMA SearchShape ==
    ASSUME LibraryInv, NEW F \in FtsSearch, NEW V \in VecSearch,
           NEW S \in Recall(F, V) \cup FindSimilar(F, V)
    PROVE  /\ S \subseteq Live(db)
           /\ backend = "local" /\ Cardinality(db.fts \cup db.vec) <= 3 * Limit /\ (V = {} => F = {}) =>
                 Cardinality(S) = Limit \/ Live(db) \cap db.vec \subseteq S
<1>1. /\ Live(db) \in SUBSET Ids /\ db.fts \in SUBSET Ids /\ db.vec \in SUBSET Ids
      /\ Limit \in Nat /\ 3 * Limit \in Nat
  BY SearchesWithinRows
<1>2. \A X \in SUBSET Ids : \A T \in Cut(X \cap Live(db), Limit) :
         T \subseteq Live(db) /\ (Cardinality(T) = Limit \/ T = X \cap Live(db))
  <2> SUFFICES ASSUME NEW X \in SUBSET Ids, NEW T \in Cut(X \cap Live(db), Limit)
               PROVE  T \subseteq Live(db) /\ (Cardinality(T) = Limit \/ T = X \cap Live(db))
    OBVIOUS
  <2>1. X \cap Live(db) \in SUBSET Ids
    OBVIOUS
  <2>2. QED
    BY <1>1, <2>1, CutFacts
<1>3. \A T \in LikeSearch : T \subseteq Live(db) /\ (Cardinality(T) = Limit \/ T = Live(db))
  BY <1>1, CutFacts DEF LikeSearch
<1>4. F \in SUBSET Ids /\ V \in SUBSET Ids
  BY <1>1 DEF FtsSearch, VecSearch, Cut
<1>5. ASSUME Cardinality(db.fts \cup db.vec) <= 3 * Limit
      PROVE  V \in {{}, db.vec}
  <2>1. db.fts \cup db.vec \in SUBSET Ids
    BY <1>1
  <2>2. Cardinality(db.vec) <= Cardinality(db.fts \cup db.vec) /\ Cardinality(db.vec) \in Nat
        /\ Cardinality(db.fts \cup db.vec) \in Nat
    BY <1>1, <2>1, SubsetsFinite, FS_Subset
  <2>3. Cardinality(db.vec) <= 3 * Limit
    BY <1>1, <1>5, <2>2
  <2>4. QED
    BY <1>1, <2>3, CutFacts DEF VecSearch
<1>6. CASE S \in LikeSearch
  BY <1>3, <1>6
<1>7. CASE backend = "local" /\ S \in Recall(F, V) /\ S \notin LikeSearch
  <2>1. S \in Cut((F \cup V) \cap Live(db), Limit) /\ F \cup V # {}
    BY <1>7 DEF Recall, SearchEpisodes
  <2>2. S \subseteq Live(db) /\ (Cardinality(S) = Limit \/ S = (F \cup V) \cap Live(db))
    BY <1>2, <1>4, <2>1
  <2>3. QED
    BY <1>5, <2>1, <2>2
<1>8. CASE S \in FindSimilar(F, V) /\ S \notin LikeSearch
  <2>1. \/ V # {} /\ S \in Cut(V \cap Live(db), Limit)
        \/ V = {} /\ F # {} /\ S \in Cut(F \cap Live(db), Limit)
    BY <1>8 DEF FindSimilar
  <2>2. S \subseteq Live(db) /\ (V # {} => Cardinality(S) = Limit \/ S = V \cap Live(db))
    BY <1>2, <1>4, <2>1
  <2>3. QED
    BY <1>5, <2>1, <2>2
<1>9. QED
  BY <1>6, <1>7, <1>8 DEF Recall

\* Recalls and conflict checks are live episodes, whatever search fails, and
\* a result that is not full leaves out a live one only for a known reason.
THEOREM ReadsFollowRows == Spec => []RecallFollowsRows
<1>1. ASSUME LibraryInv
      PROVE  RecallFollowsRows
  <2>1. saved.fts \cup saved.vec \subseteq Exists(saved)
    <3>1. db.fts = saved.fts /\ db.vec = saved.vec
      BY <1>1 DEF LibraryInv, LivesPend
    <3>2. Exists(db) \subseteq Exists(saved)
      <4> SUFFICES ASSUME NEW e \in Exists(db)
                   PROVE  e \in Exists(saved)
        OBVIOUS
      <4>1. e \in Ids /\ db.row[e].life # "absent"
        BY DEF Exists
      <4>2. db.row[e].life = saved.row[e].life \/ saved.row[e].life \in {"live", "faded", "gone"}
        BY <1>1, <4>1 DEF LibraryInv, LivesPend
      <4>3. QED
        BY <4>1, <4>2 DEF Exists
    <3>3. QED
      BY <1>1, <3>1, <3>2 DEF LibraryInv, IndexesKnown
  <2>2. ASSUME NEW F \in FtsSearch, NEW V \in VecSearch
        PROVE  \A S \in Recall(F, V) \cup FindSimilar(F, V) : S \subseteq Live(db)
    BY <1>1, SearchShape
  <2>3. ASSUME up, backend = "local", Cardinality(db.fts \cup db.vec) <= 3 * Limit,
               NEW F \in FtsSearch, NEW V \in VecSearch, V = {} => F = {},
               NEW S \in Recall(F, V) \cup FindSimilar(F, V)
        PROVE  Cardinality(S) = Limit \/ Live(db) \ (skipped \cup Adding) \subseteq S
    <3>1. Live(db) \subseteq db.vec \cup skipped \cup Adding
      BY <1>1, <2>3 DEF LibraryInv, IndexesKnown, Live, Exists
    <3>2. Cardinality(S) = Limit \/ Live(db) \cap db.vec \subseteq S
      BY <1>1, <2>3, SearchShape
    <3>3. QED
      BY <3>1, <3>2
  <2>4. backend = "local" => \A F, V : FindConflicts(F, V) = FindSimilar(F, V)
    BY DEF FindConflicts
  <2>5. QED
    BY <2>1, <2>2, <2>3, <2>4 DEF RecallFollowsRows
<1>2. QED
  BY <1>1, LibraryInvariant, PTL

=============================================================================
