----------------------------- MODULE LibraryVault -----------------------------
(***************************************************************************)
(* The embedded library: MemoryService (kemory/service/memory_service.py)  *)
(* over LocalStorageBackend (SQLite) or PlatformStorageBackend             *)
(* (PostgreSQL), the consolidation worker (kemory/consolidation/worker.py) *)
(* and the cached vault context (kemory/context/vault_context.py).         *)
(*                                                                         *)
(* All coroutines of a local backend share one SQLite connection: a        *)
(* statement is visible to the others at once, and any commit makes        *)
(* everybody's statements durable.  Each action is the work between two    *)
(* awaits that others may interleave with; a statement and the commit that *)
(* follows it are one action.  A crash loses what was not committed.       *)
(*                                                                         *)
(* Episodes are numbered in the order of their creation.  Contents,        *)
(* facts, timestamps and scores are left out: which episodes have decayed  *)
(* is a choice.                                                            *)
(***************************************************************************)
EXTENDS Integers, FiniteSets, FiniteSetsExt

CONSTANTS
    MaxEps,      \* bound on the episodes
    Sessions,    \* conversation sessions
    Links,       \* pairs of episodes that callers may link
    MinEpisodes, \* _MIN_EPISODES
    HashTop,     \* episodes that the context hash covers
    Limit,       \* results a reader asks for
    Backends,    \* "local", "platform"
    Tasks,       \* concurrent callers
    Contexts,    \* calls of vault_context
    Mixes,       \* what a behaviour may consist of: the operations, the number
                 \* of episodes, the sessions, whether index writes may fail
    None

Ids == 1..MaxEps

ASSUME LibraryAssumption ==
    /\ MaxEps \in Nat /\ MinEpisodes \in Nat \ {0} /\ HashTop \in Nat
    /\ Limit \in Nat \ {0}
    /\ Links \subseteq (1..MaxEps) \X (1..MaxEps)
    /\ \A m \in Mixes : m.eps \in 1..MaxEps /\ m.sess \subseteq Sessions
    /\ Contexts \subseteq [sess : Sessions \cup {None}, limit : Nat, budget : Nat]
    /\ Backends \subseteq {"local", "platform"}
    /\ None \notin Sessions /\ None \notin Ids /\ IsFiniteSet(Tasks)

VARIABLES
    backend,  \* the backend this process was given
    mix,      \* the mix of this behaviour
    up,       \* whether it is initialised
    db,       \* what the connection sees
    saved,    \* what is committed
    task,     \* each caller
    cache,    \* the VaultContext's cached entry
    skipped,  \* history: episodes whose vector insert failed or was cut
    resolved  \* history: pairs of a resolved conflict

vars == <<backend, mix, up, db, saved, task, cache, skipped, resolved>>

\* life is "absent", "live" (invalid_at is NULL), "faded" (tier demoted) or
\* "gone"; sources and into are extra's source_episode_ids and
\* consolidated_into.
Row == [life : {"absent", "live", "faded", "gone"}, sess : Sessions \cup {None},
        sources : SUBSET Ids, into : Ids \cup {None}]
Edges == Ids \X Ids \X {"supersedes", "elaborates", "related"} \X {"low", "half", "full"}
Stores == [row : [Ids -> Row], edge : SUBSET Edges, fts : SUBSET Ids, vec : SUBSET Ids]

NoRow  == [life |-> "absent", sess |-> None, sources |-> {}, into |-> None]
Empty  == [row |-> [e \in Ids |-> NoRow], edge |-> {}, fts |-> {}, vec |-> {}]
Idle   == [pc |-> "idle", e |-> None, f |-> None, sess |-> None, todo |-> {}, marks |-> FALSE]
Callers == [pc : {"idle", "fts", "vec", "upsert", "touch", "promote", "edges", "commit", "invalidate", "link", "decay",
                  "reflect", "mark", "edge"},
            e : Ids \cup {None}, f : Ids \cup {None}, sess : Sessions \cup {None},
            todo : SUBSET Ids, marks : BOOLEAN]
Entries == [top : SUBSET Ids, shown : SUBSET Ids, budget : Nat]

TypeOK ==
    /\ backend \in Backends /\ mix \in Mixes /\ up \in BOOLEAN
    /\ db \in Stores /\ saved \in Stores
    /\ task \in [Tasks -> Callers]
    /\ cache \in Entries \cup {None}
    /\ skipped \subseteq Ids /\ resolved \subseteq Ids \X Ids

Init ==
    /\ backend \in Backends /\ mix \in Mixes /\ up = FALSE
    /\ db = Empty /\ saved = Empty
    /\ task = [t \in Tasks |-> Idle]
    /\ cache = None /\ skipped = {} /\ resolved = {}

Live(store)   == {e \in Ids : store.row[e].life = "live"}
Exists(store) == {e \in Ids : store.row[e].life # "absent"}

\* The id of the next episode; 0 when the bound is reached.
Fresh == LET free == 1..mix.eps \ Exists(db) IN IF free = {} THEN 0 ELSE Min(free)

\* A statement followed by a commit, and one left to a later commit.
Commit(store)  == db' = store /\ saved' = store
Execute(store) == db' = store /\ saved' = saved

-----------------------------------------------------------------------------
(* Lifecycle                                                               *)

MutMissing == {}

\* _backfill_embeddings: live episodes without a vector.
Missing == Live(db) \ db.vec

\* LocalStorageBackend.initialise.  An embedding that fails (bad) is skipped;
\* FTS is not backfilled.
Initialise(bad) ==
    /\ ~up /\ backend = "local" /\ bad \subseteq Live(db) \ db.vec
    /\ up' = TRUE
    /\ Commit([db EXCEPT !.vec = @ \cup (Missing \ bad)])
    /\ skipped' = bad \cup (Exists(db) \ (Live(db) \cup db.vec))
    /\ UNCHANGED <<backend, mix, task, cache, resolved>>

\* PlatformStorageBackend.initialise: the schema is ensured, nothing is
\* backfilled.
PlatformInitialise ==
    /\ ~up /\ backend = "platform"
    /\ up' = TRUE
    /\ UNCHANGED <<backend, mix, db, saved, task, cache, skipped, resolved>>

\* close, or a crash of the process that embeds the library.
Stop ==
    /\ up
    /\ up' = FALSE
    /\ db' = saved
    /\ skipped' = skipped \cup {task[t].e : t \in {t \in Tasks : task[t].pc \in {"fts", "vec", "upsert"}}}
    /\ task' = [t \in Tasks |-> Idle]
    /\ cache' = None
    /\ UNCHANGED <<backend, mix, saved, resolved>>

-----------------------------------------------------------------------------
(* add_episode, remember and observe_and_remember                          *)

NewRow(sess, sources) == [NoRow EXCEPT !.life = "live", !.sess = sess, !.sources = sources]

\* The index that follows the row: the platform only has the vector store.
FirstIndex == IF backend = "local" THEN "fts" ELSE "upsert"

\* The row is committed first; the indexes follow.
Insert(t, sess, sources, next) ==
    /\ Fresh # 0
    /\ Commit([db EXCEPT !.row[Fresh] = NewRow(sess, sources)])
    /\ task' = [task EXCEPT ![t] = [next EXCEPT !.e = Fresh, !.pc = FirstIndex]]

Remember(t, sess) ==
    /\ up /\ "remember" \in mix.ops /\ sess \in mix.sess /\ task[t].pc = "idle"
    /\ Insert(t, sess, {}, Idle)
    /\ UNCHANGED <<backend, mix, up, cache, skipped, resolved>>

\* The observer has read the content; nothing of the store is read before.
ObserveAndRemember(t, sess) ==
    /\ up /\ "observe" \in mix.ops /\ sess \in mix.sess /\ task[t].pc = "idle"
    /\ Insert(t, sess, {}, Idle)
    /\ UNCHANGED <<backend, mix, up, cache, skipped, resolved>>

\* A failed index insert is logged and the next one is tried.
IndexFts(t, ok) ==
    /\ task[t].pc = "fts" /\ (ok \/ mix.faults)
    /\ IF ok THEN Commit([db EXCEPT !.fts = @ \cup {task[t].e}]) ELSE UNCHANGED <<db, saved>>
    /\ task' = [task EXCEPT ![t].pc = "vec"]
    /\ UNCHANGED <<backend, mix, up, cache, skipped, resolved>>

AfterInsert(c) == IF c.marks /\ c.todo # {} THEN [c EXCEPT !.pc = "mark", !.f = c.e] ELSE Idle

VectorWritten(t, ok) ==
    /\ ok \/ mix.faults
    /\ IF ok THEN Commit([db EXCEPT !.vec = @ \cup {task[t].e}]) ELSE UNCHANGED <<db, saved>>
    /\ skipped' = IF ok THEN skipped ELSE skipped \cup {task[t].e}
    /\ task' = [task EXCEPT ![t] = AfterInsert(task[t])]
    /\ UNCHANGED <<backend, mix, up, cache, resolved>>

IndexVec(t, ok) == task[t].pc = "vec" /\ VectorWritten(t, ok)

\* "best-effort; failure does NOT roll back PostgreSQL".
UpsertVector(t, ok) == task[t].pc = "upsert" /\ VectorWritten(t, ok)

-----------------------------------------------------------------------------
(* get_episode_by_id with track_access, forget, link, resolve_conflict     *)

\* The row is read and its access counted; the tier seen decides whether the
\* episode is promoted.
GetTracked(t, e) ==
    /\ up /\ backend = "local" /\ "get" \in mix.ops /\ task[t].pc = "idle"
    /\ e \in Exists(db)
    /\ task' = [task EXCEPT ![t] = [Idle EXCEPT !.e = e,
                    !.pc = IF db.row[e].life = "faded" THEN "promote" ELSE "touch"]]
    /\ UNCHANGED <<backend, mix, up, db, saved, cache, skipped, resolved>>

MutPromoted(e) ==
    [db EXCEPT !.row = [f \in Ids |-> IF @[f].life = "faded" THEN [@[f] EXCEPT !.life = "live"]
                                                            ELSE @[f]]]

\* UPDATE ... SET invalid_at = NULL WHERE id = ?: the tier is not tested again.
Promoted(e) == [db EXCEPT !.row[e].life = "live"]

PromoteRow(t) ==
    /\ task[t].pc = "promote"
    /\ Execute(Promoted(task[t].e))
    /\ task' = [task EXCEPT ![t].pc = "edges"]
    /\ UNCHANGED <<backend, mix, up, cache, skipped, resolved>>

Reweighted(edges, e, from, to) ==
    {IF x[4] \in from /\ e \in {x[1], x[2]} THEN <<x[1], x[2], x[3], to>> ELSE x : x \in edges}

PromoteEdges(t) ==
    /\ task[t].pc = "edges"
    /\ Execute([db EXCEPT !.edge = Reweighted(@, task[t].e, {"low", "half"}, "full")])
    /\ task' = [task EXCEPT ![t].pc = "commit"]
    /\ UNCHANGED <<backend, mix, up, cache, skipped, resolved>>

AccessCommit(t) ==
    /\ task[t].pc \in {"touch", "commit"}
    /\ Commit(db)
    /\ task' = [task EXCEPT ![t] = Idle]
    /\ UNCHANGED <<backend, mix, up, cache, skipped, resolved>>

\* UPDATE ... WHERE invalid_at IS NULL.
Invalidated(e) ==
    [db EXCEPT !.row[e].life = IF @ = "live" THEN "gone" ELSE @]

Forget(e) ==
    /\ up /\ "forget" \in mix.ops /\ e \in Live(db)
    /\ Commit(Invalidated(e))
    /\ UNCHANGED <<backend, mix, up, task, cache, skipped, resolved>>

\* The edge is replaced if it is there.
LocallyLinked(s, d, rel, w) ==
    [db EXCEPT !.edge = {x \in @ : <<x[1], x[2], x[3]>> # <<s, d, rel>>} \cup {<<s, d, rel, w>>}]

\* The community platform has no graph: its add_edge returns at once.
Linked(s, d, rel, w) == IF backend = "local" THEN LocallyLinked(s, d, rel, w) ELSE db

Link(s, d) ==
    /\ up /\ "link" \in mix.ops /\ <<s, d>> \in Links
    /\ Linked(s, d, "related", "full") # db
    /\ Commit(Linked(s, d, "related", "full"))
    /\ UNCHANGED <<backend, mix, up, task, cache, skipped, resolved>>

MutConflictFirst == "invalidate"

\* Which half of a resolution comes first.
ConflictFirst == IF backend = "local" THEN "link" ELSE "invalidate"

ResolveConflict(t, s, d) ==
    /\ up /\ "resolve" \in mix.ops /\ task[t].pc = "idle"
    /\ s # d /\ s \in Live(db) /\ d \in Exists(db)
    /\ task' = [task EXCEPT ![t] = [Idle EXCEPT !.pc = ConflictFirst, !.e = s, !.f = d]]
    /\ UNCHANGED <<backend, mix, up, db, saved, cache, skipped, resolved>>

ResolveLink(t) ==
    LET c == task[t]
    IN /\ c.pc = "link"
       /\ Commit(Linked(c.f, c.e, "supersedes", "full"))
       /\ task' = [task EXCEPT ![t] = IF ConflictFirst = "link"
                                      THEN [c EXCEPT !.pc = "invalidate"] ELSE Idle]
       /\ UNCHANGED <<backend, mix, up, cache, skipped, resolved>>

ResolveInvalidate(t) ==
    LET c == task[t]
    IN /\ c.pc = "invalidate"
       /\ Commit(Invalidated(c.e))
       /\ resolved' = IF c.e \in Live(db) THEN resolved \cup {<<c.e, c.f>>} ELSE resolved
       /\ task' = [task EXCEPT ![t] = IF ConflictFirst = "invalidate" /\ c.e \in Live(db)
                                      THEN [c EXCEPT !.pc = "link"] ELSE Idle]
       /\ UNCHANGED <<backend, mix, up, cache, skipped>>

-----------------------------------------------------------------------------
(* forget_decayed                                                          *)

\* _decay_score: which live episodes are at or below the floor is a choice.
Fading == {S \in SUBSET Live(db) : S # {}}

\* The live episodes are read once and scored.
PruneRead(t, S) ==
    /\ up /\ backend = "local" /\ "prune" \in mix.ops /\ task[t].pc = "idle"
    /\ S \in Fading
    /\ task' = [task EXCEPT ![t] = [Idle EXCEPT !.pc = "decay", !.todo = S]]
    /\ UNCHANGED <<backend, mix, up, db, saved, cache, skipped, resolved>>

\* The platform scores and invalidates in two UPDATEs of one transaction.
PlatformPrune(S) ==
    /\ up /\ backend = "platform" /\ "prune" \in mix.ops
    /\ S \in Fading
    /\ Commit([db EXCEPT !.row = [e \in Ids |-> IF e \in S THEN [@[e] EXCEPT !.life = "gone"]
                                                           ELSE @[e]]])
    /\ UNCHANGED <<backend, mix, up, task, cache, skipped, resolved>>

\* UPDATE ... SET tier = 'demoted' WHERE invalid_at IS NULL, then the edges.
Demoted(e) ==
    [db EXCEPT !.row[e].life = IF @ = "live" THEN "faded" ELSE @,
               !.edge = Reweighted(@, e, {"half", "full"}, "low")]

\* One episode after the other; only the end of the pass commits.
PruneStep(t, e) ==
    LET left == task[t].todo \ {e}
    IN /\ task[t].pc = "decay" /\ e \in task[t].todo
       /\ IF left = {} THEN Commit(Demoted(e)) ELSE Execute(Demoted(e))
       /\ task' = [task EXCEPT ![t] = IF left = {} THEN Idle ELSE [@ EXCEPT !.todo = left]]
       /\ UNCHANGED <<backend, mix, up, cache, skipped, resolved>>

-----------------------------------------------------------------------------
(* consolidate_session, consolidate_stale and reflect_session              *)

\* list_episodes of a session, or of all.
Listed(sess) == {e \in Live(db) : sess \in {None, db.row[e].sess}}

Eligible(sess) == {e \in Listed(sess) : db.row[e].into = None}

Reflect(t, sess, sources, marks) ==
    /\ up /\ "reflect" \in mix.ops /\ task[t].pc = "idle"
    /\ task' = [task EXCEPT ![t] = [Idle EXCEPT !.pc = "reflect", !.sess = sess,
                                                !.todo = sources, !.marks = marks]]
    /\ UNCHANGED <<backend, mix, up, db, saved, cache, skipped, resolved>>

ConsolidateSession(t, sess) ==
    /\ Cardinality(Eligible(sess)) >= MinEpisodes
    /\ Reflect(t, sess, Eligible(sess), TRUE)

\* reflect_session takes every episode, marks none, and stores no empty summary.
ReflectSession(t, sess) ==
    /\ Listed(sess) # {}
    /\ Reflect(t, sess, Listed(sess), FALSE)

\* The reflection is generated and stored as a new episode of the session.
ReflectStore(t) ==
    /\ task[t].pc = "reflect"
    /\ Insert(t, task[t].sess, task[t].todo, task[t])
    /\ UNCHANGED <<backend, mix, up, cache, skipped, resolved>>

MutMarked(t, e) == [db EXCEPT !.row[e].into = e]

\* _update_extra, which only finds a connection in the local backend.
Marked(t, e) ==
    IF backend = "local" THEN [db EXCEPT !.row[e].into = task[t].f] ELSE db

Mark(t, e) ==
    /\ task[t].pc = "mark" /\ e \in task[t].todo
    /\ Commit(Marked(t, e))
    /\ task' = [task EXCEPT ![t].pc = "edge", ![t].e = e]
    /\ UNCHANGED <<backend, mix, up, cache, skipped, resolved>>

MarkEdge(t) ==
    LET c == task[t]
        left == c.todo \ {c.e}
    IN /\ c.pc = "edge"
       /\ Commit(Linked(c.e, c.f, "elaborates", "half"))
       /\ task' = [task EXCEPT ![t] = IF left = {} THEN Idle
                                      ELSE [c EXCEPT !.pc = "mark", !.e = None, !.todo = left]]
       /\ UNCHANGED <<backend, mix, up, cache, skipped, resolved>>

-----------------------------------------------------------------------------
(* recall and find_conflicts.  Every episode matches, in an order that is  *)
(* a choice; a read is the set of its possible results.                    *)

\* The first n of S.
Cut(S, n) == {T \in SUBSET S : Cardinality(T) = IF Cardinality(S) < n THEN Cardinality(S) ELSE n}

\* _fts_search and _vec_search: three times the limit, invalid episodes
\* included; nothing when the extension is missing or the search fails.
FtsSearch == Cut(db.fts, 3 * Limit) \cup {{}}
VecSearch == Cut(db.vec, 3 * Limit) \cup {{}}

LikeSearch == Cut(Live(db), Limit)

\* The rows of both searches' hits that are still valid; LIKE is tried when
\* there is no hit at all.
SearchEpisodes(F, V) == IF F \cup V = {} THEN LikeSearch ELSE Cut((F \cup V) \cap Live(db), Limit)

\* The platform searches the table itself.
Recall(F, V) == IF backend = "local" THEN SearchEpisodes(F, V) ELSE LikeSearch

\* The first search that has a hit answers.
FindSimilar(F, V) ==
    IF V # {} THEN Cut(V \cap Live(db), Limit)
    ELSE IF F # {} THEN Cut(F \cap Live(db), Limit) ELSE LikeSearch

\* The platform does not look at invalid_at of the vector store's hits, and
\* falls back to the table when the vector store fails.
PlatformFindSimilar == Cut(db.vec, Limit) \cup LikeSearch

FindConflicts(F, V) == IF backend = "local" THEN FindSimilar(F, V) ELSE PlatformFindSimilar

-----------------------------------------------------------------------------
(* vault_context                                                           *)

\* The n most recent of S.
Newest(S, n) == {e \in S : Cardinality({f \in S : f > e}) < n}

MutTop(S) == {Cardinality(S)}

\* _compute_hash of the most recent ids.
Top(S) == Newest(S, HashTop)

\* The episodes a call of vault_context hands over.
Given(q) == Newest(Listed(q.sess), q.limit)

Hit(q) == cache # None /\ cache.top = Top(Given(q))

\* get_context: the organisation's entry is answered when its hash matches,
\* whoever made it; else it is built, within the token budget of this call.
VaultContext(q) ==
    /\ up /\ "context" \in mix.ops
    /\ cache' = IF Hit(q) THEN cache
                ELSE [top |-> Top(Given(q)), shown |-> Given(q), budget |-> q.budget]
    /\ UNCHANGED <<backend, mix, up, db, saved, task, skipped, resolved>>

-----------------------------------------------------------------------------

TaskStep(t) ==
    \/ \E sess \in Sessions : \/ Remember(t, sess) \/ ObserveAndRemember(t, sess)
                             \/ ConsolidateSession(t, sess) \/ ReflectSession(t, sess)
    \/ \E ok \in BOOLEAN : IndexFts(t, ok) \/ IndexVec(t, ok) \/ UpsertVector(t, ok)
    \/ \E e \in Ids : GetTracked(t, e) \/ PruneStep(t, e) \/ Mark(t, e)
    \/ \E s, d \in Ids : ResolveConflict(t, s, d)
    \/ \E S \in SUBSET Ids : PruneRead(t, S)
    \/ PromoteRow(t) \/ PromoteEdges(t) \/ AccessCommit(t)
    \/ ResolveLink(t) \/ ResolveInvalidate(t) \/ ReflectStore(t) \/ MarkEdge(t)

Next ==
    \/ \E t \in Tasks : TaskStep(t)
    \/ \E e \in Ids : Forget(e)
    \/ \E s, d \in Ids : Link(s, d)
    \/ \E q \in Contexts : VaultContext(q)
    \/ \E bad \in SUBSET Ids : Initialise(bad)
    \/ PlatformInitialise \/ \E S \in SUBSET Ids : PlatformPrune(S)
    \/ Stop

Spec == Init /\ [][Next]_vars

-----------------------------------------------------------------------------
(* Properties                                                              *)

\* The episodes of accesses under way that saw them faded.
Recalled == {task[t].e : t \in {t \in Tasks : task[t].pc \in {"promote", "edges", "commit"}}}

Store == INSTANCE EpisodeStore WITH life <- [e \in Ids |-> saved.row[e].life], recalled <- Recalled

\* What is committed keeps the promise of StorageBackend, whatever the
\* coroutines that share the connection commit for each other and whenever
\* the process stops: an episode that was forgotten, superseded or pruned is
\* not live again, and none that faded comes back, but by an access that read
\* it as faded before and is still under way.
StoreSpec == Store!Spec

\* The episodes whose insert is not finished.
Adding == {task[t].e : t \in {t \in Tasks : task[t].pc \in {"fts", "vec"}}}

\* The index entries name stored episodes, and what is read through them
\* follows the rows: a recall or a conflict check of the local backend
\* answers with live episodes, whatever search fails; and while the indexes
\* are no longer than the candidates, a result that is not full leaves out a
\* live episode only if it is still being added, its insert failed or was
\* cut, it had faded when the last start looked for the missing vectors, or
\* the vector search failed and the text search did not.
RecallFollowsRows ==
    /\ saved.fts \cup saved.vec \subseteq Exists(saved)
    /\ up => \A F \in FtsSearch, V \in VecSearch :
          /\ \A S \in Recall(F, V) : S \subseteq Live(db)
          /\ backend = "local" =>
                \A S \in Recall(F, V) \cup FindConflicts(F, V) :
                    /\ S \subseteq Live(db)
                    /\ Cardinality(db.fts \cup db.vec) <= 3 * Limit /\ (V = {} => F = {}) =>
                          Cardinality(S) = Limit \/ Live(db) \ (skipped \cup Adding) \subseteq S

\* A conflict that was resolved is linked: however the process stops between
\* the two halves, a superseded episode of the local backend is never left
\* without the edge from the episode that superseded it.
SupersededLinked ==
    backend = "local" =>
        \A p \in resolved : \E x \in saved.edge : x[1] = p[2] /\ x[2] = p[1] /\ x[3] = "supersedes"

\* An episode is marked consolidated only into a stored reflection that was
\* made from it, also when the worker is stopped in the middle or two
\* workers consolidate one session at the same time.
MarksMatchSources ==
    \A e \in Ids : saved.row[e].into # None =>
        LET r == saved.row[e].into IN r \in Exists(saved) /\ e \in saved.row[r].sources

\* Ends and relations of edges.
Triples(edges) == {<<x[1], x[2], x[3]>> : x \in edges}

\* All that waits for a commit are demotions, and promotions by accesses that
\* are still under way.
LivesPend ==
    /\ db.fts = saved.fts /\ db.vec = saved.vec /\ Triples(db.edge) = Triples(saved.edge)
    /\ \A e \in Ids :
          LET r == db.row[e]
              s == saved.row[e]
          IN  /\ <<r.sess, r.sources, r.into>> = <<s.sess, s.sources, s.into>>
              /\ \/ r.life = s.life
                 \/ s.life = "live" /\ r.life = "faded"
                 \/ e \in Recalled /\ s.life \in {"faded", "gone"} /\ r.life \in {"live", "faded"}

\* What a caller knows of the store when it goes on.
TaskKnown(c) ==
    /\ c.pc \in {"fts", "vec", "upsert"} =>
          c.e \in Exists(db) /\ (c.marks => c.todo \subseteq db.row[c.e].sources)
    /\ c.pc \in {"mark", "edge"} => c.f \in Exists(db) /\ c.todo \subseteq db.row[c.f].sources
    /\ c.pc = "edge" => c.e \in c.todo
    /\ c.pc \in {"promote", "edges", "commit"} => c.e \in Exists(db)
    /\ c.pc \in {"link", "invalidate"} => c.e \in Ids /\ c.f \in Ids
    /\ c.pc = "invalidate" /\ backend = "local" =>
          <<c.f, c.e, "supersedes">> \in Triples(db.edge)
    /\ c.pc = "upsert" => backend = "platform"

TasksKnown == \A t \in Tasks : TaskKnown(task[t])

\* Index entries name stored episodes, and every episode of a local backend
\* has its vector, or is known to lack it.
IndexesKnown ==
    /\ db.fts \cup db.vec \subseteq Exists(db)
    /\ up /\ backend = "local" => Exists(db) \subseteq db.vec \cup skipped \cup Adding

ContextKnown == cache # None => cache.top = Top(cache.shown)

\* The state of the library: well typed, the marks of the consolidation
\* worker match what it stored, and what its callers and indexes know.
LibraryInv ==
    /\ TypeOK /\ LivesPend /\ TasksKnown /\ IndexesKnown /\ MarksMatchSources
    /\ SupersededLinked /\ ContextKnown

\* "only regenerated when the underlying episode set changes": a context that
\* is answered from the cache has the newest episodes, as many as the hash
\* covers, of those listed now, and exactly those listed when they are fewer;
\* although calls for one session, for another and for all share the entry,
\* and episodes come, fade, go and come back between them.  (Of more, it may
\* have older ones that are gone or of another session, and in any case it
\* keeps the budget it was made with.)
CacheHitIsExact ==
    \A q \in Contexts :
        up /\ Hit(q) =>
            LET S == Given(q)
            IN  Top(S) \subseteq cache.shown /\ (Cardinality(S) < HashTop => cache.shown = S)
=============================================================================
