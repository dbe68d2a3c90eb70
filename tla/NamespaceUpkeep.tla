--------------------------- MODULE NamespaceUpkeep ---------------------------
(***************************************************************************)
(* What is done to, and read from, one namespace besides the vault's own   *)
(* operations: the consolidation passes of the worker and of the REST      *)
(* trigger (weight decay, archiving past the retention window, the policy  *)
(* row), the compressed read with its per-process cache, and the timeline  *)
(* that a client walks page by page.                                       *)
(*                                                                         *)
(* The writes of users are the committed effects of MemoryVault and        *)
(* ChatLifecycle, one action each.  A pass is a transaction: the rows it   *)
(* has updated are locked until it commits.  Weights are levels that a     *)
(* decay lowers by one; level 0 is _MIN_WEIGHT.                            *)
(***************************************************************************)
EXTENDS Integers, FiniteSets, FiniteSetsExt

CONSTANTS
    MaxId,        \* bound on the entries: memories and chats
    Chats,        \* the ids that are chats
    Concepts,     \* the ids of memories that a pipeline made (content_type 'concept')
    MaxDay,       \* bound on the days that pass
    MaxWeight,    \* the weight of a new memory
    Retentions,   \* values of retention_days an administrator sets
    DefaultDays,  \* retention_days without a policy row
    BatchSize,    \* _BATCH_SIZE
    Modes,        \* pairs of mode and merge_mode of a compressed read
    SlowModes,    \* those that wait for the LLM (concept)
    Texts,        \* contents
    Limits,       \* entries that a client asks for on a page of the timeline
    Passes,       \* consolidation passes: "worker", "trigger"
    Readers,      \* concurrent compressed reads
    MaxFails,     \* bound on the failures of passes
    MaxRequests,  \* bound on the administrator's requests
    Mixes,        \* what a behaviour may consist of
    None

ASSUME UpkeepAssumption ==
    /\ {MaxId, MaxDay, MaxWeight, DefaultDays, MaxFails, MaxRequests} \subseteq Nat
    /\ BatchSize \in Nat \ {0} /\ Retentions \cup Limits \subseteq Nat \ {0}
    /\ Chats \subseteq 1..MaxId /\ Concepts \subseteq 1..MaxId \ Chats /\ SlowModes \subseteq Modes
    /\ Passes \subseteq {"worker", "trigger"} /\ Texts # {} /\ None \notin (0..MaxDay) \X (1..MaxId)
    /\ \A m \in Mixes : /\ m.ids \subseteq 1..MaxId /\ m.days \in 0..MaxDay /\ m.times \subseteq 0..MaxDay
                        /\ m.srcs \subseteq Chats \cup {None} /\ m.texts \subseteq Texts

VARIABLES
    mix,      \* the operations of this behaviour
    entry,    \* the memories and chats of the namespace
    today,
    policy,   \* the NamespacePolicy row
    pass,     \* each pass
    cache,    \* the namespace's CacheEntry
    reader,   \* each compressed read
    walk,     \* a client's walk along the timeline
    seen,     \* history: decays of the memory in committed passes
    fails, requests

vars == <<mix, entry, today, policy, pass, cache, reader, walk, seen, fails, requests>>

Ids  == 1..MaxId
Days == 0..MaxDay

\* at is the source time (captured_at, occurred_at) and src the chat a memory
\* came from; edited tells whether its content was ever replaced.
Entry == [life : {"absent", "live", "gone"}, at : Days, born : Days, src : Chats \cup {None},
          status : {"pending", "archived"}, weight : 0..MaxWeight, text : Texts,
          edited : BOOLEAN]
NoEntry == [life |-> "absent", at |-> 0, born |-> 0, src |-> None, status |-> "pending",
            weight |-> MaxWeight, text |-> CHOOSE t \in Texts : TRUE, edited |-> FALSE]
Policy  == [days : Retentions \cup {DefaultDays}, auto : BOOLEAN]
NoPass  == [pc |-> "idle", offset |-> 0, page |-> {}, read |-> [e \in {} |-> 0],
            write |-> [e \in {} |-> 0], met |-> [e \in Ids |-> 0], cutoff |-> 0]
NoRead  == [pc |-> "idle", mode |-> None, ids |-> {}, texts |-> {}, answer |-> None]
NoWalk  == [pc |-> "idle", limit |-> 0, cursor |-> None, shown |-> [e \in Ids |-> 0],
            steady |-> {}, moved |-> {}]

\* met counts a pass's own decays of a memory; read and write are weights.
Levels == UNION {[S -> 0..MaxWeight] : S \in SUBSET Ids}
Pass == [pc : {"idle", "page", "write", "policy", "archive"}, offset : Nat, page : SUBSET Ids,
         read : Levels, write : Levels, met : [Ids -> 0..MaxWeight], cutoff : Int]
Answer == [mode : Modes, ids : SUBSET Ids, texts : SUBSET (Ids \X Texts)]
Reader == [pc : {"idle", "llm", "done"}, mode : Modes \cup {None}, ids : SUBSET Ids,
           texts : SUBSET (Ids \X Texts), answer : Answer \cup {None}]
Walk   == [pc : {"idle", "walking", "done"}, limit : Limits \cup {0},
           cursor : (Days \X Ids) \cup {None}, shown : [Ids -> Nat], steady : SUBSET Ids,
           moved : SUBSET Ids]

TypeOK ==
    /\ mix \in Mixes /\ entry \in [Ids -> Entry] /\ today \in Days
    /\ policy \in Policy \cup {None}
    /\ pass \in [Passes -> Pass]
    /\ cache = None \/ cache \in [key : SUBSET Ids, payload : Answer]
    /\ reader \in [Readers -> Reader] /\ walk \in Walk
    /\ seen \in [Ids -> 0..MaxWeight] /\ fails \in 0..MaxFails /\ requests \in 0..MaxRequests

Init ==
    /\ mix \in Mixes
    /\ entry = [e \in Ids |-> NoEntry]
    /\ today = 0 /\ policy = None
    /\ pass = [p \in Passes |-> NoPass]
    /\ cache = None /\ reader = [r \in Readers |-> NoRead] /\ walk = NoWalk
    /\ seen = [e \in Ids |-> 0] /\ fails = 0 /\ requests = 0

Live     == {e \in Ids : entry[e].life = "live"}
Memories == Live \ Chats
Pending  == {m \in Memories : entry[m].status = "pending"}

Locked(e) == \E p \in Passes : e \in DOMAIN pass[p].write

upkeep == <<pass, policy, seen, fails, requests>>
reads  == <<cache, reader>>

-----------------------------------------------------------------------------
(* Users and the clock                                                     *)

\* The client keeps walking while entries come, go and change their time.
Disturb(S) == walk' = [walk EXCEPT !.steady = @ \ S, !.moved = @ \cup S]

\* create_memory, or the first push of a chat.
Create(e, at, src, text) ==
    /\ "create" \in mix.ops /\ e \in mix.ids
    /\ entry[e].life = "absent"
    /\ e \in Chats => src = None
    /\ src # None => entry[src].life # "absent"
    /\ entry' = [entry EXCEPT ![e] = [@ EXCEPT !.life = "live", !.at = at, !.born = today,
                                               !.src = src, !.text = text]]
    /\ UNCHANGED <<mix, today, upkeep, reads, walk>>

\* update_memory.
Update(m, text) ==
    /\ "update" \in mix.ops
    /\ m \in Memories /\ ~Locked(m)
    /\ entry' = [entry EXCEPT ![m].text = text, ![m].edited = @ \/ text # entry[m].text]
    /\ UNCHANGED <<mix, today, upkeep, reads, walk>>

\* delete_memory and soft_delete_chat; for the namespace, move_chat too.
Delete(e) ==
    /\ "delete" \in mix.ops
    /\ e \in Live /\ ~Locked(e)
    /\ entry' = [entry EXCEPT ![e].life = "gone"]
    /\ Disturb({e})
    /\ UNCHANGED <<mix, today, upkeep, reads>>

\* upsert_chat replaces captured_at, also that of the memories from the chat.
Retime(c, at) ==
    /\ "retime" \in mix.ops
    /\ c \in Live \cap Chats
    /\ entry' = [entry EXCEPT ![c].at = at]
    /\ Disturb({c} \cup {m \in Ids : entry[m].src = c})
    /\ UNCHANGED <<mix, today, upkeep, reads>>

NextDay ==
    /\ today < mix.days
    /\ today' = today + 1
    /\ UNCHANGED <<mix, entry, upkeep, reads, walk>>

-----------------------------------------------------------------------------
(* Consolidation                                                           *)

\* A patch leaves out (None) what it does not change.
Patched(days, auto) ==
    LET old == IF policy = None THEN [days |-> DefaultDays, auto |-> TRUE] ELSE policy
    IN  [days |-> IF days = None THEN old.days ELSE days,
         auto |-> IF auto = None THEN old.auto ELSE auto]

\* upsert_policy.
SetPolicy(days, auto) ==
    /\ "policy" \in mix.ops /\ requests < MaxRequests
    /\ policy' = Patched(days, auto) /\ requests' = requests + 1
    /\ UNCHANGED <<mix, entry, today, pass, seen, fails, reads, walk>>

\* _get_policy.
RetentionDays == IF policy = None THEN DefaultDays ELSE policy.days

Move(p, next) == pass' = [pass EXCEPT ![p] = next]

\* _run_pass finds the namespace by its live memories, concepts left out, and
\* names it to run_daily_consolidation, also when it is exempt;
\* trigger_consolidation asks auto_consolidate, the worker does not.
PassStart(p) ==
    /\ p \in mix.passes /\ pass[p].pc = "idle"
    /\ IF p = "worker" THEN Memories \ Concepts # {} ELSE policy # None => policy.auto
    /\ Move(p, [NoPass EXCEPT !.pc = "page"])
    /\ IF p = "trigger" THEN requests < MaxRequests /\ requests' = requests + 1
                        ELSE UNCHANGED requests
    /\ UNCHANGED <<mix, entry, today, policy, seen, fails, reads, walk>>

\* A page of the pending memories.  The query has no ORDER BY, so which of
\* them come after the offset is the database's choice.
IsPage(S, offset) ==
    /\ S \subseteq Pending
    /\ LET left == Cardinality(Pending) - offset
       IN  Cardinality(S) = IF left <= 0 THEN 0 ELSE IF left < BatchSize THEN left ELSE BatchSize

\* A pass sees its own updates.
Weight(p, m) == IF m \in DOMAIN pass[p].write THEN pass[p].write[m] ELSE entry[m].weight

NextOffset(p) == pass[p].offset + BatchSize

\* Decays are counted up to MaxWeight.
Counted(n) == IF n < MaxWeight THEN n ELSE MaxWeight

\* An empty page ends the loop and commits the weights.
PassPage(p, S) ==
    /\ pass[p].pc = "page" /\ IsPage(S, pass[p].offset)
    /\ IF S = {}
       THEN /\ entry' = [e \in Ids |-> IF e \in DOMAIN pass[p].write
                                       THEN [entry[e] EXCEPT !.weight = pass[p].write[e]]
                                       ELSE entry[e]]
            /\ seen' = [e \in Ids |-> Counted(seen[e] + pass[p].met[e])]
            /\ Move(p, [NoPass EXCEPT !.pc = "policy"])
       ELSE /\ Move(p, [pass[p] EXCEPT !.pc = "write", !.page = S, !.offset = NextOffset(p),
                                       !.read = [m \in S |-> Weight(p, m)]])
            /\ UNCHANGED <<entry, seen>>
    /\ UNCHANGED <<mix, today, policy, fails, requests, reads, walk>>

Decayed(w) == IF w > 0 THEN w - 1 ELSE 0

Waits(p, m) == \E q \in Passes \ {p} : m \in DOMAIN pass[q].write

\* The new weight comes from the one read with the page, whatever has been
\* committed since.
PassWrite(p, m) ==
    /\ pass[p].pc = "write" /\ m \in pass[p].page /\ ~Waits(p, m)
    /\ LET rest == pass[p].page \ {m}
           w    == [e \in DOMAIN pass[p].write \cup {m} |->
                       IF e = m THEN Decayed(pass[p].read[m]) ELSE pass[p].write[e]]
       IN  Move(p, [pass[p] EXCEPT !.page = rest, !.write = w, !.met[m] = Counted(@ + 1),
                                   !.pc = IF rest = {} THEN "page" ELSE "write"])
    /\ UNCHANGED <<mix, entry, today, policy, seen, fails, requests, reads, walk>>

\* auto_archive_expired reads the policy ...
PassPolicy(p) ==
    /\ pass[p].pc = "policy"
    /\ Move(p, [pass[p] EXCEPT !.pc = "archive", !.cutoff = today - RetentionDays])
    /\ UNCHANGED <<mix, entry, today, policy, seen, fails, requests, reads, walk>>

MutExpired(cutoff) == {m \in Pending : entry[m].born < cutoff - 1}

Expired(cutoff) == {m \in Pending : entry[m].born < cutoff}

\* ... and updates and commits, waiting for rows that another pass holds.
PassArchive(p) ==
    /\ pass[p].pc = "archive"
    /\ \A m \in Expired(pass[p].cutoff) : ~Waits(p, m)
    /\ entry' = [e \in Ids |-> IF e \in Expired(pass[p].cutoff)
                               THEN [entry[e] EXCEPT !.status = "archived"] ELSE entry[e]]
    /\ Move(p, NoPass)
    /\ UNCHANGED <<mix, today, policy, seen, fails, requests, reads, walk>>

\* Each phase swallows its error; the transaction is aborted, so the archiving
\* phase fails with the decay, and what was not committed is lost.
PassFail(p) ==
    /\ pass[p].pc # "idle" /\ fails < MaxFails
    /\ fails' = fails + 1
    /\ Move(p, NoPass)
    /\ UNCHANGED <<mix, entry, today, policy, seen, requests, reads, walk>>

\* Two passes wait for each other's rows: the database aborts one of them.
PassDeadlock(p) ==
    /\ \A q \in Passes : /\ pass[q].pc = "write"
                         /\ \A m \in pass[q].page : Waits(q, m)
    /\ Cardinality(Passes) > 1
    /\ Move(p, NoPass)
    /\ UNCHANGED <<mix, entry, today, policy, seen, fails, requests, reads, walk>>

PassStep(p) ==
    \/ \E S \in SUBSET Ids : PassPage(p, S)
    \/ \E m \in Ids : PassWrite(p, m)
    \/ PassPolicy(p) \/ PassArchive(p) \/ PassDeadlock(p)

-----------------------------------------------------------------------------
(* The compressed read                                                     *)

Contents == {<<m, entry[m].text>> : m \in Memories}

Payload(mode, ids, texts) == [mode |-> mode, ids |-> ids, texts |-> texts]

\* NamespaceCompressionCache.get.
Hit(mode) == cache # None /\ cache.key = Memories /\ cache.payload.mode = mode

\* get_namespace_compressed up to its first wait: the memories, the cache,
\* and the encodings that need no LLM.
CompressedRead(r, mode) ==
    /\ "compressed" \in mix.ops /\ reader[r].pc \in {"idle", "done"}
    /\ LET now   == Payload(mode, Memories, Contents)
           start == [NoRead EXCEPT !.mode = mode, !.ids = Memories, !.texts = Contents]
       IN  IF Hit(mode)
           THEN /\ reader' = [reader EXCEPT ![r] = [start EXCEPT !.pc = "done",
                                                                 !.answer = cache.payload]]
                /\ UNCHANGED cache
           ELSE IF mode \in SlowModes
           THEN /\ reader' = [reader EXCEPT ![r] = [start EXCEPT !.pc = "llm"]]
                /\ UNCHANGED cache
           ELSE /\ reader' = [reader EXCEPT ![r] = [start EXCEPT !.pc = "done", !.answer = now]]
                /\ cache' = [key |-> Memories, payload |-> now]
    /\ UNCHANGED <<mix, entry, today, upkeep, walk>>

MutKey(r) == Memories

\* The key under which a synthesis is stored: the memories it was made from.
Key(r) == reader[r].ids

\* synthesize_namespace_local answers (its own failures are fallbacks).
CompressedPut(r) ==
    /\ reader[r].pc = "llm"
    /\ LET p == Payload(reader[r].mode, reader[r].ids, reader[r].texts)
       IN  /\ cache' = [key |-> Key(r), payload |-> p]
           /\ reader' = [reader EXCEPT ![r].pc = "done", ![r].answer = p]
    /\ UNCHANGED <<mix, entry, today, upkeep, walk>>

\* The process restarts: the cache is gone, and so are its requests.
Restart ==
    /\ "compressed" \in mix.ops /\ cache # None
    /\ cache' = None /\ reader' = [r \in Readers |-> NoRead]
    /\ UNCHANGED <<mix, entry, today, upkeep, walk>>

-----------------------------------------------------------------------------
(* The timeline                                                            *)

\* coalesce(occurred_at, the source chat's time, created_at).
Time(e) == IF entry[e].src # None THEN entry[entry[e].src].at ELSE entry[e].at

MutAfter(e, c) == c = None \/ Time(e) < c[1]

\* Behind the cursor on the newest-first axis.
After(e, c) == c = None \/ Time(e) < c[1] \/ (Time(e) = c[1] /\ e < c[2])

Newer(e, f) == Time(e) > Time(f) \/ (Time(e) = Time(f) /\ e > f)

\* The rows of a page, and whether another row follows.
Rest       == {e \in Live : After(e, walk.cursor)}
Rank(e, S) == Cardinality({f \in S : Newer(f, e)})
PageOf(S)  == {e \in S : Rank(e, S) < walk.limit}

WalkStart(limit) ==
    /\ "walk" \in mix.ops /\ walk.pc = "idle"
    /\ walk' = [NoWalk EXCEPT !.pc = "walking", !.limit = limit, !.steady = Live]
    /\ UNCHANGED <<mix, entry, today, upkeep, reads>>

\* get_namespace_timeline.  The rows are never removed, so every row of the
\* page is hydrated.
WalkPage ==
    /\ walk.pc = "walking"
    /\ LET page == PageOf(Rest)
           last == CHOOSE e \in page : \A f \in page : f = e \/ Newer(f, e)
       IN  walk' = [walk EXCEPT
                       !.shown = [e \in Ids |-> IF e \in page THEN @[e] + 1 ELSE @[e]],
                       !.cursor = IF page = {} THEN @ ELSE <<Time(last), last>>,
                       !.pc = IF Rest = page THEN "done" ELSE "walking"]
    /\ UNCHANGED <<mix, entry, today, upkeep, reads>>

-----------------------------------------------------------------------------

Users ==
    \/ \E e \in Ids, at \in mix.times, src \in mix.srcs, text \in mix.texts : Create(e, at, src, text)
    \/ \E m \in Ids, text \in mix.texts : Update(m, text)
    \/ \E e \in Ids : Delete(e)
    \/ \E c \in Chats, at \in mix.times : Retime(c, at)
    \/ NextDay

Consolidation ==
    \/ \E days \in Retentions \cup {None}, auto \in {TRUE, FALSE, None} : SetPolicy(days, auto)
    \/ \E p \in Passes : PassStart(p) \/ PassStep(p) \/ PassFail(p)

Reads ==
    \/ \E r \in Readers : CompressedPut(r) \/ \E mode \in Modes : CompressedRead(r, mode)
    \/ Restart \/ WalkPage \/ \E limit \in Limits : WalkStart(limit)

Next == Users \/ Consolidation \/ Reads

Spec == Init /\ [][Next]_vars

(* _main starts a pass every interval, whatever became of the last one,    *)
(* and a pass of either kind goes on when its rows are free.               *)
Fairness == WF_vars(PassStart("worker")) /\ \A p \in Passes : WF_vars(PassStep(p))

FairSpec == Spec /\ Fairness

-----------------------------------------------------------------------------
(* Properties                                                              *)

(* A memory's weight is never lower than the decays that committed passes  *)
(* applied to it account for, and once one did it is lower than at first:  *)
(* passes that overlap, or whose pages show a memory twice, lose some of   *)
(* the decays but never all of them, and take none that is not committed.  *)
DecayPerPass ==
    \A m \in Ids : /\ MaxWeight - entry[m].weight <= seen[m]
                   /\ seen[m] > 0 => entry[m].weight < MaxWeight

(* What a pass knows when it goes on: what it has read or written is       *)
(* accounted for by the committed decays and its own.                      *)
PassKnown(q) ==
    /\ q.page \subseteq DOMAIN q.read
    /\ \A m \in DOMAIN q.read : MaxWeight - q.read[m] <= seen[m] + q.met[m]
    /\ \A m \in DOMAIN q.write : /\ MaxWeight - q.write[m] <= seen[m] + q.met[m]
                                 /\ MaxWeight > 0 => q.write[m] < MaxWeight
    /\ \A m \in Ids : q.met[m] > 0 => m \in DOMAIN q.write

(* A cached payload is of the memories of its key, and a read that waits   *)
(* for the LLM has no answer yet.                                          *)
ReadsKnown ==
    /\ cache # None => cache.key = cache.payload.ids
    /\ \A r \in Readers : /\ reader[r].pc # "idle" => reader[r].mode \in Modes
                          /\ reader[r].pc = "llm" => reader[r].answer = None

(* What was read is of its memories, and still theirs unless edited.       *)
Current(x) ==
    /\ x.ids = {p[1] : p \in x.texts}
    /\ \A p \in x.texts : /\ entry[p[1]].life # "absent"
                          /\ entry[p[1]].edited \/ entry[p[1]].text = p[2]

TextsKnown == (cache # None => Current(cache.payload)) /\ \A r \in Readers : Current(reader[r])

(* The entries that a walk has shown are before its cursor, those it still *)
(* has to show behind it; no entry comes from a chat that was never there. *)
WalkKnown ==
    /\ \A e \in Ids : /\ entry[e].src # None => entry[entry[e].src].life # "absent"
                      /\ entry[e].life = "absent" => entry[e].src = None /\ walk.shown[e] = 0
    /\ walk.steady \subseteq Live \ walk.moved
    /\ walk.pc = "walking" =>
          /\ walk.limit \in Limits
          /\ \A e \in Ids \ walk.moved : walk.shown[e] > 0 => ~After(e, walk.cursor)
          /\ \A e \in walk.steady : walk.shown[e] = 0 => After(e, walk.cursor)

(* Every variable has its type, the decays are those of the passes, and    *)
(* passes, reads and walks know what they rely on.                         *)
UpkeepInv ==
    /\ TypeOK /\ DecayPerPass /\ ReadsKnown /\ TextsKnown /\ WalkKnown
    /\ \A p \in Passes : PassKnown(pass[p])

(* A compressed answer, cached or not, is of the requested mode, of        *)
(* exactly the memories that were live when it was asked for, and made of  *)
(* their contents then, although slow syntheses store their results after  *)
(* the namespace has changed.  Edited memories are excepted: the key is of *)
(* the ids alone, so that an answer may have the contents from before an   *)
(* update (where cache.py promises that "any change to the namespace       *)
(* contents invalidates the entry automatically").                         *)
CompressedExact ==
    \A r \in Readers : reader[r].answer # None =>
        /\ reader[r].answer.mode = reader[r].mode
        /\ reader[r].answer.ids = reader[r].ids
        /\ \A p \in reader[r].answer.texts : entry[p[1]].edited \/ p \in reader[r].texts

(* A client that has walked to the end of the timeline has seen every      *)
(* entry that was there all the time exactly once, ties of source time     *)
(* included, and no entry twice unless its time changed under the walk.    *)
WalkExact ==
    /\ walk.pc = "done" => \A e \in walk.steady : walk.shown[e] = 1
    /\ \A e \in Ids : walk.shown[e] > 1 => e \in walk.moved

(* The rolling retention window: a memory older than retention_days is     *)
(* archived, deleted, or back inside the window of a changed policy, in    *)
(* spite of failed passes and of passes that wait for each other; or else  *)
(* only concepts are left in the namespace, which no pass then visits.     *)
Overdue(m) == m \in Pending /\ entry[m].born < today - RetentionDays
RetentionEnforced ==
    \A m \in Ids \ Chats : Overdue(m) ~> ~Overdue(m) \/ Memories \subseteq Concepts

=============================================================================
