---------------------------- MODULE ChatLifecycle ----------------------------
(***************************************************************************)
(* One captured AI conversation: the extension's upserts and appends, the  *)
(* user's moves and deletes (backend/services/ai_chat_service.py), and the *)
(* two background tasks every write schedules: the auto-router             *)
(* (chat_classifier.py) and the segment tagger (namespace_tag_service.py). *)
(*                                                                         *)
(* A handler first reads the chat and then, after other awaits, writes and *)
(* commits; the first write takes the chat row's lock, so what follows it  *)
(* is one step.  The ORM sends only the columns whose assigned value       *)
(* differs from the loaded one: Column below.  Every turn carries a        *)
(* source_turn_id and one artifact.  Not modelled: requested_namespace,    *)
(* titles, chat_metadata, artifact dates and the other columns nothing     *)
(* here depends on.                                                        *)
(***************************************************************************)
EXTENDS Integers, FiniteSets

CONSTANTS
    Reqs,       \* request handlers that can be in flight at once
    Workers,    \* background tasks that can be in flight at once
    Spaces,     \* the user's namespaces
    Inboxes,    \* those named kora:inbox:<platform>
    Pending,    \* the inboxes and the bare kora:<platform> buckets
    Default,    \* the inbox of the conversation's platform
    Related,    \* pairs of namespaces above AUTO_REDIRECT_THRESHOLD
    Turns,      \* source_turn_ids
    Texts,      \* contents of turns
    Tags,       \* slugs the tagger can propose
    Ops,        \* operations this instance issues
    Kinds,      \* background tasks this instance runs
    MinTurns,   \* AUTO_MIN_TURNS
    MaxQueued,  \* bound: scheduled tasks of one kind saturate here
    MaxMembers, \* bound: a profile with this many members is not folded into
    Faults,     \* whether requests and tasks fail and the process crashes
    None

Procs     == Reqs \cup Workers
OpNames   == {"upsert", "append", "move", "delete"}
KindNames == {"classify", "tag"}
Segments  == Spaces \X Tags

ASSUME ChatAssumption ==
    /\ Inboxes \subseteq Pending /\ Pending \subseteq Spaces
    /\ Default \in Inboxes
    /\ Related \subseteq Spaces \X Spaces
    /\ Ops \subseteq OpNames /\ Kinds \subseteq KindNames
    /\ MinTurns \in Nat /\ MaxQueued \in Nat /\ MaxMembers \in Nat
    /\ Faults \in BOOLEAN
    /\ Reqs \cap Workers = {}
    /\ None \notin Spaces \cup Turns \cup Texts \cup Tags \cup Segments

VARIABLES
    chat,     \* the ai_chats row
    turns,    \* the stored text of each turn, None before it is stored
    artNs,    \* the namespace column of each turn's artifact
    members,  \* member_count of each tag profile, 0 when it has no row
    queued,   \* scheduled background tasks that have not started
    proc      \* state of each request and background task

vars == <<chat, turns, artNs, members, queued, proc>>

Bodies == [Turns -> Texts \cup {None}]
Empty  == [t \in Turns |-> None]

(* A chat row.  hash is the payload the stored content_hash was computed   *)
(* from.                                                                   *)
Chats ==
    [exists : BOOLEAN, live : BOOLEAN, ns : Spaces \cup {None},
     tag : Segments \cup {None}, hash : Bodies]

NoChat ==
    [exists |-> FALSE, live |-> FALSE, ns |-> None, tag |-> None,
     hash |-> Empty]

Phases  == {"idle", "turns", "write", "tagging", "stamp"}

(* What a request says of where the conversation belongs: "named" names a  *)
(* namespace (as such, by a mapping or by a project name), "project" only  *)
(* carries a source_project_id no mapping knows, "bare" says nothing.      *)
Intents == {"bare", "project", "named"}

States ==
    [pc : Phases, op : OpNames \cup KindNames \cup {"none"}, snap : Chats,
     push : Bodies, seen : Bodies, ns : Spaces \cup {None},
     intent : Intents, tag : Tags \cup {None}, n : Nat]

Idle ==
    [pc |-> "idle", op |-> "none", snap |-> NoChat, push |-> Empty,
     seen |-> Empty, ns |-> None, intent |-> "bare", tag |-> None,
     n |-> 0]

TypeOK ==
    /\ chat \in Chats
    /\ turns \in Bodies
    /\ artNs \in [Turns -> Spaces \cup {None}]
    /\ members \in [Segments -> Nat]
    /\ queued \in [KindNames -> Nat]
    /\ proc \in [Procs -> States]

Init ==
    /\ chat = NoChat
    /\ turns = Empty
    /\ artNs = [t \in Turns |-> None]
    /\ members = [s \in Segments |-> 0]
    /\ queued = [k \in KindNames |-> 0]
    /\ proc = [p \in Procs |-> Idle]

-----------------------------------------------------------------------------

\* What a column holds after the unit of work: only a change is sent.
Column(loaded, assigned, stored) == IF assigned = loaded THEN stored ELSE assigned

\* resolve_namespace: the name itself or a close enough existing one.
Resolve(ns) == {ns} \cup {x \in Spaces : <<ns, x>> \in Related}

\* What a handler or task keeps of the row it read: only the upsert goes on
\* to use the hash, only the move the tag.
Read(columns) ==
    [chat EXCEPT !.hash = IF "hash" \in columns THEN chat.hash ELSE Empty,
                 !.tag = IF "tag" \in columns THEN chat.tag ELSE None]

Schedule(kinds) ==
    queued' = [k \in KindNames |->
                  IF k \in kinds \cap Kinds /\ queued[k] < MaxQueued
                  THEN queued[k] + 1 ELSE queued[k]]

Begin(p, r) == proc' = [proc EXCEPT ![p] = r]
End(p) == Begin(p, Idle)

At(p, op, pc) == proc[p].op = op /\ proc[p].pc = pc

\* _persist_turns under the chat row's lock: update in place or insert.
Merge(push) == [t \in Turns |-> IF push[t] = None THEN turns[t] ELSE push[t]]

MutAttach(push, ns) == artNs

\* _attach_artifact copies the namespace of the chat object in memory.
Attach(push, ns) == [t \in Turns |-> IF push[t] = None THEN artNs[t] ELSE ns]

\* _sync_chat_artifact_namespace, over the turns stored.
Sync(stored, ns) == [t \in Turns |-> IF stored[t] = None THEN None ELSE ns]

-----------------------------------------------------------------------------
(* upsert_chat                                                             *)

\* The namespace is resolved, then the live row is read.  A name goes
\* through the matcher and can become any namespace; without one the inbox
\* of the platform does, a source_project_id or not.
UpsertStart(p) ==
    /\ "upsert" \in Ops
    /\ proc[p].pc = "idle"
    /\ \E push \in Bodies, intent \in Intents :
        \E ns \in IF intent = "named" THEN Spaces ELSE Resolve(Default) :
            Begin(p, [Idle EXCEPT !.pc = "write", !.op = "upsert",
                                  !.snap = IF chat.live THEN Read({"hash"}) ELSE NoChat,
                                  !.push = push, !.ns = ns, !.intent = intent])
    /\ UNCHANGED <<chat, turns, artNs, members, queued>>

MutInserts(p) == At(p, "upsert", "write") /\ ~proc[p].snap.live

Inserts(p) == At(p, "upsert", "write") /\ ~proc[p].snap.live /\ ~chat.exists

\* No live row was found and the unique constraint, which covers deleted
\* rows too, has no objection.
UpsertInsert(p) ==
    /\ Inserts(p)
    /\ chat' = [NoChat EXCEPT !.exists = TRUE, !.live = TRUE,
                              !.ns = proc[p].ns, !.hash = proc[p].push]
    /\ turns' = Merge(proc[p].push)
    /\ artNs' = Attach(proc[p].push, proc[p].ns)
    /\ Schedule(KindNames)
    /\ End(p)
    /\ UNCHANGED members

\* uq_ai_chats_user_platform_convid refuses the insert.
UpsertConflict(p) ==
    /\ At(p, "upsert", "write") /\ ~proc[p].snap.live /\ chat.exists
    /\ End(p)
    /\ UNCHANGED <<chat, turns, artNs, members, queued>>

UpsertNoop(p) ==
    /\ At(p, "upsert", "write") /\ proc[p].snap.live
    /\ proc[p].push = proc[p].snap.hash
    /\ End(p)
    /\ UNCHANGED <<chat, turns, artNs, members, queued>>

MutKept(p) == proc[p].ns

\* caller_was_explicit: a bare source_project_id counts too.
Explicit(p) == proc[p].intent # "bare"

\* The inbox rule: a payload that is not explicit leaves a chat where it is
\* once it has been read outside the inboxes.
Kept(p) ==
    IF ~Explicit(p) /\ proc[p].snap.ns \notin Inboxes
    THEN proc[p].snap.ns ELSE proc[p].ns

MutUpsertedChat(p) ==
    [chat EXCEPT !.ns = Column(proc[p].snap.ns, Kept(p), chat.ns)]

UpsertedChat(p) ==
    [chat EXCEPT !.ns = Column(proc[p].snap.ns, Kept(p), chat.ns),
                 !.hash = proc[p].push]

UpsertUpdate(p) ==
    /\ At(p, "upsert", "write") /\ proc[p].snap.live
    /\ proc[p].push # proc[p].snap.hash
    /\ chat' = UpsertedChat(p)
    /\ turns' = Merge(proc[p].push)
    /\ artNs' = Sync(Merge(proc[p].push), Kept(p))
    /\ Schedule(KindNames)
    /\ End(p)
    /\ UNCHANGED members

-----------------------------------------------------------------------------
(* append_turns                                                            *)

AppendStart(p) ==
    /\ "append" \in Ops
    /\ proc[p].pc = "idle" /\ chat.live
    /\ \E push \in Bodies :
        Begin(p, [Idle EXCEPT !.pc = "turns", !.op = "append",
                              !.snap = Read({}), !.push = push])
    /\ UNCHANGED <<chat, turns, artNs, members, queued>>

\* The turns are looked up before anything is locked.
AppendLookup(p) ==
    /\ At(p, "append", "turns")
    /\ Begin(p, [proc[p] EXCEPT !.pc = "write", !.seen = turns])
    /\ UNCHANGED <<chat, turns, artNs, members, queued>>

\* Another request stored a turn this one is about to insert.
Taken(p) == \E t \in Turns : /\ proc[p].push[t] # None
                             /\ proc[p].seen[t] = None
                             /\ turns[t] # None

\* The content_hash is left as it is.
AppendWrite(p) ==
    /\ At(p, "append", "write") /\ ~Taken(p)
    /\ turns' = [t \in Turns |->
                    IF proc[p].push[t] = None THEN turns[t]
                    ELSE Column(proc[p].seen[t], proc[p].push[t], turns[t])]
    /\ artNs' = Attach(proc[p].push, proc[p].snap.ns)
    /\ Schedule(KindNames)
    /\ End(p)
    /\ UNCHANGED <<chat, members>>

\* uq_ai_chat_turns_chat_sourceid refuses the insert.
AppendConflict(p) ==
    /\ At(p, "append", "write") /\ Taken(p)
    /\ End(p)
    /\ UNCHANGED <<chat, turns, artNs, members, queued>>

-----------------------------------------------------------------------------
(* move_chat and soft_delete_chat                                          *)

MoveStart(p) ==
    /\ "move" \in Ops
    /\ proc[p].pc = "idle" /\ chat.live
    /\ \E ns \in Spaces :
        Begin(p, [Idle EXCEPT !.pc = "write", !.op = "move",
                              !.snap = Read({"tag"}), !.ns = ns, !.intent = "named"])
    /\ UNCHANGED <<chat, turns, artNs, members, queued>>

MoveWrite(p) ==
    /\ At(p, "move", "write")
    /\ chat' = [chat EXCEPT !.ns = Column(proc[p].snap.ns, proc[p].ns, chat.ns),
                            !.tag = Column(proc[p].snap.tag, None, chat.tag)]
    /\ artNs' = Sync(turns, proc[p].ns)
    /\ Schedule({"tag"})
    /\ End(p)
    /\ UNCHANGED <<turns, members>>

DeleteStart(p) ==
    /\ "delete" \in Ops
    /\ proc[p].pc = "idle" /\ chat.live
    /\ Begin(p, [Idle EXCEPT !.pc = "write", !.op = "delete"])
    /\ UNCHANGED <<chat, turns, artNs, members, queued>>

DeleteWrite(p) ==
    /\ At(p, "delete", "write")
    /\ chat' = [chat EXCEPT !.live = FALSE]
    /\ End(p)
    /\ UNCHANGED <<turns, artNs, members, queued>>

-----------------------------------------------------------------------------
(* _run_auto_classify                                                      *)

Due(k) == queued[k] > 0

Dequeue(k) == queued' = [queued EXCEPT ![k] = @ - 1]

\* The chat is live, pending and long enough.
Classifiable ==
    /\ chat.live /\ chat.ns \in Pending
    /\ Cardinality({t \in Turns : turns[t] # None}) >= MinTurns

ClassifyStart(w) ==
    /\ Due("classify") /\ proc[w].pc = "idle"
    /\ Dequeue("classify")
    /\ IF Classifiable
       THEN Begin(w, [Idle EXCEPT !.pc = "write", !.op = "classify", !.snap = Read({})])
       ELSE End(w)
    /\ UNCHANGED <<chat, turns, artNs, members>>

\* A suggestion, never an inbox or the current namespace, or the title's
\* project: namespace; either goes through the matcher.
Targets(r) == UNION {Resolve(ns) : ns \in Spaces \ (Inboxes \cup {r.ns})}

ClassifyWrite(w) ==
    /\ At(w, "classify", "write")
    /\ \E ns \in Targets(proc[w].snap) :
        chat' = [chat EXCEPT !.ns = Column(proc[w].snap.ns, ns, chat.ns)]
    /\ End(w)
    /\ UNCHANGED <<turns, artNs, members, queued>>

\* No clear winner and a generic title: left for triage.
ClassifyPass(w) ==
    /\ At(w, "classify", "write")
    /\ End(w)
    /\ UNCHANGED <<chat, turns, artNs, members, queued>>

-----------------------------------------------------------------------------
(* _run_tag_resolution                                                     *)

Taggable == chat.live /\ chat.tag = None /\ chat.ns \notin Pending

TagStart(w) ==
    /\ Due("tag") /\ proc[w].pc = "idle"
    /\ Dequeue("tag")
    /\ IF Taggable
       THEN Begin(w, [Idle EXCEPT !.pc = "tagging", !.op = "tag", !.snap = Read({})])
       ELSE End(w)
    /\ UNCHANGED <<chat, turns, artNs, members>>

\* load_profiles, pick_profile, propose_segment and the lookup at the head
\* of create_profile: a profile found now is folded into, else it is created.
TagDecide(w) ==
    /\ At(w, "tag", "tagging")
    /\ \E k \in Tags :
        LET n == members[<<proc[w].snap.ns, k>>]
        IN  /\ n < MaxMembers
            /\ Begin(w, [proc[w] EXCEPT !.pc = "stamp", !.tag = k, !.n = n])
    /\ UNCHANGED <<chat, turns, artNs, members, queued>>

TagPass(w) ==
    /\ At(w, "tag", "tagging")
    /\ End(w)
    /\ UNCHANGED <<chat, turns, artNs, members, queued>>

Segment(w) == <<proc[w].snap.ns, proc[w].tag>>

Creates(w) == proc[w].n = 0

\* member_count is computed from the profile as it was read.
TagWrite(w) ==
    /\ At(w, "tag", "stamp")
    /\ ~(Creates(w) /\ members[Segment(w)] > 0)
    /\ members' = [members EXCEPT ![Segment(w)] = proc[w].n + 1]
    /\ chat' = [chat EXCEPT !.tag = Segment(w)]
    /\ End(w)
    /\ UNCHANGED <<turns, artNs, queued>>

\* Another task created the profile since: the insert is refused, and with
\* it the whole transaction.
TagConflict(w) ==
    /\ At(w, "tag", "stamp")
    /\ Creates(w) /\ members[Segment(w)] > 0
    /\ End(w)
    /\ UNCHANGED <<chat, turns, artNs, members, queued>>

-----------------------------------------------------------------------------

\* A request or task raises before its commit.
Fails(p) ==
    /\ Faults
    /\ proc[p].pc # "idle"
    /\ End(p)
    /\ UNCHANGED <<chat, turns, artNs, members, queued>>

\* Scheduled tasks live in memory only.
Crash ==
    /\ Faults
    /\ proc' = [p \in Procs |-> Idle]
    /\ queued' = [k \in KindNames |-> 0]
    /\ UNCHANGED <<chat, turns, artNs, members>>

Request(p) ==
    \/ UpsertStart(p) \/ UpsertInsert(p) \/ UpsertConflict(p)
    \/ UpsertNoop(p) \/ UpsertUpdate(p)
    \/ AppendStart(p) \/ AppendLookup(p) \/ AppendWrite(p) \/ AppendConflict(p)
    \/ MoveStart(p) \/ MoveWrite(p)
    \/ DeleteStart(p) \/ DeleteWrite(p)

Task(w) ==
    \/ ClassifyStart(w) \/ ClassifyWrite(w) \/ ClassifyPass(w)
    \/ TagStart(w) \/ TagDecide(w) \/ TagPass(w) \/ TagWrite(w) \/ TagConflict(w)

Next ==
    \/ \E p \in Reqs : Request(p)
    \/ \E w \in Workers : Task(w)
    \/ \E p \in Procs : Fails(p)
    \/ Crash

Spec == Init /\ [][Next]_vars

-----------------------------------------------------------------------------
(* Properties that hold.                                                   *)

(* What a handler or task relies on between its read and its write.        *)
ReadOK(r) ==
    /\ r.pc # "idle" /\ r.op \notin {"upsert", "delete"} => r.snap.live
    /\ r.snap.live => r.snap.ns \in Spaces
    /\ r.op \in {"upsert", "move"} => r.ns \in Spaces
    /\ r.op = "move" => r.intent = "named"
    /\ r.op = "upsert" /\ r.intent # "named" => r.ns \in Resolve(Default)
    /\ r.pc = "stamp" => r.tag \in Tags

(* A row or a turn that was read is never taken away again.                *)
ReadInv ==
    \A p \in Procs :
        /\ ReadOK(proc[p])
        /\ proc[p].snap.live => chat.exists
        /\ \A t \in Turns : proc[p].seen[t] # None => turns[t] # None

(* A live chat has a row, a row has a namespace, and the text of a turn is *)
(* stored with its artifact.                                               *)
RowInv ==
    /\ chat.live => chat.exists
    /\ chat.exists => chat.ns \in Spaces
    /\ \A t \in Turns : turns[t] = None <=> artNs[t] = None

(* The inductive invariant: whatever was read, even of a chat moved or     *)
(* deleted since, a write leaves a well-formed row and turns.              *)
ChatInv == TypeOK /\ ReadInv /\ RowInv

(* A step that takes a live chat from outside the inboxes into one.        *)
Returns == chat.live /\ chat.ns \notin Inboxes /\ chat'.ns \in Inboxes

Writes(p) == proc[p].pc = "write" /\ proc'[p].pc = "idle"

\* By a request that is explicit for the code, by a push that was to leave
\* another inbox, or by the router's target, the last two as the matcher says.
MayReturn ==
    \/ \E p \in Reqs : Writes(p) /\ Explicit(p) /\ proc[p].ns = chat'.ns
    \/ \E p \in Reqs : /\ Writes(p) /\ proc[p].snap.ns \in Inboxes \ {chat'.ns}
                        /\ chat'.ns \in Resolve(Default)
    \/ \E w \in Workers : /\ Writes(w) /\ proc[w].op = "classify"
                           /\ \E x \in Spaces \ Inboxes : <<x, chat'.ns>> \in Related

(* The chats-v1 inbox rule of upsert_chat, as far as the code keeps it: a  *)
(* live chat outside the inboxes goes back by an explicit request that     *)
(* resolved to that inbox, or because the matcher takes a push or the      *)
(* router there; a bare re-push that read the chat in its inbox, before it *)
(* was moved, does not take it back.                                       *)
InboxInvariant == [][Returns => MayReturn]_vars

(* What the comment over caller_was_explicit promises: subsequent pushes   *)
(* do not snap a chat the user moved back to the inbox, unless they name a *)
(* destination.  A push whose only hint is a source_project_id names none. *)
NoSnapBack ==
    [][Returns => \E p \in Reqs : Writes(p) /\ proc[p].intent = "named"]_vars

(* A conversation that soft_delete_chat removed is not brought back by a   *)
(* request or task that read it while it was live, nor by a re-push.       *)
DeletedChatStaysDeleted == [][chat.exists /\ ~chat.live => ~chat'.live]_vars

Described(t) == chat.hash[t] # None => turns[t] = chat.hash[t]

\* Why a turn is not described: it was not before, or an append is stored.
Undescribed(t) ==
    \/ ~Described(t) /\ chat'.hash = chat.hash
    \/ \E p \in Reqs : Writes(p) /\ proc[p].op = "append" /\ proc[p].push[t] # None

(* The noop path of upsert_chat trusts the stored content_hash.  Only an   *)
(* append, which leaves the hash to the next upsert, can store a turn the  *)
(* hash does not describe; every write of a new hash describes every turn, *)
(* whichever of two racing requests commits last.                          *)
HashDescribesTurns ==
    [][\A t \in Turns : ~Described(t)' => Undescribed(t)]_vars

=============================================================================
