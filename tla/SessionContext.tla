--------------------------- MODULE SessionContext ---------------------------
(***************************************************************************)
(* The context of one session (backend/services/session_digest_service.py  *)
(* and the session stage of backend/services/compression_pipeline.py).     *)
(* A context request keeps the newest exchanges raw and compacts the older *)
(* ones into the stored rolling digest; a rehydration request expands the  *)
(* digest's sources back to raw items; the pipeline of every new memory    *)
(* may rewrite the session's L3 summaries.  Nothing locks the digest row   *)
(* or the summary row: requests and pipelines interleave at every await.   *)
(*                                                                         *)
(* An item is a memory of the session or a turn of its chat that has text; *)
(* its number is its created_at, so that a set of exchanges is also the    *)
(* list that the code sorts.  A text is its sequence of lines, and a line  *)
(* is the set of items it carries, so the line that marks an omission is   *)
(* the empty set and a budget is a number of lines.                        *)
(***************************************************************************)
EXTENDS Integers, FiniteSets, SequencesExt

CONSTANTS
    Items,       \* memories and chat turns, numbered by created_at
    Kind,        \* "memory", "user" or "assistant" for each item
    SourceTurn,  \* the turn a bridged memory stands for, None for the others
    Requests,    \* concurrent get_session_context requests
    Tails,       \* raw_tail_count values callers ask for
    Budgets,     \* token_budget values callers ask for, in lines
    BatchSize,   \* COMPACTION_BATCH_SIZE
    Asks,        \* the source ids callers name in a rehydration
    MaxItems,    \* max_items of a rehydration
    RawBudget,   \* token_budget of a rehydration
    Size,        \* tokens of each raw item
    Workloads,   \* the mixes of callers this instance explores
    GroqMin,     \* L3_GROQ_MIN_MEMORIES
    Threshold,   \* L3_SUMMARY_THRESHOLD
    None

ASSUME SessionAssumption ==
    /\ Items \subseteq Nat /\ IsFiniteSet(Items)
    /\ Kind \in [Items -> {"memory", "user", "assistant"}]
    /\ SourceTurn \in [Items -> Items \cup {None}]
    /\ Tails \subseteq Nat \ {0} /\ Budgets \subseteq Nat \ {0}
    /\ {BatchSize, MaxItems, RawBudget} \subseteq Nat \ {0}
    /\ Asks \subseteq SUBSET Items
    /\ Size \in [Items -> Nat \ {0}]
    /\ {GroqMin, Threshold} \subseteq Nat
    /\ None \notin Items \cup [text : Seq(SUBSET Items), ids : SUBSET Items]
    /\ Workloads \subseteq SUBSET {"context", "contexts", "rehydrate", "pipelines", "removals"}

VARIABLES
    load,       \* the callers of this behaviour
    item,       \* each item: absent, live or gone
    row,        \* the session's SessionDigest row, None before the first
    req,        \* each context request
    lossy,      \* history: some text of the digest once exceeded its budget, or
                \* an LLM answered with the very text it was to bring up to date
    reh,        \* the rehydration request
    sum,        \* the session's SessionSummary row
    lastCount,  \* _last_session_summary_count of the session
    lastRead,   \* history: the memories counted by lastCount
    pipe        \* the session stage of each memory's pipeline

vars == <<load, item, row, req, lossy, reh, sum, lastCount, lastRead, pipe>>

Marker == {}
Texts  == Seq(SUBSET Items)
Carried(text) == UNION Range(text)

Row      == [text : Texts, ids : SUBSET Items]
Exchange == [id : Items, covers : SUBSET Items]
Memories == {i \in Items : Kind[i] = "memory"}
Turns    == Items \ Memories

Request ==
    [pc : {"idle", "chat", "row", "gen", "done", "failed"},
     mems : SUBSET Memories, ex : SUBSET Exchange, tail : Nat \ {0}, budget : Nat \ {0},
     base : {None} \cup Row, text : Texts, ids : SUBSET Items, todo : SUBSET Exchange]
Rehydration ==
    [pc : {"idle", "load", "done", "refused"}, explicit : BOOLEAN, asked : SUBSET Items,
     found : SUBSET Items, selected : SUBSET Items, omitted : SUBSET Items,
     missing : SUBSET Items]
Stage ==
    [pc : {"none", "read", "gates", "write", "commit", "debounced", "done"},
     session : SUBSET Memories, cumul : SUBSET Memories,
     newSession : {None} \cup SUBSET Memories, newCumul : {None} \cup SUBSET Memories,
     insert : BOOLEAN]
Summary == [session : SUBSET Memories, cumul : SUBSET Memories, upTo : Memories]

NoRequest == [pc |-> "idle", mems |-> {}, ex |-> {}, tail |-> 1, budget |-> 1,
              base |-> None, text |-> <<>>, ids |-> {}, todo |-> {}]
NoRehydration == [pc |-> "idle", explicit |-> FALSE, asked |-> {}, found |-> {},
                  selected |-> {}, omitted |-> {}, missing |-> {}]
NoStage == [pc |-> "none", session |-> {}, cumul |-> {}, newSession |-> None,
            newCumul |-> None, insert |-> FALSE]

Init ==
    /\ load \in Workloads
    /\ item = [i \in Items |-> "absent"]
    /\ row = None
    /\ req = [r \in Requests |-> NoRequest]
    /\ lossy = FALSE
    /\ reh = NoRehydration
    /\ sum = None
    /\ lastCount = 0 /\ lastRead = {}
    /\ pipe = [m \in Memories |-> IF "pipelines" \in load
                                  THEN [NoStage EXCEPT !.pc = "read"] ELSE NoStage]

-----------------------------------------------------------------------------
(* The session's items                                                     *)

Live == {i \in Items : item[i] = "live"}

\* A memory is committed in any order; the turns of a chat arrive in order.
Arrive(i) ==
    /\ item[i] = "absent"
    /\ i \in Turns => \A j \in Turns : j < i => item[j] # "absent"
    /\ item' = [item EXCEPT ![i] = "live"]
    /\ UNCHANGED <<load, row, req, lossy, reh, sum, lastCount, lastRead, pipe>>

\* delete_memory sets invalid_at.
Forget(i) ==
    /\ "removals" \in load /\ i \in Memories /\ item[i] = "live"
    /\ item' = [item EXCEPT ![i] = "gone"]
    /\ UNCHANGED <<load, row, req, lossy, reh, sum, lastCount, lastRead, pipe>>

-----------------------------------------------------------------------------
(* _pair_chat_turns and load_session_exchanges                             *)

\* One turn of the loop: out holds the exchanges, user the pending user turn.
Flush(acc) == acc.out \cup {[id |-> u, covers |-> {u}] : u \in acc.user}

PairTurn(acc, t) ==
    IF Kind[t] = "user" THEN [out |-> Flush(acc), user |-> {t}]
    ELSE [out |-> acc.out \cup {[id |-> t, covers |-> acc.user \cup {t}]}, user |-> {}]

\* The turns are taken in ascending order.
PairChatTurns(turns) ==
    Flush(MapThenFoldSet(LAMBDA t, acc : PairTurn(acc, t), [out |-> {}, user |-> {}],
                         LAMBDA t : t, LAMBDA S : Max(S), turns))

ChatTurns == Turns \cap Live

\* Memories are canonical; a turn some memory stands for is not added.
MergeExchanges(mems, chat) ==
    {[id |-> m, covers |-> {m}] : m \in mems}
        \cup {x \in chat : x.id \notin {SourceTurn[m] : m \in mems}}

Before(x, S) == {y \in S : y.id < x.id}
After(x, S)  == {y \in S : y.id > x.id}

-----------------------------------------------------------------------------
(* get_session_context and refresh_session_digest                          *)

Serves(r) == \/ "contexts" \in load
             \/ "context" \in load /\ \A q \in Requests \ {r} : req[q].pc = "idle"

Fit(text, budget) ==
    IF Len(text) <= budget THEN text
    ELSE Append(SubSeq(text, 1, budget - 1), Marker)

CtxMemories(r, tail, budget) ==
    /\ Serves(r) /\ req[r].pc \in {"idle", "done", "failed"}
    /\ req' = [req EXCEPT ![r] = [NoRequest EXCEPT
                 !.pc = "chat", !.mems = Live \cap Memories,
                 !.tail = tail, !.budget = budget]]
    /\ UNCHANGED <<load, item, row, lossy, reh, sum, lastCount, lastRead, pipe>>

CtxChat(r) ==
    /\ req[r].pc = "chat"
    /\ req' = [req EXCEPT ![r].pc = "row",
                          ![r].ex = MergeExchanges(req[r].mems, PairChatTurns(ChatTurns))]
    /\ UNCHANGED <<load, item, row, lossy, reh, sum, lastCount, lastRead, pipe>>

Compactable(q) == {x \in q.ex : Cardinality(After(x, q.ex)) >= q.tail}
RawTail(q)     == q.ex \ Compactable(q)

MutPending(q, ids) ==
    {x \in Compactable(q) : Cardinality(Before(x, Compactable(q))) >= Cardinality(ids)}

\* What is older than the tail and not yet compacted, wherever it sorts.
Pending(q, ids) == {x \in Compactable(q) : x.id \notin ids}

CtxRow(r) ==
    LET q    == req[r]
        text == IF row = None THEN <<>> ELSE row.text
        ids  == IF row = None THEN {} ELSE row.ids
    IN /\ q.pc = "row"
       /\ req' = [req EXCEPT ![r] =
            IF row = None /\ Compactable(q) = {}
            THEN [q EXCEPT !.pc = "done"]
            ELSE [q EXCEPT !.pc = "gen", !.base = row, !.text = text, !.ids = ids,
                           !.todo = Pending(q, ids)]]
       /\ UNCHANGED <<load, item, row, lossy, reh, sum, lastCount, lastRead, pipe>>

\* The LLM rewrites the digest and the batch into one line, of which the fit
\* leaves only the marker when it exceeds the budget.
LlmDigests(text, batch) == {<<Carried(text) \cup UNION {x.covers : x \in batch}>>, <<Marker>>}

Lines(batch) ==
    [k \in 1..Cardinality(batch) |->
        (CHOOSE x \in batch : Cardinality(Before(x, batch)) = k - 1).covers]

\* Without one, the batch's exchanges are listed under the previous digest.
ExtractiveDigest(text, batch, budget) == Fit(text \o Lines(batch), budget)

\* generate_digest_update for the next batch; any failure of the LLM call
\* falls back to the extractive digest.
CtxGenerate(r) ==
    LET q     == req[r]
        batch == {x \in q.todo : Cardinality(Before(x, q.todo)) < BatchSize}
    IN /\ q.pc = "gen" /\ q.todo # {}
       /\ \E text \in LlmDigests(q.text, batch) \cup {ExtractiveDigest(q.text, batch, q.budget)} :
             /\ req' = [req EXCEPT ![r] = [q EXCEPT
                          !.text = text, !.todo = @ \ batch,
                          !.ids = @ \cup {x.id : x \in batch}]]
             /\ lossy' = (lossy \/ Marker \in Range(text))
       /\ UNCHANGED <<load, item, row, reh, sum, lastCount, lastRead, pipe>>

MutWritten(q, text) ==
    [text |-> text, ids |-> q.ids \cup (IF row = None THEN {} ELSE row.ids)]

\* The session writes the columns that changed since the row was read.
Written(q, text) ==
    IF q.base = None THEN [text |-> text, ids |-> q.ids]
    ELSE [text |-> IF text # q.base.text THEN text ELSE row.text,
          ids  |-> IF q.ids # q.base.ids THEN q.ids ELSE row.ids]

\* The final fit, and the commit at the end of the request.
CtxCommit(r) ==
    LET q == req[r]
        text == Fit(q.text, q.budget)
        same == q.base # None /\ text = q.base.text /\ q.ids # q.base.ids
    IN /\ q.pc = "gen" /\ q.todo = {}
       /\ q.base = None => row = None
       /\ row' = Written(q, text)
       /\ lossy' = (lossy \/ Marker \in Range(text) \/ same)
       /\ req' = [req EXCEPT ![r].pc = "done", ![r].text = text]
       /\ UNCHANGED <<load, item, reh, sum, lastCount, lastRead, pipe>>

\* uq_session_digest_org_user_ns_session refuses the second insert, and any
\* other error of the request rolls its transaction back.
CtxFail(r) ==
    /\ req[r].pc \in {"chat", "row", "gen"}
    /\ req' = [req EXCEPT ![r] = [NoRequest EXCEPT !.pc = "failed"]]
    /\ UNCHANGED <<load, item, row, lossy, reh, sum, lastCount, lastRead, pipe>>

-----------------------------------------------------------------------------
(* rehydrate_session_sources                                               *)

\* A request names source ids of any origin.  An explicit one must name some;
\* a heuristic one that names none asks for all the sources of the row.
RehStart(explicit, asked) ==
    /\ "rehydrate" \in load /\ reh.pc \in {"idle", "done", "refused"}
    /\ reh' = IF row = None \/ (explicit /\ asked = {})
              THEN [NoRehydration EXCEPT !.pc = "refused"]
              ELSE [NoRehydration EXCEPT !.pc = "load", !.explicit = explicit,
                      !.asked = IF asked # {} THEN asked ELSE row.ids]
    /\ UNCHANGED <<load, item, row, req, lossy, sum, lastCount, lastRead, pipe>>

MutMissingSources(asked, found) == asked \ {i \in found : i \in Memories}

\* A turn is not missing when a memory that stands for it was found.
MissingSources(asked, found) ==
    asked \ (found \cup {SourceTurn[m] : m \in found \cap Memories})

\* _fit_rehydrated_sources_to_budget takes or leaves whole items in order.
FitSource(acc, i) ==
    IF Cardinality(acc.selected) >= MaxItems \/ acc.used + Size[i] > RawBudget
    THEN [acc EXCEPT !.omitted = @ \cup {i}]
    ELSE [acc EXCEPT !.selected = @ \cup {i}, !.used = @ + Size[i]]

Orders(S) == {o \in [1..Cardinality(S) -> S] : Range(o) = S}

\* The sources that are still live, in the order asked for or, for a
\* heuristic request, some of them ranked by the query.
RehLoad(order) ==
    LET found  == reh.asked \cap Live
        ranked == Range(order)
        fitted == FoldLeft(FitSource, [selected |-> {}, omitted |-> {}, used |-> 0], order)
    IN /\ reh.pc = "load"
       /\ ranked \subseteq found /\ (ranked = {} => found = {})
       /\ reh.explicit => ranked = found
       /\ reh' = [reh EXCEPT !.pc = "done", !.found = found,
                    !.selected = fitted.selected, !.omitted = fitted.omitted,
                    !.missing = MissingSources(reh.asked, ranked)]
       /\ UNCHANGED <<load, item, row, req, lossy, sum, lastCount, lastRead, pipe>>

-----------------------------------------------------------------------------
(* _maybe_summarize_session_l3                                             *)

MutDebounced(session) == Cardinality(session) <= lastCount + 1

Debounced(session) == Cardinality(session) <= lastCount

\* The pipeline starts before the memory's request commits and may find
\* nothing.  The rows are read, then the counter tested with no await between.
SessRead(m) ==
    LET session == Live \cap Memories
    IN /\ pipe[m].pc = "read"
       /\ pipe' = [pipe EXCEPT ![m] = [NoStage EXCEPT
                     !.pc = IF item[m] = "absent" THEN "done"
                            ELSE IF Debounced(session) THEN "debounced" ELSE "gates",
                     !.session = session,
                     !.cumul = {j \in session : j <= m}]]
       /\ UNCHANGED <<load, item, row, req, lossy, reh, sum, lastCount, lastRead>>

\* The two novelty gates; when both close, only the counter moves.
SessGates(m, novel, cumulNovel) ==
    LET p == pipe[m]
    IN /\ p.pc = "gates"
       /\ IF novel \/ cumulNovel
          THEN /\ pipe' = [pipe EXCEPT ![m] = [p EXCEPT
                    !.pc = "write",
                    !.newSession = IF novel /\ Cardinality(p.session) < GroqMin
                                   THEN p.session ELSE None,
                    !.newCumul = IF cumulNovel /\ Cardinality(p.cumul) >= Threshold
                                      /\ Cardinality(p.cumul) < GroqMin
                                 THEN p.cumul ELSE None]]
               /\ UNCHANGED <<lastCount, lastRead>>
          ELSE /\ pipe' = [pipe EXCEPT ![m] = [NoStage EXCEPT !.pc = "done"]]
               /\ lastCount' = Cardinality(p.session) /\ lastRead' = p.session
       /\ UNCHANGED <<load, item, row, req, lossy, reh, sum>>

\* The counter takes the count read, and moves before the stage commits.
NextCount(m) == Cardinality(pipe[m].session)

\* Nothing to write ends the stage; otherwise the row is read and changed
\* in the session of the stage.
SessWrite(m) ==
    LET p == pipe[m]
    IN /\ p.pc = "write"
       /\ IF p.newSession = None /\ p.newCumul = None
          THEN /\ pipe' = [pipe EXCEPT ![m] = [NoStage EXCEPT !.pc = "done"]]
               /\ UNCHANGED <<lastCount, lastRead>>
          ELSE /\ pipe' = [pipe EXCEPT ![m].pc = "commit", ![m].insert = (sum = None)]
               /\ lastCount' = NextCount(m) /\ lastRead' = p.session
       /\ UNCHANGED <<load, item, row, req, lossy, reh, sum>>

Kept(new, old) == IF new # None THEN new ELSE old

\* The insert of a row that exists by now fails the whole stage.
SessCommit(m) ==
    LET p == pipe[m]
    IN /\ p.pc = "commit"
       /\ sum' = IF sum = None
                 THEN [session |-> Kept(p.newSession, {}), cumul |-> Kept(p.newCumul, {}),
                       upTo |-> m]
                 ELSE IF p.insert THEN sum
                 ELSE [session |-> Kept(p.newSession, sum.session),
                       cumul |-> Kept(p.newCumul, sum.cumul), upTo |-> m]
       /\ pipe' = [pipe EXCEPT ![m] = [NoStage EXCEPT !.pc = "done"]]
       /\ UNCHANGED <<load, item, row, req, lossy, reh, lastCount, lastRead>>

-----------------------------------------------------------------------------

Next ==
    \/ \E i \in Items : Arrive(i) \/ Forget(i)
    \/ \E r \in Requests :
          \/ \E tail \in Tails, budget \in Budgets : CtxMemories(r, tail, budget)
          \/ CtxChat(r) \/ CtxRow(r) \/ CtxGenerate(r) \/ CtxCommit(r) \/ CtxFail(r)
    \/ \E explicit \in BOOLEAN, asked \in Asks : RehStart(explicit, asked)
    \/ reh.pc = "load" /\ \E ranked \in SUBSET reh.asked : \E order \in Orders(ranked) : RehLoad(order)
    \/ \E m \in Memories :
          \/ SessRead(m) \/ SessWrite(m) \/ SessCommit(m)
          \/ \E novel, cumulNovel \in BOOLEAN : SessGates(m, novel, cumulNovel)

Spec == Init /\ [][Next]_vars

-----------------------------------------------------------------------------
(* Properties                                                              *)

TypeOK ==
    /\ load \in Workloads
    /\ item \in [Items -> {"absent", "live", "gone"}]
    /\ row \in {None} \cup Row /\ req \in [Requests -> Request] /\ lossy \in BOOLEAN
    /\ reh \in Rehydration
    /\ sum \in {None} \cup Summary /\ pipe \in [Memories -> Stage]
    /\ lastRead \subseteq Memories /\ lastCount = Cardinality(lastRead)

\* _pair_chat_turns by its meaning: the user turn right before an assistant
\* turn goes with it, every other turn is an exchange of its own.
Prompt(t, S) ==
    {u \in S : /\ Kind[u] = "user" /\ Kind[t] = "assistant" /\ u < t
               /\ ~\E v \in S : u < v /\ v < t}
Pairs(S) == {[id |-> t, covers |-> {t} \cup Prompt(t, S)] : t \in S \ UNION {Prompt(t, S) : t \in S}}

PairingExact == PairChatTurns(ChatTurns) = Pairs(ChatTurns)

\* The chat has its turns in order, and the runs of the session stage have
\* read memories that were there.
ItemsKnown ==
    /\ \A t \in Turns : item[t] # "gone"
    /\ \A t, u \in Turns : u < t /\ item[t] = "live" => item[u] = "live"
    /\ \A m \in lastRead : item[m] # "absent"
    /\ \A m \in Memories : \A j \in pipe[m].session : item[j] # "absent"

\* What an id of the digest stands for does not change as the chat grows.
Covers(i)         == {i} \cup (IF i \in Turns THEN Prompt(i, Turns) ELSE {})
Answers(text, ids) == UNION {Covers(i) : i \in ids} \subseteq Carried(text)

\* The digest row answers for every exchange it counts as compacted
\* (source_exchange_ids): as long as nothing was lost on the way, the stored
\* digest carries each of them, whatever requests raced to write the two
\* columns.
RowCoversSources == row # None /\ ~lossy => Answers(row.text, row.ids)

\* A request that compacts has its older exchanges in its ids or before it,
\* and ids that are not the row's only with a text that is not the row's.
RequestKnown(q) ==
    /\ \A x \in q.ex : x.covers = Covers(x.id)
    /\ q.pc = "gen" =>
          /\ q.todo \subseteq Compactable(q) /\ \A x \in q.todo : x.id \notin q.ids
          /\ \A x \in Compactable(q) : x.id \in q.ids \/ x \in q.todo
          /\ q.base # None => /\ q.base.ids \subseteq q.ids
                              /\ q.ids = q.base.ids => q.text = q.base.text
          /\ ~lossy => Answers(q.text, q.ids)
          /\ q.base # None => row # None

\* The digest row, the requests and the session summary: well typed, the row
\* answers for its sources, and the exchanges are those of the turns.
SessionInv ==
    /\ TypeOK /\ ItemsKnown /\ RowCoversSources /\ PairingExact
    /\ \A r \in Requests : RequestKnown(req[r])

\* "while the latest tail stays raw": every item a context request read is
\* in the raw tail or in the digest it returns, unless something was lost on
\* the way, also for an item that became visible after newer ones were
\* compacted.
ContextComplete ==
    \A r \in Requests :
        LET q == req[r]
        IN q.pc = "done" /\ ~lossy =>
              UNION {x.covers : x \in q.ex} \subseteq
                 Carried(q.text) \cup UNION {x.covers : x \in RawTail(q)}

\* "whole items are included or omitted with a reason": a rehydration
\* accounts for every source asked for, stays within its limits, calls no
\* live source of an explicit request missing, and leaves nothing out that
\* would have fitted next to what it returns.
RehydrationHonest ==
    LET used == SumFunctionOnSet(Size, reh.selected)
    IN reh.pc = "done" =>
          /\ reh.asked \subseteq reh.selected \cup reh.omitted \cup reh.missing
                  \cup {SourceTurn[m] : m \in reh.found \cap Memories}
          /\ reh.explicit => reh.missing \cap reh.found = {}
          /\ used <= RawBudget /\ Cardinality(reh.selected) <= MaxItems
          /\ \A i \in reh.omitted : \/ used + Size[i] > RawBudget
                                    \/ Cardinality(reh.selected) = MaxItems

\* "only runs when >= 1 new memory has arrived since the last pipeline run":
\* a stage that stops at the debounce was triggered by a memory the run that
\* set the counter had read, so its content is not left for no run; unless a
\* memory which that run counted has been deleted since.
DebounceSkipsOnlySeen ==
    [][\A m \in Memories :
          item[m] = "live" /\ pipe[m].pc = "read" /\ pipe'[m].pc = "debounced" =>
             m \in lastRead \/ \E j \in lastRead : item[j] = "gone"]_vars
=============================================================================
