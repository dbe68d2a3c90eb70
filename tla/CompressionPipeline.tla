------------------------- MODULE CompressionPipeline -------------------------
(***************************************************************************)
(* The write-time compression of one namespace                             *)
(* (backend/services/compression_pipeline.py and its stages under          *)
(* backend/plugins/cognition): every created memory starts a background    *)
(* pipeline that may regenerate the namespace's L3 narrative summary and   *)
(* its L3.1 concept.  The pipelines of a burst of writes run concurrently, *)
(* share the in-process debounce counters and the L3 lock, and write the   *)
(* namespace's policy row and concept rows, each stage in a transaction of *)
(* its own.                                                                *)
(*                                                                         *)
(* A summary or a concept is the set of memories it was generated from.    *)
(* The L2 stamp is in MemoryVault, the session stage in SessionContext.    *)
(***************************************************************************)
EXTENDS Integers, FiniteSets

CONSTANTS
    Mems,              \* memories written to the namespace, one pipeline each
    SummaryThreshold,  \* L3_SUMMARY_THRESHOLD
    SummaryMinNew,     \* L3_SUMMARY_MIN_NEW_MEMORIES
    GroqMin,           \* L3_GROQ_MIN_MEMORIES
    SynthThreshold,    \* L3_SYNTHESIS_THRESHOLD
    SynthMinNew,       \* L3_SYNTHESIS_MIN_NEW_MEMORIES
    LlmEnabled,        \* llm_enabled()
    Gates,             \* whether the novelty and coverage gates can stop L3
    Concepts,          \* whether this instance runs the L3.1 stage
    Deletes,           \* whether memories are deleted
    Faults,            \* whether stages fail and the process crashes
    None

ASSUME PipelineAssumption ==
    /\ None \notin Mems \cup {"L3", "L3.1"} /\ IsFiniteSet(Mems)
    /\ {SummaryThreshold, SummaryMinNew, GroqMin, SynthThreshold, SynthMinNew} \subseteq Nat
    /\ {LlmEnabled, Gates, Concepts, Deletes, Faults} \subseteq BOOLEAN

VARIABLES
    mem,      \* each memory: not yet written, inserted, committed or deleted
    pipe,     \* the pipeline of each memory
    holder,   \* pipeline that holds the namespace's _l3_summary_locks entry
    lastSum,  \* _last_summary_count
    lastSyn,  \* _last_synthesis_count
    policy,   \* committed consolidated_summary and its tier
    draft,    \* policy row written by an open transaction, and by whom
    concept   \* the concept memory each pipeline created

vars == <<mem, pipe, holder, lastSum, lastSyn, policy, draft, concept>>

Tiers    == {None, "L3", "L3.1"}
Policies == [tier : Tiers, src : SUBSET Mems]
Phases   == {"none", "l3", "lock", "gate", "gen", "l3commit", "syn", "syngate",
             "synth", "retire", "insert", "syncommit", "done"}
Pipes    == [pc : Phases, seen : SUBSET Mems, src : SUBSET Mems,
             todo : SUBSET Mems, retired : SUBSET Mems]
Stopped  == [pc |-> "done", seen |-> {}, src |-> {}, todo |-> {}, retired |-> {}]
NoDraft  == [owner |-> None, row |-> [tier |-> None, src |-> {}]]

TypeOK ==
    /\ mem \in [Mems -> {"none", "new", "live", "gone"}]
    /\ pipe \in [Mems -> Pipes]
    /\ holder \in Mems \cup {None}
    /\ lastSum \in 0..Cardinality(Mems) /\ lastSyn \in 0..Cardinality(Mems)
    /\ policy \in Policies
    /\ draft \in [owner : Mems \cup {None}, row : Policies]
    /\ concept \in [Mems -> [state : {"none", "active", "retired"}, src : SUBSET Mems]]

Init ==
    /\ mem = [m \in Mems |-> "none"]
    /\ pipe = [m \in Mems |-> [Stopped EXCEPT !.pc = "none"]]
    /\ holder = None
    /\ lastSum = 0 /\ lastSyn = 0
    /\ policy = [tier |-> None, src |-> {}]
    /\ draft = NoDraft
    /\ concept = [m \in Mems |-> [state |-> "none", src |-> {}]]

-----------------------------------------------------------------------------

Live  == {m \in Mems : mem[m] = "live"}
At(m, pc) == pipe[m].pc = pc
Step(m, r) == pipe' = [pipe EXCEPT ![m] = r]
Goto(m, pc) == Step(m, [pipe[m] EXCEPT !.pc = pc])

\* The stage after L3, in the order of _STAGE_MODULE_ORDER.
AfterL3 == IF Concepts THEN "syn" ELSE "done"

\* create_memory inserts the row, and schedules the pipeline before the
\* request commits.
Insert(m) ==
    /\ mem[m] = "none"
    /\ mem' = [mem EXCEPT ![m] = "new"]
    /\ Goto(m, "l3")
    /\ UNCHANGED <<holder, lastSum, lastSyn, policy, draft, concept>>

Commit(m) ==
    /\ mem[m] = "new"
    /\ mem' = [mem EXCEPT ![m] = "live"]
    /\ UNCHANGED <<pipe, holder, lastSum, lastSyn, policy, draft, concept>>

Delete(m) ==
    /\ Deletes /\ mem[m] = "live"
    /\ mem' = [mem EXCEPT ![m] = "gone"]
    /\ UNCHANGED <<pipe, holder, lastSum, lastSyn, policy, draft, concept>>

-----------------------------------------------------------------------------
(* _maybe_summarize_l3 and _do_summarize_l3                                *)

SumRead(m) ==
    /\ At(m, "l3")
    /\ Step(m, [pipe[m] EXCEPT
                  !.seen = Live,
                  !.pc = IF LlmEnabled /\ Cardinality(Live) >= SummaryThreshold
                         THEN "lock" ELSE AfterL3])
    /\ UNCHANGED <<mem, holder, lastSum, lastSyn, policy, draft, concept>>

MutDebounced(m) == FALSE

\* Too few memories since the last run, counted by this pipeline's read.
Debounced(m) == lastSum > 0 /\ Cardinality(pipe[m].seen) - lastSum < SummaryMinNew

\* Nothing is awaited between the test of the lock and its acquisition.
SumSkip(m) ==
    /\ At(m, "lock") /\ (holder # None \/ Debounced(m))
    /\ Goto(m, AfterL3)
    /\ UNCHANGED <<mem, holder, lastSum, lastSyn, policy, draft, concept>>

SumEnter(m) ==
    /\ At(m, "lock") /\ holder = None /\ ~Debounced(m)
    /\ holder' = m
    /\ Goto(m, "gate")
    /\ UNCHANGED <<mem, lastSum, lastSyn, policy, draft, concept>>

\* The counter takes the count the pipeline read, it is not added to.
NextCount(m) == Cardinality(pipe[m].seen)

\* _has_sufficient_novelty or _summary_already_covers ends the stage; the
\* counter moves on all the same.
SumCovered(m) ==
    /\ Gates /\ At(m, "gate")
    /\ lastSum' = NextCount(m)
    /\ holder' = None
    /\ Goto(m, AfterL3)
    /\ UNCHANGED <<mem, lastSyn, policy, draft, concept>>

SumNovel(m) ==
    /\ At(m, "gate")
    /\ Goto(m, "gen")
    /\ UNCHANGED <<mem, holder, lastSum, lastSyn, policy, draft, concept>>

MutSumRow(m) == [tier |-> "L3", src |-> pipe[m].seen]

\* The WHERE of the L3 upsert: an L3.1 summary stays.
SumRow(m) ==
    IF policy.tier = "L3.1" THEN policy ELSE [tier |-> "L3", src |-> pipe[m].seen]

\* The row is locked until the stage commits.
Upsert(m, r) == draft.owner = None /\ draft' = [owner |-> m, row |-> r]

\* A small namespace gets the bullet list.
SumBullets(m) ==
    /\ At(m, "gen") /\ Cardinality(pipe[m].seen) < GroqMin
    /\ Upsert(m, SumRow(m))
    /\ lastSum' = NextCount(m)
    /\ holder' = None
    /\ Goto(m, "l3commit")
    /\ UNCHANGED <<mem, lastSyn, policy, concept>>

\* _do_summarize_l3 returns without a summary: _summarize_with_groq names
\* settings, which its module never imports, so it always raises; or the
\* upsert of the bullet list fails and the error is swallowed.
SumUnwritten(m) ==
    /\ At(m, "gen") /\ (Faults \/ Cardinality(pipe[m].seen) >= GroqMin)
    /\ holder' = None
    /\ Goto(m, AfterL3)
    /\ UNCHANGED <<mem, lastSum, lastSyn, policy, draft, concept>>

MutPublish(m) == policy' = draft.row /\ UNCHANGED draft

Publish(m) == policy' = draft.row /\ draft' = NoDraft

SumCommit(m) ==
    /\ At(m, "l3commit")
    /\ Publish(m)
    /\ Goto(m, AfterL3)
    /\ UNCHANGED <<mem, holder, lastSum, lastSyn, concept>>

-----------------------------------------------------------------------------
(* _maybe_synthesize_l3_1                                                  *)

SynCount(m) ==
    /\ At(m, "syn")
    /\ Step(m, [pipe[m] EXCEPT
                  !.seen = Live,
                  !.pc = IF Cardinality(Live) >= SynthThreshold THEN "syngate" ELSE "done"])
    /\ UNCHANGED <<mem, holder, lastSum, lastSyn, policy, draft, concept>>

SynDebounced(m) == lastSyn > 0 /\ Cardinality(pipe[m].seen) - lastSyn < SynthMinNew

\* The sources are read after the count, by a query of their own.
SynGate(m) ==
    /\ At(m, "syngate")
    /\ Step(m, IF SynDebounced(m) THEN Stopped
               ELSE [pipe[m] EXCEPT !.pc = "synth", !.src = Live])
    /\ UNCHANGED <<mem, holder, lastSum, lastSyn, policy, draft, concept>>

\* _synthesize_concept raises or has nothing to say.
SynEmpty(m) ==
    /\ At(m, "synth")
    /\ Step(m, Stopped)
    /\ UNCHANGED <<mem, holder, lastSum, lastSyn, policy, draft, concept>>

ActiveConcepts == {c \in Mems : concept[c].state = "active"}

\* The UPDATE that invalidates the existing concept sees the rows committed
\* when it starts ...
SynUpdate(m) ==
    /\ At(m, "synth")
    /\ Step(m, [pipe[m] EXCEPT !.pc = "retire", !.todo = ActiveConcepts])
    /\ UNCHANGED <<mem, holder, lastSum, lastSyn, policy, draft, concept>>

Locked(c) == \E x \in Mems : c \in pipe[x].retired

\* ... waits for those another transaction has updated, and leaves out the
\* ones that transaction invalidated.
SynRetire(m) ==
    /\ At(m, "retire")
    /\ \A c \in pipe[m].todo : ~Locked(c)
    /\ Step(m, [pipe[m] EXCEPT !.pc = "insert", !.todo = {},
                               !.retired = pipe[m].todo \cap ActiveConcepts])
    /\ UNCHANGED <<mem, holder, lastSum, lastSyn, policy, draft, concept>>

\* The new concept row and the policy upsert, without a condition on the tier.
SynInsert(m) ==
    /\ At(m, "insert")
    /\ Upsert(m, [tier |-> "L3.1", src |-> pipe[m].src])
    /\ lastSyn' = NextCount(m)
    /\ Goto(m, "syncommit")
    /\ UNCHANGED <<mem, holder, lastSum, policy, concept>>

SameText(m) == \E c \in ActiveConcepts \ pipe[m].retired : concept[c].src = pipe[m].src

\* An active concept has the same text, or the policy upsert fails: the
\* error is swallowed, the counter moves on, and the commit saves nothing.
SynConflict(m) ==
    /\ At(m, "insert")
    /\ Faults \/ SameText(m)
    /\ lastSyn' = NextCount(m)
    /\ Step(m, Stopped)
    /\ UNCHANGED <<mem, holder, lastSum, policy, draft, concept>>

SynCommit(m) ==
    /\ At(m, "syncommit")
    /\ Publish(m)
    /\ concept' = [c \in Mems |->
                      IF c = m THEN [state |-> "active", src |-> pipe[m].src]
                      ELSE IF c \in pipe[m].retired THEN [concept[c] EXCEPT !.state = "retired"]
                      ELSE concept[c]]
    /\ Step(m, Stopped)
    /\ UNCHANGED <<mem, holder, lastSum, lastSyn>>

-----------------------------------------------------------------------------

MutFreed(m) == holder

Freed(m) == IF holder = m THEN None ELSE holder

Running(m) == pipe[m].pc \notin {"none", "done"}

\* A stage raises: its transaction is rolled back, async with frees the
\* lock, the counters keep their values, and _run_compression gives up.
Fail(m) ==
    /\ Faults /\ Running(m)
    /\ Step(m, Stopped)
    /\ holder' = Freed(m)
    /\ draft' = IF draft.owner = m THEN NoDraft ELSE draft
    /\ UNCHANGED <<mem, lastSum, lastSyn, policy, concept>>

\* Pipelines, the lock and the counters live in memory only.
Crash ==
    /\ Faults
    /\ mem' = [m \in Mems |-> IF mem[m] = "new" THEN "gone" ELSE mem[m]]
    /\ pipe' = [m \in Mems |-> IF Running(m) THEN Stopped ELSE pipe[m]]
    /\ holder' = None /\ draft' = NoDraft
    /\ lastSum' = 0 /\ lastSyn' = 0
    /\ UNCHANGED <<policy, concept>>

Pipeline(m) ==
    \/ SumRead(m) \/ SumSkip(m) \/ SumEnter(m) \/ SumCovered(m) \/ SumNovel(m)
    \/ SumBullets(m) \/ SumUnwritten(m) \/ SumCommit(m)
    \/ SynCount(m) \/ SynGate(m) \/ SynEmpty(m) \/ SynUpdate(m) \/ SynRetire(m)
    \/ SynInsert(m) \/ SynConflict(m) \/ SynCommit(m)

Next ==
    \/ \E m \in Mems : Insert(m) \/ Commit(m) \/ Delete(m) \/ Pipeline(m) \/ Fail(m)
    \/ Crash

Spec == Init /\ [][Next]_vars

\* The steps of a pipeline but the errors that may or may not happen.
Advance(m) ==
    \/ SumRead(m) \/ SumSkip(m) \/ SumEnter(m) \/ SumCovered(m) \/ SumNovel(m)
    \/ SumBullets(m) \/ SumCommit(m)
    \/ SumUnwritten(m) /\ Cardinality(pipe[m].seen) >= GroqMin
    \/ SynCount(m) \/ SynGate(m) \/ SynEmpty(m) \/ SynUpdate(m) \/ SynRetire(m)
    \/ SynInsert(m) \/ SynCommit(m)
    \/ SynConflict(m) /\ SameText(m)

(* The event loop runs every task that can go on, and every transaction    *)
(* that waits for a row gets it once the holder is gone.  No error is      *)
(* needed to end a wait.                                                   *)
Fairness == \A m \in Mems : WF_vars(Advance(m))

FairSpec == Spec /\ Fairness

-----------------------------------------------------------------------------
(* Properties that hold.                                                   *)

(* A policy row waiting for its commit was computed from the committed one *)
(* it will replace.                                                        *)
DraftInv == draft.owner # None /\ policy.tier = "L3.1" => draft.row.tier = "L3.1"

(* "never downgrade an existing L3.1 summary", whichever pipelines wait    *)
(* for the policy row at the same time.                                    *)
NeverDowngraded == [][policy.tier = "L3.1" => policy'.tier = "L3.1"]_vars

(* While no memory has been deleted, an L3 summary is never replaced by    *)
(* one generated from an older read of the namespace, although a pipeline  *)
(* may have read long before it gets to write: the debounce inside the     *)
(* lock turns it away.                                                     *)
SummaryNeverOlder ==
    [][/\ \A m \in Mems : mem[m] # "gone"
       /\ policy.tier = "L3" /\ policy'.tier = "L3"
       => policy.src \subseteq policy'.src]_vars

(* The L3 lock is held by the one pipeline inside the locked region, and   *)
(* the policy row by the one about to commit: two never regenerate at      *)
(* once, and no failure leaves either lock behind, which would silence the *)
(* namespace's L3 for good.                                                *)
LocksMatch ==
    \A m \in Mems : /\ holder = m <=> pipe[m].pc \in {"gate", "gen"}
                    /\ draft.owner = m <=> pipe[m].pc \in {"l3commit", "syncommit"}

(* Every pipeline ends: waiting for concept rows and for the policy row    *)
(* cannot go round in a circle.                                            *)
EveryPipelineEnds == \A m \in Mems : Running(m) ~> ~Running(m)

-----------------------------------------------------------------------------
(* Claims of the code's comments that do not hold.                         *)

(* "Generate the L3 summary and upsert it": a run that passed the gates    *)
(* writes a summary.                                                       *)
NovelRunWrites ==
    [][\A m \in Mems : At(m, "gen") /\ pipe'[m].pc # "gen" => draft'.owner = m]_vars

=============================================================================
