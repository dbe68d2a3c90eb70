---------------------- MODULE CompressionPipelineProofs ----------------------
(***************************************************************************)
(* Proofs about CompressionPipeline, for any number of memories and any    *)
(* thresholds.                                                             *)
(***************************************************************************)
EXTENDS CompressionPipeline, FiniteSetTheorems, TLAPS

(* What the two locks need of the state: the type invariant without its    *)
(* counters, the locks, and the tier of an uncommitted row.                *)
Shape ==
    /\ pipe \in [Mems -> Pipes]
    /\ holder \in Mems \cup {None}
    /\ draft \in [owner : Mems \cup {None}, row : Policies]
    /\ policy \in Policies

LockInv == Shape /\ LocksMatch /\ DraftInv

LEMMA StoppedType == Stopped \in Pipes
BY DEF Stopped, Pipes, Phases

LEMMA InitLockInv == Init => LockInv
<1> SUFFICES ASSUME Init PROVE LockInv
  OBVIOUS
<1>1. Shape
  BY DEF Init, Shape, Stopped, Pipes, Phases, NoDraft, Policies, Tiers
<1>2. LocksMatch /\ DraftInv
  BY PipelineAssumption DEF Init, LocksMatch, DraftInv, NoDraft, Stopped
<1>3. QED
  BY <1>1, <1>2 DEF LockInv

(* A step that moves one pipeline and leaves the policy row alone.         *)
LEMMA MoveKeeps ==
    ASSUME LockInv, NEW m \in Mems, NEW r \in Pipes, Step(m, r),
           UNCHANGED <<policy, draft>>, holder' \in Mems \cup {None},
           r.pc \notin {"l3commit", "syncommit"},
           pipe[m].pc \notin {"l3commit", "syncommit"},
           holder' = m <=> r.pc \in {"gate", "gen"},
           \A x \in Mems \ {m} : holder' = x <=> holder = x
    PROVE  LockInv'
<1>1. Shape'
  BY DEF LockInv, Shape, Step
<1>2. LocksMatch'
  BY DEF LockInv, Shape, LocksMatch, Step
<1>3. DraftInv'
  BY DEF LockInv, DraftInv
<1>4. QED
  BY <1>1, <1>2, <1>3 DEF LockInv

LEMMA SumKeeps ==
    ASSUME LockInv, NEW m \in Mems,
           \/ SumRead(m) \/ SumSkip(m) \/ SumEnter(m) \/ SumCovered(m) \/ SumNovel(m) \/ SumUnwritten(m)
    PROVE  LockInv'
<1>1. pipe[m] \in Pipes /\ holder \in Mems \cup {None} /\ AfterL3 \in {"syn", "done"}
  BY DEF LockInv, Shape, AfterL3
<1>2. /\ holder = m <=> pipe[m].pc \in {"gate", "gen"}
      /\ m # None /\ \A x \in Mems : x # None
  BY PipelineAssumption DEF LockInv, LocksMatch
<1>3. CASE SumRead(m)
  <2> DEFINE pc == IF LlmEnabled /\ Cardinality(Live) >= SummaryThreshold THEN "lock" ELSE AfterL3
             r == [pipe[m] EXCEPT !.seen = Live, !.pc = pc]
  <2>1. pc \in {"lock", "syn", "done"} /\ Live \subseteq Mems
    BY <1>1 DEF Live
  <2>2. Step(m, r)
    BY <1>3 DEF SumRead
  <2> HIDE DEF pc
  <2>3. r \in Pipes /\ r.pc = pc
    BY <1>1, <2>1 DEF Pipes, Phases
  <2> HIDE DEF r
  <2>4. QED
    BY <1>1, <1>2, <1>3, <2>1, <2>2, <2>3, MoveKeeps DEF SumRead, At
<1>4. ASSUME NEW pc \in {"gate", "gen", "syn", "done"}
      PROVE  [pipe[m] EXCEPT !.pc = pc] \in Pipes /\ [pipe[m] EXCEPT !.pc = pc].pc = pc
  BY <1>1 DEF Pipes, Phases
<1>5. CASE SumSkip(m)
  BY <1>1, <1>2, <1>4, <1>5, MoveKeeps DEF SumSkip, At, Goto
<1>6. CASE SumEnter(m)
  BY <1>1, <1>2, <1>4, <1>6, MoveKeeps DEF SumEnter, At, Goto
<1>7. CASE SumCovered(m)
  BY <1>1, <1>2, <1>4, <1>7, MoveKeeps DEF SumCovered, At, Goto
<1>8. CASE SumNovel(m)
  BY <1>1, <1>2, <1>4, <1>8, MoveKeeps DEF SumNovel, At, Goto
<1>9. CASE SumUnwritten(m)
  BY <1>1, <1>2, <1>4, <1>9, MoveKeeps DEF SumUnwritten, At, Goto
<1>10. QED
  BY <1>3, <1>5, <1>6, <1>7, <1>8, <1>9

(* A step that takes the policy row: the lock of the L3 region is freed if *)
(* the pipeline held it.                                                   *)
LEMMA UpsertKeeps ==
    ASSUME LockInv, NEW m \in Mems, NEW r \in Policies, Upsert(m, r),
           NEW pc \in {"l3commit", "syncommit"}, Goto(m, pc), UNCHANGED policy,
           policy.tier = "L3.1" => r.tier = "L3.1",
           holder' \in Mems \cup {None}, holder' # m,
           \A x \in Mems \ {m} : holder' = x <=> holder = x
    PROVE  LockInv'
<1>1. pipe[m] \in Pipes /\ pipe \in [Mems -> Pipes] /\ m # None
  BY PipelineAssumption DEF LockInv, Shape
<1>2. [pipe[m] EXCEPT !.pc = pc] \in Pipes /\ [pipe[m] EXCEPT !.pc = pc].pc = pc
  BY <1>1 DEF Pipes, Phases
<1>3. pipe' \in [Mems -> Pipes] /\ pipe'[m].pc = pc /\ \A x \in Mems \ {m} : pipe'[x] = pipe[x]
  BY <1>1, <1>2 DEF Goto, Step
<1>4. draft'.owner = m /\ draft'.row = r /\ draft.owner = None
      /\ draft' \in [owner : Mems \cup {None}, row : Policies]
  BY DEF Upsert
<1>5. Shape'
  BY <1>3, <1>4 DEF Shape, LockInv
<1>6. LocksMatch'
  BY <1>3, <1>4, PipelineAssumption DEF LocksMatch, LockInv
<1>7. DraftInv'
  BY <1>4 DEF DraftInv
<1>8. QED
  BY <1>5, <1>6, <1>7 DEF LockInv

LEMMA BulletsKeeps ==
    ASSUME LockInv, NEW m \in Mems, SumBullets(m)
    PROVE  LockInv'
<1>1. /\ pipe[m].seen \in SUBSET Mems /\ policy \in Policies
      /\ holder = m /\ m # None /\ \A x \in Mems : x # None
  BY PipelineAssumption DEF LockInv, Shape, Pipes, LocksMatch, SumBullets, At
<1>2. SumRow(m) \in Policies /\ (policy.tier = "L3.1" => SumRow(m).tier = "L3.1")
  BY <1>1 DEF SumRow, Policies, Tiers
<1>3. /\ Upsert(m, SumRow(m)) /\ Goto(m, "l3commit") /\ UNCHANGED policy
      /\ holder' = None
  BY DEF SumBullets
<1>4. QED
  BY <1>1, <1>2, <1>3, UpsertKeeps

LEMMA SynInsertKeeps ==
    ASSUME LockInv, NEW m \in Mems, SynInsert(m)
    PROVE  LockInv'
<1>1. /\ pipe[m].src \in SUBSET Mems /\ holder \in Mems \cup {None} /\ holder # m
  BY DEF LockInv, Shape, Pipes, LocksMatch, SynInsert, At
<1>2. [tier |-> "L3.1", src |-> pipe[m].src] \in Policies
  BY <1>1 DEF Policies, Tiers
<1>3. /\ Upsert(m, [tier |-> "L3.1", src |-> pipe[m].src]) /\ Goto(m, "syncommit")
      /\ UNCHANGED policy /\ holder' = holder
  BY DEF SynInsert
<1>4. QED
  BY <1>1, <1>2, <1>3, UpsertKeeps

(* A step that commits the policy row.                                     *)
LEMMA PublishKeeps ==
    ASSUME LockInv, NEW m \in Mems, Publish(m), NEW r \in Pipes, Step(m, r),
           r.pc \in {"syn", "done"}, UNCHANGED holder,
           pipe[m].pc \in {"l3commit", "syncommit"}
    PROVE  LockInv'
<1>1. /\ pipe \in [Mems -> Pipes] /\ draft.owner = m /\ draft.row \in Policies
      /\ \A x \in Mems : x # None
  BY PipelineAssumption DEF LockInv, Shape, LocksMatch
<1>2. policy' \in Policies /\ draft' = NoDraft
      /\ draft' \in [owner : Mems \cup {None}, row : Policies] /\ draft'.owner = None
  BY <1>1 DEF Publish, NoDraft, Policies, Tiers
<1>3. pipe' \in [Mems -> Pipes] /\ pipe'[m] = r /\ \A x \in Mems \ {m} : pipe'[x] = pipe[x]
  BY <1>1 DEF Step
<1>4. Shape'
  BY <1>2, <1>3 DEF Shape, LockInv
<1>5. LocksMatch'
  BY <1>1, <1>2, <1>3 DEF LocksMatch, LockInv
<1>6. DraftInv'
  BY <1>2 DEF DraftInv
<1>7. QED
  BY <1>4, <1>5, <1>6 DEF LockInv

LEMMA CommitsKeep ==
    ASSUME LockInv, NEW m \in Mems, SumCommit(m) \/ SynCommit(m)
    PROVE  LockInv'
<1>1. CASE SumCommit(m)
  <2>1. pipe[m] \in Pipes /\ AfterL3 \in {"syn", "done"}
    BY DEF LockInv, Shape, AfterL3
  <2> DEFINE r == [pipe[m] EXCEPT !.pc = AfterL3]
  <2>2. r \in Pipes /\ r.pc = AfterL3
    BY <2>1 DEF Pipes, Phases
  <2>3. Step(m, r)
    BY <1>1 DEF SumCommit, Goto
  <2> HIDE DEF r
  <2>4. QED
    BY <1>1, <2>1, <2>2, <2>3, PublishKeeps DEF SumCommit, At
<1>2. CASE SynCommit(m)
  BY <1>2, StoppedType, PublishKeeps DEF SynCommit, At, Stopped
<1>3. QED
  BY <1>1, <1>2

LEMMA SynKeeps ==
    ASSUME LockInv, NEW m \in Mems,
           SynCount(m) \/ SynGate(m) \/ SynEmpty(m) \/ SynUpdate(m) \/ SynRetire(m) \/ SynConflict(m)
    PROVE  LockInv'
<1>1. /\ pipe[m] \in Pipes /\ pipe \in [Mems -> Pipes] /\ holder \in Mems \cup {None}
      /\ Live \subseteq Mems /\ ActiveConcepts \subseteq Mems
      /\ holder = m <=> pipe[m].pc \in {"gate", "gen"}
  BY DEF LockInv, Shape, Live, ActiveConcepts, LocksMatch
<1>2. pipe[m].pc \in {"syn", "syngate", "synth", "retire", "insert"} /\ UNCHANGED <<policy, draft, holder>>
  BY DEF SynCount, SynGate, SynEmpty, SynUpdate, SynRetire, SynConflict, At
<1>3. \E r \in Pipes : Step(m, r) /\ r.pc \in {"done", "syngate", "synth", "retire", "insert"}
  <2>1. CASE SynEmpty(m) \/ SynConflict(m)
    <3>1. Step(m, Stopped) /\ Stopped.pc = "done"
      BY <2>1 DEF SynEmpty, SynConflict, Stopped
    <3>2. QED
      BY <3>1, StoppedType
  <2>2. CASE SynCount(m)
    <3> DEFINE pc == IF Cardinality(Live) >= SynthThreshold THEN "syngate" ELSE "done"
               r == [pipe[m] EXCEPT !.seen = Live, !.pc = pc]
    <3>1. pc \in {"syngate", "done"} /\ Step(m, r)
      BY <2>2 DEF SynCount
    <3> HIDE DEF pc
    <3>2. r \in Pipes /\ r.pc = pc
      BY <1>1, <3>1 DEF Pipes, Phases
    <3> HIDE DEF r
    <3>3. QED
      BY <3>1, <3>2
  <2>3. CASE SynGate(m)
    <3> DEFINE r == [pipe[m] EXCEPT !.pc = "synth", !.src = Live]
    <3>1. r \in Pipes /\ r.pc = "synth"
      BY <1>1 DEF Pipes, Phases
    <3>2. Step(m, r) \/ Step(m, Stopped)
      BY <2>3 DEF SynGate
    <3>3. Stopped.pc = "done"
      BY DEF Stopped
    <3> HIDE DEF r
    <3>4. QED
      BY <3>1, <3>2, <3>3, StoppedType
  <2>4. CASE SynUpdate(m)
    <3> DEFINE r == [pipe[m] EXCEPT !.pc = "retire", !.todo = ActiveConcepts]
    <3>1. r \in Pipes /\ r.pc = "retire" /\ Step(m, r)
      BY <1>1, <2>4 DEF Pipes, Phases, SynUpdate
    <3> HIDE DEF r
    <3>2. QED
      BY <3>1
  <2>5. CASE SynRetire(m)
    <3> DEFINE r == [pipe[m] EXCEPT !.pc = "insert", !.todo = {},
                                    !.retired = pipe[m].todo \cap ActiveConcepts]
    <3>1. Step(m, r)
      BY <2>5 DEF SynRetire
    <3>2. pipe[m].todo \cap ActiveConcepts \in SUBSET Mems
      BY <1>1
    <3>3. r \in Pipes /\ r.pc = "insert"
      BY <1>1, <3>2 DEF Pipes, Phases
    <3> HIDE DEF r
    <3>4. QED
      BY <3>1, <3>3
  <2>6. QED
    BY <2>1, <2>2, <2>3, <2>4, <2>5
<1>4. QED
  BY <1>1, <1>2, <1>3, MoveKeeps

LEMMA FailKeeps ==
    ASSUME LockInv, NEW m \in Mems, Fail(m)
    PROVE  LockInv'
<1>1. /\ pipe \in [Mems -> Pipes] /\ holder \in Mems \cup {None}
      /\ draft \in [owner : Mems \cup {None}, row : Policies] /\ policy \in Policies
      /\ \A x \in Mems : x # None
  BY PipelineAssumption DEF LockInv, Shape
<1>2. pipe' \in [Mems -> Pipes] /\ pipe'[m].pc = "done" /\ \A x \in Mems \ {m} : pipe'[x] = pipe[x]
  BY <1>1, StoppedType DEF Fail, Step, Stopped
<1>3. NoDraft \in [owner : Mems \cup {None}, row : Policies] /\ NoDraft.owner = None
  BY DEF NoDraft, Policies, Tiers
<1>4. Shape'
  BY <1>1, <1>2, <1>3 DEF Shape, Fail, Freed
<1>5. LocksMatch'
  <2>1. \A x \in Mems : holder' = x <=> pipe'[x].pc \in {"gate", "gen"}
    BY <1>1, <1>2 DEF Fail, Freed, LockInv, LocksMatch
  <2>2. \A x \in Mems : draft'.owner = x <=> pipe'[x].pc \in {"l3commit", "syncommit"}
    BY <1>1, <1>2, <1>3 DEF Fail, LockInv, LocksMatch
  <2>3. QED
    BY <2>1, <2>2 DEF LocksMatch
<1>6. DraftInv'
  BY <1>3 DEF Fail, DraftInv, LockInv
<1>7. QED
  BY <1>4, <1>5, <1>6 DEF LockInv

LEMMA CrashKeeps ==
    ASSUME LockInv, Crash
    PROVE  LockInv'
<1>1. pipe \in [Mems -> Pipes] /\ policy \in Policies /\ \A x \in Mems : x # None
  BY PipelineAssumption DEF LockInv, Shape
<1>2. /\ pipe' \in [Mems -> Pipes]
      /\ \A x \in Mems : pipe'[x].pc \in {"none", "done"}
  BY <1>1, StoppedType DEF Crash, Running, Stopped
<1>3. NoDraft \in [owner : Mems \cup {None}, row : Policies] /\ NoDraft.owner = None
  BY DEF NoDraft, Policies, Tiers
<1>4. Shape' /\ LocksMatch'
  BY <1>1, <1>2, <1>3 DEF Shape, LocksMatch, Crash
<1>5. DraftInv'
  BY <1>3 DEF DraftInv, Crash
<1>6. QED
  BY <1>4, <1>5 DEF LockInv

(* A pipeline starts with the insert of its memory.                        *)
FreshInv ==
    /\ DOMAIN mem = Mems /\ mem = [x \in Mems |-> mem[x]]
    /\ \A m \in Mems : mem[m] = "none" => pipe[m].pc = "none"

LEMMA StepKeepsFresh ==
    ASSUME LockInv, FreshInv, [Next]_vars
    PROVE  FreshInv'
<1>1. pipe \in [Mems -> Pipes]
  BY DEF LockInv, Shape
<1>2. ASSUME NEW m \in Mems, NEW r, mem[m] # "none", Step(m, r), UNCHANGED mem
      PROVE  FreshInv'
  BY <1>1, <1>2 DEF FreshInv, Step
<1>3. ASSUME NEW m \in Mems, Insert(m)
      PROVE  FreshInv'
  BY <1>1, <1>3 DEF FreshInv, Insert, Goto, Step
<1>4. ASSUME NEW m \in Mems, Commit(m) \/ Delete(m)
      PROVE  FreshInv'
  BY <1>1, <1>4 DEF FreshInv, Commit, Delete
<1>5. ASSUME NEW m \in Mems, Pipeline(m) \/ Fail(m)
      PROVE  FreshInv'
  <2>1. mem[m] # "none" /\ UNCHANGED mem
    BY <1>5 DEF FreshInv, Pipeline, Fail, Running, At, SumRead, SumSkip, SumEnter, SumCovered,
       SumNovel, SumBullets, SumUnwritten, SumCommit, SynCount, SynGate, SynEmpty, SynUpdate,
       SynRetire, SynInsert, SynConflict, SynCommit
  <2>2. \E r : Step(m, r)
    BY <1>5 DEF Pipeline, Fail, Goto, SumRead, SumSkip, SumEnter, SumCovered,
       SumNovel, SumBullets, SumUnwritten, SumCommit, SynCount, SynGate, SynEmpty, SynUpdate,
       SynRetire, SynInsert, SynConflict, SynCommit
  <2>3. QED
    BY <1>2, <2>1, <2>2
<1>6. CASE Crash
  BY <1>1, <1>6 DEF FreshInv, Crash, Running
<1>7. CASE UNCHANGED vars
  BY <1>7 DEF vars, FreshInv
<1>8. QED
  BY <1>3, <1>4, <1>5, <1>6, <1>7 DEF Next

LEMMA StepKeepsLocks ==
    ASSUME LockInv, FreshInv, [Next]_vars
    PROVE  LockInv'
<1>1. ASSUME NEW m \in Mems, Insert(m) PROVE LockInv'
  <2>1. pipe[m] \in Pipes /\ pipe[m].pc = "none" /\ holder # m /\ holder \in Mems \cup {None}
    BY <1>1 DEF Insert, FreshInv, LockInv, Shape, LocksMatch
  <2> DEFINE r == [pipe[m] EXCEPT !.pc = "l3"]
  <2>2. r \in Pipes /\ r.pc = "l3" /\ Step(m, r)
    BY <1>1, <2>1 DEF Pipes, Phases, Insert, Goto
  <2> HIDE DEF r
  <2>3. QED
    BY <1>1, <2>1, <2>2, MoveKeeps DEF Insert
<1>2. ASSUME NEW m \in Mems, Commit(m) \/ Delete(m) PROVE LockInv'
  BY <1>2 DEF Commit, Delete, LockInv, Shape, LocksMatch, DraftInv
<1>3. ASSUME NEW m \in Mems, Pipeline(m) PROVE LockInv'
  BY <1>3, SumKeeps, BulletsKeeps, CommitsKeep, SynKeeps, SynInsertKeeps DEF Pipeline
<1>4. CASE UNCHANGED vars
  BY <1>4 DEF vars, LockInv, Shape, LocksMatch, DraftInv
<1>5. QED
  BY <1>1, <1>2, <1>3, <1>4, FailKeeps, CrashKeeps DEF Next

LEMMA Invariance == Spec => [](LockInv /\ FreshInv)
<1>1. Init => FreshInv
  BY DEF Init, FreshInv, Stopped
<1>2. LockInv /\ FreshInv /\ [Next]_vars => (LockInv /\ FreshInv)'
  BY StepKeepsLocks, StepKeepsFresh
<1>3. QED
  BY <1>1, <1>2, InitLockInv, PTL DEF Spec

-----------------------------------------------------------------------------

(* At most one pipeline is inside the L3 lock of a namespace and at most   *)
(* one about to commit its policy row, and no failing stage leaves either  *)
(* locked.                                                                 *)
THEOREM LocksAreExact == Spec => []LocksMatch
<1>1. LockInv /\ FreshInv => LocksMatch
  BY DEF LockInv
<1>2. QED
  BY <1>1, Invariance, PTL

LEMMA StepKeepsTier ==
    ASSUME LockInv, [Next]_vars, policy.tier = "L3.1"
    PROVE  policy'.tier = "L3.1"
<1>1. ASSUME NEW m \in Mems, SumCommit(m) \/ SynCommit(m) PROVE policy'.tier = "L3.1"
  <2>1. draft.owner = m /\ m # None
    BY <1>1, PipelineAssumption DEF SumCommit, SynCommit, At, LockInv, LocksMatch
  <2>2. QED
    BY <1>1, <2>1 DEF SumCommit, SynCommit, Publish, LockInv, DraftInv
<1>2. ASSUME NEW m \in Mems, Insert(m) \/ Commit(m) \/ Delete(m) \/ Fail(m) PROVE UNCHANGED policy
  BY <1>2 DEF Insert, Commit, Delete, Fail
<1>3. ASSUME NEW m \in Mems, Pipeline(m), ~(SumCommit(m) \/ SynCommit(m)) PROVE UNCHANGED policy
  BY <1>3 DEF Pipeline, SumRead, SumSkip, SumEnter, SumCovered, SumNovel, SumBullets, SumUnwritten,
     SynCount, SynGate, SynEmpty, SynUpdate, SynRetire, SynInsert, SynConflict
<1>4. QED
  BY <1>1, <1>2, <1>3 DEF Next, Crash, vars

(* The L3 stage never downgrades an L3.1 summary, whichever pipelines wait *)
(* for the policy row: what it writes was decided on the row it replaces.  *)
THEOREM SummaryTierNeverFalls == Spec => NeverDowngraded
<1>1. LockInv /\ FreshInv /\ [Next]_vars => [policy.tier = "L3.1" => policy'.tier = "L3.1"]_vars
  BY StepKeepsTier
<1>2. QED
  BY <1>1, Invariance, PTL DEF Spec, NeverDowngraded

-----------------------------------------------------------------------------
(* SummaryNeverOlder.  As long as nothing was deleted the namespace only   *)
(* grows, so what the pipelines read at different times is a chain of      *)
(* sets; the debounce compares two of them by their sizes.                 *)

Intact     == \A m \in Mems : mem[m] # "gone"
Reading(m) == pipe[m].pc \in {"lock", "gate", "gen"}

(* The reads that are, or may become, an L3 summary.                       *)
Summaries ==
    {S \in SUBSET Mems : \/ policy.tier = "L3" /\ S = policy.src
                         \/ draft.row.tier = "L3" /\ S = draft.row.src
                         \/ \E m \in Mems : Reading(m) /\ S = pipe[m].seen}

Chain(C) == /\ \A S \in C : S \subseteq Live
            /\ \A S, T \in C : S \subseteq T \/ T \subseteq S

(* The counter is at least the size of the stored summary, but after a     *)
(* restart, when every pipeline has read the namespace later.              *)
PolicyCounted ==
    policy.tier = "L3" =>
       \/ Cardinality(policy.src) <= lastSum
       \/ \A m \in Mems : Reading(m) => policy.src \subseteq pipe[m].seen
DraftCounted ==
    draft.row.tier = "L3" =>
       /\ Cardinality(draft.row.src) <= lastSum
       /\ policy.tier = "L3" => policy.src \subseteq draft.row.src
EnteredAhead ==
    \A m \in Mems : pipe[m].pc \in {"gate", "gen"} => lastSum <= Cardinality(pipe[m].seen)

ReadOrder == Chain(Summaries) /\ PolicyCounted /\ DraftCounted /\ EnteredAhead

OrderInv == lastSum \in Nat /\ (Intact => ReadOrder)

LEMMA SizeOrder ==
    ASSUME NEW S \in SUBSET Mems, NEW T \in SUBSET Mems
    PROVE  /\ Cardinality(S) \in Nat
           /\ S \subseteq T => Cardinality(S) <= Cardinality(T)
           /\ (S \subseteq T \/ T \subseteq S) /\ Cardinality(S) <= Cardinality(T) => S \subseteq T
<1>1. IsFiniteSet(S) /\ IsFiniteSet(T)
  BY PipelineAssumption, FS_Subset
<1>2. Cardinality(S) \in Nat /\ Cardinality(T) \in Nat
  BY <1>1, FS_CardinalityType
<1>3. S \subseteq T => Cardinality(S) <= Cardinality(T)
  BY <1>1, FS_Subset
<1>4. T \subseteq S => Cardinality(T) <= Cardinality(S) /\ (Cardinality(S) = Cardinality(T) => S = T)
  BY <1>1, FS_Subset
<1>5. QED
  BY <1>2, <1>3, <1>4

(* Deleted memories stay deleted, so an intact namespace always was one,   *)
(* and it has only grown.                                                  *)
LEMMA Grows ==
    ASSUME FreshInv, [Next]_vars, Intact'
    PROVE  Intact /\ Live \subseteq Live'
<1>1. ASSUME NEW m \in Mems, Insert(m) \/ Commit(m) \/ Delete(m)
      PROVE  Intact /\ Live \subseteq Live'
  BY <1>1 DEF FreshInv, Intact, Live, Insert, Commit, Delete
<1>2. ASSUME NEW m \in Mems, Pipeline(m) \/ Fail(m)
      PROVE  UNCHANGED mem
  BY <1>2 DEF Pipeline, Fail, SumRead, SumSkip, SumEnter, SumCovered,
     SumNovel, SumBullets, SumUnwritten, SumCommit, SynCount, SynGate, SynEmpty, SynUpdate,
     SynRetire, SynInsert, SynConflict, SynCommit
<1>3. UNCHANGED mem => Intact /\ Live \subseteq Live'
  BY DEF Intact, Live
<1>4. CASE Crash
  BY <1>4 DEF Crash, Intact, Live, FreshInv
<1>5. QED
  BY <1>1, <1>2, <1>3, <1>4 DEF Next, vars

LEMMA ChainGrows ==
    ASSUME Chain(Summaries), Live \subseteq Live', Summaries' \subseteq Summaries \cup {Live'}
    PROVE  Chain(Summaries)'
BY DEF Chain

(* What a pipeline inside the lock has read is no older than the summary.  *)
LEMMA PolicyRead ==
    ASSUME Shape, lastSum \in Nat, ReadOrder, NEW m \in Mems, pipe[m].pc \in {"gate", "gen"},
           policy.tier = "L3"
    PROVE  policy.src \subseteq pipe[m].seen
<1>1. policy.src \in SUBSET Mems /\ pipe[m].seen \in SUBSET Mems
  BY DEF Shape, Policies, Pipes
<1>2. policy.src \in Summaries /\ pipe[m].seen \in Summaries
  BY <1>1 DEF Summaries, Reading
<1>3. policy.src \subseteq pipe[m].seen \/ pipe[m].seen \subseteq policy.src
  BY <1>2 DEF ReadOrder, Chain
<1>4. CASE Cardinality(policy.src) <= lastSum
  <2>1. Cardinality(policy.src) <= Cardinality(pipe[m].seen)
    BY <1>1, <1>4, SizeOrder DEF ReadOrder, EnteredAhead
  <2>2. QED
    BY <1>1, <1>3, <2>1, SizeOrder
<1>5. QED
  BY <1>4 DEF ReadOrder, PolicyCounted, Reading

(* A pipeline moves on and nothing is counted or committed.                *)
LEMMA OrderMove ==
    ASSUME Shape, ReadOrder, Live \subseteq Live', NEW m \in Mems, NEW r \in Pipes, Step(m, r),
           UNCHANGED <<policy, lastSum>>, draft' = draft \/ draft'.row.tier # "L3",
           \/ r.pc \notin {"lock", "gate", "gen"}
           \/ /\ Reading(m) /\ r.seen = pipe[m].seen
              /\ r.pc \in {"gate", "gen"} => lastSum <= Cardinality(r.seen)
    PROVE  ReadOrder'
<1>1. pipe'[m] = r /\ \A x \in Mems \ {m} : pipe'[x] = pipe[x]
  BY DEF Shape, Step
<1>2. \A x \in Mems : Reading(x)' => Reading(x) /\ pipe'[x].seen = pipe[x].seen
  BY <1>1 DEF Reading
<1>3. Summaries' \subseteq Summaries
  BY <1>2 DEF Summaries
<1>4. PolicyCounted'
  BY <1>2 DEF ReadOrder, PolicyCounted
<1>5. DraftCounted'
  BY DEF ReadOrder, DraftCounted
<1>6. EnteredAhead'
  BY <1>1 DEF ReadOrder, EnteredAhead
<1>7. QED
  BY <1>3, <1>4, <1>5, <1>6, ChainGrows DEF ReadOrder

(* A pipeline reads the namespace as it is now.                            *)
LEMMA OrderRead ==
    ASSUME Shape, ReadOrder, Live \subseteq Live', NEW m \in Mems, NEW r \in Pipes, Step(m, r),
           UNCHANGED <<policy, lastSum, draft, mem>>, r.pc \notin {"gate", "gen"}, r.seen = Live
    PROVE  ReadOrder'
<1>1. pipe'[m] = r /\ \A x \in Mems \ {m} : pipe'[x] = pipe[x]
  BY DEF Shape, Step
<1>2. Live' = Live
  BY DEF Live
<1>3. Summaries' \subseteq Summaries \cup {Live'}
  BY <1>1, <1>2 DEF Summaries, Reading
<1>4. PolicyCounted'
  <2>1. policy.tier = "L3" => policy.src \subseteq Live
    BY DEF ReadOrder, Chain, Summaries, Shape, Policies
  <2>2. QED
    BY <1>1, <2>1 DEF ReadOrder, PolicyCounted, Reading
<1>5. DraftCounted'
  BY DEF ReadOrder, DraftCounted
<1>6. EnteredAhead'
  BY <1>1 DEF ReadOrder, EnteredAhead
<1>7. QED
  BY <1>3, <1>4, <1>5, <1>6, ChainGrows DEF ReadOrder

(* The pipeline inside the lock counts what it has read, and may write it. *)
LEMMA OrderCount ==
    ASSUME Shape, LocksMatch, lastSum \in Nat, ReadOrder, Live \subseteq Live', NEW m \in Mems,
           pipe[m].pc \in {"gate", "gen"}, NEW r \in Pipes, Step(m, r),
           r.pc \notin {"lock", "gate", "gen"}, lastSum' = Cardinality(pipe[m].seen),
           UNCHANGED policy, draft' = draft \/ draft'.row = SumRow(m)
    PROVE  ReadOrder'
<1>1. pipe'[m] = r /\ \A x \in Mems \ {m} : pipe'[x] = pipe[x]
  BY DEF Shape, Step
<1>2. \A x \in Mems : Reading(x)' => Reading(x) /\ pipe'[x].seen = pipe[x].seen
  BY <1>1 DEF Reading
<1>3. /\ pipe[m].seen \in SUBSET Mems /\ policy.src \in SUBSET Mems /\ draft.row.src \in SUBSET Mems
      /\ draft.row.tier = "L3" => Cardinality(draft.row.src) <= lastSum
      /\ lastSum <= Cardinality(pipe[m].seen)
  BY DEF Shape, Policies, Pipes, ReadOrder, DraftCounted, EnteredAhead
<1>4. policy.tier = "L3" => policy.src \subseteq pipe[m].seen
  BY PolicyRead
<1>5. draft' # draft /\ draft'.row.tier = "L3" => draft'.row.src = pipe[m].seen
  BY DEF SumRow
<1>6. Summaries' \subseteq Summaries
  BY <1>2, <1>3, <1>5 DEF Summaries, Reading
<1>7. PolicyCounted'
  BY <1>3, <1>4, SizeOrder DEF PolicyCounted
<1>8. DraftCounted'
  <2>1. CASE draft' = draft
    BY <1>3, <2>1, SizeOrder DEF ReadOrder, DraftCounted
  <2>2. CASE draft' # draft
    BY <1>3, <1>4, <1>5, <2>2, SizeOrder DEF DraftCounted
  <2>3. QED
    BY <2>1, <2>2
<1>9. EnteredAhead'
  BY <1>1 DEF LocksMatch, EnteredAhead
<1>10. QED
  BY <1>6, <1>7, <1>8, <1>9, ChainGrows DEF ReadOrder

(* The policy row is committed.                                            *)
LEMMA OrderPublish ==
    ASSUME Shape, ReadOrder, Live \subseteq Live', NEW m \in Mems, NEW r \in Pipes, Step(m, r),
           r.pc \notin {"lock", "gate", "gen"}, UNCHANGED lastSum, Publish(m)
    PROVE  ReadOrder'
<1>1. pipe'[m] = r /\ \A x \in Mems \ {m} : pipe'[x] = pipe[x]
  BY DEF Shape, Step
<1>2. \A x \in Mems : Reading(x)' => Reading(x) /\ pipe'[x].seen = pipe[x].seen
  BY <1>1 DEF Reading
<1>3. policy' = draft.row /\ draft'.row.tier # "L3"
  BY PipelineAssumption DEF Publish, NoDraft
<1>4. Summaries' \subseteq Summaries
  BY <1>2, <1>3 DEF Summaries
<1>5. PolicyCounted' /\ DraftCounted'
  BY <1>3 DEF ReadOrder, PolicyCounted, DraftCounted
<1>6. EnteredAhead'
  BY <1>1 DEF ReadOrder, EnteredAhead
<1>7. QED
  BY <1>4, <1>5, <1>6, ChainGrows DEF ReadOrder


LEMMA SumKeepsOrder ==
    ASSUME LockInv, lastSum \in Nat, ReadOrder, Live \subseteq Live', NEW m \in Mems,
           \/ SumRead(m) \/ SumSkip(m) \/ SumEnter(m) \/ SumCovered(m) \/ SumNovel(m)
           \/ SumBullets(m) \/ SumUnwritten(m) \/ SumCommit(m)
    PROVE  ReadOrder'
<1>1. /\ Shape /\ LocksMatch /\ pipe[m] \in Pipes /\ AfterL3 \in {"syn", "done"}
      /\ pipe[m].seen \in SUBSET Mems
  BY DEF LockInv, Shape, AfterL3, Pipes
<1>2. ASSUME NEW pc \in {"gate", "gen", "l3commit", "syn", "done"}, Goto(m, pc)
      PROVE  \E r \in Pipes : Step(m, r) /\ r.pc = pc /\ r.seen = pipe[m].seen
  <2> DEFINE r == [pipe[m] EXCEPT !.pc = pc]
  <2>1. r \in Pipes /\ r.pc = pc /\ r.seen = pipe[m].seen /\ Step(m, r)
    BY <1>1, <1>2 DEF Pipes, Phases, Goto
  <2> HIDE DEF r
  <2>2. QED
    BY <2>1
<1>3. CASE SumRead(m)
  <2> DEFINE pc == IF LlmEnabled /\ Cardinality(Live) >= SummaryThreshold THEN "lock" ELSE AfterL3
             r == [pipe[m] EXCEPT !.seen = Live, !.pc = pc]
  <2>1. pc \in {"lock", "syn", "done"} /\ Live \subseteq Mems /\ Step(m, r)
    BY <1>1, <1>3 DEF Live, SumRead
  <2> HIDE DEF pc
  <2>2. r \in Pipes /\ r.pc = pc /\ r.seen = Live
    BY <1>1, <2>1 DEF Pipes, Phases
  <2>3. UNCHANGED <<policy, lastSum, draft, mem>>
    BY <1>3 DEF SumRead
  <2> HIDE DEF r
  <2>4. QED
    BY <1>1, <2>1, <2>2, <2>3, OrderRead
<1>4. CASE SumSkip(m) \/ SumUnwritten(m)
  <2>1. UNCHANGED <<policy, lastSum, draft>> /\ Goto(m, AfterL3)
    BY <1>4 DEF SumSkip, SumUnwritten
  <2>2. QED
    BY <1>1, <1>2, <2>1, OrderMove
<1>5. CASE SumEnter(m)
  <2>1. UNCHANGED <<policy, lastSum, draft>> /\ Goto(m, "gate") /\ Reading(m) /\ ~Debounced(m)
    BY <1>5 DEF SumEnter, At, Reading
  <2>2. Cardinality(pipe[m].seen) \in Nat
    BY <1>1, SizeOrder
  <2>3. lastSum <= Cardinality(pipe[m].seen)
    BY <2>1, <2>2, PipelineAssumption DEF Debounced
  <2>4. QED
    BY <1>1, <1>2, <2>1, <2>3, OrderMove
<1>6. CASE SumNovel(m)
  <2>1. UNCHANGED <<policy, lastSum, draft>> /\ Goto(m, "gen") /\ Reading(m)
        /\ lastSum <= Cardinality(pipe[m].seen)
    BY <1>6 DEF SumNovel, At, Reading, ReadOrder, EnteredAhead
  <2>2. QED
    BY <1>1, <1>2, <2>1, OrderMove
<1>7. CASE SumCovered(m)
  <2>1. /\ UNCHANGED <<policy, draft>> /\ Goto(m, AfterL3) /\ pipe[m].pc \in {"gate", "gen"}
        /\ lastSum' = Cardinality(pipe[m].seen)
    BY <1>7 DEF SumCovered, At, NextCount
  <2>2. QED
    BY <1>1, <1>2, <2>1, OrderCount
<1>8. CASE SumBullets(m)
  <2>1. /\ UNCHANGED policy /\ Goto(m, "l3commit") /\ pipe[m].pc \in {"gate", "gen"}
        /\ lastSum' = Cardinality(pipe[m].seen) /\ draft'.row = SumRow(m)
    BY <1>8 DEF SumBullets, At, NextCount, Upsert
  <2>2. QED
    BY <1>1, <1>2, <2>1, OrderCount
<1>9. CASE SumCommit(m)
  <2>1. UNCHANGED lastSum /\ Goto(m, AfterL3) /\ Publish(m)
    BY <1>9 DEF SumCommit
  <2>2. QED
    BY <1>1, <1>2, <2>1, OrderPublish
<1>10. QED
  BY <1>3, <1>4, <1>5, <1>6, <1>7, <1>8, <1>9

LEMMA SynKeepsOrder ==
    ASSUME LockInv, ReadOrder, Live \subseteq Live', NEW m \in Mems,
           \/ SynCount(m) \/ SynGate(m) \/ SynEmpty(m) \/ SynUpdate(m) \/ SynRetire(m)
           \/ SynInsert(m) \/ SynConflict(m) \/ SynCommit(m) \/ Fail(m) \/ Insert(m)
    PROVE  ReadOrder'
<1>1. /\ Shape /\ pipe[m] \in Pipes /\ Live \subseteq Mems /\ ActiveConcepts \subseteq Mems
      /\ Stopped.pc = "done"
  BY DEF LockInv, Shape, Live, ActiveConcepts, Stopped
<1>2. UNCHANGED lastSum
  BY DEF SynCount, SynGate, SynEmpty, SynUpdate, SynRetire, SynInsert, SynConflict, SynCommit,
         Fail, Insert
<1>3. \E r \in Pipes : Step(m, r) /\ r.pc \notin {"lock", "gate", "gen"}
  <2>1. CASE SynEmpty(m) \/ SynConflict(m) \/ SynCommit(m) \/ Fail(m)
    BY <1>1, <2>1, StoppedType DEF SynEmpty, SynConflict, SynCommit, Fail
  <2>2. CASE SynCount(m)
    <3> DEFINE pc == IF Cardinality(Live) >= SynthThreshold THEN "syngate" ELSE "done"
               r == [pipe[m] EXCEPT !.seen = Live, !.pc = pc]
    <3>1. pc \in {"syngate", "done"} /\ Step(m, r)
      BY <2>2 DEF SynCount
    <3> HIDE DEF pc
    <3>2. r \in Pipes /\ r.pc = pc
      BY <1>1, <3>1 DEF Pipes, Phases
    <3> HIDE DEF r
    <3>3. QED
      BY <3>1, <3>2
  <2>3. CASE SynGate(m)
    <3> DEFINE r == [pipe[m] EXCEPT !.pc = "synth", !.src = Live]
    <3>1. r \in Pipes /\ r.pc = "synth"
      BY <1>1 DEF Pipes, Phases
    <3>2. Step(m, r) \/ Step(m, Stopped)
      BY <2>3 DEF SynGate
    <3> HIDE DEF r
    <3>3. QED
      BY <1>1, <3>1, <3>2, StoppedType
  <2>4. CASE SynUpdate(m)
    <3> DEFINE r == [pipe[m] EXCEPT !.pc = "retire", !.todo = ActiveConcepts]
    <3>1. r \in Pipes /\ r.pc = "retire" /\ Step(m, r)
      BY <1>1, <2>4 DEF Pipes, Phases, SynUpdate
    <3> HIDE DEF r
    <3>2. QED
      BY <3>1
  <2>5. CASE SynRetire(m)
    <3> DEFINE gone == pipe[m].todo \cap ActiveConcepts
               r == [pipe[m] EXCEPT !.pc = "insert", !.todo = {}, !.retired = gone]
    <3>1. Step(m, r) /\ gone \in SUBSET Mems
      BY <1>1, <2>5 DEF SynRetire
    <3> HIDE DEF gone
    <3>2. r \in Pipes /\ r.pc = "insert"
      BY <1>1, <3>1 DEF Pipes, Phases
    <3> HIDE DEF r
    <3>3. QED
      BY <3>1, <3>2
  <2>6. ASSUME NEW pc \in {"syncommit", "l3"}, Goto(m, pc)
        PROVE  \E r \in Pipes : Step(m, r) /\ r.pc \notin {"lock", "gate", "gen"}
    <3> DEFINE r == [pipe[m] EXCEPT !.pc = pc]
    <3>1. r \in Pipes /\ r.pc = pc /\ Step(m, r)
      BY <1>1, <2>6 DEF Pipes, Phases, Goto
    <3> HIDE DEF r
    <3>2. QED
      BY <3>1
  <2>7. CASE SynInsert(m) \/ Insert(m)
    BY <2>6, <2>7 DEF SynInsert, Insert
  <2>8. QED
    BY <2>1, <2>2, <2>3, <2>4, <2>5, <2>7
<1>4. CASE SynCommit(m)
  BY <1>1, <1>2, <1>3, <1>4, OrderPublish DEF SynCommit
<1>5. CASE ~SynCommit(m)
  <2>1. UNCHANGED policy /\ (draft' = draft \/ draft'.row.tier # "L3")
    BY <1>5, PipelineAssumption DEF SynCount, SynGate, SynEmpty, SynUpdate, SynRetire, SynInsert,
       SynConflict, Fail, Insert, Upsert, NoDraft
  <2>2. QED
    BY <1>1, <1>2, <1>3, <2>1, OrderMove
<1>6. QED
  BY <1>4, <1>5

LEMMA OtherKeepsOrder ==
    ASSUME LockInv, ReadOrder, Live \subseteq Live',
           \/ Crash \/ UNCHANGED vars \/ \E m \in Mems : Commit(m) \/ Delete(m)
    PROVE  ReadOrder'
<1>1. UNCHANGED policy
  BY DEF Crash, vars, Commit, Delete
<1>2. CASE Crash
  <2>1. \A x \in Mems : pipe'[x].pc \notin {"lock", "gate", "gen"}
    BY <1>2 DEF Crash, Running, Stopped
  <2>2. draft'.row.tier # "L3"
    BY <1>2, PipelineAssumption DEF Crash, NoDraft
  <2>3. Summaries' \subseteq Summaries
    BY <1>1, <2>1, <2>2 DEF Summaries, Reading
  <2>4. PolicyCounted' /\ DraftCounted' /\ EnteredAhead'
    BY <2>1, <2>2 DEF PolicyCounted, DraftCounted, EnteredAhead, Reading
  <2>5. QED
    BY <2>3, <2>4, ChainGrows DEF ReadOrder
<1>3. CASE UNCHANGED <<policy, draft, pipe, lastSum>>
  <2>1. Summaries' \subseteq Summaries
    BY <1>3 DEF Summaries, Reading
  <2>2. PolicyCounted' /\ DraftCounted' /\ EnteredAhead'
    BY <1>3 DEF ReadOrder, PolicyCounted, DraftCounted, EnteredAhead, Reading
  <2>3. QED
    BY <2>1, <2>2, ChainGrows DEF ReadOrder
<1>4. QED
  BY <1>2, <1>3 DEF vars, Commit, Delete

LEMMA StepKeepsOrder ==
    ASSUME LockInv, FreshInv, OrderInv, [Next]_vars
    PROVE  OrderInv'
<1>1. lastSum' \in Nat
  <2>1. \A m \in Mems : Cardinality(pipe[m].seen) \in Nat
    BY SizeOrder DEF LockInv, Shape, Pipes
  <2>2. CASE lastSum' = lastSum \/ lastSum' = 0 \/ \E m \in Mems : lastSum' = Cardinality(pipe[m].seen)
    BY <2>1, <2>2 DEF OrderInv
  <2>3. QED
    BY <2>2 DEF Next, Insert, Commit, Delete, Pipeline, Fail, SumRead, SumSkip, SumEnter, SumCovered,
       SumNovel, SumBullets, SumUnwritten, SumCommit, SynCount, SynGate, SynEmpty, SynUpdate,
       SynRetire, SynInsert, SynConflict, SynCommit, Crash, vars, NextCount
<1>2. ASSUME Intact'
      PROVE  ReadOrder'
  <2>1. ReadOrder /\ lastSum \in Nat /\ Live \subseteq Live'
    BY <1>2, Grows DEF OrderInv
  <2>2. ASSUME NEW m \in Mems, Pipeline(m) \/ Fail(m) \/ Insert(m)
        PROVE  ReadOrder'
    BY <2>1, <2>2, SumKeepsOrder, SynKeepsOrder DEF Pipeline
  <2>3. CASE Crash \/ UNCHANGED vars \/ \E m \in Mems : Commit(m) \/ Delete(m)
    BY <2>1, <2>3, OtherKeepsOrder
  <2>4. QED
    BY <2>2, <2>3 DEF Next
<1>3. QED
  BY <1>1, <1>2 DEF OrderInv

LEMMA StepKeepsNewest ==
    ASSUME LockInv, OrderInv, [Next]_vars, Intact, policy.tier = "L3", policy'.tier = "L3"
    PROVE  policy.src \subseteq policy'.src
<1>1. policy' = policy \/ policy' = draft.row
  BY DEF Next, Insert, Commit, Delete, Pipeline, Fail, SumRead, SumSkip, SumEnter, SumCovered,
     SumNovel, SumBullets, SumUnwritten, SumCommit, SynCount, SynGate, SynEmpty, SynUpdate,
     SynRetire, SynInsert, SynConflict, SynCommit, Crash, vars, Publish
<1>2. QED
  BY <1>1 DEF OrderInv, ReadOrder, DraftCounted

(* As long as no memory was deleted, no L3 summary is replaced by one of   *)
(* an older read of the namespace, however late a pipeline gets the lock   *)
(* and the policy row, and through failures and restarts that reset the    *)
(* debounce counter.                                                       *)
THEOREM SummaryOnlyGrows == Spec => SummaryNeverOlder
<1>1. Init => OrderInv
  <2> SUFFICES ASSUME Init PROVE OrderInv
    OBVIOUS
  <2>1. \A m \in Mems : pipe[m].pc = "none"
    BY DEF Init, Stopped
  <2>2. policy.tier # "L3" /\ draft.row.tier # "L3" /\ lastSum = 0
    BY PipelineAssumption DEF Init, NoDraft
  <2>3. Summaries = {}
    BY <2>1, <2>2 DEF Summaries, Reading
  <2>4. QED
    BY <2>1, <2>2, <2>3 DEF OrderInv, ReadOrder, Chain, PolicyCounted, DraftCounted, EnteredAhead
<1>2. LockInv /\ FreshInv /\ OrderInv /\ [Next]_vars => OrderInv'
  BY StepKeepsOrder
<1>3. LockInv /\ OrderInv /\ [Next]_vars =>
         [(\A m \in Mems : mem[m] # "gone") /\ policy.tier = "L3" /\ policy'.tier = "L3"
            => policy.src \subseteq policy'.src]_vars
  BY StepKeepsNewest DEF Intact
<1>4. QED
  BY <1>1, <1>2, <1>3, Invariance, PTL DEF Spec, SummaryNeverOlder


=============================================================================
