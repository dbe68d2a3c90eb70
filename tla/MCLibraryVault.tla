---------------------------- MODULE MCLibraryVault ----------------------------
(* Instances of LibraryVault for TLC. *)
EXTENDS LibraryVault, TLC

McLinks == {<<1, 2>>}

\* Contexts of a session, of all, and of a shorter list and another budget.
McContexts == {[sess |-> "s1", limit |-> 4, budget |-> 1], [sess |-> None, limit |-> 4, budget |-> 1],
               [sess |-> None, limit |-> 1, budget |-> 2]}
Mix(ops, eps, sess, faults) == [ops |-> ops, eps |-> eps, sess |-> sess, faults |-> faults]

\* Lifetimes; contexts of two sessions, also of more episodes than the
\* hash covers; failing indexes; conflicts;
\* reflections of a session that is forgotten; two workers on one session.
McMixes ==
    {Mix({"remember", "get", "forget", "prune"}, 2, {"s1", "s2"}, FALSE),
     Mix({"remember", "get", "prune", "context"}, 2, {"s1", "s2"}, FALSE),
     Mix({"remember", "forget", "context"}, 3, {"s1", "s2"}, FALSE),
     Mix({"observe", "get", "prune"}, 2, {"s1"}, TRUE),
     Mix({"remember", "forget", "link", "resolve", "prune"}, 2, {"s1"}, FALSE),
     Mix({"remember", "forget", "reflect"}, 3, {"s1"}, FALSE),
     Mix({"remember", "reflect"}, 4, {"s1"}, FALSE)}

Symmetry == Permutations(Tasks)
=============================================================================
