--------------------------- MODULE MCChatLifecycle ---------------------------
(* Instances of ChatLifecycle for TLC. *)
EXTENDS ChatLifecycle, TLC

CONSTANTS inbox, bucket, work, home

NoPairs == {}
WorkHome == {<<work, home>>}
\* At most two of the requests and background tasks are under way.
TwoInFlight == Cardinality({p \in Procs : proc[p].pc # "idle"}) <= 2

Symmetry == Permutations(Reqs) \cup Permutations(Workers) \cup Permutations(Texts)
              \cup Permutations(Turns)
=============================================================================
