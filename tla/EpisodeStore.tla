----------------------------- MODULE EpisodeStore -----------------------------
(***************************************************************************)
(* What a StorageBackend of the embedded library promises about the        *)
(* lifetime of an episode (kemory/storage/base.py): once it is added it is *)
(* live until it is invalidated, or fades, from where an access may bring  *)
(* it back.  An access is not one step: it reads a faded episode, and may  *)
(* bring it back although it was invalidated in the meantime.  Several     *)
(* episodes may move in one commit.                                        *)
(***************************************************************************)
CONSTANT Ids       \* episode ids

VARIABLES
    life,     \* what is stored of each episode
    recalled  \* episodes that accesses under way have read as faded

\* The moves one commit may make without an access, and those of an access;
\* what is brought back may fade or be invalidated again before the commit.
Moves   == {<<"absent", "live">>, <<"live", "gone">>, <<"live", "faded">>}
Returns == {<<"faded", "live">>, <<"faded", "gone">>, <<"gone", "live">>, <<"gone", "faded">>}

Init == life = [e \in Ids |-> "absent"] /\ recalled = {}

Next ==
    /\ life' \in [Ids -> {"absent", "live", "faded", "gone"}]
    /\ \A e \in Ids :
          \/ life'[e] = life[e]
          \/ <<life[e], life'[e]>> \in Moves
          \/ e \in recalled /\ <<life[e], life'[e]>> \in Returns
    /\ \A e \in recalled' \ recalled : life[e] \in {"live", "faded"}

Spec == Init /\ [][Next]_<<life, recalled>>
=============================================================================
