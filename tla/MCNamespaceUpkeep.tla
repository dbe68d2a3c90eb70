-------------------------- MODULE MCNamespaceUpkeep --------------------------
(* Instances of NamespaceUpkeep and SegmentScripts for TLC. *)
EXTENDS SegmentScripts

Mix(ops, ids, days, times, srcs, texts, passes) ==
    [ops |-> ops, ids |-> ids, days |-> days, times |-> times, srcs |-> srcs,
     texts |-> texts, passes |-> passes]

\* Passes of the worker and the trigger, over several pages and with concepts
\* (3 is one); compressed reads; walks along a timeline of a chat, its
\* memories and others; the scripts.
McMixes ==
    {Mix({"create", "delete", "policy"}, {2}, 2, {0}, {None}, {"x"}, {"worker", "trigger"}),
     Mix({"create", "delete"}, {2, 3}, 0, {0}, {None}, {"x"}, {"worker", "trigger"}),
     Mix({"create", "delete"}, {2, 3}, 2, {0}, {None}, {"x"}, {"worker"}),
     Mix({"create", "delete", "compressed"}, {2, 3}, 0, {0}, {None}, {"x"}, {}),
     Mix({"create", "update", "delete", "compressed"}, {2}, 0, {0}, {None}, {"x", "y"}, {}),
     Mix({"create", "delete", "retime", "walk"}, 1..3, 0, {0, 1}, {None, 1}, {"x"}, {}),
     Mix({"segments"}, {}, 0, {0}, {None}, {"x"}, {})}

\* Chat 1 with its memory 3, chat 2, and the direct memory 4 with the
\* content of 3.
McSource == 3 :> 1 @@ 4 :> None
McHash   == 3 :> "h" @@ 4 :> "h"

\* Two segments with different names, and a third name that is like the
\* first and has the entity of the second.
McNear      == {<<s, s>> : s \in {"deal", "deals", "ops"}} \cup {<<"deal", "deals">>, <<"deals", "deal">>}
McProposals == {[slug |-> "deal", entities |-> {"a"}], [slug |-> "ops", entities |-> {"b"}],
                [slug |-> "deals", entities |-> {"b"}]}
=============================================================================
