-------------------------- MODULE MCSessionContext --------------------------
(* Instances of SessionContext for TLC. *)
EXTENDS SessionContext, TLC

\* Two memories around a chat of three turns; the last memory stands for the
\* assistant's turn.
McItems      == 1..5
McKind       == <<"user", "memory", "user", "assistant", "memory">>
McSourceTurn == [i \in McItems |-> IF i = 5 THEN 4 ELSE None]
McSize       == <<1, 2, 1, 1, 2>>
McAsks       == {{}, {1, 4, 5}}
McWorkloads  == {{"contexts"}, {"context", "rehydrate", "removals"}, {"pipelines", "removals"}}
RequestsAreAlike == Permutations(Requests)
=============================================================================
