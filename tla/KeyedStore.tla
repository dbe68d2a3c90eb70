------------------------------ MODULE KeyedStore ------------------------------
(***************************************************************************)
(* What the memory table promises, without transactions: ids hold keys (a  *)
(* namespace and a content), no key is held twice, an id that was dropped  *)
(* is never used again.  MemoryVault implements it.                        *)
(***************************************************************************)
CONSTANTS Ids, Names, Values, Nothing

VARIABLES holds, dropped

kvars == <<holds, dropped>>

Keys == Names \X Values

Init == holds = [i \in Ids |-> Nothing] /\ dropped = {}

Free(k) == \A i \in Ids : holds[i] # k

Put(i, k) ==
    /\ holds[i] = Nothing /\ i \notin dropped /\ Free(k)
    /\ holds' = [holds EXCEPT ![i] = k]
    /\ UNCHANGED dropped

\* A change of content keeps the namespace.
Rekey(i, n, v, w) ==
    /\ holds[i] = <<n, v>> /\ Free(<<n, w>>)
    /\ holds' = [holds EXCEPT ![i] = <<n, w>>]
    /\ UNCHANGED dropped

Drop(i) ==
    /\ holds[i] # Nothing
    /\ holds' = [holds EXCEPT ![i] = Nothing]
    /\ dropped' = dropped \cup {i}

Next ==
    \/ \E i \in Ids, k \in Keys : Put(i, k)
    \/ \E i \in Ids, n \in Names, v, w \in Values : Rekey(i, n, v, w)
    \/ \E i \in Ids : Drop(i)

Spec == Init /\ [][Next]_kvars

=============================================================================
