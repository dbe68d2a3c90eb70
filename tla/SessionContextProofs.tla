------------------------ MODULE SessionContextProofs ------------------------
(***************************************************************************)
(* Proofs about SessionContext, for any items, requests, budgets, batches  *)
(* and workloads.                                                          *)
(***************************************************************************)
EXTENDS SessionContext, FiniteSetTheorems, SequenceTheorems, WellFoundedInduction, TLAPS

-----------------------------------------------------------------------------
(* Folds over the subsets of a finite set, with a set or a function in the *)
(* place of what would be an operator.                                     *)

LEMMA LeastNat ==
    ASSUME NEW S \in SUBSET Nat, S # {}
    PROVE  \E n \in S : \A y \in S : n <= y
<1>1. PICK n \in S : \A y \in S : <<y, n>> \notin OpToRel(<, Nat)
  BY NatLessThanWellFounded, WFMin
<1>2. ASSUME NEW y \in S
      PROVE  n <= y
  <2>1. y \in Nat /\ n \in Nat /\ <<y, n>> \notin OpToRel(<, Nat)
    BY <1>1
  <2>2. QED
    BY <2>1 DEF OpToRel
<1>3. QED
  BY <1>2

LEMMA SetInduction ==
    ASSUME NEW T, 0 \in T, \A n \in Nat : n \in T => n + 1 \in T
    PROVE  Nat \subseteq T
<1> DEFINE Out == Nat \ T
<1>1. ASSUME Out # {}
      PROVE  FALSE
  <2>1. PICK n \in Out : \A y \in Out : n <= y
    BY <1>1, LeastNat
  <2>2. n - 1 \in Nat /\ n - 1 < n /\ (n - 1) + 1 = n
    OBVIOUS
  <2>3. n - 1 \in Out
    BY <2>2
  <2>4. QED
    BY <2>1, <2>2, <2>3
<1>2. QED
  BY <1>1

LEMMA SubsetSizes ==
    ASSUME NEW S, IsFiniteSet(S)
    PROVE  \A s \in SUBSET S : /\ IsFiniteSet(s) /\ Cardinality(s) \in Nat
                               /\ Cardinality(s) = 0 <=> s = {}
                               /\ Cardinality(s) <= Cardinality(S)
                               /\ \A x \in s : Cardinality(s \ {x}) = Cardinality(s) - 1
BY FS_Subset, FS_CardinalityType, FS_EmptySet, FS_RemoveElement

\* A family of subsets with the empty set and every set whose smaller ones
\* it has, has them all.
LEMMA SubsetInduction ==
    ASSUME NEW S, IsFiniteSet(S), NEW Q, {} \in Q,
           \A s \in SUBSET S : s # {} /\ (\A x \in s : s \ {x} \in Q) => s \in Q
    PROVE  SUBSET S \subseteq Q
<1> DEFINE T == {n \in Nat : \A s \in SUBSET S : Cardinality(s) = n => s \in Q}
<1>1. 0 \in T
  BY SubsetSizes
<1>2. ASSUME NEW n \in Nat, n \in T
      PROVE  n + 1 \in T
  <2>1. ASSUME NEW s \in SUBSET S, Cardinality(s) = n + 1
        PROVE  s \in Q
    <3>1. s # {} /\ \A x \in s : s \ {x} \in SUBSET S /\ Cardinality(s \ {x}) = n
      BY <2>1, SubsetSizes
    <3>2. \A x \in s : s \ {x} \in Q
      BY <1>2, <3>1
    <3>3. QED
      BY <3>1, <3>2
  <2>2. QED
    BY <2>1
<1> HIDE DEF T
<1>3. Nat \subseteq T
  BY <1>1, <1>2, SetInduction
<1>4. QED
  BY <1>3, SubsetSizes DEF T

\* A fold over the subsets of S: pk takes an element out, h adds it.
IsFold(S, A, base, h, pk) ==
    /\ IsFiniteSet(S) /\ base \in A /\ h \in [S -> [A -> A]]
    /\ pk \in [(SUBSET S) \ {{}} -> S] /\ \A s \in (SUBSET S) \ {{}} : pk[s] \in s

FoldsTo(S, A, base, h, pk, g) ==
    /\ g \in [SUBSET S -> A]
    /\ \A s \in SUBSET S : g[s] = IF s = {} THEN base ELSE h[pk[s]][g[s \ {pk[s]}]]

\* It has a value for every subset.
LEMMA FoldExists ==
    ASSUME NEW S, NEW A, NEW base, NEW h, NEW pk, IsFold(S, A, base, h, pk)
    PROVE  \E g : FoldsTo(S, A, base, h, pk, g)
<1> DEFINE Sub(n) == {s \in SUBSET S : Cardinality(s) <= n}
           Eq(g, n) == \A s \in Sub(n) : g[s] = IF s = {} THEN base ELSE h[pk[s]][g[s \ {pk[s]}]]
           T == {n \in Nat : \E g \in [Sub(n) -> A] : Eq(g, n)}
<1>0. /\ IsFiniteSet(S) /\ base \in A /\ h \in [S -> [A -> A]]
      /\ pk \in [(SUBSET S) \ {{}} -> S] /\ \A s \in (SUBSET S) \ {{}} : pk[s] \in s
  BY DEF IsFold
<1> USE <1>0
<1>1. 0 \in T
  <2> DEFINE g == [s \in Sub(0) |-> base]
  <2>1. \A s \in Sub(0) : s = {}
    BY SubsetSizes
  <2>2. g \in [Sub(0) -> A] /\ Eq(g, 0)
    BY <2>1
  <2>3. QED
    BY <2>2
<1>2. ASSUME NEW n \in Nat, n \in T
      PROVE  n + 1 \in T
  <2>1. PICK g \in [Sub(n) -> A] : Eq(g, n)
    BY <1>2
  <2> DEFINE k == [s \in Sub(n + 1) |-> IF s = {} THEN base ELSE h[pk[s]][g[s \ {pk[s]}]]]
  <2>2. ASSUME NEW s \in Sub(n + 1), s # {}
        PROVE  s \ {pk[s]} \in Sub(n) /\ s \ {pk[s]} \in Sub(n + 1) /\ pk[s] \in S
    <3>1. pk[s] \in s
      BY <2>2
    <3>2. Cardinality(s) \in Nat /\ Cardinality(s \ {pk[s]}) = Cardinality(s) - 1
      BY <3>1, SubsetSizes
    <3>3. QED
      BY <3>1, <3>2
  <2>3. k \in [Sub(n + 1) -> A]
    <3>1. ASSUME NEW s \in Sub(n + 1)
          PROVE  (IF s = {} THEN base ELSE h[pk[s]][g[s \ {pk[s]}]]) \in A
      <4>1. CASE s # {}
        <5>1. g[s \ {pk[s]}] \in A /\ h[pk[s]] \in [A -> A]
          BY <2>2, <4>1
        <5>2. QED
          BY <4>1, <5>1
      <4>2. QED
        BY <4>1
    <3>2. QED
      BY <3>1
  <2>4. \A s \in Sub(n) : s \in Sub(n + 1) /\ k[s] = g[s]
    <3> TAKE s \in Sub(n)
    <3>1. s \in Sub(n + 1)
      BY SubsetSizes
    <3>2. QED
      BY <3>1, <2>1
  <2>5. Eq(k, n + 1)
    <3> SUFFICES ASSUME NEW s \in Sub(n + 1)
                 PROVE  k[s] = IF s = {} THEN base ELSE h[pk[s]][k[s \ {pk[s]}]]
      OBVIOUS
    <3>1. CASE s = {}
      BY <3>1
    <3>2. CASE s # {}
      <4>1. k[s \ {pk[s]}] = g[s \ {pk[s]}]
        BY <3>2, <2>2, <2>4
      <4>2. k[s] = h[pk[s]][g[s \ {pk[s]}]]
        BY <3>2
      <4> HIDE DEF k
      <4>3. QED
        BY <3>2, <4>1, <4>2
    <3>3. QED
      BY <3>1, <3>2
  <2> HIDE DEF k, Eq, Sub
  <2>6. \E z \in [Sub(n + 1) -> A] : Eq(z, n + 1)
    BY <2>3, <2>5
  <2>7. QED
    BY <2>6
<1>3. Nat \subseteq T
  <2> HIDE DEF T
  <2>1. QED
    BY <1>1, <1>2, SetInduction
<1>4. Cardinality(S) \in T
  BY <1>3, SubsetSizes
<1>5. PICK g \in [Sub(Cardinality(S)) -> A] : Eq(g, Cardinality(S))
  BY <1>4
<1>6. Sub(Cardinality(S)) = SUBSET S
  BY SubsetSizes
<1>7. QED
  BY <1>5, <1>6 DEF FoldsTo

LEMMA MaxIn ==
    ASSUME NEW S \in SUBSET Nat, IsFiniteSet(S), S # {}
    PROVE  Max(S) \in S /\ \A y \in S : y <= Max(S)
<1> DEFINE Q == {s \in SUBSET S : s = {} \/ \E m \in s : \A y \in s : m >= y}
<1>1. {} \in Q
  OBVIOUS
<1>2. ASSUME NEW s \in SUBSET S, s # {}, \A x \in s : s \ {x} \in Q
      PROVE  s \in Q
  <2>1. PICK x \in s : TRUE
    BY <1>2
  <2>2. CASE s \ {x} = {}
    <3>1. \A y \in s : x >= y
      BY <2>2
    <3>2. QED
      BY <3>1
  <2>3. CASE s \ {x} # {}
    <3>1. PICK m \in s \ {x} : \A y \in s \ {x} : m >= y
      BY <1>2, <2>3
    <3>2. m \in Nat /\ x \in Nat /\ \A y \in s : y \in Nat
      OBVIOUS
    <3>3. (\A y \in s : m >= y) \/ (\A y \in s : x >= y)
      BY <3>1, <3>2
    <3>4. QED
      BY <3>1, <3>3
  <2>4. QED
    BY <2>2, <2>3
<1> HIDE DEF Q
<1>3. SUBSET S \subseteq Q
  BY <1>1, <1>2, SubsetInduction
<1>4. S \in Q
  BY <1>3
<1>5. QED
  BY <1>4 DEF Q, Max

-----------------------------------------------------------------------------
(* _pair_chat_turns                                                        *)

LEMMA ConstantsTyped ==
    /\ Items \subseteq Nat /\ IsFiniteSet(Items) /\ None \notin Items /\ None \notin Row
    /\ Turns \subseteq Items /\ Memories \subseteq Items /\ Turns \cap Memories = {}
    /\ Turns \cup Memories = Items
    /\ \A t \in Turns : t \in Nat /\ Kind[t] \in {"user", "assistant"}
    /\ BatchSize \in Nat \ {0} /\ MaxItems \in Nat \ {0} /\ RawBudget \in Nat \ {0}
    /\ Tails \subseteq Nat \ {0} /\ Budgets \subseteq Nat \ {0}
    /\ Size \in [Items -> Nat]
BY SessionAssumption DEF Turns, Memories, Row, Texts

\* The turn that waits for its answer after the turns of s, and the exchanges
\* that are complete.
Open(s)   == {u \in s : Kind[u] = "user" /\ \A v \in s : v <= u}
Led(s)    == UNION {Prompt(t, s) : t \in s}
Pair(t, s) == [id |-> t, covers |-> {t} \cup Prompt(t, s)]
Paired(acc, s) == acc = [out |-> {Pair(t, s) : t \in (s \ Led(s)) \ Open(s)}, user |-> Open(s)]

LEMMA OpenAlone ==
    ASSUME NEW s \in SUBSET Turns, NEW u \in Open(s)
    PROVE  u \in s \ Led(s) /\ Pair(u, s) = [id |-> u, covers |-> {u}]
<1>1. u \in s /\ Kind[u] = "user" /\ \A v \in s : v <= u
  BY DEF Open
<1>2. \A v \in s : v \in Nat
  BY ConstantsTyped
<1>3. \A t \in s : u \notin Prompt(t, s)
  BY <1>1, <1>2 DEF Prompt
<1>4. Prompt(u, s) = {}
  BY <1>1 DEF Prompt
<1>5. QED
  BY <1>1, <1>3, <1>4 DEF Led, Pair

LEMMA PairStep ==
    ASSUME NEW s \in SUBSET Turns, NEW t \in Turns, \A v \in s : v < t, NEW acc, Paired(acc, s)
    PROVE  Paired(PairTurn(acc, t), s \cup {t})
<1> DEFINE w == s \cup {t}
<1>0. t \notin s /\ \A v \in w : v \in Nat /\ Kind[v] \in {"user", "assistant"}
  BY ConstantsTyped
<1>1. ASSUME NEW x \in s
      PROVE  Prompt(x, w) = Prompt(x, s)
  BY <1>0, <1>1 DEF Prompt
<1>2. Prompt(t, w) = IF Kind[t] = "assistant" THEN Open(s) ELSE {}
  BY <1>0 DEF Prompt, Open
<1>3. Open(w) = IF Kind[t] = "user" THEN {t} ELSE {}
  BY <1>0 DEF Open
<1>4. Led(w) = Led(s) \cup Prompt(t, w)
  BY <1>1 DEF Led
<1>5. \A x \in s : Pair(x, w) = Pair(x, s)
  BY <1>1 DEF Pair
<1>6. t \notin Led(s) /\ t \notin Open(s) /\ Open(s) \subseteq s
  BY <1>0 DEF Led, Open, Prompt
<1>7. CASE Kind[t] = "user"
  <2>1. (w \ Led(w)) \ Open(w) = s \ Led(s)
    BY <1>0, <1>2, <1>3, <1>4, <1>6, <1>7
  <2>2. {Pair(x, w) : x \in s \ Led(s)}
          = {Pair(x, s) : x \in (s \ Led(s)) \ Open(s)} \cup {[id |-> u, covers |-> {u}] : u \in Open(s)}
    <3>1. \A u \in Open(s) : u \in s \ Led(s) /\ Pair(u, s) = [id |-> u, covers |-> {u}]
      BY OpenAlone
    <3>2. {Pair(x, w) : x \in s \ Led(s)} = {Pair(x, s) : x \in s \ Led(s)}
      BY <1>5
    <3>3. {Pair(u, s) : u \in Open(s)} = {[id |-> u, covers |-> {u}] : u \in Open(s)}
      BY <3>1
    <3> HIDE DEF w
    <3>4. QED
      BY <3>1, <3>2, <3>3
  <2>3. QED
    BY <1>3, <1>7, <2>1, <2>2 DEF Paired, PairTurn, Flush
<1>8. CASE Kind[t] = "assistant"
  <2>1. (w \ Led(w)) \ Open(w) = ((s \ Led(s)) \ Open(s)) \cup {t}
    BY <1>0, <1>2, <1>3, <1>4, <1>6, <1>8
  <2>2. Pair(t, w) = [id |-> t, covers |-> Open(s) \cup {t}]
    BY <1>2, <1>8 DEF Pair
  <2>3. {Pair(x, w) : x \in ((s \ Led(s)) \ Open(s)) \cup {t}}
          = {Pair(x, s) : x \in (s \ Led(s)) \ Open(s)} \cup {[id |-> t, covers |-> Open(s) \cup {t}]}
    BY <1>5, <2>2
  <2>4. QED
    BY <1>3, <1>8, <2>1, <2>3 DEF Paired, PairTurn
<1>9. QED
  BY <1>0, <1>7, <1>8

PairFold(S, g) ==
    g = [s \in SUBSET S |-> IF s = {} THEN [out |-> {}, user |-> {}]
                            ELSE PairTurn(g[s \ {Max(s)}], Max(s))]

LEMMA PairsOfTurns ==
    ASSUME NEW S \in SUBSET Turns
    PROVE  PairChatTurns(S) = Pairs(S)
<1> DEFINE A  == [out : SUBSET Exchange, user : SUBSET Items]
           h  == [t \in S |-> [a \in A |-> PairTurn(a, t)]]
           pk == [s \in (SUBSET S) \ {{}} |-> Max(s)]
           G  == CHOOSE g : PairFold(S, g)
           base == [out |-> {}, user |-> {}]
<1>1. IsFiniteSet(S) /\ S \subseteq Nat /\ S \subseteq Items
  BY ConstantsTyped, FS_Subset
<1>2. \A s \in (SUBSET S) \ {{}} : Max(s) \in s /\ \A y \in s : y <= Max(s)
  <2> TAKE s \in (SUBSET S) \ {{}}
  <2>1. s \in SUBSET Nat /\ IsFiniteSet(s)
    BY <1>1, FS_Subset
  <2>2. QED
    BY <2>1, MaxIn
<1>3. \A t \in S, a \in A : PairTurn(a, t) \in A
  BY <1>1 DEF PairTurn, Flush, Exchange
<1>4. h \in [S -> [A -> A]] /\ pk \in [(SUBSET S) \ {{}} -> S] /\ base \in A
  BY <1>2, <1>3
<1>5. PICK g : FoldsTo(S, A, base, h, pk, g)
  <2> HIDE DEF A, h, base
  <2>1. \A s \in (SUBSET S) \ {{}} : pk[s] \in s
    BY <1>2
  <2> HIDE DEF pk
  <2>2. IsFold(S, A, base, h, pk)
    BY <1>1, <1>4, <2>1 DEF IsFold
  <2>3. QED
    BY <2>2, FoldExists
<1>6. PairFold(S, g)
  <2>1. ASSUME NEW s \in SUBSET S, s # {}
        PROVE  h[pk[s]][g[s \ {pk[s]}]] = PairTurn(g[s \ {Max(s)}], Max(s))
    <3>1. pk[s] = Max(s) /\ Max(s) \in S /\ s \ {Max(s)} \in SUBSET S
      BY <1>2, <2>1
    <3>2. g[s \ {Max(s)}] \in A
      BY <1>5, <3>1 DEF FoldsTo
    <3>3. QED
      BY <3>1, <3>2
  <2> HIDE DEF h, pk
  <2>2. QED
    BY <1>5, <2>1 DEF PairFold, FoldsTo
<1> HIDE DEF h, pk, A
<1>7. PairFold(S, G)
  BY <1>6
<1>8. PairChatTurns(S) = Flush(G[S])
  BY DEF PairChatTurns, MapThenFoldSet, PairFold
<1> HIDE DEF G
<1>9. \A s \in SUBSET S : G[s] = IF s = {} THEN base ELSE PairTurn(G[s \ {Max(s)}], Max(s))
  BY <1>7 DEF PairFold
<1> DEFINE Q == {s \in SUBSET S : Paired(G[s], s)}
<1>10. {} \in Q
  <2>1. G[{}] = base
    BY <1>9
  <2>2. Paired(base, {})
    BY DEF Paired, Open, Led
  <2>3. QED
    BY <2>1, <2>2
<1>11. ASSUME NEW s \in SUBSET S, s # {}, \A x \in s : s \ {x} \in Q
       PROVE  s \in Q
  <2> DEFINE t == Max(s)
             r == s \ {t}
  <2>1. t \in s /\ t \in Turns /\ r \in SUBSET Turns /\ r \cup {t} = s
    BY <1>2, <1>11
  <2>2. ASSUME NEW v \in r
        PROVE  v < t
    <3>1. v \in Nat /\ t \in Nat /\ v # t
      BY <1>1, <2>1
    <3>2. v <= t
      BY <1>2, <1>11
    <3> HIDE DEF t
    <3>3. QED
      BY <3>1, <3>2
  <2>3. Paired(G[r], r)
    BY <1>11, <2>1
  <2>4. G[s] = PairTurn(G[r], t)
    BY <1>9, <1>11
  <2> HIDE DEF t, r
  <2>5. QED
    BY <2>1, <2>2, <2>3, <2>4, PairStep
<1> HIDE DEF Q
<1>12. S \in Q
  BY <1>1, <1>10, <1>11, SubsetInduction
<1>13. Paired(G[S], S)
  BY <1>12 DEF Q
<1>14. Flush(G[S]) = {Pair(t, S) : t \in (S \ Led(S)) \ Open(S)}
                       \cup {[id |-> u, covers |-> {u}] : u \in Open(S)}
  BY <1>13 DEF Paired, Flush
<1>15. \A u \in Open(S) : u \in S \ Led(S) /\ Pair(u, S) = [id |-> u, covers |-> {u}]
  BY OpenAlone
<1>16. Flush(G[S]) = {Pair(t, S) : t \in S \ Led(S)}
  <2>1. {Pair(u, S) : u \in Open(S)} = {[id |-> u, covers |-> {u}] : u \in Open(S)}
    BY <1>15
  <2>2. QED
    BY <1>14, <1>15, <2>1
<1>17. QED
  BY <1>8, <1>16 DEF Pairs, Pair, Led

-----------------------------------------------------------------------------
(* The tokens of a set of items                                            *)

\* The element a fold takes out of a set.
Pick(s) == CHOOSE x \in s : TRUE

SumFold(S, g) == g = [s \in SUBSET S |-> IF s = {} THEN 0 ELSE Size[Pick(s)] + g[s \ {Pick(s)}]]
SumOf(S) == CHOOSE g : SumFold(S, g)

Tokens(S) == SumFunctionOnSet(Size, S)

LEMMA SumUnfolds ==
    ASSUME NEW S \in SUBSET Items
    PROVE  \A s \in SUBSET S :
              /\ SumOf(S)[s] \in Nat
              /\ SumOf(S)[s] = IF s = {} THEN 0 ELSE Size[Pick(s)] + SumOf(S)[s \ {Pick(s)}]
<1> DEFINE h  == [x \in S |-> [a \in Nat |-> Size[x] + a]]
           pk == [s \in (SUBSET S) \ {{}} |-> Pick(s)]
           G  == SumOf(S)
<1>1. IsFiniteSet(S) /\ \A x \in S : Size[x] \in Nat
  BY ConstantsTyped, FS_Subset
<1>2. \A s \in (SUBSET S) \ {{}} : Pick(s) \in s
  BY DEF Pick
<1>3. h \in [S -> [Nat -> Nat]] /\ pk \in [(SUBSET S) \ {{}} -> S] /\ 0 \in Nat
  BY <1>1, <1>2
<1>4. PICK g : FoldsTo(S, Nat, 0, h, pk, g)
  <2>1. \A s \in (SUBSET S) \ {{}} : pk[s] \in s
    BY <1>2
  <2> HIDE DEF h, pk
  <2>2. IsFold(S, Nat, 0, h, pk)
    BY <1>1, <1>3, <2>1 DEF IsFold
  <2>3. QED
    BY <2>2, FoldExists
<1>5. SumFold(S, g)
  <2>1. ASSUME NEW s \in SUBSET S, s # {}
        PROVE  h[pk[s]][g[s \ {pk[s]}]] = Size[Pick(s)] + g[s \ {Pick(s)}]
    <3>1. pk[s] = Pick(s) /\ Pick(s) \in S /\ s \ {Pick(s)} \in SUBSET S
      BY <1>2, <2>1
    <3>2. g[s \ {Pick(s)}] \in Nat
      BY <1>4, <3>1 DEF FoldsTo
    <3>3. QED
      BY <3>1, <3>2
  <2> HIDE DEF h, pk
  <2>2. QED
    BY <1>4, <2>1 DEF SumFold, FoldsTo
<1>6. SumFold(S, G)
  BY <1>5 DEF SumOf
<1> HIDE DEF G
<1>7. \A s \in SUBSET S : G[s] = IF s = {} THEN 0 ELSE Size[Pick(s)] + G[s \ {Pick(s)}]
  BY <1>6 DEF SumFold
<1> DEFINE Q == {s \in SUBSET S : G[s] \in Nat}
<1>8. {} \in Q
  <2>1. G[{}] = 0
    BY <1>7
  <2>2. QED
    BY <2>1
<1>9. ASSUME NEW s \in SUBSET S, s # {}, \A x \in s : s \ {x} \in Q
      PROVE  s \in Q
  <2>1. G[s \ {Pick(s)}] \in Nat /\ Size[Pick(s)] \in Nat
    BY <1>1, <1>2, <1>9
  <2>2. G[s] = Size[Pick(s)] + G[s \ {Pick(s)}]
    BY <1>7, <1>9
  <2>3. G[s] \in Nat
    BY <2>1, <2>2
  <2>4. QED
    BY <2>3
<1> HIDE DEF Q
<1>10. SUBSET S \subseteq Q
  BY <1>1, <1>8, <1>9, SubsetInduction
<1>11. QED
  BY <1>7, <1>10 DEF Q, G

\* The sum of a set does not depend on the set the fold is over.
LEMMA TokensOfSubset ==
    ASSUME NEW S \in SUBSET Items
    PROVE  Tokens(S) = SumOf(Items)[S]
<1> DEFINE g == SumOf(S)
           k == SumOf(Items)
           Q == {s \in SUBSET S : g[s] = k[s]}
<1>1. \A s \in SUBSET S : g[s] = IF s = {} THEN 0 ELSE Size[Pick(s)] + g[s \ {Pick(s)}]
  BY SumUnfolds
<1>2. \A s \in SUBSET S : k[s] = IF s = {} THEN 0 ELSE Size[Pick(s)] + k[s \ {Pick(s)}]
  BY SumUnfolds
<1>3. Tokens(S) = g[S]
  BY DEF Tokens, SumFunctionOnSet, FoldFunctionOnSet, MapThenFoldSet, SumOf, SumFold, Pick
<1> HIDE DEF g, k
<1>4. {} \in Q
  BY <1>1, <1>2
<1>5. ASSUME NEW s \in SUBSET S, s # {}, \A x \in s : s \ {x} \in Q
      PROVE  s \in Q
  <2>1. g[s \ {Pick(s)}] = k[s \ {Pick(s)}]
    BY <1>5 DEF Pick
  <2>2. QED
    BY <1>1, <1>2, <1>5, <2>1
<1>6. IsFiniteSet(S)
  BY ConstantsTyped, FS_Subset
<1> HIDE DEF Q
<1>7. S \in Q
  BY <1>4, <1>5, <1>6, SubsetInduction
<1>8. QED
  BY <1>3, <1>7 DEF Q, k

\* Any element may be counted last.
LEMMA TokensAdd ==
    /\ Tokens({}) = 0 /\ \A S \in SUBSET Items : Tokens(S) \in Nat
    /\ \A S \in SUBSET Items, i \in Items : i \notin S => Tokens(S \cup {i}) = Tokens(S) + Size[i]
<1> DEFINE g == SumOf(Items)
           Q == {s \in SUBSET Items : \A x \in s : g[s] = Size[x] + g[s \ {x}]}
<1>1. \A s \in SUBSET Items :
         g[s] \in Nat /\ g[s] = IF s = {} THEN 0 ELSE Size[Pick(s)] + g[s \ {Pick(s)}]
  BY SumUnfolds
<1>2. \A s \in SUBSET Items : Tokens(s) = g[s]
  BY TokensOfSubset
<1> HIDE DEF g
<1>3. {} \in Q
  OBVIOUS
<1>4. ASSUME NEW s \in SUBSET Items, s # {}, \A x \in s : s \ {x} \in Q
      PROVE  s \in Q
  <2> DEFINE p == Pick(s)
  <2>1. p \in s /\ g[s] = Size[p] + g[s \ {p}]
    BY <1>1, <1>4 DEF Pick
  <2> HIDE DEF p
  <2>2. ASSUME NEW x \in s, x # p
        PROVE  g[s] = Size[x] + g[s \ {x}]
    <3>1. g[s \ {p}] = Size[x] + g[(s \ {p}) \ {x}]
      BY <1>4, <2>1, <2>2
    <3>2. g[s \ {x}] = Size[p] + g[(s \ {x}) \ {p}]
      BY <1>4, <2>1, <2>2
    <3>3. (s \ {p}) \ {x} = (s \ {x}) \ {p} /\ (s \ {p}) \ {x} \in SUBSET Items
      OBVIOUS
    <3>4. g[(s \ {p}) \ {x}] \in Nat /\ Size[x] \in Nat /\ Size[p] \in Nat
      BY <1>1, <2>1, <3>3, ConstantsTyped
    <3> DEFINE z == g[(s \ {p}) \ {x}]
    <3>5. g[s] = Size[p] + (Size[x] + z) /\ g[s \ {x}] = Size[p] + z /\ z \in Nat
      BY <2>1, <3>1, <3>2, <3>3, <3>4
    <3> HIDE DEF z
    <3>6. QED
      BY <3>4, <3>5
  <2>3. QED
    BY <2>1, <2>2
<1> HIDE DEF Q
<1>5. SUBSET Items \subseteq Q
  <2>1. IsFiniteSet(Items)
    BY ConstantsTyped
  <2>2. QED
    BY <1>3, <1>4, <2>1, SubsetInduction
<1>6. ASSUME NEW S \in SUBSET Items, NEW i \in Items, i \notin S
      PROVE  Tokens(S \cup {i}) = Tokens(S) + Size[i]
  <2>1. S \cup {i} \in Q /\ S \cup {i} \in SUBSET Items /\ (S \cup {i}) \ {i} = S
    BY <1>5, <1>6
  <2>2. g[S \cup {i}] = Size[i] + g[S]
    BY <2>1 DEF Q
  <2>3. g[S] \in Nat /\ Size[i] \in Nat
    BY <1>1, ConstantsTyped
  <2>4. QED
    BY <1>2, <2>1, <2>2, <2>3
<1>7. QED
  BY <1>1, <1>2, <1>6

-----------------------------------------------------------------------------
(* _fit_rehydrated_sources_to_budget                                       *)

FitType == [selected : SUBSET Items, omitted : SUBSET Items, used : Nat]

\* What has been taken and left of the sources s.
Fitted(acc, s) ==
    /\ acc \in FitType /\ acc.selected \cup acc.omitted = s
    /\ acc.used = Tokens(acc.selected) /\ acc.used <= RawBudget
    /\ Cardinality(acc.selected) <= MaxItems
    /\ \A i \in acc.omitted : \/ acc.used + Size[i] > RawBudget
                              \/ Cardinality(acc.selected) = MaxItems

LEMMA FitStep ==
    ASSUME NEW s \in SUBSET Items, NEW i \in Items, i \notin s, NEW acc, Fitted(acc, s)
    PROVE  Fitted(FitSource(acc, i), s \cup {i})
<1>1. /\ acc \in FitType /\ acc.selected \cup acc.omitted = s
      /\ acc.used = Tokens(acc.selected) /\ acc.used <= RawBudget
      /\ Cardinality(acc.selected) <= MaxItems
      /\ \A j \in acc.omitted : acc.used + Size[j] > RawBudget \/ Cardinality(acc.selected) = MaxItems
  BY DEF Fitted
<1>2. /\ MaxItems \in Nat /\ RawBudget \in Nat /\ acc.used \in Nat
      /\ acc.selected \in SUBSET Items /\ acc.omitted \in SUBSET Items /\ i \notin acc.selected
      /\ Size[i] \in Nat /\ \A j \in acc.omitted : Size[j] \in Nat
  BY <1>1, ConstantsTyped DEF FitType
<1>3. IsFiniteSet(acc.selected)
  BY <1>2, ConstantsTyped, FS_Subset
<1>4. /\ Cardinality(acc.selected) \in Nat
      /\ Cardinality(acc.selected \cup {i}) = Cardinality(acc.selected) + 1
  BY <1>2, <1>3, FS_CardinalityType, FS_AddElement
<1>5. Tokens(acc.selected \cup {i}) = acc.used + Size[i]
  BY <1>1, <1>2, TokensAdd
<1>6. CASE Cardinality(acc.selected) >= MaxItems \/ acc.used + Size[i] > RawBudget
  <2> DEFINE n == [acc EXCEPT !.omitted = @ \cup {i}]
  <2>1. FitSource(acc, i) = n
    BY <1>6 DEF FitSource
  <2>2. /\ n \in FitType /\ n.selected = acc.selected /\ n.omitted = acc.omitted \cup {i}
        /\ n.used = acc.used
    BY <1>1, <1>2 DEF FitType
  <2> HIDE DEF n
  <2>3. \A j \in n.omitted : n.used + Size[j] > RawBudget \/ Cardinality(n.selected) = MaxItems
    BY <1>1, <1>2, <1>4, <1>6, <2>2
  <2>4. QED
    BY <1>1, <2>1, <2>2, <2>3 DEF Fitted
<1>7. CASE ~(Cardinality(acc.selected) >= MaxItems \/ acc.used + Size[i] > RawBudget)
  <2> DEFINE n == [acc EXCEPT !.selected = @ \cup {i}, !.used = @ + Size[i]]
  <2>1. FitSource(acc, i) = n
    BY <1>7 DEF FitSource
  <2>2. /\ n \in FitType /\ n.selected = acc.selected \cup {i} /\ n.omitted = acc.omitted
        /\ n.used = acc.used + Size[i]
    <3>1. acc.selected \cup {i} \in SUBSET Items /\ acc.used + Size[i] \in Nat
      BY <1>2
    <3>2. QED
      BY <1>1, <3>1 DEF FitType
  <2> HIDE DEF n
  <2>3. Cardinality(n.selected) <= MaxItems /\ n.used <= RawBudget
    BY <1>2, <1>4, <1>7, <2>2
  <2>4. ASSUME NEW j \in n.omitted
        PROVE  n.used + Size[j] > RawBudget \/ Cardinality(n.selected) = MaxItems
    <3>1. acc.used + Size[j] > RawBudget
      BY <1>1, <1>2, <1>4, <1>7, <2>2, <2>4
    <3>2. QED
      BY <1>2, <2>2, <3>1
  <2>5. n.selected \cup n.omitted = s \cup {i} /\ n.used = Tokens(n.selected)
    BY <1>1, <1>5, <2>2
  <2>6. QED
    BY <2>1, <2>2, <2>3, <2>4, <2>5 DEF Fitted
<1>8. QED
  BY <1>6, <1>7

FitFold(order, D, g) ==
    g = [s \in SUBSET D |-> IF s = {} THEN [selected |-> {}, omitted |-> {}, used |-> 0]
                            ELSE FitSource(g[s \ {Max(s)}], order[Max(s)])]

LEMMA FitOfOrder ==
    ASSUME NEW S \in SUBSET Items, NEW order \in Orders(S)
    PROVE  Fitted(FoldLeft(FitSource, [selected |-> {}, omitted |-> {}, used |-> 0], order), S)
<1> DEFINE D  == 1..Cardinality(S)
           h  == [k \in D |-> [a \in FitType |-> FitSource(a, order[k])]]
           pk == [s \in (SUBSET D) \ {{}} |-> Max(s)]
           G  == CHOOSE g : FitFold(order, D, g)
           base == [selected |-> {}, omitted |-> {}, used |-> 0]
<1>0. IsFiniteSet(S)
  BY ConstantsTyped, FS_Subset
<1>1. Cardinality(S) \in Nat
  BY <1>0, FS_CardinalityType
<1>2. order \in [D -> S] /\ Range(order) = S /\ DOMAIN order = D
  BY DEF Orders
<1>3. IsFiniteSet(D) /\ Cardinality(D) = Cardinality(S)
  BY <1>1, FS_Interval
<1>4. \A k, l \in D : order[k] = order[l] => k = l
  <2>1. order \in Surjection(D, S)
    BY <1>2 DEF Surjection, Range
  <2>2. order \in Injection(D, S)
    BY <1>3, <2>1, FS_Surjection
  <2>3. QED
    BY <2>2 DEF Injection, IsInjective
<1>5. \A s \in (SUBSET D) \ {{}} : Max(s) \in s
  <2> TAKE s \in (SUBSET D) \ {{}}
  <2>1. s \in SUBSET Nat
    BY <1>1
  <2>2. IsFiniteSet(s)
    BY <1>3, FS_Subset
  <2>3. QED
    BY <2>1, <2>2, MaxIn
<1>6. \A k \in D, a \in FitType : FitSource(a, order[k]) \in FitType
  <2> TAKE k \in D, a \in FitType
  <2>1. order[k] \in Items /\ Size[order[k]] \in Nat
    BY <1>2, ConstantsTyped
  <2>2. a.used + Size[order[k]] \in Nat /\ a.selected \cup {order[k]} \in SUBSET Items
        /\ a.omitted \cup {order[k]} \in SUBSET Items
    BY <2>1 DEF FitType
  <2>3. QED
    BY <2>2 DEF FitSource, FitType
<1>7. h \in [D -> [FitType -> FitType]] /\ pk \in [(SUBSET D) \ {{}} -> D] /\ base \in FitType
  <2>1. h \in [D -> [FitType -> FitType]]
    BY <1>6
  <2>2. pk \in [(SUBSET D) \ {{}} -> D]
    BY <1>5
  <2>3. base \in FitType
    BY DEF FitType
  <2>4. QED
    BY <2>1, <2>2, <2>3
<1> HIDE DEF D
<1>8. PICK g : FoldsTo(D, FitType, base, h, pk, g)
  <2>1. \A s \in (SUBSET D) \ {{}} : pk[s] \in s
    BY <1>5
  <2> HIDE DEF h, pk, base
  <2>2. IsFold(D, FitType, base, h, pk)
    BY <1>3, <1>7, <2>1 DEF IsFold
  <2>3. QED
    BY <2>2, FoldExists
<1>9. FitFold(order, D, g)
  <2>1. ASSUME NEW s \in SUBSET D, s # {}
        PROVE  h[pk[s]][g[s \ {pk[s]}]] = FitSource(g[s \ {Max(s)}], order[Max(s)])
    <3>1. pk[s] = Max(s) /\ Max(s) \in D /\ s \ {Max(s)} \in SUBSET D
      BY <1>5, <2>1
    <3>2. g[s \ {Max(s)}] \in FitType
      BY <1>8, <3>1 DEF FoldsTo
    <3>3. QED
      BY <3>1, <3>2
  <2> HIDE DEF h, pk
  <2>2. QED
    BY <1>8, <2>1 DEF FitFold, FoldsTo
<1> HIDE DEF h, pk
<1>10. FitFold(order, D, G)
  BY <1>9
<1>11. FoldLeft(FitSource, base, order) = G[D]
  BY <1>2 DEF FoldLeft, MapThenFoldSet, FitFold
<1> HIDE DEF G
<1>12. \A s \in SUBSET D : G[s] = IF s = {} THEN base ELSE FitSource(G[s \ {Max(s)}], order[Max(s)])
  BY <1>10 DEF FitFold
<1> DEFINE Img(s) == {order[k] : k \in s}
           Q == {s \in SUBSET D : Fitted(G[s], Img(s))}
<1>13. {} \in Q
  <2>1. G[{}] = base /\ Img({}) = {}
    BY <1>12
  <2>2. Fitted(base, {})
    <3>1. Cardinality({}) = 0
      BY FS_EmptySet
    <3>2. MaxItems \in Nat /\ RawBudget \in Nat
      BY ConstantsTyped
    <3>3. QED
      BY <1>7, <3>1, <3>2, TokensAdd DEF Fitted
  <2>3. QED
    BY <2>1, <2>2
<1>14. ASSUME NEW s \in SUBSET D, s # {}, \A x \in s : s \ {x} \in Q
       PROVE  s \in Q
  <2> DEFINE t == Max(s)
             r == s \ {t}
  <2>1. t \in s /\ t \in D /\ r \in SUBSET D /\ r \cup {t} = s /\ t \notin r
    BY <1>5, <1>14
  <2>2. Fitted(G[r], Img(r))
    BY <1>14, <2>1
  <2>3. G[s] = FitSource(G[r], order[t])
    BY <1>12, <1>14
  <2> HIDE DEF t, r
  <2>4. Img(r) \in SUBSET Items /\ order[t] \in Items /\ order[t] \notin Img(r)
    BY <1>2, <1>4, <2>1
  <2>5. Img(s) = Img(r) \cup {order[t]}
    BY <2>1
  <2> HIDE DEF Img
  <2>6. Fitted(FitSource(G[r], order[t]), Img(r) \cup {order[t]})
    BY <2>2, <2>4, FitStep
  <2>7. QED
    BY <2>3, <2>5, <2>6
<1> HIDE DEF Q
<1>15. D \in Q
  BY <1>3, <1>13, <1>14, SubsetInduction
<1>16. Fitted(G[D], Img(D))
  BY <1>15 DEF Q
<1>17. Img(D) = S
  BY <1>2 DEF Range
<1>18. QED
  BY <1>11, <1>16, <1>17

-----------------------------------------------------------------------------
(* Texts                                                                   *)

LEMMA CarriedConcat ==
    ASSUME NEW s \in Texts, NEW t \in Texts
    PROVE  s \o t \in Texts /\ Carried(s) \subseteq Carried(s \o t) /\ Carried(t) \subseteq Carried(s \o t)
<1> DEFINE c == s \o t
<1>1. /\ c \in Texts /\ DOMAIN c = 1..Len(s) + Len(t) /\ DOMAIN s = 1..Len(s) /\ DOMAIN t = 1..Len(t)
      /\ Len(s) \in Nat /\ Len(t) \in Nat
      /\ \A i \in 1..Len(s) + Len(t) : c[i] = IF i <= Len(s) THEN s[i] ELSE t[i - Len(s)]
  BY DEF Texts
<1> HIDE DEF c
<1>2. \A i \in 1..Len(s) : i \in 1..Len(s) + Len(t) /\ c[i] = s[i]
  BY <1>1
<1>3. \A i \in 1..Len(t) : i + Len(s) \in 1..Len(s) + Len(t) /\ c[i + Len(s)] = t[i]
  BY <1>1
<1>4. Range(s) \subseteq Range(c)
  BY <1>1, <1>2 DEF Range
<1>5. Range(t) \subseteq Range(c)
  BY <1>1, <1>3 DEF Range
<1>6. QED
  BY <1>1, <1>4, <1>5 DEF Carried, c

LEMMA CarriedLine ==
    ASSUME NEW X \in SUBSET Items
    PROVE  <<X>> \in Texts /\ Carried(<<X>>) = X
<1>1. <<X>> \in Texts
  BY DEF Texts
<1>2. Range(<<X>>) = {X}
  BY DEF Range
<1>3. QED
  BY <1>1, <1>2 DEF Carried

\* A text that is cut has the mark of it.
LEMMA FitFacts ==
    ASSUME NEW text \in Texts, NEW budget \in Nat \ {0}
    PROVE  Fit(text, budget) \in Texts /\ (Marker \notin Range(Fit(text, budget)) => Fit(text, budget) = text)
<1>1. CASE Len(text) <= budget
  BY <1>1 DEF Fit
<1>2. CASE ~(Len(text) <= budget)
  <2> DEFINE cut == SubSeq(text, 1, budget - 1)
  <2>1. text \in Seq(SUBSET Items) /\ Len(text) \in Nat /\ budget - 1 \in Nat
    BY DEF Texts
  <2>2. cut \in Seq(SUBSET Items)
    BY <1>2, <2>1
  <2> HIDE DEF cut
  <2>3. /\ Append(cut, Marker) \in Seq(SUBSET Items) /\ Len(cut) \in Nat
        /\ DOMAIN Append(cut, Marker) = 1..Len(cut) + 1
        /\ Append(cut, Marker)[Len(cut) + 1] = Marker
    BY <2>2 DEF Marker
  <2>4. Marker \in Range(Append(cut, Marker))
    BY <2>3 DEF Range
  <2>5. Fit(text, budget) = Append(cut, Marker)
    BY <1>2 DEF Fit, cut
  <2>6. QED
    BY <2>3, <2>4, <2>5 DEF Texts
<1>3. QED
  BY <1>1, <1>2

\* Exchanges with the covers of their ids are told apart by them.
Proper(S) == S \in SUBSET Exchange /\ \A x \in S : x.covers = Covers(x.id)

LEMMA ProperSets ==
    ASSUME NEW S, Proper(S)
    PROVE  /\ IsFiniteSet(S) /\ \A x, y \in S : x.id = y.id => x = y
           /\ \A x \in S : x.id \in Items /\ x.id \in Nat /\ x.covers \in SUBSET Items
<1>1. \A x \in S : x = [id |-> x.id, covers |-> Covers(x.id)] /\ x.id \in Items /\ x.covers \in SUBSET Items
  BY DEF Proper, Exchange
<1>2. \A x, y \in S : x.id = y.id => x = y
  BY <1>1
<1> DEFINE f == [x \in S |-> x.id]
<1>3. f \in Injection(S, Items)
  BY <1>1, <1>2 DEF Injection, IsInjective
<1>4. IsFiniteSet(S)
  BY <1>3, FS_Injection, ConstantsTyped
<1>5. QED
  BY <1>1, <1>2, <1>4, ConstantsTyped

LEMMA StrictlyFewer ==
    ASSUME NEW S, IsFiniteSet(S), NEW T \in SUBSET S, NEW x \in S, x \notin T
    PROVE  Cardinality(T) < Cardinality(S)
<1>1. IsFiniteSet(S \ {x}) /\ Cardinality(S \ {x}) = Cardinality(S) - 1 /\ Cardinality(S) \in Nat
  BY FS_RemoveElement, FS_CardinalityType
<1>2. T \in SUBSET (S \ {x})
  OBVIOUS
<1>3. IsFiniteSet(T) /\ Cardinality(T) <= Cardinality(S \ {x})
  BY <1>1, <1>2, FS_Subset
<1>4. Cardinality(T) \in Nat
  BY <1>3, FS_CardinalityType
<1>5. QED
  BY <1>1, <1>3, <1>4

LEMMA RanksDiffer ==
    ASSUME NEW S, Proper(S), NEW x \in S, NEW y \in S, x.id < y.id
    PROVE  Cardinality(Before(x, S)) < Cardinality(Before(y, S))
<1>1. \A z \in S : z.id \in Nat
  BY ProperSets
<1>2. Before(x, S) \subseteq Before(y, S) /\ x \in Before(y, S) /\ x \notin Before(x, S)
  BY <1>1 DEF Before
<1>3. IsFiniteSet(Before(y, S))
  BY ProperSets, FS_Subset DEF Before
<1>4. QED
  BY <1>2, <1>3, StrictlyFewer

\* The lines of a batch: one for each of its exchanges.
LEMMA LinesCarry ==
    ASSUME NEW S, Proper(S)
    PROVE  Lines(S) \in Texts /\ \A x \in S : x.covers \subseteq Carried(Lines(S))
<1> DEFINE n == Cardinality(S)
           rank == [x \in S |-> Cardinality(Before(x, S)) + 1]
<1>1. IsFiniteSet(S) /\ n \in Nat /\ \A x \in S : x.id \in Nat
  BY ProperSets, FS_CardinalityType
<1>2. ASSUME NEW x \in S
      PROVE  Cardinality(Before(x, S)) \in Nat /\ Cardinality(Before(x, S)) < n
  <2>1. Before(x, S) \subseteq S /\ x \notin Before(x, S)
    BY <1>1 DEF Before
  <2>2. IsFiniteSet(Before(x, S))
    BY <1>1, <2>1, FS_Subset
  <2>3. Cardinality(Before(x, S)) \in Nat
    BY <2>2, FS_CardinalityType
  <2>4. Cardinality(Before(x, S)) < n
    BY <1>1, <2>1, StrictlyFewer
  <2>5. QED
    BY <2>3, <2>4
<1>3. \A x, y \in S : Cardinality(Before(x, S)) = Cardinality(Before(y, S)) => x = y
  <2> SUFFICES ASSUME NEW x \in S, NEW y \in S, x # y
               PROVE  Cardinality(Before(x, S)) # Cardinality(Before(y, S))
    OBVIOUS
  <2>1. x.id \in Nat /\ y.id \in Nat /\ x.id # y.id
    BY ProperSets
  <2>2. CASE x.id < y.id
    BY <1>2, <2>2, RanksDiffer
  <2>3. CASE y.id < x.id
    BY <1>2, <2>3, RanksDiffer
  <2>4. QED
    BY <2>1, <2>2, <2>3
<1> HIDE DEF n
<1>4. \A x \in S : rank[x] \in 1..n /\ rank[x] = Cardinality(Before(x, S)) + 1
  BY <1>1, <1>2
<1>5. rank \in Injection(S, 1..n)
  <2>1. rank \in [S -> 1..n]
    BY <1>4
  <2>2. \A x, y \in S : rank[x] = rank[y] => x = y
    BY <1>2, <1>3, <1>4
  <2>3. QED
    BY <2>1, <2>2 DEF Injection, IsInjective
<1>6. IsFiniteSet(1..n) /\ Cardinality(1..n) = n
  BY <1>1, FS_Interval
<1> HIDE DEF rank
<1>7. rank \in Surjection(S, 1..n)
  BY <1>5, <1>6, FS_Injection DEF n
<1>8. \A k \in 1..n : \E x \in S : Cardinality(Before(x, S)) = k - 1
  <2> TAKE k \in 1..n
  <2>1. PICK x \in S : rank[x] = k
    BY <1>7 DEF Surjection
  <2>2. QED
    BY <1>2, <1>4, <2>1
<1> DEFINE at(k) == CHOOSE x \in S : Cardinality(Before(x, S)) = k - 1
<1>9. \A k \in 1..n : at(k) \in S
  BY <1>8
<1>10. \A x \in S : at(Cardinality(Before(x, S)) + 1) = x
  <2> TAKE x \in S
  <2> DEFINE k == Cardinality(Before(x, S)) + 1
  <2>1. k - 1 = Cardinality(Before(x, S))
    BY <1>2
  <2> HIDE DEF k
  <2>2. Cardinality(Before(at(k), S)) = k - 1 /\ at(k) \in S
    BY <2>1
  <2>3. at(k) = x
    BY <1>3, <2>1, <2>2
  <2>4. QED
    BY <2>3 DEF k
<1>11. Lines(S) = [k \in 1..n |-> at(k).covers]
  BY DEF Lines, n
<1> HIDE DEF at
<1>12. \A k \in 1..n : at(k).covers \in SUBSET Items
  BY <1>9, ProperSets
<1>13. Lines(S) \in Texts
  <2>1. [k \in 1..n |-> at(k).covers] \in Seq(SUBSET Items)
    BY <1>1, <1>12
  <2>2. QED
    BY <1>11, <2>1 DEF Texts
<1>14. ASSUME NEW x \in S
       PROVE  x.covers \subseteq Carried(Lines(S))
  <2> DEFINE k == Cardinality(Before(x, S)) + 1
  <2>1. k \in 1..n /\ at(k) = x
    BY <1>4, <1>10
  <2> HIDE DEF k
  <2>2. x.covers \in Range(Lines(S))
    BY <1>11, <2>1 DEF Range
  <2>3. QED
    BY <2>2 DEF Carried
<1>15. QED
  BY <1>13, <1>14

\* Some exchange is the oldest.
LEMMA OldestFirst ==
    ASSUME NEW S, Proper(S), S # {}
    PROVE  \E x \in S : Cardinality(Before(x, S)) = 0
<1> DEFINE ids == {x.id : x \in S}
<1>1. ids \in SUBSET Nat /\ ids # {}
  BY ProperSets
<1>2. PICK n \in ids : \A m \in ids : n <= m
  BY <1>1, LeastNat
<1>3. PICK x \in S : x.id = n
  BY <1>2
<1>4. Before(x, S) = {}
  BY <1>1, <1>2, <1>3, ProperSets DEF Before
<1>5. QED
  BY <1>4, FS_EmptySet

-----------------------------------------------------------------------------
(* The context requests                                                    *)

\* RequestKnown and ContextComplete of a request q, with the loss l and the
\* existence e of the row named.
Known(q, l, e) ==
    /\ \A x \in q.ex : x.covers = Covers(x.id)
    /\ q.pc = "gen" =>
          /\ q.todo \subseteq Compactable(q) /\ \A x \in q.todo : x.id \notin q.ids
          /\ \A x \in Compactable(q) : x.id \in q.ids \/ x \in q.todo
          /\ q.base # None => /\ q.base.ids \subseteq q.ids
                              /\ q.ids = q.base.ids => q.text = q.base.text
          /\ ~l => Answers(q.text, q.ids)
          /\ q.base # None => e
Complete(q, l) ==
    q.pc = "done" /\ ~l => UNION {x.covers : x \in q.ex} \subseteq
                              Carried(q.text) \cup UNION {x.covers : x \in RawTail(q)}

CoreInv == /\ TypeOK /\ ItemsKnown /\ RowCoversSources
           /\ \A r \in Requests : RequestKnown(req[r])
           /\ ContextComplete

LEMMA CoreParts ==
    ASSUME CoreInv, NEW r \in Requests
    PROVE  /\ Known(req[r], lossy, row # None) /\ Complete(req[r], lossy)
           /\ req[r] \in Request /\ Proper(req[r].ex)
<1>1. Known(req[r], lossy, row # None)
  BY DEF CoreInv, RequestKnown, Known
<1>2. Complete(req[r], lossy)
  BY DEF CoreInv, ContextComplete, Complete
<1>3. req[r] \in Request
  BY DEF CoreInv, TypeOK
<1>4. req[r].ex \in SUBSET Exchange
  BY <1>3 DEF Request
<1>5. QED
  BY <1>1, <1>2, <1>3, <1>4 DEF Known, Proper

\* A request makes its step.
LEMMA RequestStep ==
    ASSUME CoreInv, NEW r \in Requests, NEW v \in Request, req' = [req EXCEPT ![r] = v],
           lossy' \in BOOLEAN, lossy => lossy', row' \in {None} \cup Row, row # None => row' # None,
           UNCHANGED <<load, item, reh, sum, lastCount, lastRead, pipe>>,
           row' # None /\ ~lossy' => Answers(row'.text, row'.ids),
           Known(v, lossy', row' # None), Complete(v, lossy')
    PROVE  CoreInv'
<1>1. TypeOK'
  BY DEF CoreInv, TypeOK
<1>2. ItemsKnown'
  BY DEF CoreInv, ItemsKnown
<1>3. RowCoversSources'
  BY DEF RowCoversSources
<1>4. ASSUME NEW s \in Requests
      PROVE  Known(req'[s], lossy', row' # None) /\ Complete(req'[s], lossy')
  <2>1. CASE s = r
    BY <2>1 DEF CoreInv, TypeOK
  <2>2. CASE s # r
    <3>1. req'[s] = req[s]
      BY <2>2 DEF CoreInv, TypeOK
    <3>2. Known(req[s], lossy, row # None) /\ Complete(req[s], lossy)
      BY CoreParts
    <3>3. Known(req[s], lossy', row' # None)
      BY <3>2 DEF Known
    <3>4. Complete(req[s], lossy')
      BY <3>2 DEF Complete
    <3>5. QED
      BY <3>1, <3>3, <3>4
  <2>3. QED
    BY <2>1, <2>2
<1>5. \A s \in Requests : RequestKnown(req[s])'
  BY <1>4 DEF Known, RequestKnown
<1>6. ContextComplete'
  BY <1>4 DEF Complete, ContextComplete
<1>7. QED
  BY <1>1, <1>2, <1>3, <1>5, <1>6 DEF CoreInv

LEMMA NoRequestTyped == NoRequest \in Request /\ NoRequest.pc = "idle" /\ NoRequest.ex = {}
<1>1. <<>> \in Texts
  BY DEF Texts
<1>2. QED
  BY <1>1 DEF NoRequest, Request

\* A request that reads its memories or fails.
LEMMA StartsAndFails ==
    ASSUME CoreInv, NEW r \in Requests,
           CtxFail(r) \/ \E tail \in Tails, budget \in Budgets : CtxMemories(r, tail, budget)
    PROVE  CoreInv'
<1>1. CASE CtxFail(r)
  <2> DEFINE v == [NoRequest EXCEPT !.pc = "failed"]
  <2>1. v \in Request /\ v.pc = "failed" /\ v.ex = {}
    BY NoRequestTyped DEF Request
  <2>2. req' = [req EXCEPT ![r] = v]
    BY <1>1 DEF CtxFail
  <2> HIDE DEF v
  <2>3. Known(v, lossy, row # None) /\ Complete(v, lossy)
    BY <2>1 DEF Known, Complete
  <2>4. UNCHANGED <<load, item, row, lossy, reh, sum, lastCount, lastRead, pipe>>
    BY <1>1 DEF CtxFail
  <2>5. QED
    BY <2>1, <2>2, <2>3, <2>4, RequestStep DEF CoreInv, TypeOK, RowCoversSources
<1>2. ASSUME NEW tail \in Tails, NEW budget \in Budgets, CtxMemories(r, tail, budget)
      PROVE  CoreInv'
  <2> DEFINE v == [NoRequest EXCEPT !.pc = "chat", !.mems = Live \cap Memories, !.tail = tail, !.budget = budget]
  <2>0. tail \in Nat \ {0} /\ budget \in Nat \ {0} /\ Live \cap Memories \in SUBSET Memories
    BY ConstantsTyped
  <2>1. v \in Request /\ v.pc = "chat" /\ v.ex = {}
    BY <2>0, NoRequestTyped DEF Request
  <2>2. req' = [req EXCEPT ![r] = v]
    BY <1>2 DEF CtxMemories
  <2> HIDE DEF v
  <2>3. Known(v, lossy, row # None) /\ Complete(v, lossy)
    BY <2>1 DEF Known, Complete
  <2>4. UNCHANGED <<load, item, row, lossy, reh, sum, lastCount, lastRead, pipe>>
    BY <1>2 DEF CtxMemories
  <2>5. QED
    BY <2>1, <2>2, <2>3, <2>4, RequestStep DEF CoreInv, TypeOK, RowCoversSources
<1>3. QED
  BY <1>1, <1>2

\* The exchanges are those of the memories and of the turns.
LEMMA ChatRead ==
    ASSUME CoreInv, NEW r \in Requests, CtxChat(r)
    PROVE  CoreInv'
<1> DEFINE q  == req[r]
           ex == MergeExchanges(q.mems, PairChatTurns(ChatTurns))
           v  == [q EXCEPT !.pc = "row", !.ex = ex]
<1>1. q \in Request /\ q.pc = "chat" /\ q.mems \in SUBSET Memories
  BY CoreParts DEF CtxChat, Request
<1>2. ChatTurns \in SUBSET Turns
  BY DEF ChatTurns
<1>3. PairChatTurns(ChatTurns) = Pairs(ChatTurns)
  BY <1>2, PairsOfTurns
<1>4. \A t \in ChatTurns : Prompt(t, ChatTurns) = Prompt(t, Turns)
  <2> TAKE t \in ChatTurns
  <2>1. t \in Turns /\ item[t] = "live"
    BY DEF ChatTurns, Live
  <2>2. \A u \in Turns : u < t => u \in ChatTurns
    BY <2>1, ConstantsTyped DEF CoreInv, ItemsKnown, ChatTurns, Live
  <2>3. QED
    BY <1>2, <2>2 DEF Prompt
<1>5. ASSUME NEW x \in ex
      PROVE  x \in Exchange /\ x.covers = Covers(x.id)
  <2>1. CASE x \in Pairs(ChatTurns)
    <3>1. PICK t \in ChatTurns : x = [id |-> t, covers |-> {t} \cup Prompt(t, ChatTurns)]
      BY <2>1 DEF Pairs
    <3>2. x = [id |-> t, covers |-> Covers(t)] /\ t \in Items
      BY <1>2, <1>4, <3>1, ConstantsTyped DEF Covers
    <3>3. Covers(t) \in SUBSET Items
      BY <3>2, ConstantsTyped DEF Covers, Prompt
    <3>4. QED
      BY <3>2, <3>3 DEF Exchange
  <2>2. CASE x \notin Pairs(ChatTurns)
    <3>1. PICK m \in q.mems : x = [id |-> m, covers |-> {m}]
      BY <1>3, <1>5, <2>2 DEF MergeExchanges
    <3>2. m \in Items /\ m \notin Turns
      BY <1>1, ConstantsTyped
    <3>3. QED
      BY <3>1, <3>2 DEF Exchange, Covers
  <2>3. QED
    BY <2>1, <2>2
<1>6. ex \in SUBSET Exchange
  BY <1>5
<1> HIDE DEF q
<1>7. req' = [req EXCEPT ![r] = v]
  <2>1. req \in [Requests -> Request] /\ req' = [req EXCEPT ![r].pc = "row", ![r].ex = ex]
    BY DEF CtxChat, CoreInv, TypeOK, q
  <2> HIDE DEF ex
  <2>2. QED
    BY <1>1, <2>1 DEF q
<1> HIDE DEF ex
<1>8. v \in Request /\ v.pc = "row" /\ v.ex = ex
  BY <1>1, <1>6 DEF Request
<1> HIDE DEF v
<1>9. Known(v, lossy, row # None) /\ Complete(v, lossy)
  BY <1>5, <1>8 DEF Known, Complete
<1>10. UNCHANGED <<load, item, row, lossy, reh, sum, lastCount, lastRead, pipe>>
  BY DEF CtxChat
<1>11. QED
  BY <1>7, <1>8, <1>9, <1>10, RequestStep DEF CoreInv, TypeOK, RowCoversSources

\* What the row has compacted is not compacted again.
LEMMA RowRead ==
    ASSUME CoreInv, NEW r \in Requests, CtxRow(r)
    PROVE  CoreInv'
<1> DEFINE q    == req[r]
           text == IF row = None THEN <<>> ELSE row.text
           ids  == IF row = None THEN {} ELSE row.ids
           v    == IF row = None /\ Compactable(q) = {} THEN [q EXCEPT !.pc = "done"]
                   ELSE [q EXCEPT !.pc = "gen", !.base = row, !.text = text, !.ids = ids,
                                  !.todo = Pending(q, ids)]
<1>1. q \in Request /\ q.pc = "row" /\ Proper(q.ex) /\ Known(q, lossy, row # None)
  BY CoreParts DEF CtxRow
<1>2. row \in {None} \cup Row /\ lossy \in BOOLEAN
  BY DEF CoreInv, TypeOK
<1>3. text \in Texts /\ ids \in SUBSET Items
  BY <1>2 DEF Row, Texts
<1>4. ~lossy => Answers(text, ids)
  BY DEF CoreInv, RowCoversSources, Answers
<1>5. req' = [req EXCEPT ![r] = v]
  BY DEF CtxRow
<1>6. UNCHANGED <<load, item, row, lossy, reh, sum, lastCount, lastRead, pipe>>
  BY DEF CtxRow
<1>7. row # None => ids = row.ids /\ text = row.text
  OBVIOUS
<1> HIDE DEF q, text, ids
<1>8. CASE row = None /\ Compactable(q) = {}
  <2> DEFINE w == [q EXCEPT !.pc = "done"]
  <2>1. w \in Request /\ w.pc = "done" /\ w.ex = q.ex /\ w.tail = q.tail /\ w.text = q.text
    BY <1>1 DEF Request
  <2>2. v = w
    BY <1>8
  <2> HIDE DEF v, w
  <2>3. RawTail(w) = w.ex
    BY <1>8, <2>1 DEF RawTail, Compactable
  <2>4. Known(w, lossy, row # None) /\ Complete(w, lossy)
    BY <1>1, <2>1, <2>3 DEF Known, Complete
  <2>5. QED
    BY <1>2, <1>5, <1>6, <2>1, <2>2, <2>4, RequestStep DEF CoreInv, RowCoversSources
<1>9. CASE ~(row = None /\ Compactable(q) = {})
  <2> DEFINE todo == Pending(q, ids)
             w == [q EXCEPT !.pc = "gen", !.base = row, !.text = text, !.ids = ids, !.todo = todo]
  <2>1. todo \in SUBSET Exchange
    BY <1>1 DEF Pending, Compactable, Request
  <2>2. /\ todo \subseteq Compactable(q) /\ \A x \in todo : x.id \notin ids
        /\ \A x \in Compactable(q) : x.id \in ids \/ x \in todo
    BY DEF Pending
  <2>3. v = w
    BY <1>9
  <2> HIDE DEF todo, v
  <2>4. /\ w \in Request /\ w.pc = "gen" /\ w.ex = q.ex /\ w.tail = q.tail /\ w.text = text
        /\ w.ids = ids /\ w.todo = todo /\ w.base = row
    BY <1>1, <1>2, <1>3, <2>1 DEF Request
  <2> HIDE DEF w
  <2>5. Compactable(w) = Compactable(q)
    BY <2>4 DEF Compactable
  <2>6. Known(w, lossy, row # None)
    BY <1>1, <1>4, <1>7, <2>2, <2>4, <2>5 DEF Known
  <2>7. Complete(w, lossy)
    BY <2>4 DEF Complete
  <2>8. QED
    BY <1>2, <1>5, <1>6, <2>3, <2>4, <2>6, <2>7, RequestStep DEF CoreInv, RowCoversSources
<1>10. QED
  BY <1>8, <1>9

\* Both generators carry the digest and the batch on, or mark what they cut.
LEMMA GeneratedText ==
    ASSUME NEW text \in Texts, NEW S, Proper(S), NEW budget \in Nat \ {0},
           NEW new \in LlmDigests(text, S) \cup {ExtractiveDigest(text, S, budget)}
    PROVE  /\ new \in Texts
           /\ Marker \notin Range(new) =>
                 Carried(text) \subseteq Carried(new) /\ \A x \in S : x.covers \subseteq Carried(new)
<1> DEFINE X == Carried(text) \cup UNION {x.covers : x \in S}
<1>1. CASE new = <<X>>
  <2>0. \A k \in DOMAIN text : text[k] \in SUBSET Items
    BY DEF Texts
  <2>1. X \in SUBSET Items
    <3>1. \A x \in S : x.covers \in SUBSET Items
      BY ProperSets
    <3>2. Carried(text) \in SUBSET Items
      BY <2>0 DEF Carried, Range
    <3>3. QED
      BY <3>1, <3>2
  <2> HIDE DEF X
  <2>2. new \in Texts /\ Carried(new) = X
    BY <1>1, <2>1, CarriedLine
  <2>3. QED
    BY <2>2 DEF X
<1>2. CASE new = ExtractiveDigest(text, S, budget)
  <2> DEFINE long == text \o Lines(S)
  <2>1. Lines(S) \in Texts /\ \A x \in S : x.covers \subseteq Carried(Lines(S))
    BY LinesCarry
  <2>2. long \in Texts /\ Carried(text) \subseteq Carried(long) /\ Carried(Lines(S)) \subseteq Carried(long)
    BY <2>1, CarriedConcat
  <2>3. new = Fit(long, budget)
    BY <1>2 DEF ExtractiveDigest
  <2> HIDE DEF long
  <2>4. new \in Texts /\ (Marker \notin Range(new) => new = long)
    BY <2>2, <2>3, FitFacts
  <2>5. QED
    BY <2>1, <2>2, <2>4
<1>3. CASE new = <<Marker>>
  <2>1. new \in Texts
    BY <1>3 DEF Texts, Marker
  <2>2. Marker \in Range(new)
    BY <1>3 DEF Range
  <2>3. QED
    BY <2>1, <2>2
<1>4. QED
  BY <1>1, <1>2, <1>3 DEF LlmDigests

LEMMA BatchGenerated ==
    ASSUME CoreInv, NEW r \in Requests, CtxGenerate(r)
    PROVE  CoreInv'
<1> DEFINE q     == req[r]
           batch == {x \in q.todo : Cardinality(Before(x, q.todo)) < BatchSize}
           more  == {x.id : x \in batch}
<1>1. q \in Request /\ q.pc = "gen" /\ q.todo # {} /\ Proper(q.ex) /\ Known(q, lossy, row # None)
  BY CoreParts DEF CtxGenerate
<1>2. /\ q.text \in Texts /\ q.ids \in SUBSET Items /\ q.todo \in SUBSET Exchange
      /\ q.budget \in Nat \ {0} /\ lossy \in BOOLEAN /\ row \in {None} \cup Row
  BY <1>1 DEF Request, CoreInv, TypeOK
<1>3. PICK text \in LlmDigests(q.text, batch) \cup {ExtractiveDigest(q.text, batch, q.budget)} :
         /\ req' = [req EXCEPT ![r] = [q EXCEPT !.text = text, !.todo = @ \ batch, !.ids = @ \cup more]]
         /\ lossy' = (lossy \/ Marker \in Range(text))
  BY DEF CtxGenerate
<1>4. UNCHANGED <<load, item, row, reh, sum, lastCount, lastRead, pipe>>
  BY DEF CtxGenerate
<1> HIDE DEF q
<1>5. Proper(q.todo) /\ q.todo \subseteq Compactable(q)
  BY <1>1, <1>2 DEF Known, Compactable, Proper
<1>6. Proper(batch) /\ batch \subseteq q.todo
  BY <1>5 DEF Proper
<1>7. batch # {}
  <2>1. PICK x \in q.todo : Cardinality(Before(x, q.todo)) = 0
    BY <1>1, <1>5, OldestFirst
  <2>2. QED
    BY <2>1, ConstantsTyped
<1>8. more \in SUBSET Items
  BY <1>6, ProperSets
<1>9. /\ text \in Texts
      /\ Marker \notin Range(text) =>
            Carried(q.text) \subseteq Carried(text) /\ \A x \in batch : x.covers \subseteq Carried(text)
  <2> HIDE DEF batch
  <2>1. QED
    BY <1>2, <1>3, <1>6, GeneratedText
<1>10. \E i \in more : i \notin q.ids
  BY <1>1, <1>6, <1>7 DEF Known
<1>11. \A x \in q.todo : x \in batch \/ x \in q.todo \ batch
  OBVIOUS
<1>12. \A x \in q.todo \ batch : x.id \notin more
  BY <1>5, <1>6, ProperSets
<1> DEFINE todo == q.todo \ batch
           ids  == q.ids \cup more
           v    == [q EXCEPT !.text = text, !.todo = todo, !.ids = ids]
<1>13. req' = [req EXCEPT ![r] = v]
  BY <1>3
<1>14. \A i \in more : \E x \in batch : i = x.id
  OBVIOUS
<1>15. \A x \in batch : x.id \in more
  OBVIOUS
<1> HIDE DEF batch, more
<1>16. todo \in SUBSET Exchange /\ ids \in SUBSET Items
  BY <1>2, <1>8
<1>17. /\ v \in Request /\ v.pc = "gen" /\ v.ex = q.ex /\ v.tail = q.tail /\ v.text = text
       /\ v.ids = ids /\ v.todo = todo /\ v.base = q.base
  BY <1>1, <1>9, <1>16 DEF Request
<1> HIDE DEF v
<1>18. Compactable(v) = Compactable(q)
  BY <1>17 DEF Compactable
<1>19. ~lossy' => Answers(text, ids)
  <2> SUFFICES ASSUME ~lossy', NEW i \in ids
               PROVE  Covers(i) \subseteq Carried(text)
    BY DEF Answers
  <2>1. ~lossy /\ Marker \notin Range(text)
    BY <1>2, <1>3
  <2>2. CASE i \in q.ids
    BY <1>1, <1>9, <2>1, <2>2 DEF Known, Answers
  <2>3. CASE i \in more
    <3>1. PICK x \in batch : i = x.id
      BY <1>14, <2>3
    <3>2. x.covers = Covers(i)
      BY <1>6, <3>1 DEF Proper
    <3>3. QED
      BY <1>9, <2>1, <3>1, <3>2
  <2>4. QED
    BY <2>2, <2>3
<1>20. Known(v, lossy', row' # None)
  <2>1. v.todo \subseteq Compactable(v) /\ \A x \in v.todo : x.id \notin v.ids
    BY <1>1, <1>5, <1>12, <1>17, <1>18 DEF Known
  <2>2. \A x \in Compactable(v) : x.id \in v.ids \/ x \in v.todo
    BY <1>1, <1>15, <1>17, <1>18 DEF Known
  <2>3. ASSUME v.base # None
        PROVE  v.base.ids \subseteq v.ids /\ v.ids # v.base.ids
    <3>1. q.base.ids \subseteq q.ids
      BY <1>1, <1>17, <2>3 DEF Known
    <3>2. QED
      BY <1>10, <1>17, <3>1
  <2>4. \A x \in v.ex : x.covers = Covers(x.id)
    BY <1>1, <1>17 DEF Known
  <2>5. v.base # None => row' # None
    BY <1>1, <1>4, <1>17 DEF Known
  <2>6. QED
    BY <1>17, <1>19, <2>1, <2>2, <2>3, <2>4, <2>5 DEF Known
<1>21. Complete(v, lossy')
  BY <1>17 DEF Complete
<1>22. lossy' \in BOOLEAN /\ (lossy => lossy')
  BY <1>2, <1>3
<1>23. row' # None /\ ~lossy' => Answers(row'.text, row'.ids)
  BY <1>4, <1>22 DEF CoreInv, RowCoversSources
<1>24. QED
  BY <1>2, <1>4, <1>13, <1>17, <1>20, <1>21, <1>22, <1>23, RequestStep

\* The commit writes both columns, or none, or the history knows of a loss.
LEMMA RowWritten ==
    ASSUME CoreInv, NEW r \in Requests, CtxCommit(r)
    PROVE  CoreInv'
<1> DEFINE q    == req[r]
           text == Fit(q.text, q.budget)
           same == q.base # None /\ text = q.base.text /\ q.ids # q.base.ids
           v    == [q EXCEPT !.pc = "done", !.text = text]
<1>1. q \in Request /\ q.pc = "gen" /\ q.todo = {} /\ Proper(q.ex) /\ Known(q, lossy, row # None)
  BY CoreParts DEF CtxCommit
<1>2. /\ q.text \in Texts /\ q.ids \in SUBSET Items /\ q.budget \in Nat \ {0}
      /\ q.base \in {None} \cup Row /\ lossy \in BOOLEAN /\ row \in {None} \cup Row
      /\ q.base # None => row \in Row /\ q.base \in Row
  BY <1>1 DEF Request, CoreInv, TypeOK, Known
<1>3. text \in Texts /\ (Marker \notin Range(text) => text = q.text)
  BY <1>2, FitFacts
<1>4. /\ row' = Written(q, text) /\ lossy' = (lossy \/ Marker \in Range(text) \/ same)
      /\ UNCHANGED <<load, item, reh, sum, lastCount, lastRead, pipe>>
  BY DEF CtxCommit
<1>5. lossy' \in BOOLEAN /\ (lossy => lossy') /\ (~lossy' => ~lossy /\ text = q.text /\ ~same)
  BY <1>2, <1>3, <1>4
<1> HIDE DEF q
<1>6. req' = [req EXCEPT ![r] = v]
  <2>1. req \in [Requests -> Request] /\ req' = [req EXCEPT ![r].pc = "done", ![r].text = text]
    BY DEF CtxCommit, CoreInv, TypeOK, q
  <2> HIDE DEF text
  <2>2. QED
    BY <1>1, <2>1 DEF q
<1> HIDE DEF text
<1>7. row' \in Row /\ row' # None
  <2>1. Written(q, text) \in Row
    BY <1>2, <1>3 DEF Written, Row
  <2>2. QED
    BY <1>4, <2>1, ConstantsTyped
<1>8. ~lossy' => Answers(row'.text, row'.ids)
  <2> SUFFICES ASSUME ~lossy'
               PROVE  Answers(row'.text, row'.ids)
    OBVIOUS
  <2>1. Answers(text, q.ids) /\ ~lossy
    BY <1>1, <1>5 DEF Known
  <2>2. CASE q.base = None
    BY <1>4, <2>1, <2>2 DEF Written
  <2>3. CASE q.base # None /\ q.ids = q.base.ids
    <3>1. text = q.base.text
      BY <1>1, <1>5, <2>3 DEF Known
    <3>2. row'.text = row.text /\ row'.ids = row.ids
      BY <1>4, <2>3, <3>1 DEF Written
    <3>3. Answers(row.text, row.ids)
      BY <1>2, <2>1, <2>3, ConstantsTyped DEF CoreInv, RowCoversSources
    <3>4. QED
      BY <3>2, <3>3
  <2>4. CASE q.base # None /\ q.ids # q.base.ids
    <3>1. text # q.base.text
      BY <1>5, <2>4
    <3>2. row'.text = text /\ row'.ids = q.ids
      BY <1>4, <2>4, <3>1 DEF Written
    <3>3. QED
      BY <2>1, <3>2
  <2>5. QED
    BY <2>2, <2>3, <2>4
<1>9. v \in Request /\ v.pc = "done" /\ v.ex = q.ex /\ v.tail = q.tail /\ v.text = text
  BY <1>1, <1>3 DEF Request
<1> HIDE DEF v
<1>10. Known(v, lossy', row' # None)
  BY <1>1, <1>9 DEF Known
<1>11. Complete(v, lossy')
  <2> SUFFICES ASSUME ~lossy', NEW x \in q.ex, x \notin RawTail(v)
               PROVE  x.covers \subseteq Carried(text)
    BY <1>9 DEF Complete
  <2>1. RawTail(v) = RawTail(q)
    BY <1>9 DEF RawTail, Compactable
  <2>2. x \in Compactable(q)
    BY <2>1 DEF RawTail
  <2>3. x.id \in q.ids /\ x.covers = Covers(x.id)
    BY <1>1, <2>2 DEF Known
  <2>4. QED
    BY <1>1, <1>5, <2>3 DEF Known, Answers
<1>12. QED
  BY <1>4, <1>5, <1>6, <1>7, <1>8, <1>9, <1>10, <1>11, RequestStep

-----------------------------------------------------------------------------
(* The other steps                                                         *)

LEMMA ItemsMove ==
    ASSUME CoreInv, NEW i \in Items, Arrive(i) \/ Forget(i)
    PROVE  CoreInv'
<1>1. item \in [Items -> {"absent", "live", "gone"}] /\ item' \in [Items -> {"absent", "live", "gone"}]
  BY DEF CoreInv, TypeOK, Arrive, Forget
<1>2. /\ i \in Turns => item'[i] = "live" /\ \A j \in Turns : j < i => item[j] # "absent"
      /\ item'[i] # "absent" /\ \A j \in Items : j # i => item'[j] = item[j]
  BY <1>1, ConstantsTyped DEF Arrive, Forget
<1>3. UNCHANGED <<load, row, req, lossy, reh, sum, lastCount, lastRead, pipe>>
  BY DEF Arrive, Forget
<1>4. TypeOK'
  BY <1>1, <1>3 DEF CoreInv, TypeOK
<1>5. ItemsKnown'
  <2>1. \A t \in Turns : item'[t] # "gone"
    BY <1>2, ConstantsTyped DEF CoreInv, ItemsKnown
  <2>2. ASSUME NEW t \in Turns, NEW u \in Turns, u < t, item'[t] = "live"
        PROVE  item'[u] = "live"
    <3>1. t \in Items /\ u \in Items /\ t \in Nat /\ u \in Nat
      BY ConstantsTyped
    <3>2. CASE t = i
      BY <1>1, <1>2, <2>2, <3>1, <3>2 DEF CoreInv, ItemsKnown
    <3>3. CASE t # i
      BY <1>2, <2>2, <3>1, <3>3 DEF CoreInv, ItemsKnown
    <3>4. QED
      BY <3>2, <3>3
  <2>3. \A m \in lastRead : item'[m] # "absent"
    BY <1>2, ConstantsTyped DEF CoreInv, ItemsKnown, TypeOK
  <2>4. \A m \in Memories : \A j \in pipe[m].session : item'[j] # "absent"
    BY <1>2, ConstantsTyped DEF CoreInv, ItemsKnown, TypeOK, Stage
  <2>5. QED
    BY <1>3, <2>1, <2>2, <2>3, <2>4 DEF ItemsKnown
<1>6. RowCoversSources' /\ ContextComplete' /\ \A r \in Requests : RequestKnown(req[r])'
  BY <1>3 DEF CoreInv, RowCoversSources, ContextComplete, RequestKnown
<1>7. QED
  BY <1>4, <1>5, <1>6 DEF CoreInv

\* A step of the rehydration, or of a session stage.
LEMMA Apart ==
    ASSUME CoreInv, UNCHANGED <<item, row, req, lossy>>, TypeOK',
           \A m \in lastRead' : item[m] # "absent",
           \A m \in Memories : \A j \in pipe'[m].session : item[j] # "absent"
    PROVE  CoreInv'
<1>1. ItemsKnown'
  BY DEF CoreInv, ItemsKnown
<1>2. RowCoversSources' /\ ContextComplete' /\ \A r \in Requests : RequestKnown(req[r])'
  BY DEF CoreInv, RowCoversSources, ContextComplete, RequestKnown
<1>3. QED
  BY <1>1, <1>2 DEF CoreInv

LEMMA NoRehydrationTyped == NoRehydration \in Rehydration
BY DEF NoRehydration, Rehydration

LEMMA RehydrationStarts ==
    ASSUME CoreInv, NEW explicit \in BOOLEAN, NEW asked \in SUBSET Items, RehStart(explicit, asked)
    PROVE  CoreInv' /\ reh'.pc # "done"
<1>1. row \in {None} \cup Row
  BY DEF CoreInv, TypeOK
<1>2. CASE row = None \/ (explicit /\ asked = {})
  <2>1. reh' = [NoRehydration EXCEPT !.pc = "refused"]
    BY <1>2 DEF RehStart
  <2>2. reh' \in Rehydration /\ reh'.pc = "refused"
    BY <2>1, NoRehydrationTyped DEF Rehydration
  <2>3. TypeOK'
    BY <2>2 DEF CoreInv, TypeOK, RehStart
  <2>4. QED
    BY <2>2, <2>3, Apart DEF RehStart, CoreInv, ItemsKnown
<1>3. CASE ~(row = None \/ (explicit /\ asked = {}))
  <2> DEFINE wanted == IF asked # {} THEN asked ELSE row.ids
  <2>1. wanted \in SUBSET Items
    BY <1>1, <1>3 DEF Row
  <2>2. reh' = [NoRehydration EXCEPT !.pc = "load", !.explicit = explicit, !.asked = wanted]
    BY <1>3 DEF RehStart
  <2> HIDE DEF wanted
  <2>3. reh' \in Rehydration /\ reh'.pc = "load"
    BY <2>1, <2>2, NoRehydrationTyped DEF Rehydration
  <2>4. TypeOK'
    BY <2>3 DEF CoreInv, TypeOK, RehStart
  <2>5. QED
    BY <2>3, <2>4, Apart DEF RehStart, CoreInv, ItemsKnown
<1>4. QED
  BY <1>2, <1>3

LEMMA RehydrationLoads ==
    ASSUME CoreInv, reh.pc = "load", NEW ranked \in SUBSET reh.asked, NEW order \in Orders(ranked), RehLoad(order)
    PROVE  CoreInv' /\ RehydrationHonest'
<1> DEFINE found  == reh.asked \cap Live
           fitted == FoldLeft(FitSource, [selected |-> {}, omitted |-> {}, used |-> 0], order)
           missing == MissingSources(reh.asked, ranked)
<1>1. reh \in Rehydration /\ reh.asked \in SUBSET Items /\ ranked \in SUBSET Items
  BY DEF CoreInv, TypeOK, Rehydration
<1>2. Range(order) = ranked
  BY DEF Orders
<1>3. Fitted(fitted, ranked)
  BY <1>1, FitOfOrder
<1>4. /\ ranked \subseteq found /\ (reh.explicit => ranked = found)
      /\ reh' = [reh EXCEPT !.pc = "done", !.found = found, !.selected = fitted.selected,
                            !.omitted = fitted.omitted, !.missing = missing]
      /\ UNCHANGED <<load, item, row, req, lossy, sum, lastCount, lastRead, pipe>>
  BY <1>2 DEF RehLoad
<1> HIDE DEF fitted
<1>5. /\ fitted.selected \in SUBSET Items /\ fitted.omitted \in SUBSET Items /\ found \in SUBSET Items
      /\ missing \in SUBSET Items
  BY <1>1, <1>3 DEF Fitted, FitType, MissingSources
<1>6. /\ missing = reh.asked \ (ranked \cup {SourceTurn[m] : m \in ranked \cap Memories})
  BY DEF MissingSources
<1> HIDE DEF found, missing
<1>7. /\ reh' \in Rehydration /\ reh'.pc = "done" /\ reh'.found = found /\ reh'.selected = fitted.selected
      /\ reh'.omitted = fitted.omitted /\ reh'.missing = missing /\ reh'.asked = reh.asked
      /\ reh'.explicit = reh.explicit
  BY <1>1, <1>4, <1>5 DEF Rehydration
<1>8. TypeOK'
  BY <1>4, <1>7 DEF CoreInv, TypeOK
<1>9. CoreInv'
  BY <1>4, <1>8, Apart DEF CoreInv, ItemsKnown
<1>10. reh.asked \subseteq fitted.selected \cup fitted.omitted \cup missing \cup {SourceTurn[m] : m \in found \cap Memories}
  BY <1>3, <1>4, <1>6 DEF Fitted
<1>11. reh.explicit => missing \cap found = {}
  BY <1>4, <1>6
<1>12. /\ Tokens(fitted.selected) <= RawBudget /\ Cardinality(fitted.selected) <= MaxItems
       /\ \A i \in fitted.omitted : \/ Tokens(fitted.selected) + Size[i] > RawBudget
                                    \/ Cardinality(fitted.selected) = MaxItems
  BY <1>3 DEF Fitted
<1>13. RehydrationHonest'
  BY <1>7, <1>10, <1>11, <1>12 DEF RehydrationHonest, Tokens
<1>14. QED
  BY <1>9, <1>13

LEMMA NoStageTyped == NoStage \in Stage /\ NoStage.session = {}
BY DEF NoStage, Stage

\* A stage that stops at the debounce, as DebounceSkipsOnlySeen has it.
SkipsSeen ==
    \A m \in Memories : item[m] = "live" /\ pipe[m].pc = "read" /\ pipe'[m].pc = "debounced" =>
                           m \in lastRead \/ \E j \in lastRead : item[j] = "gone"

LEMMA StageReads ==
    ASSUME CoreInv, NEW m \in Memories, SessRead(m)
    PROVE  CoreInv' /\ SkipsSeen
<1> DEFINE session == Live \cap Memories
           cumul   == {j \in session : j <= m}
           pc      == IF item[m] = "absent" THEN "done"
                      ELSE IF Debounced(session) THEN "debounced" ELSE "gates"
           v       == [NoStage EXCEPT !.pc = pc, !.session = session, !.cumul = cumul]
<1>1. pipe \in [Memories -> Stage] /\ lastRead \subseteq Memories /\ lastCount = Cardinality(lastRead)
  BY DEF CoreInv, TypeOK
<1>2. pipe' = [pipe EXCEPT ![m] = v] /\ UNCHANGED <<load, item, row, req, lossy, reh, sum, lastCount, lastRead>>
  BY DEF SessRead
<1>3. session \in SUBSET Memories /\ cumul \in SUBSET Memories /\ \A j \in session : item[j] = "live"
  BY DEF Live
<1>4. pc \in {"done", "debounced", "gates"} /\ (pc = "debounced" => Debounced(session))
  OBVIOUS
<1>5. item[m] = "live" => m \in session
  BY ConstantsTyped DEF Live
<1>6. \A j \in Memories : item[j] = "live" => j \in session
  BY ConstantsTyped DEF Live
<1> HIDE DEF session, cumul, pc
<1>7. v \in Stage /\ v.pc = pc /\ v.session = session
  BY <1>3, <1>4, NoStageTyped DEF Stage
<1> HIDE DEF v
<1>8. CoreInv'
  <2>1. TypeOK'
    BY <1>1, <1>2, <1>7 DEF CoreInv, TypeOK
  <2>2. \A n \in Memories : \A j \in pipe'[n].session : item[j] # "absent"
    BY <1>1, <1>2, <1>3, <1>7 DEF CoreInv, ItemsKnown
  <2>3. QED
    BY <1>2, <2>1, <2>2, Apart DEF CoreInv, ItemsKnown
<1>9. ASSUME Debounced(session), item[m] = "live", \A j \in lastRead : item[j] # "gone"
      PROVE  m \in lastRead
  <2>1. item \in [Items -> {"absent", "live", "gone"}]
    BY DEF CoreInv, TypeOK
  <2>2. lastRead \subseteq session
    BY <1>1, <1>6, <1>9, <2>1, ConstantsTyped DEF CoreInv, ItemsKnown
  <2>3. IsFiniteSet(session)
    <3>1. session \in SUBSET Items /\ IsFiniteSet(Items)
      BY <1>3, ConstantsTyped
    <3>2. QED
      BY <3>1, FS_Subset
  <2>4. m \in session
    BY <1>5, <1>9
  <2>5. CASE m \notin lastRead
    <3>1. Cardinality(lastRead) < Cardinality(session)
      BY <2>2, <2>3, <2>4, <2>5, StrictlyFewer
    <3>2. Cardinality(session) <= Cardinality(lastRead)
      BY <1>1, <1>9 DEF Debounced
    <3>3. IsFiniteSet(lastRead)
      BY <2>2, <2>3, FS_Subset
    <3>4. Cardinality(lastRead) \in Nat /\ Cardinality(session) \in Nat
      BY <2>3, <3>3, FS_CardinalityType
    <3>5. QED
      BY <3>1, <3>2, <3>4
  <2>6. QED
    BY <2>5
<1>10. SkipsSeen
  <2> SUFFICES ASSUME NEW n \in Memories, item[n] = "live", pipe[n].pc = "read", pipe'[n].pc = "debounced"
               PROVE  n \in lastRead \/ \E j \in lastRead : item[j] = "gone"
    BY DEF SkipsSeen
  <2>1. n = m
    BY <1>1, <1>2
  <2>2. Debounced(session)
    BY <1>1, <1>2, <1>4, <1>7, <2>1
  <2>3. QED
    BY <1>9, <2>1, <2>2
<1>11. QED
  BY <1>8, <1>10

\* The stage that has read goes on.
StageMoves(m) ==
    \/ SessWrite(m) \/ SessCommit(m)
    \/ \E novel, cumulNovel \in BOOLEAN : SessGates(m, novel, cumulNovel)

LEMMA StageStep ==
    ASSUME CoreInv, NEW m \in Memories, NEW v \in Stage, pipe' = [pipe EXCEPT ![m] = v],
           v.session \subseteq pipe[m].session, v.pc # "debounced",
           UNCHANGED <<lastCount, lastRead>> \/ (lastCount' = Cardinality(lastRead') /\ lastRead' = pipe[m].session),
           sum' \in {None} \cup Summary, UNCHANGED <<load, item, row, req, lossy, reh>>
    PROVE  CoreInv' /\ SkipsSeen
<1>1. /\ pipe \in [Memories -> Stage] /\ pipe[m].session \in SUBSET Memories
      /\ lastRead \subseteq Memories /\ lastCount = Cardinality(lastRead)
  BY DEF CoreInv, TypeOK, Stage
<1>2. lastRead' \subseteq Memories /\ lastCount' = Cardinality(lastRead')
  BY <1>1
<1>3. TypeOK'
  BY <1>1, <1>2 DEF CoreInv, TypeOK
<1>4. /\ \A j \in lastRead' : item[j] # "absent"
      /\ \A n \in Memories : \A j \in pipe'[n].session : item[j] # "absent"
  BY <1>1 DEF CoreInv, ItemsKnown
<1>5. CoreInv'
  BY <1>3, <1>4, Apart
<1>6. SkipsSeen
  BY <1>1 DEF SkipsSeen
<1>7. QED
  BY <1>5, <1>6

LEMMA StageGoesOn ==
    ASSUME CoreInv, NEW m \in Memories, StageMoves(m)
    PROVE  CoreInv' /\ SkipsSeen
<1> DEFINE p == pipe[m]
<1>1. p \in Stage /\ pipe \in [Memories -> Stage] /\ sum \in {None} \cup Summary
  BY DEF CoreInv, TypeOK
<1> HIDE DEF p
<1> DEFINE ended == [NoStage EXCEPT !.pc = "done"]
<1>2. ended \in Stage /\ ended.session = {} /\ ended.pc = "done"
  BY NoStageTyped DEF Stage
<1> HIDE DEF ended
<1>3. ASSUME NEW novel \in BOOLEAN, NEW cumulNovel \in BOOLEAN, SessGates(m, novel, cumulNovel)
      PROVE  CoreInv' /\ SkipsSeen
  <2>0. UNCHANGED <<load, item, row, req, lossy, reh, sum>>
    BY <1>3 DEF SessGates
  <2>1. CASE novel \/ cumulNovel
    <3> DEFINE ns == IF novel /\ Cardinality(p.session) < GroqMin THEN p.session ELSE None
               nc == IF cumulNovel /\ Cardinality(p.cumul) >= Threshold /\ Cardinality(p.cumul) < GroqMin
                     THEN p.cumul ELSE None
               v == [p EXCEPT !.pc = "write", !.newSession = ns, !.newCumul = nc]
    <3>1. ns \in {None} \cup SUBSET Memories /\ nc \in {None} \cup SUBSET Memories
      BY <1>1 DEF Stage
    <3>2. pipe' = [pipe EXCEPT ![m] = v] /\ UNCHANGED <<lastCount, lastRead>>
      BY <1>3, <2>1 DEF SessGates, p
    <3> HIDE DEF ns, nc
    <3>3. v \in Stage /\ v.session = p.session /\ v.pc = "write"
      BY <1>1, <3>1 DEF Stage
    <3> HIDE DEF v
    <3>4. QED
      BY <1>1, <2>0, <3>2, <3>3, StageStep DEF p
  <2>2. CASE ~(novel \/ cumulNovel)
    <3>1. pipe' = [pipe EXCEPT ![m] = ended] /\ lastCount' = Cardinality(p.session) /\ lastRead' = p.session
      BY <1>3, <2>2 DEF SessGates, p, ended
    <3>2. QED
      BY <1>1, <1>2, <2>0, <3>1, StageStep DEF p
  <2>3. QED
    BY <2>1, <2>2
<1>4. CASE SessWrite(m)
  <2>0. UNCHANGED <<load, item, row, req, lossy, reh, sum>>
    BY <1>4 DEF SessWrite
  <2>1. CASE p.newSession = None /\ p.newCumul = None
    <3>1. pipe' = [pipe EXCEPT ![m] = ended] /\ UNCHANGED <<lastCount, lastRead>>
      BY <1>4, <2>1 DEF SessWrite, p, ended
    <3>2. QED
      BY <1>1, <1>2, <2>0, <3>1, StageStep
  <2>2. CASE ~(p.newSession = None /\ p.newCumul = None)
    <3> DEFINE first == (sum = None)
               v == [p EXCEPT !.pc = "commit", !.insert = first]
    <3>1. /\ pipe' = [pipe EXCEPT ![m].pc = "commit", ![m].insert = first]
          /\ lastCount' = Cardinality(p.session) /\ lastRead' = p.session
      BY <1>4, <2>2 DEF SessWrite, NextCount, p
    <3>2. first \in BOOLEAN
      OBVIOUS
    <3> HIDE DEF first
    <3>3. pipe' = [pipe EXCEPT ![m] = v]
      BY <1>1, <3>1 DEF p
    <3>4. v \in Stage /\ v.session = p.session /\ v.pc = "commit"
      BY <1>1, <3>2 DEF Stage
    <3> HIDE DEF v
    <3>5. QED
      BY <1>1, <2>0, <3>1, <3>3, <3>4, StageStep DEF p
  <2>3. QED
    BY <2>1, <2>2
<1>5. CASE SessCommit(m)
  <2>1. /\ pipe' = [pipe EXCEPT ![m] = ended]
        /\ UNCHANGED <<load, item, row, req, lossy, reh, lastCount, lastRead>>
    BY <1>5 DEF SessCommit, ended
  <2>2. p.newSession \in {None} \cup SUBSET Memories /\ p.newCumul \in {None} \cup SUBSET Memories
    BY <1>1 DEF Stage
  <2>3. ASSUME NEW s \in SUBSET Memories, NEW c \in SUBSET Memories
        PROVE  [session |-> Kept(p.newSession, s), cumul |-> Kept(p.newCumul, c), upTo |-> m] \in Summary
    BY <2>2 DEF Kept, Summary
  <2>4. sum' \in {None} \cup Summary
    <3>1. CASE sum = None
      <4>1. sum' = [session |-> Kept(p.newSession, {}), cumul |-> Kept(p.newCumul, {}), upTo |-> m]
        BY <1>5, <3>1 DEF SessCommit, p
      <4>2. QED
        BY <2>3, <4>1
    <3>2. CASE sum # None /\ ~p.insert
      <4>1. /\ sum' = [session |-> Kept(p.newSession, sum.session), cumul |-> Kept(p.newCumul, sum.cumul),
                       upTo |-> m]
            /\ sum.session \in SUBSET Memories /\ sum.cumul \in SUBSET Memories
        BY <1>1, <1>5, <3>2 DEF SessCommit, p, Summary
      <4>2. QED
        BY <2>3, <4>1
    <3>3. CASE sum # None /\ p.insert
      BY <1>1, <1>5, <3>3 DEF SessCommit, p
    <3>4. QED
      BY <3>1, <3>2, <3>3
  <2>5. QED
    BY <1>2, <2>1, <2>4, StageStep
<1>6. QED
  BY <1>3, <1>4, <1>5 DEF StageMoves

-----------------------------------------------------------------------------
(* All steps                                                               *)

LEMMA CoreInit == Init => CoreInv /\ RehydrationHonest
<1> SUFFICES ASSUME Init PROVE CoreInv /\ RehydrationHonest
  OBVIOUS
<1>1. pipe \in [Memories -> Stage] /\ \A m \in Memories : pipe[m].session = {}
  <2> DEFINE read == [NoStage EXCEPT !.pc = "read"]
  <2>1. read \in Stage /\ read.session = {}
    BY NoStageTyped DEF Stage
  <2>2. pipe = [m \in Memories |-> IF "pipelines" \in load THEN read ELSE NoStage]
    BY DEF Init
  <2> HIDE DEF read
  <2>3. QED
    BY <2>1, <2>2, NoStageTyped
<1>2. req \in [Requests -> Request] /\ \A r \in Requests : req[r] = NoRequest
  BY NoRequestTyped DEF Init
<1>3. TypeOK
  <2>1. Cardinality({}) = 0
    BY FS_EmptySet
  <2>2. QED
    BY <1>1, <1>2, <2>1, NoRehydrationTyped DEF Init, TypeOK
<1>4. ItemsKnown
  BY <1>1, ConstantsTyped DEF Init, ItemsKnown
<1>5. RowCoversSources /\ ContextComplete /\ \A r \in Requests : RequestKnown(req[r])
  BY <1>2, NoRequestTyped DEF Init, RowCoversSources, ContextComplete, RequestKnown
<1>6. RehydrationHonest
  BY DEF Init, NoRehydration, RehydrationHonest
<1>7. QED
  BY <1>3, <1>4, <1>5, <1>6 DEF CoreInv

\* What a step does besides keeping CoreInv: it leaves the rehydration or the
\* stages alone, or they are as they should be.
Sound == CoreInv' /\ (UNCHANGED reh \/ RehydrationHonest') /\ (UNCHANGED pipe \/ SkipsSeen)

LEMMA EveryStep ==
    ASSUME CoreInv, [Next]_vars
    PROVE  Sound
<1>1. CASE UNCHANGED vars
  BY <1>1 DEF vars, Sound, CoreInv, TypeOK, ItemsKnown, RowCoversSources, RequestKnown, ContextComplete
<1>2. ASSUME NEW i \in Items, Arrive(i) \/ Forget(i)
      PROVE  Sound
  BY <1>2, ItemsMove DEF Sound, Arrive, Forget
<1>3. ASSUME NEW r \in Requests,
             \/ \E tail \in Tails, budget \in Budgets : CtxMemories(r, tail, budget)
             \/ CtxChat(r) \/ CtxRow(r) \/ CtxGenerate(r) \/ CtxCommit(r) \/ CtxFail(r)
      PROVE  Sound
  <2>1. UNCHANGED <<reh, pipe>>
    BY <1>3 DEF CtxMemories, CtxChat, CtxRow, CtxGenerate, CtxCommit, CtxFail
  <2>2. CoreInv'
    BY <1>3, StartsAndFails, ChatRead, RowRead, BatchGenerated, RowWritten
  <2>3. QED
    BY <2>1, <2>2 DEF Sound
<1>4. ASSUME NEW explicit \in BOOLEAN, NEW asked \in SUBSET Items, RehStart(explicit, asked)
      PROVE  Sound
  BY <1>4, RehydrationStarts DEF Sound, RehStart, RehydrationHonest
<1>5. ASSUME reh.pc = "load", NEW ranked \in SUBSET reh.asked, NEW order \in Orders(ranked), RehLoad(order)
      PROVE  Sound
  BY <1>5, RehydrationLoads DEF Sound, RehLoad
<1>6. ASSUME NEW m \in Memories, SessRead(m) \/ StageMoves(m)
      PROVE  Sound
  BY <1>6, StageReads, StageGoesOn DEF Sound, SessRead, StageMoves, SessWrite, SessCommit, SessGates
<1>7. ASSUME NEW explicit \in BOOLEAN, NEW asked \in Asks, RehStart(explicit, asked)
      PROVE  Sound
  BY <1>4, <1>7, SessionAssumption
<1>8. QED
  BY <1>1, <1>2, <1>3, <1>5, <1>6, <1>7 DEF Next, StageMoves

(* The stored digest answers for every exchange it counts as compacted,    *)
(* for any number of requests that race to write its columns               *)
(* (refresh_session_digest), as long as no text was cut and no LLM gave    *)
(* the old text back; and _pair_chat_turns makes of any turns the          *)
(* exchanges it means.                                                     *)
THEOREM SessionInvariant == Spec => []SessionInv
<1>1. Init => CoreInv
  BY CoreInit
<1>2. CoreInv /\ [Next]_vars => CoreInv'
  BY EveryStep DEF Sound
<1>3. CoreInv => SessionInv
  <2>1. PairingExact
    BY PairsOfTurns DEF PairingExact, ChatTurns
  <2>2. QED
    BY <2>1 DEF CoreInv, SessionInv
<1>4. QED
  BY <1>1, <1>2, <1>3, PTL DEF Spec

(* get_session_context leaves out nothing it has read: what is not in the  *)
(* raw tail is in the digest it returns, for any tail, budget and batch    *)
(* size and any order in which the items became visible.                   *)
THEOREM ContextsAreComplete == Spec => []ContextComplete
<1>1. Init => CoreInv
  BY CoreInit
<1>2. CoreInv /\ [Next]_vars => CoreInv'
  BY EveryStep DEF Sound
<1>3. CoreInv => ContextComplete
  BY DEF CoreInv
<1>4. QED
  BY <1>1, <1>2, <1>3, PTL DEF Spec

(* rehydrate_session_sources accounts for every source asked for, keeps    *)
(* max_items and token_budget, and omits only what no longer fits, for     *)
(* sources of any size in any order.                                       *)
THEOREM RehydrationsAreHonest == Spec => []RehydrationHonest
<1>1. Init => CoreInv /\ RehydrationHonest
  BY CoreInit
<1>2. CoreInv /\ RehydrationHonest /\ [Next]_vars => CoreInv' /\ RehydrationHonest'
  <2> SUFFICES ASSUME CoreInv, RehydrationHonest, [Next]_vars
               PROVE  CoreInv' /\ RehydrationHonest'
    OBVIOUS
  <2>1. Sound
    BY EveryStep
  <2>2. UNCHANGED reh => RehydrationHonest'
    BY DEF RehydrationHonest
  <2>3. QED
    BY <2>1, <2>2 DEF Sound
<1>3. QED
  BY <1>1, <1>2, PTL DEF Spec

(* The debounce of _maybe_summarize_session_l3 stops a stage only for a    *)
(* memory that the run which set the counter has read, unless a memory of  *)
(* that run was deleted since; also when a slower run sets the counter     *)
(* back.                                                                   *)
THEOREM DebounceIsSafe == Spec => DebounceSkipsOnlySeen
<1>1. Init => CoreInv
  BY CoreInit
<1>2. CoreInv /\ [Next]_vars => CoreInv'
  BY EveryStep DEF Sound
<1>3. CoreInv /\ [Next]_vars
         => [\A m \in Memories :
                item[m] = "live" /\ pipe[m].pc = "read" /\ pipe'[m].pc = "debounced" =>
                   m \in lastRead \/ \E j \in lastRead : item[j] = "gone"]_vars
  <2> SUFFICES ASSUME CoreInv, [Next]_vars
               PROVE  SkipsSeen
    BY DEF SkipsSeen
  <2>1. Sound
    BY EveryStep
  <2>2. UNCHANGED pipe => SkipsSeen
    BY DEF SkipsSeen
  <2>3. QED
    BY <2>1, <2>2 DEF Sound
<1>4. QED
  BY <1>1, <1>2, <1>3, PTL DEF Spec, DebounceSkipsOnlySeen

=============================================================================
