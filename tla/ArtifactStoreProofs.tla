------------------------- MODULE ArtifactStoreProofs -------------------------
(***************************************************************************)
(* Proofs about ArtifactStore, for every number of artifacts and deleters, *)
(* every limit and either backend.                                         *)
(***************************************************************************)
EXTENDS ArtifactStore, FiniteSetTheorems, WellFoundedInduction, TLAPS

-----------------------------------------------------------------------------
(* Rows and bodies.                                                        *)

LEMMA ArtifactInit == Init => ArtifactInv
BY ArtifactAssumption
   DEF Init, ArtifactInv, TypeOK, BodiesAccounted, DeletesKnown, BodiesFollowRows,
       Deleting, Stored

\* The URL minted for an artifact is a URL.
LEMMA UrlType ==
    ASSUME TypeOK, NEW a \in Artifacts
    PROVE  Url(a) \in Urls
BY ArtifactAssumption DEF TypeOK, Url, Urls

LEMMA TypeStep ==
    ASSUME TypeOK, [Next]_vars
    PROVE  TypeOK'
<1> USE ArtifactAssumption DEF TypeOK
<1>1. ASSUME NEW a \in Artifacts, NEW size \in Sizes, UploadPut(a, size)
      PROVE  TypeOK'
  BY <1>1 DEF UploadPut
<1>2. ASSUME NEW a \in Artifacts, NEW size \in Sizes, UploadBadMetadata(a, size)
      PROVE  TypeOK'
  BY <1>2 DEF UploadBadMetadata
<1>3. ASSUME NEW a \in Artifacts, NEW size \in Sizes, UploadTorn(a, size)
      PROVE  TypeOK'
  BY <1>3 DEF UploadTorn
<1>4. ASSUME NEW a \in Artifacts, UploadCommit(a)
      PROVE  TypeOK'
  BY <1>4, UrlType DEF UploadCommit
<1>5. ASSUME NEW a \in Artifacts, UploadRollback(a)
      PROVE  TypeOK'
  BY <1>5 DEF UploadRollback
<1>6. ASSUME NEW a \in Artifacts, GetArtifact(a)
      PROVE  TypeOK'
  BY <1>6, UrlType DEF GetArtifact
<1>7. ASSUME NEW a \in Artifacts, NEW d \in Deleters, DeleteStart(d, a)
      PROVE  TypeOK'
  BY <1>7 DEF DeleteStart, Unlink
<1>8. ASSUME NEW a \in Artifacts, NEW d \in Deleters, DeleteStartFails(d, a)
      PROVE  TypeOK'
  BY <1>8 DEF DeleteStartFails
<1>9. ASSUME NEW d \in Deleters, DeleteCommit(d)
      PROVE  TypeOK'
  BY <1>9 DEF DeleteCommit
<1>10. ASSUME NEW d \in Deleters, DeleteRollback(d)
       PROVE  TypeOK'
  BY <1>10 DEF DeleteRollback
<1>11. CASE PushTurn
  BY <1>11 DEF PushTurn
<1>12. CASE SoftDeleteChat
  BY <1>12 DEF SoftDeleteChat
<1>13. CASE Tick
  BY <1>13 DEF Tick
<1>14. CASE UNCHANGED vars
  BY <1>14 DEF vars
<1>15. QED
  BY <1>1, <1>2, <1>3, <1>4, <1>5, <1>6, <1>7, <1>8, <1>9, <1>10, <1>11, <1>12,
     <1>13, <1>14 DEF Next

\* One step per action: what it writes, it writes to one artifact, and a
\* failure that parts its row from its body says so.
LEMMA ArtifactStep ==
    ASSUME ArtifactInv, [Next]_vars
    PROVE  ArtifactInv'
<1>0. TypeOK /\ TypeOK'
  BY TypeStep DEF ArtifactInv
<1> USE <1>0, ArtifactAssumption
    DEF ArtifactInv, TypeOK, BodiesAccounted, DeletesKnown, BodiesFollowRows, Deleting,
        Stored
<1>1. ASSUME NEW a \in Artifacts, NEW size \in Sizes, UploadPut(a, size)
      PROVE  ArtifactInv'
  BY <1>1 DEF UploadPut, Fresh
<1>2. ASSUME NEW a \in Artifacts, NEW size \in Sizes, UploadBadMetadata(a, size)
      PROVE  ArtifactInv'
  BY <1>2 DEF UploadBadMetadata, Fresh
<1>3. ASSUME NEW a \in Artifacts, NEW size \in Sizes, UploadTorn(a, size)
      PROVE  ArtifactInv'
  BY <1>3 DEF UploadTorn, Fresh
<1>4. ASSUME NEW a \in Artifacts, UploadCommit(a)
      PROVE  ArtifactInv'
  BY <1>4 DEF UploadCommit
<1>5. ASSUME NEW a \in Artifacts, UploadRollback(a)
      PROVE  ArtifactInv'
  BY <1>5 DEF UploadRollback
<1>6. ASSUME NEW a \in Artifacts, GetArtifact(a)
      PROVE  ArtifactInv'
  BY <1>6 DEF GetArtifact
<1>7. ASSUME NEW a \in Artifacts, NEW d \in Deleters, DeleteStart(d, a)
      PROVE  ArtifactInv'
  BY <1>7 DEF DeleteStart, Unlink
<1>8. ASSUME NEW a \in Artifacts, NEW d \in Deleters, DeleteStartFails(d, a)
      PROVE  ArtifactInv'
  BY <1>8 DEF DeleteStartFails
<1>9. ASSUME NEW d \in Deleters, DeleteCommit(d)
      PROVE  ArtifactInv'
  BY <1>9 DEF DeleteCommit
<1>10. ASSUME NEW d \in Deleters, DeleteRollback(d)
       PROVE  ArtifactInv'
  BY <1>10 DEF DeleteRollback
<1>11. CASE PushTurn
  BY <1>11 DEF PushTurn
<1>12. CASE SoftDeleteChat
  BY <1>12 DEF SoftDeleteChat
<1>13. CASE Tick
  BY <1>13 DEF Tick
<1>14. CASE UNCHANGED vars
  BY <1>14 DEF vars
<1>15. QED
  BY <1>1, <1>2, <1>3, <1>4, <1>5, <1>6, <1>7, <1>8, <1>9, <1>10, <1>11, <1>12,
     <1>13, <1>14 DEF Next

\* Rows, bodies, uploads and deletes are always accounted for: a stored body
\* has a row or an upload in progress or was left behind by a known failure,
\* whatever uploads, deletes, pushes and faults interleave.
THEOREM ArtifactInvariant == Spec => []ArtifactInv
<1>1. ArtifactInv /\ [Next]_vars => ArtifactInv'
  BY ArtifactStep
<1>2. QED
  BY ArtifactInit, <1>1, PTL DEF Spec

\* A URL that has not expired streams the body of its live artifact, unless
\* a failure parted the two or a DELETE is under way.  The token endpoint
\* reads the local store, so this is about the local_fs backend.
THEOREM UrlsOfLiveArtifactsStream ==
    ASSUME Backend = "local_fs"
    PROVE  Spec => []LiveUrlStreams
<1>1. ArtifactInv => LiveUrlStreams
  BY DEF ArtifactInv, TypeOK, Urls, BodiesFollowRows, LiveUrlStreams, Streams, Verify
<1>2. QED
  BY ArtifactInvariant, <1>1, PTL

\* Once a DELETE was answered, no URL handed out earlier streams the body,
\* unless the store failed to remove it; then only until the URL expires.
THEOREM DeletedBodiesAreGone == Spec => []DeletedIsGone
<1>1. ArtifactInv => DeletedIsGone
  BY DEF ArtifactInv, TypeOK, Urls, BodiesAccounted, DeletesKnown, DeletedIsGone, Streams,
         Verify, Stored
<1>2. QED
  BY ArtifactInvariant, <1>1, PTL

-----------------------------------------------------------------------------
(* The quota.  TotalSize is a fold, so what it does when one body changes  *)
(* takes an induction.  It is stated with a set in place of a predicate:   *)
(* a set of naturals with 0 and every successor holds all of them.         *)

LEMMA SetInduction ==
    ASSUME NEW T, 0 \in T, \A n \in Nat : n \in T => n + 1 \in T
    PROVE  Nat \subseteq T
<1> DEFINE Out == Nat \ T
<1>1. ASSUME Out # {}
      PROVE  FALSE
  <2>1. PICK n \in Out : \A y \in Out : <<y, n>> \notin OpToRel(<, Nat)
    BY <1>1, NatLessThanWellFounded, WFMin
  <2>2. n - 1 \in Nat /\ n - 1 < n /\ (n - 1) + 1 = n
    OBVIOUS
  <2>3. n - 1 \in Out
    BY <2>2
  <2>4. QED
    BY <2>1, <2>2, <2>3 DEF OpToRel
<1>2. QED
  BY <1>1

\* The element a fold takes out of a set.
Pick(s) == CHOOSE x \in s : TRUE

\* g sums b over the subsets of S.
Sums(b, S, g) ==
    g = [s \in SUBSET S |-> IF s = {} THEN 0 ELSE b[Pick(s)] + g[s \ {Pick(s)}]]

SumOf(b, S) == CHOOSE g : Sums(b, S, g)

LEMMA PickIn ==
    ASSUME NEW s, s # {}
    PROVE  Pick(s) \in s
BY DEF Pick

\* Taking an element out makes a set smaller.
LEMMA PickSmaller ==
    ASSUME NEW S, IsFiniteSet(S), NEW s \in SUBSET S, s # {}
    PROVE  /\ s \ {Pick(s)} \in SUBSET S
           /\ Cardinality(s) \in Nat \ {0}
           /\ Cardinality(s \ {Pick(s)}) = Cardinality(s) - 1
<1>1. IsFiniteSet(s)
  BY FS_Subset
<1>2. Cardinality(s) \in Nat /\ Cardinality(s) # 0
  BY <1>1, FS_CardinalityType, FS_EmptySet
<1>3. QED
  BY <1>1, <1>2, PickIn, FS_RemoveElement

\* The fold is well defined: some function sums b.
LEMMA SumExists ==
    ASSUME NEW S, IsFiniteSet(S), NEW b \in [S -> Nat]
    PROVE  Sums(b, S, SumOf(b, S))
<1> DEFINE Sub(n) == {s \in SUBSET S : Cardinality(s) <= n}
           Eq(g, n) == \A s \in Sub(n) :
                          g[s] = IF s = {} THEN 0 ELSE b[Pick(s)] + g[s \ {Pick(s)}]
           T == {n \in Nat : \E g \in [Sub(n) -> Nat] : Eq(g, n)}
<1>0. \A s \in SUBSET S : Cardinality(s) \in Nat /\ (Cardinality(s) = 0 <=> s = {})
  BY FS_Subset, FS_CardinalityType, FS_EmptySet
<1>1. 0 \in T
  <2> DEFINE g == [s \in Sub(0) |-> 0]
  <2>1. \A s \in Sub(0) : s = {}
    BY <1>0
  <2>2. g \in [Sub(0) -> Nat] /\ Eq(g, 0)
    BY <2>1
  <2>3. QED
    BY <2>2
<1>2. ASSUME NEW n \in Nat, n \in T
      PROVE  n + 1 \in T
  <2>1. PICK g \in [Sub(n) -> Nat] : Eq(g, n)
    BY <1>2
  <2> DEFINE h == [s \in Sub(n + 1) |->
                      IF s = {} THEN 0 ELSE b[Pick(s)] + g[s \ {Pick(s)}]]
  <2>2. ASSUME NEW s \in Sub(n + 1), s # {}
        PROVE  s \ {Pick(s)} \in Sub(n) /\ s \ {Pick(s)} \in Sub(n + 1) /\ Pick(s) \in S
    BY <2>2, <1>0, PickSmaller, PickIn
  <2>3. h \in [Sub(n + 1) -> Nat]
    BY <2>2
  <2>4. \A s \in Sub(n) : s \in Sub(n + 1) /\ h[s] = g[s]
    <3> TAKE s \in Sub(n)
    <3>1. s \in Sub(n + 1)
      BY <1>0
    <3>2. QED
      BY <3>1, <2>1
  <2>5. Eq(h, n + 1)
    <3> SUFFICES ASSUME NEW s \in Sub(n + 1)
                 PROVE  h[s] = IF s = {} THEN 0 ELSE b[Pick(s)] + h[s \ {Pick(s)}]
      OBVIOUS
    <3>1. CASE s = {}
      BY <3>1
    <3>2. CASE s # {}
      <4>1. h[s \ {Pick(s)}] = g[s \ {Pick(s)}]
        BY <3>2, <2>2, <2>4
      <4>2. QED
        BY <3>2, <4>1
    <3>3. QED
      BY <3>1, <3>2
  <2> HIDE DEF h, Eq, Sub
  <2>6. \E z \in [Sub(n + 1) -> Nat] : Eq(z, n + 1)
    BY <2>3, <2>5
  <2>7. QED
    BY <2>6
<1>3. Nat \subseteq T
  <2> HIDE DEF T
  <2>1. QED
    BY <1>1, <1>2, SetInduction
<1> DEFINE N == Cardinality(S)
<1>4. N \in T
  BY <1>0, <1>3
<1>5. PICK g \in [Sub(N) -> Nat] : Eq(g, N)
  BY <1>4
<1>6. Sub(N) = SUBSET S
  BY FS_Subset
<1>7. Sums(b, S, g)
  BY <1>5, <1>6 DEF Sums
<1>8. QED
  BY <1>7 DEF SumOf

LEMMA SumUnfolds ==
    ASSUME NEW S, IsFiniteSet(S), NEW b \in [S -> Nat], NEW s \in SUBSET S
    PROVE  SumOf(b, S)[s] =
             IF s = {} THEN 0 ELSE b[Pick(s)] + SumOf(b, S)[s \ {Pick(s)}]
<1> DEFINE g == SumOf(b, S)
<1>1. g = [z \in SUBSET S |-> IF z = {} THEN 0 ELSE b[Pick(z)] + g[z \ {Pick(z)}]]
  BY SumExists DEF Sums
<1> HIDE DEF g
<1>2. g[s] = IF s = {} THEN 0 ELSE b[Pick(s)] + g[s \ {Pick(s)}]
  BY <1>1
<1>3. QED
  BY <1>2 DEF g

LEMMA SumNat ==
    ASSUME NEW S, IsFiniteSet(S), NEW b \in [S -> Nat]
    PROVE  \A s \in SUBSET S : SumOf(b, S)[s] \in Nat
<1> DEFINE g == SumOf(b, S)
           T == {n \in Nat : \A s \in SUBSET S : Cardinality(s) = n => g[s] \in Nat}
<1>1. \A s \in SUBSET S : g[s] = IF s = {} THEN 0 ELSE b[Pick(s)] + g[s \ {Pick(s)}]
  BY SumUnfolds
<1> HIDE DEF g
<1>2. 0 \in T
  <2>1. ASSUME NEW s \in SUBSET S, Cardinality(s) = 0
        PROVE  g[s] \in Nat
    <3>1. s = {}
      BY <2>1, FS_Subset, FS_EmptySet
    <3>2. g[s] = IF s = {} THEN 0 ELSE b[Pick(s)] + g[s \ {Pick(s)}]
      BY <1>1
    <3>3. QED
      BY <3>1, <3>2
  <2>2. QED
    BY <2>1
<1>3. ASSUME NEW n \in Nat, n \in T
      PROVE  n + 1 \in T
  <2>1. ASSUME NEW s \in SUBSET S, Cardinality(s) = n + 1
        PROVE  g[s] \in Nat
    <3>1. s # {}
      BY <2>1, FS_EmptySet
    <3>2. g[s \ {Pick(s)}] \in Nat /\ b[Pick(s)] \in Nat
      BY <2>1, <3>1, <1>3, PickSmaller, PickIn
    <3>3. QED
      BY <3>1, <3>2, <1>1
  <2>2. QED
    BY <2>1
<1>4. Nat \subseteq T
  <2> HIDE DEF T
  <2>1. QED
    BY <1>2, <1>3, SetInduction
<1>5. \A s \in SUBSET S : Cardinality(s) \in Nat
  BY FS_Subset, FS_CardinalityType
<1>6. QED
  BY <1>4, <1>5 DEF g

\* When one value changes, the sums of the sets it is in change by as much.
LEMMA SumChanges ==
    ASSUME NEW S, IsFiniteSet(S), NEW b \in [S -> Nat], NEW a \in S, NEW v \in Nat,
           NEW c \in [S -> Nat], c[a] = v, \A x \in S \ {a} : c[x] = b[x]
    PROVE  \A s \in SUBSET S :
             SumOf(c, S)[s] =
               IF a \in s THEN SumOf(b, S)[s] - b[a] + v ELSE SumOf(b, S)[s]
<1> DEFINE g == SumOf(b, S)
           h == SumOf(c, S)
           Changed(s) == h[s] = IF a \in s THEN g[s] - b[a] + v ELSE g[s]
           T == {n \in Nat : \A s \in SUBSET S : Cardinality(s) = n => Changed(s)}
<1>1. \A s \in SUBSET S :
        /\ g[s] = IF s = {} THEN 0 ELSE b[Pick(s)] + g[s \ {Pick(s)}]
        /\ h[s] = IF s = {} THEN 0 ELSE c[Pick(s)] + h[s \ {Pick(s)}]
  BY SumUnfolds
<1>2. \A s \in SUBSET S : g[s] \in Nat /\ h[s] \in Nat
  BY SumNat
<1> HIDE DEF g, h
<1>3. 0 \in T
  BY <1>1, FS_Subset, FS_EmptySet
<1>4. ASSUME NEW n \in Nat, n \in T
      PROVE  n + 1 \in T
  <2>1. ASSUME NEW s \in SUBSET S, Cardinality(s) = n + 1
        PROVE  Changed(s)
    <3> DEFINE x == Pick(s)
               r == s \ {x}
    <3>1. s # {}
      BY <2>1, FS_EmptySet
    <3>2. r \in SUBSET S /\ Cardinality(r) = n /\ x \in s
      BY <2>1, <3>1, PickSmaller, PickIn
    <3>3. g[s] = b[x] + g[r] /\ h[s] = c[x] + h[r]
      BY <3>1, <1>1
    <3>4. Changed(r) /\ g[r] \in Nat /\ h[r] \in Nat
      BY <3>2, <1>4, <1>2
    <3>5. b[a] \in Nat /\ b[x] \in Nat /\ (x # a => c[x] = b[x])
      BY <3>2
    <3> HIDE DEF x
    <3>6. CASE x = a
      BY <3>2, <3>3, <3>4, <3>5, <3>6
    <3>7. CASE x # a
      BY <3>2, <3>3, <3>4, <3>5, <3>7
    <3>8. QED
      BY <3>6, <3>7
  <2>2. QED
    BY <2>1
<1>5. Nat \subseteq T
  <2> HIDE DEF T
  <2>1. QED
    BY <1>3, <1>4, SetInduction
<1>6. \A s \in SUBSET S : Cardinality(s) \in Nat
  BY FS_Subset, FS_CardinalityType
<1>7. QED
  BY <1>5, <1>6 DEF g, h

LEMMA BodyType ==
    ASSUME TypeOK
    PROVE  body \in [Artifacts -> Nat]
<1>1. Sizes \cup {0} \subseteq Nat
  BY ArtifactAssumption
<1>2. QED
  BY <1>1 DEF TypeOK

\* TotalSize is the sum of the bodies.
LEMMA TotalIsSum == TotalSize = SumOf(body, Artifacts)[Artifacts]
BY DEF TotalSize, MapThenSumSet, MapThenFoldSet, SumOf, Sums, Pick

\* A body that is stored adds its size, one that is removed takes it away.
LEMMA TotalChanges ==
    ASSUME TypeOK, NEW a \in Artifacts, NEW v \in Nat, body' \in [Artifacts -> Nat],
           body'[a] = v, \A x \in Artifacts \ {a} : body'[x] = body[x]
    PROVE  TotalSize' = TotalSize - body[a] + v
<1>1. body \in [Artifacts -> Nat]
  BY BodyType
<1>2. TotalSize' = SumOf(body', Artifacts)[Artifacts]
  BY DEF TotalSize, MapThenSumSet, MapThenFoldSet, SumOf, Sums, Pick
<1>3. \A s \in SUBSET Artifacts :
        SumOf(body', Artifacts)[s] =
          IF a \in s THEN SumOf(body, Artifacts)[s] - body[a] + v ELSE SumOf(body, Artifacts)[s]
  BY <1>1, SumChanges, ArtifactAssumption
<1>4. SumOf(body', Artifacts)[Artifacts]
        = SumOf(body, Artifacts)[Artifacts] - body[a] + v
  BY <1>3
<1>5. QED
  BY <1>2, <1>4, TotalIsSum

LEMMA TotalNat ==
    ASSUME TypeOK
    PROVE  TotalSize \in Nat
<1>1. body \in [Artifacts -> Nat]
  BY BodyType
<1>2. QED
  BY <1>1, TotalIsSum, SumNat, ArtifactAssumption

\* An upload the local store accepts stays within the quota.
LEMMA PutKeepsQuota ==
    ASSUME TypeOK, QuotaHeld, NEW a \in Artifacts, NEW size \in Sizes, Fresh(a),
           Accepts(size), body' = [body EXCEPT ![a] = size]
    PROVE  QuotaHeld'
<1>1. size \in Nat /\ body[a] = 0 /\ MaxTotal \in Nat
  BY ArtifactAssumption DEF Fresh
<1>2. TotalSize' = TotalSize - 0 + size
  BY <1>1, BodyType, TotalChanges
<1>3. QED
  BY <1>1, <1>2, TotalNat DEF QuotaHeld, Accepts, Fits

LEMMA SameBodiesSameTotal ==
    ASSUME QuotaHeld, UNCHANGED body
    PROVE  QuotaHeld'
BY DEF QuotaHeld, TotalSize, MapThenSumSet, MapThenFoldSet

LEMMA QuotaStep ==
    ASSUME TypeOK, QuotaHeld, [Next]_vars
    PROVE  QuotaHeld'
<1>1. ASSUME NEW a \in Artifacts, NEW size \in Sizes, UploadPut(a, size)
      PROVE  QuotaHeld'
  BY <1>1, PutKeepsQuota DEF UploadPut
<1>2. ASSUME NEW a \in Artifacts, NEW size \in Sizes, UploadBadMetadata(a, size)
      PROVE  QuotaHeld'
  BY <1>2, PutKeepsQuota DEF UploadBadMetadata
<1>3. ASSUME NEW a \in Artifacts, NEW size \in Sizes, UploadTorn(a, size)
      PROVE  QuotaHeld'
  BY <1>3, PutKeepsQuota DEF UploadTorn
<1>4. ASSUME NEW a \in Artifacts, NEW d \in Deleters, DeleteStart(d, a)
      PROVE  QuotaHeld'
  <2>1. TotalSize' = TotalSize - body[a] + 0
    BY <1>4, BodyType, TotalChanges DEF DeleteStart, Unlink
  <2>2. body[a] \in Nat /\ TotalSize \in Nat /\ MaxTotal \in Nat
    BY TotalNat, BodyType, ArtifactAssumption
  <2>3. QED
    BY <2>1, <2>2 DEF QuotaHeld
<1>5. ASSUME NEW a \in Artifacts,
             \/ UploadCommit(a) \/ UploadRollback(a) \/ GetArtifact(a)
             \/ \E d \in Deleters : DeleteStartFails(d, a)
      PROVE  QuotaHeld'
  BY <1>5, SameBodiesSameTotal
     DEF UploadCommit, UploadRollback, GetArtifact, DeleteStartFails
<1>6. ASSUME NEW d \in Deleters, DeleteCommit(d) \/ DeleteRollback(d)
      PROVE  QuotaHeld'
  BY <1>6, SameBodiesSameTotal DEF DeleteCommit, DeleteRollback
<1>7. CASE PushTurn \/ SoftDeleteChat \/ Tick \/ UNCHANGED vars
  BY <1>7, SameBodiesSameTotal DEF PushTurn, SoftDeleteChat, Tick, vars
<1>8. QED
  BY <1>1, <1>2, <1>3, <1>4, <1>5, <1>6, <1>7 DEF Next

LEMMA QuotaInit == Init => QuotaHeld
<1> SUFFICES ASSUME Init
             PROVE  TotalSize <= MaxTotal
  BY DEF QuotaHeld
<1> DEFINE g == SumOf(body, Artifacts)
           T == {n \in Nat : \A s \in SUBSET Artifacts : Cardinality(s) = n => g[s] = 0}
<1>1. body \in [Artifacts -> Nat] /\ \A a \in Artifacts : body[a] = 0
  BY DEF Init
<1>2. \A s \in SUBSET Artifacts :
        g[s] = IF s = {} THEN 0 ELSE body[Pick(s)] + g[s \ {Pick(s)}]
  BY <1>1, SumUnfolds, ArtifactAssumption
<1> HIDE DEF g
<1>3. ASSUME NEW s \in SUBSET Artifacts, Cardinality(s) = 0
      PROVE  g[s] = 0
  <2>1. s = {}
    BY <1>3, FS_Subset, FS_EmptySet, ArtifactAssumption
  <2>2. QED
    BY <2>1, <1>2
<1>4. ASSUME NEW n \in Nat, n \in T, NEW s \in SUBSET Artifacts, Cardinality(s) = n + 1
      PROVE  g[s] = 0
  <2>1. s # {}
    BY <1>4, FS_EmptySet
  <2>2. g[s \ {Pick(s)}] = 0 /\ body[Pick(s)] = 0
    BY <1>1, <1>4, <2>1, PickSmaller, PickIn, ArtifactAssumption
  <2>3. g[s] = body[Pick(s)] + g[s \ {Pick(s)}]
    BY <2>1, <1>2
  <2>4. QED
    BY <2>2, <2>3
<1>5. 0 \in T /\ \A n \in Nat : n \in T => n + 1 \in T
  BY <1>3, <1>4
<1>6. Cardinality(Artifacts) \in T
  <2> HIDE DEF T
  <2>1. QED
    BY <1>5, SetInduction, FS_CardinalityType, ArtifactAssumption
<1>7. g[Artifacts] = 0
  BY <1>6
<1>8. QED
  BY <1>7, TotalIsSum, ArtifactAssumption DEF g

\* "exceeds local_fs total limit": the local store never holds more than
\* max_total_bytes, the bodies that lost their rows included, for any number
\* of uploads of any sizes.
THEOREM QuotaIsHeld == Spec => []QuotaHeld
<1>1. ArtifactInv /\ QuotaHeld /\ [Next]_vars => QuotaHeld'
  BY QuotaStep DEF ArtifactInv
<1>2. QED
  BY QuotaInit, ArtifactInvariant, <1>1, PTL DEF Spec

=============================================================================
