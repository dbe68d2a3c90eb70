---------------------------- MODULE MCMemoryVault ----------------------------
(* Finite instances of MemoryVault for TLC.                                *)
EXTENDS MemoryVault, TLC

CONSTANTS r1, r2, m1, m2, s1, s2, c1, c2

\* Every content is similar to itself; c1 and c2 are not similar.
MCSimilarSelf == {<<c, c>> : c \in Contents}
\* c1 and c2 are paraphrases.
MCSimilarAll  == Contents \X Contents
\* A write to s2 is redirected to s1.
MCRelated     == {<<s2, s1>>}

MCRelatedNone == {}

MCSymmetry == Permutations(Reqs) \cup Permutations(MemIds)

=============================================================================
