--------------------------- MODULE MCArtifactStore ---------------------------
(* Instances of ArtifactStore for TLC. *)
EXTENDS ArtifactStore, TLC

Symmetry == Permutations(ChatFiles) \cup Permutations(Artifacts \ ChatFiles)
               \cup Permutations(Deleters)
=============================================================================
