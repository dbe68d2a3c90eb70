------------------------ MODULE MCCompressionPipeline ------------------------
(* Instances of CompressionPipeline for TLC. *)
EXTENDS CompressionPipeline, TLC

Symmetry == Permutations(Mems)
=============================================================================
