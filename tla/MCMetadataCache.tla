--------------------------- MODULE MCMetadataCache ---------------------------
(* MetadataCache on small instances. *)
EXTENDS MetadataCache, TLC

Symmetry == Permutations(Replicas) \cup Permutations(Slots)
=============================================================================
