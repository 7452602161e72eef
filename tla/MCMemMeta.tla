------------------------------ MODULE MCMemMeta ------------------------------
(***************************************************************************)
(* Instances of MemMeta for TLC.                                           *)
(***************************************************************************)
EXTENDS MemMeta, TLC

Symmetry == Permutations(CommitIds) \cup Permutations(Blobs)
=============================================================================
