----------------------------- MODULE MCStoreRuns -----------------------------
(***************************************************************************)
(* Instances of StoreRuns for TLC: which kinds of calls overlap in which.  *)
(***************************************************************************)
EXTENDS StoreRuns, TLC

Symmetry == Permutations(CommitIds) \cup Permutations(Blobs) \cup Permutations(Committers)
              \cup Permutations(Pruners)
=============================================================================
