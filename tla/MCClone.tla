------------------------------- MODULE MCClone -------------------------------
(***************************************************************************)
(* Instances of Clone for TLC.                                             *)
(***************************************************************************)
EXTENDS Clone, TLC

CONSTANTS p1, f1, f2, b1, b2, d1, d2

MCSwaps == Clones \X Files

MCImages == {i : i \in SUBSET Blobs}

\* Each file has a chunk of its own.
MCContent == [k \in Commits |-> [f \in Files |-> IF f = f1 THEN {b1} ELSE {b2}]]

\* Two regions of different dimensions.
MCDirOf == [f \in Files |-> IF f = f1 THEN d1 ELSE d2]

MCSelection == [c \in Clones |-> IF c = p1 THEN Files ELSE {f2}]

Symmetry == Permutations(Numbers)
=============================================================================
