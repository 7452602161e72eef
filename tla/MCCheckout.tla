----------------------------- MODULE MCCheckout ------------------------------
(***************************************************************************)
(* Instances of CheckoutRuns for TLC: two regions of one or two chunks.    *)
(***************************************************************************)
EXTENDS CheckoutRuns, TLC

CONSTANTS k1, k2, k3, r1, r2

Layout == (k1 :> r1 @@ k2 :> r1 @@ k3 :> r2)
TwoChunks == (k1 :> r1 @@ k2 :> r1)
TwoRegions == (k1 :> r1 @@ k3 :> r2)

AllScopes == {{r1, r2}, {r1}}
Whole == {Regions}

Policy(f, c, t, s) == [keepFiles |-> f, keepChunks |-> c, keepTombs |-> t, skip |-> s]

Strict == {Policy(FALSE, FALSE, FALSE, FALSE)}
Tolerant == {Policy(FALSE, c, FALSE, s) : c, s \in BOOLEAN}
Keeping == {Policy(f, c, t, FALSE) : f, c, t \in BOOLEAN}

Symmetry == Permutations(CommitIds) \cup Permutations(Blobs)
=============================================================================
