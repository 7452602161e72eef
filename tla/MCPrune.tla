------------------------------- MODULE MCPrune -------------------------------
(***************************************************************************)
(* Instances of Prune for TLC.  Commit ids, blobs and pruners are          *)
(* interchangeable.                                                        *)
(***************************************************************************)
EXTENDS Prune, TLC

Symmetry == Permutations(CommitIds) \cup Permutations(Blobs) \cup Permutations(Pruners)

\* The state without `presented` and `doomed`, which no step of PruneNext reads.
\* Sound for the properties that do not read them either: RetainedStable.
WithoutHistory == <<seq, nextSeq, commitParents, chunkHistory, target, activeRefs,
                    assigned, hashed, prune>>
=============================================================================
