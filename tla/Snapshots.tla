------------------------------ MODULE Snapshots ------------------------------
(***************************************************************************)
(* What the commits of a MetaStore present, and what they presented when   *)
(* they were recorded.  `presented` is a history variable: no code keeps   *)
(* it, the properties of the processes over the store are stated with it.  *)
(***************************************************************************)
EXTENDS MetaStore

VARIABLE presented   \* history: commit -> the state it presented when recorded

snapshotVars == <<metaVars, presented>>

\* visit_commit_chunks, tombstones dropped: at each coordinate the blob a
\* reader is given, as a set of one or none.
StateOf(c) == [k \in Coords |-> Present(c, k)]

NothingPresent == [k \in Coords |-> {}]

\* The rows visit_commits lists, with the order it lists them in.
CommitRows == [c \in commits |-> seq[c]]

NoRows == [c \in {} |-> 0]

SnapshotsInit ==
  /\ Init
  /\ presented = [c \in CommitIds |-> NothingPresent]

\* Recording a new commit, through the port.  Its timestamp is read from
\* the clock when the rest of the commit is ready, so its id is one that
\* was never recorded.
Record(c, ps, entries) ==
  /\ c \notin assigned
  /\ RecordNew(c, ps, entries)
  /\ presented' = [presented EXCEPT ![c] = StateOf(c)']

Intact(c) == StateOf(c) = presented[c]

\* The port calls on refs, for a user at the command line.
RefCall ==
  \/ \E n \in RefNames, t \in CommitIds \cup {Unborn} : SetRef(n, t)
  \/ \E n \in RefNames : DeleteRef(n) \/ ActivateRef(n)

PresentedType == presented \in [CommitIds -> [Coords -> SUBSET Blobs]]
=============================================================================
