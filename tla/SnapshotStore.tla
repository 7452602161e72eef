---------------------------- MODULE SnapshotStore -----------------------------
(***************************************************************************)
(* What the users of a store are promised of its commits: a commit is an   *)
(* immutable snapshot over the one it continues, the refs and the lineage  *)
(* lead from snapshot to snapshot, and forgetting a commit disturbs        *)
(* nothing but that commit.  Of deltas, links, sequences and blobs in      *)
(* tables it says nothing.  Prune and StoreRuns implement it.              *)
(***************************************************************************)
CONSTANTS
  CommitIds,   \* commit hashes
  Coords,      \* chunk coordinates
  Blobs,       \* chunk hashes
  RefNames,    \* ref names
  Main,        \* the ref a fresh store starts with
  Unborn,      \* what a ref without a commit names
  Absent       \* stands for a ref that does not exist

VARIABLES
  stored,      \* the commits there are
  promised,    \* those of them that nobody has set out to forget
  lineage,     \* stored commit -> the stored commits it continues, itself one
  snapshots,   \* promised commit -> its state
  target,      \* what each ref names
  activeRefs   \* the refs that new commits continue

vars == <<stored, promised, target, activeRefs, lineage, snapshots>>

\* What a reader is given at a coordinate: one blob or none.
Cells == {{}} \cup {{b} : b \in Blobs}

Blank == [k \in Coords |-> {}]

\* The changes a commit makes to what it continues.
Changes == UNION {[K -> Cells] : K \in SUBSET Coords}

Overlaid(under, changes) ==
  [k \in Coords |-> IF k \in DOMAIN changes THEN changes[k] ELSE under[k]]

\* What there is to record over.  Of a commit on its way out nothing is
\* promised.
Grounds(base) ==
  IF base = Unborn THEN {Blank}
  ELSE IF base \in promised THEN {snapshots[base]}
  ELSE [Coords -> Cells]

Init ==
  /\ stored = {}
  /\ promised = {}
  /\ lineage = [c \in {} |-> {}]
  /\ snapshots = [c \in {} |-> Blank]
  /\ target = [n \in RefNames |-> IF n = Main THEN Unborn ELSE Absent]
  /\ activeRefs = {Main}

\* A new commit continues the active ref, which moves to it.
Record(c, base) ==
  /\ c \notin stored
  /\ base \in stored \cup {Unborn}
  /\ \A n \in activeRefs : target[n] \in {Unborn, base}
  /\ target' = [n \in RefNames |-> IF n \in activeRefs THEN c ELSE target[n]]
  /\ stored' = stored \cup {c}
  /\ promised' = promised \cup {c}
  /\ UNCHANGED activeRefs
  /\ lineage' = [d \in stored \cup {c} |->
                   IF d # c THEN lineage[d]
                   ELSE {c} \cup (IF base = Unborn THEN {} ELSE lineage[base])]
  /\ \E under \in Grounds(base), changes \in Changes :
       snapshots' = [d \in promised \cup {c} |->
                       IF d = c THEN Overlaid(under, changes) ELSE snapshots[d]]

\* Some commits are set out to be forgotten: nothing is promised of their
\* states any more.
Withdraw(S) ==
  /\ S \subseteq promised
  /\ promised' = promised \ S
  /\ UNCHANGED <<stored, target, activeRefs, lineage>>
  /\ snapshots' = [d \in promised \ S |-> snapshots[d]]

\* One of them goes, and refs on it move to a commit that continues it.
Forget(c, heir) ==
  /\ c \in stored \ promised
  /\ heir \in stored \ {c}
  /\ stored' = stored \ {c}
  /\ target' = [n \in RefNames |-> IF target[n] = c THEN heir ELSE target[n]]
  /\ UNCHANGED <<promised, activeRefs>>
  /\ c \in lineage[heir]
  /\ lineage' = [d \in stored \ {c} |-> lineage[d] \ {c}]
  /\ UNCHANGED snapshots

SetRef(n, t) ==
  /\ t \in stored \cup {Unborn}
  /\ target' = [target EXCEPT ![n] = t]
  /\ UNCHANGED <<stored, promised, activeRefs, lineage, snapshots>>

\* The active ref cannot be deleted.
DeleteRef(n) ==
  /\ target[n] # Absent
  /\ n \notin activeRefs
  /\ target' = [target EXCEPT ![n] = Absent]
  /\ UNCHANGED <<stored, promised, activeRefs, lineage, snapshots>>

ActivateRef(n) ==
  /\ target[n] # Absent
  /\ activeRefs' = {n}
  /\ UNCHANGED <<stored, promised, target, lineage, snapshots>>

Next ==
  \/ \E c \in CommitIds, base \in CommitIds \cup {Unborn} : Record(c, base)
  \/ \E S \in SUBSET CommitIds : Withdraw(S)
  \/ \E c, heir \in CommitIds : Forget(c, heir)
  \/ \E n \in RefNames, t \in CommitIds \cup {Unborn} : SetRef(n, t)
  \/ \E n \in RefNames : DeleteRef(n) \/ ActivateRef(n)

Spec == Init /\ [][Next]_vars
=============================================================================
