------------------------------ MODULE MetaStore ------------------------------
(***************************************************************************)
(* The metadata port of the store: commits, the history graph, the delta   *)
(* rows (chunk_history) and the refs, as storage-sqlite keeps them.        *)
(*                                                                         *)
(* One action is one port call that succeeds.  A call that returns an      *)
(* error rolls its transaction back and leaves every table as it was, so   *)
(* it is a stuttering step.                                                *)
(*                                                                         *)
(* A commit id is the hash of its parents, its timestamp and its entries:  *)
(* an opaque element of CommitIds here.  `assigned` and `hashed` are       *)
(* history variables: the ids ever recorded, and the parents that went     *)
(* into each; the entries are left out, so an id recorded again may bring  *)
(* others, which is more than the code can do.  The timestamp is an        *)
(* argument of the calls, so a caller can record the content of a retired  *)
(* commit again, under the same id; that the application does not (its     *)
(* timestamp is the clock's) is NoneBack, assumed where it is needed.      *)
(***************************************************************************)
EXTENDS Naturals

CONSTANTS
  CommitIds,   \* commit hashes
  Coords,      \* chunk coordinates
  Blobs,       \* chunk hashes
  RefNames,    \* ref names
  Main,        \* the ref a fresh store starts with
  Unborn,      \* refs.commit_id IS NULL
  Absent,      \* no such row in refs
  Tombstone,   \* chunk_history.blob IS NULL
  Merges,      \* may a commit name several parents? (the port: yes, the app: no)
  MaxSeq       \* bound on the sequences handed out

ASSUME ConstantsAssumption ==
  /\ Main \in RefNames
  /\ Unborn \notin CommitIds
  /\ Absent \notin CommitIds \cup {Unborn}
  /\ Tombstone \notin Blobs
  /\ Merges \in BOOLEAN

VARIABLES
  seq,            \* commits: id -> local sequence, 0 when not stored
  nextSeq,        \* AUTOINCREMENT: the sequence the next commit gets
  commitParents,  \* commit_parents: <<child, parent>> pairs
  chunkHistory,   \* chunk_history: the delta rows
  target,         \* refs.commit_id by name
  activeRefs,     \* names of the refs whose `active` is 1
  assigned,       \* history: ids ever recorded
  hashed          \* history: id -> the parents its hash covers

metaVars == <<seq, nextSeq, commitParents, chunkHistory, target, activeRefs,
              assigned, hashed>>

-----------------------------------------------------------------------------
(* Reads. *)

Row == [commit : CommitIds, seq : Nat, coord : Coords,
        blob : Blobs \cup {Tombstone}]

commits == {c \in CommitIds : seq[c] > 0}

\* The fixpoint of the recursive query `ancestors`: the least set that
\* holds c and, with every commit, its parents.
Closed(S) == \A e \in commitParents : e[1] \in S => e[2] \in S

Ancestors(c) ==
  LET closed == {S \in SUBSET CommitIds : c \in S /\ Closed(S)}
  IN  {a \in CommitIds : \A S \in closed : a \in S}

\* Rows introduced at c or at one of its ancestors.
Visible(c, k) ==
  LET history == Ancestors(c)
  IN  {r \in chunkHistory : r.coord = k /\ r.commit \in history}

\* The effective row of a coordinate: the newest visible one, if any.
Effective(c, k) ==
  LET rows == Visible(c, k)
  IN  {r \in rows : \A q \in rows : q.seq <= r.seq}

\* What a reader sees at k: one blob, or nothing when the coordinate has
\* no row or a tombstone.
Present(c, k) == {r.blob : r \in Effective(c, k)} \ {Tombstone}

\* resolve_commit_ref: a commit id names a stored commit, a ref name the
\* commit of a born ref; anything else is refused.
Resolvable == commits \cup {target[n] : n \in {m \in RefNames : target[m] \in CommitIds}}

-----------------------------------------------------------------------------
(* Entries of one commit: a partial function from coordinates. *)
EntrySets == UNION {[K -> Blobs \cup {Tombstone}] : K \in SUBSET Coords}

\* Slip: the first sequence is 0, which the store reads as "no such commit".
InitFromZero ==
  /\ seq = [c \in CommitIds |-> 0]
  /\ nextSeq = 0
  /\ commitParents = {}
  /\ chunkHistory = {}
  /\ target = [n \in RefNames |-> IF n = Main THEN Unborn ELSE Absent]
  /\ activeRefs = {Main}
  /\ assigned = {}
  /\ hashed = [c \in CommitIds |-> {}]

Init ==
  /\ seq = [c \in CommitIds |-> 0]
  /\ nextSeq = 1
  /\ commitParents = {}
  /\ chunkHistory = {}
  /\ target = [n \in RefNames |-> IF n = Main THEN Unborn ELSE Absent]
  /\ activeRefs = {Main}
  /\ assigned = {}
  /\ hashed = [c \in CommitIds |-> {}]

RowAt(c, s, k, b) == [commit |-> c, seq |-> s, coord |-> k, blob |-> b]

\* Slip: rows for the chunks only, none for the tombstones.
RowsForChunks(c, s, entries) ==
  {RowAt(c, s, k, entries[k]) : k \in {j \in DOMAIN entries : entries[j] # Tombstone}}

RowsFor(c, s, entries) == {RowAt(c, s, k, entries[k]) : k \in DOMAIN entries}

\* insert_commit of an id that is not stored, which it may have been before:
\* every parent exists.  An id that was recorded covers the same parents.
InsertCommit(c, ps) ==
  /\ c \in CommitIds \ commits
  /\ c \in assigned => hashed[c] = ps
  /\ ps \subseteq commits
  /\ seq' = [seq EXCEPT ![c] = nextSeq]
  /\ nextSeq' = nextSeq + 1
  /\ commitParents' = commitParents \cup ({c} \X ps)
  /\ assigned' = assigned \cup {c}
  /\ hashed' = [hashed EXCEPT ![c] = ps]

\* Slip: any active ref will do, wherever it points.
ContinuesAnything(ps) == activeRefs # {}

\* The recorded parents must continue the active ref's target; an unborn
\* active ref accepts any parents.
Continues(ps) ==
  /\ activeRefs # {}
  /\ \A n \in activeRefs : target[n] = Unborn \/ target[n] \in ps

MoveActiveRef(c) ==
  target' = [n \in RefNames |-> IF n \in activeRefs THEN c ELSE target[n]]

\* apply_commit_incremental of new content: the commit, its edges, its
\* rows and the active ref, in one transaction.
RecordNew(c, ps, entries) ==
  /\ Continues(ps)
  /\ InsertCommit(c, ps)
  /\ chunkHistory' = chunkHistory \cup RowsFor(c, nextSeq, entries)
  /\ MoveActiveRef(c)
  /\ UNCHANGED activeRefs

\* Slip: the parents of a known commit are not looked up again.
RecordAgainUnchecked(c) ==
  /\ c \in commits
  /\ Continues(hashed[c])
  /\ commitParents' = commitParents \cup ({c} \X hashed[c])
  /\ MoveActiveRef(c)
  /\ UNCHANGED <<seq, nextSeq, chunkHistory, activeRefs, assigned, hashed>>

\* apply_commit_incremental of content the store already holds: INSERT OR
\* IGNORE finds the commit, its edges are inserted again, no row is
\* written, and the active ref still moves.
RecordAgain(c) ==
  /\ c \in commits
  /\ Continues(hashed[c])
  /\ hashed[c] \subseteq commits
  /\ commitParents' = commitParents \cup ({c} \X hashed[c])
  /\ MoveActiveRef(c)
  /\ UNCHANGED <<seq, nextSeq, chunkHistory, activeRefs, assigned, hashed>>

\* create_commit: a commit without rows; no ref moves.
CreateCommit(c, ps) ==
  /\ InsertCommit(c, ps)
  /\ UNCHANGED <<chunkHistory, target, activeRefs>>

\* create_commit of a commit that is stored: its edges are inserted again.
CreateAgain(c) ==
  /\ c \in commits
  /\ hashed[c] \subseteq commits
  /\ commitParents' = commitParents \cup ({c} \X hashed[c])
  /\ UNCHANGED <<seq, nextSeq, chunkHistory, target, activeRefs, assigned, hashed>>

\* record_chunk: one more row at an existing commit.
RecordChunk(c, k, b) ==
  /\ c \in commits
  /\ ~ \E r \in chunkHistory : r.commit = c /\ r.coord = k
  /\ chunkHistory' = chunkHistory \cup {RowAt(c, seq[c], k, b)}
  /\ UNCHANGED <<seq, nextSeq, commitParents, target, activeRefs, assigned, hashed>>

-----------------------------------------------------------------------------
(* Retirement. *)

\* The checks before the transaction: both exist, `into` is newer and
\* descends from `from`.
CanRetire(from, into) ==
  /\ {from, into} \subseteq commits
  /\ seq[from] < seq[into]
  /\ from \in Ancestors(into)

RowsOf(c) == {r \in chunkHistory : r.commit = c}

\* Slip: a newer row anywhere in the store supersedes.
SupersededAnywhere(from, into) ==
  {r \in RowsOf(from) :
     \E q \in chunkHistory : q.coord = r.coord /\ q.seq > seq[from]}

\* Slip: ?3 bound to the successor's sequence, as in the UPDATE that follows.
SupersededByNewer(from, into) ==
  LET history == Ancestors(into)
  IN  {r \in RowsOf(from) :
         \E q \in chunkHistory : /\ q.coord = r.coord
                                 /\ q.seq > seq[into]
                                 /\ q.commit \in history}

Superseded(from, into) ==
  LET history == Ancestors(into)
  IN  {r \in RowsOf(from) :
         \E q \in chunkHistory : /\ q.coord = r.coord
                                 /\ q.seq > seq[from]
                                 /\ q.commit \in history}

Restamped(from, into) ==
  {RowAt(into, seq[into], r.coord, r.blob) :
     r \in RowsOf(from) \ Superseded(from, into)}

\* Slip: the columns of the INSERT are exchanged.
BridgedBackwards(from) ==
  {<<f[2], e[1]>> : e \in {d \in commitParents : d[2] = from},
                    f \in {d \in commitParents : d[1] = from}}

\* Slip: the children of a retired commit become roots.
Unbridged(from) == {}

Bridged(from) ==
  {<<e[1], f[2]>> : e \in {d \in commitParents : d[2] = from},
                    f \in {d \in commitParents : d[1] = from}}

\* Slip: the refs stay behind.
FoldLeavesRefs(from, into) ==
  /\ chunkHistory' = (chunkHistory \ RowsOf(from)) \cup Restamped(from, into)
  /\ commitParents' = {e \in commitParents \cup Bridged(from) :
                         e[1] # from /\ e[2] # from}
  /\ seq' = [seq EXCEPT ![from] = 0]
  /\ UNCHANGED <<nextSeq, target, activeRefs, assigned, hashed>>

\* The retirement transaction.
Fold(from, into) ==
  /\ chunkHistory' = (chunkHistory \ RowsOf(from)) \cup Restamped(from, into)
  /\ target' = [n \in RefNames |-> IF target[n] = from THEN into ELSE target[n]]
  /\ commitParents' = {e \in commitParents \cup Bridged(from) :
                         e[1] # from /\ e[2] # from}
  /\ seq' = [seq EXCEPT ![from] = 0]
  /\ UNCHANGED <<nextSeq, activeRefs, assigned, hashed>>

RetireCommit(from, into) == CanRetire(from, into) /\ Fold(from, into)

-----------------------------------------------------------------------------
(* Refs. *)

\* set_ref: create (inactive) or move; the commit must exist.
SetRef(n, t) ==
  /\ t \in commits \cup {Unborn}
  /\ target' = [target EXCEPT ![n] = t]
  /\ UNCHANGED <<seq, nextSeq, commitParents, chunkHistory, activeRefs,
                 assigned, hashed>>

\* Slip: the active ref is not protected.
DeleteAnyRef(n) ==
  /\ target[n] # Absent
  /\ target' = [target EXCEPT ![n] = Absent]
  /\ UNCHANGED <<seq, nextSeq, commitParents, chunkHistory, activeRefs,
                 assigned, hashed>>

\* delete_ref: the active ref is protected.
DeleteRef(n) ==
  /\ target[n] # Absent
  /\ n \notin activeRefs
  /\ target' = [target EXCEPT ![n] = Absent]
  /\ UNCHANGED <<seq, nextSeq, commitParents, chunkHistory, activeRefs,
                 assigned, hashed>>

\* activate_ref: the ref must exist and its commit too; the transaction
\* clears the active row before it marks the new one.
ActivateRef(n) ==
  /\ target[n] \in commits \cup {Unborn}
  /\ activeRefs' = {n}
  /\ UNCHANGED <<seq, nextSeq, commitParents, chunkHistory, target,
                 assigned, hashed>>

-----------------------------------------------------------------------------
AtMostOne(S) == \A x, y \in S : x = y

ParentSets == {ps \in SUBSET commits : Merges \/ AtMostOne(ps)}

Next ==
  \/ /\ nextSeq <= MaxSeq
     /\ \E c \in CommitIds, ps \in ParentSets :
          \/ \E es \in EntrySets : RecordNew(c, ps, es)
          \/ CreateCommit(c, ps)
  \/ \E c \in CommitIds : RecordAgain(c) \/ CreateAgain(c)
  \/ \E c \in CommitIds, k \in Coords, b \in Blobs \cup {Tombstone} : RecordChunk(c, k, b)
  \/ \E from, into \in CommitIds : RetireCommit(from, into)
  \/ \E n \in RefNames, t \in CommitIds \cup {Unborn} : SetRef(n, t)
  \/ \E n \in RefNames : DeleteRef(n) \/ ActivateRef(n)

Spec == Init /\ [][Next]_metaVars

-----------------------------------------------------------------------------
(* Invariants. *)

TypeOK ==
  /\ seq \in [CommitIds -> Nat]
  /\ nextSeq \in Nat \ {0}
  /\ commitParents \subseteq CommitIds \X CommitIds
  /\ chunkHistory \subseteq Row
  /\ target \in [RefNames -> CommitIds \cup {Unborn, Absent}]
  /\ activeRefs \subseteq RefNames
  /\ assigned \subseteq CommitIds
  /\ hashed \in [CommitIds -> SUBSET CommitIds]

\* A ref never names a commit the store does not hold: a retirement takes
\* the refs of the retired commit along before the commit row goes.
RefsResolve == \A n \in RefNames : target[n] \in CommitIds => target[n] \in commits

\* Exactly one existing ref is active at any time, whatever refs are
\* created, moved, deleted and activated: new commits always have a head
\* to hang from (delete_ref, activate_ref and the partial unique index).
OneActiveRef == \E n \in RefNames : activeRefs = {n} /\ target[n] # Absent

\* No commit is its own ancestor, whatever is recorded, retired and
\* recorded again: edges that a retirement bridged and edges that a
\* repeated recording brings back never close a cycle, on which the
\* recursive queries and the walks of the history would not end as written.
Acyclic == \A e \in commitParents : e[1] \notin Ancestors(e[2])

\* Every edge joins two stored commits and the parent was recorded first:
\* the local sequence is a topological order of the history, which the
\* superseded-row sweep of a retirement relies on.  No invariant of the
\* port: see OrderKept.
ParentsOlder ==
  \A e \in commitParents : /\ {e[1], e[2]} \subseteq commits
                            /\ seq[e[2]] < seq[e[1]]

\* A retirement re-stamps both columns of a row it moves ...
RowsBelong ==
  \A r \in chunkHistory : r.commit \in commits /\ r.seq = seq[r.commit]

\* ... and moves none onto a row the successor has.
PrimaryKey ==
  \A r, q \in chunkHistory :
     r.commit = q.commit /\ r.coord = q.coord => r = q

\* Every delta row belongs to a stored commit and carries that commit's
\* sequence, one row for each of its coordinates: what the foreign key and
\* PRIMARY KEY(commit_id, coord) ask, which an UPDATE in the middle of a
\* retirement must not violate.
RowsKeyed == RowsBelong /\ PrimaryKey

\* Sequences are handed out once each, below the counter.
SeqUnique ==
  /\ \A c \in CommitIds : seq[c] < nextSeq
  /\ \A c, d \in commits : seq[c] = seq[d] => c = d

\* A stored commit keeps an edge to every parent it was hashed with that
\* is still stored, so recording the same content again adds nothing.
\* Recording a retired parent again breaks it.
HashedEdges ==
  /\ commits \subseteq assigned
  /\ \A c \in CommitIds : hashed[c] \subseteq assigned
  /\ \A c \in commits : {c} \X (hashed[c] \cap commits) \subseteq commitParents

-----------------------------------------------------------------------------
(* What a step may do to the history. *)

\* No id comes back: what a step stores was never stored before.
NoneBack == assigned \cap commits' \subseteq commits

\* A stored commit is recorded once more and gets an edge it had lost: the
\* parent was retired and recorded again in the meantime.
Relinks(c) ==
  /\ RecordAgain(c) \/ CreateAgain(c)
  /\ ~ {c} \X hashed[c] \subseteq commitParents

\* The order of the history is lost in one way only: a commit is retired,
\* its content recorded again, and then that of a child it left behind,
\* which so gets a parent of a later sequence.
OrderKept ==
  [][ParentsOlder /\ ~ ParentsOlder' =>
       \E c \in CommitIds :
         Relinks(c) /\ \E p \in hashed[c] : seq[c] < seq[p]]_metaVars

\* A fold target every remaining descendant of the retired commit
\* continues.
SoundFold(from, into) ==
  \A c \in commits \ {from} : from \in Ancestors(c) => into \in Ancestors(c)

\* Retiring a commit does not change reachability between the remaining
\* commits: each loses the retired commit from its ancestors and nothing
\* else.  prune_apply computes its fold targets once and relies on it.
FoldKeepsAncestry ==
  [][commits' # commits =>
       \A from, into \in CommitIds :
         RetireCommit(from, into) =>
           \A c \in commits \ {from} : Ancestors(c)' = Ancestors(c) \ {from}]_metaVars

\* No commit has two parents: all that the application records.
Linear == \A e, f \in commitParents : e[1] = f[1] => e = f

\* The state a commit presents does not change once recorded: not by newer
\* commits, not by ref moves, not by recording it again, and not by
\* retiring a commit into a target that every remaining descendant
\* continues.  What does change one: record_chunk, on purpose; a repeated
\* recording that brings an edge back, since the parent's rows are newer
\* now; and a retirement in a history with a merge, since the rows that
\* move take the sequence of their new commit and may pass rows of another
\* branch.
HistoryStable ==
  [][/\ Linear
     /\ ParentsOlder
     /\ \A c \in CommitIds, k \in Coords, b \in Blobs \cup {Tombstone} : ~ RecordChunk(c, k, b)
     /\ \A c \in CommitIds : ~ Relinks(c)
     /\ \A from, into \in CommitIds : RetireCommit(from, into) => SoundFold(from, into)
     => \A c \in commits \cap commits', k \in Coords : Present(c, k)' = Present(c, k)]_metaVars

\* A new commit presents its entries, and every other coordinate as its
\* parent presents it; a root presents nothing else.
RecordResolves ==
  [][commits' # commits =>
       \A c \in CommitIds, ps \in ParentSets, es \in EntrySets :
         RecordNew(c, ps, es) /\ AtMostOne(ps) =>
           \A k \in Coords :
             Present(c, k)' = IF k \in DOMAIN es THEN {es[k]} \ {Tombstone}
                              ELSE UNION {Present(p, k) : p \in ps}]_metaVars
=============================================================================
