--------------------------- MODULE MetaStoreProofs ---------------------------
(***************************************************************************)
(* Theorems about the metadata store, for every set of commits,            *)
(* coordinates, blobs and refs.                                            *)
(***************************************************************************)
EXTENDS MetaStore, TLAPS

(* The tables keep their types. *)
LEMMA TypeInit == Init => TypeOK
  BY ConstantsAssumption DEF Init, TypeOK, Row

LEMMA RecordNewTypes ==
  ASSUME TypeOK, NEW c \in CommitIds, NEW ps \in ParentSets, NEW es \in EntrySets,
         RecordNew(c, ps, es)
  PROVE  TypeOK'
  <1>1. RowsFor(c, nextSeq, es) \subseteq Row
    BY DEF TypeOK, RowsFor, RowAt, EntrySets, Row
  <1>2. ps \subseteq CommitIds
    BY DEF ParentSets, commits
  <1>3. QED
    BY <1>1, <1>2, ConstantsAssumption DEF TypeOK, RecordNew, InsertCommit, MoveActiveRef

LEMMA TypeStep == TypeOK /\ [Next]_metaVars => TypeOK'
  <1> SUFFICES ASSUME TypeOK, [Next]_metaVars
               PROVE  TypeOK'
    OBVIOUS
  <1> USE ConstantsAssumption
  <1>1. ASSUME NEW c \in CommitIds, NEW ps \in ParentSets, NEW es \in EntrySets,
               RecordNew(c, ps, es)
        PROVE  TypeOK'
    BY <1>1, RecordNewTypes
  <1>2. ASSUME NEW c \in CommitIds, RecordAgain(c) \/ CreateAgain(c)
        PROVE  TypeOK'
    BY <1>2 DEF TypeOK, RecordAgain, CreateAgain, MoveActiveRef
  <1>3. ASSUME NEW c \in CommitIds, NEW ps \in ParentSets, CreateCommit(c, ps)
        PROVE  TypeOK'
    <2>1. ps \subseteq CommitIds
      BY DEF ParentSets, commits
    <2>2. QED
      BY <1>3, <2>1 DEF TypeOK, CreateCommit, InsertCommit
  <1>4. ASSUME NEW c \in CommitIds, NEW k \in Coords, NEW b \in Blobs \cup {Tombstone},
               RecordChunk(c, k, b)
        PROVE  TypeOK'
    BY <1>4 DEF TypeOK, RecordChunk, RowAt, Row, commits
  <1>5. ASSUME NEW from \in CommitIds, NEW into \in CommitIds, RetireCommit(from, into)
        PROVE  TypeOK'
    <2>1. Restamped(from, into) \subseteq Row
      BY DEF TypeOK, Restamped, RowsOf, RowAt, Row
    <2>2. Bridged(from) \subseteq CommitIds \X CommitIds
      BY DEF TypeOK, Bridged
    <2>3. QED
      BY <1>5, <2>1, <2>2 DEF TypeOK, RetireCommit, Fold
  <1>6. ASSUME NEW n \in RefNames, NEW t \in CommitIds \cup {Unborn}, SetRef(n, t)
        PROVE  TypeOK'
    BY <1>6 DEF TypeOK, SetRef
  <1>7. ASSUME NEW n \in RefNames, DeleteRef(n) \/ ActivateRef(n)
        PROVE  TypeOK'
    BY <1>7 DEF TypeOK, DeleteRef, ActivateRef
  <1>8. CASE UNCHANGED metaVars
    BY <1>8 DEF TypeOK, metaVars
  <1>9. QED
    BY <1>1, <1>2, <1>3, <1>4, <1>5, <1>6, <1>7, <1>8 DEF Next

\* The tables keep their types under every port call (all of Next).
THEOREM TypeCorrect == Spec => []TypeOK
  <1>1. QED
    BY TypeInit, TypeStep, PTL DEF Spec

-----------------------------------------------------------------------------
(* Reachability.  Ancestors is a least closed set, so a fact about it is  *)
(* proved by exhibiting a closed set, never by induction.                 *)

LEMMA AncestorsReflexive ==
  ASSUME NEW c \in CommitIds
  PROVE  c \in Ancestors(c)
  BY DEF Ancestors

\* Membership of a closed set spreads to the ancestors.
LEMMA AncestorsWithin ==
  ASSUME NEW c \in CommitIds, NEW S \in SUBSET CommitIds, c \in S, Closed(S)
  PROVE  Ancestors(c) \subseteq S
  BY DEF Ancestors

LEMMA AncestorsClosed ==
  ASSUME TypeOK, NEW c \in CommitIds
  PROVE  /\ Ancestors(c) \in SUBSET CommitIds
         /\ Closed(Ancestors(c))
  BY DEF Ancestors, Closed, TypeOK

LEMMA AncestorsTransitive ==
  ASSUME TypeOK, NEW c \in CommitIds, NEW d \in Ancestors(c)
  PROVE  Ancestors(d) \subseteq Ancestors(c)
  BY AncestorsClosed, AncestorsWithin

\* The foreign keys of commit_parents.
EdgesStored == \A e \in commitParents : {e[1], e[2]} \subseteq commits

LEMMA AncestorsOfStored ==
  ASSUME EdgesStored, NEW c \in commits
  PROVE  Ancestors(c) \subseteq commits
  <1>1. commits \in SUBSET CommitIds /\ c \in CommitIds /\ Closed(commits)
    BY DEF EdgesStored, Closed, commits
  <1>2. QED
    BY <1>1, AncestorsWithin

\* The ancestors of a stored commit are stored, and older.
LEMMA AncestorsOlder ==
  ASSUME TypeOK, ParentsOlder, NEW c \in commits, NEW a \in Ancestors(c)
  PROVE  a \in commits /\ (a = c \/ seq[a] < seq[c])
  <1> DEFINE S == {x \in commits : x = c \/ seq[x] < seq[c]}
  <1>1. S \in SUBSET CommitIds /\ c \in S
    BY DEF commits
  <1>2. Closed(S)
    BY DEF Closed, ParentsOlder, commits, TypeOK
  <1>3. QED
    BY <1>1, <1>2, AncestorsWithin

-----------------------------------------------------------------------------
(* Three invariants, each over the one before.                            *)
(*                                                                        *)
(* PortInv: the tables fit together, whatever is called in whatever       *)
(* order.  Ranked: there is a numbering that every edge goes down, which  *)
(* outlives a retirement, unlike the sequences; so no cycle.  IInv: the   *)
(* sequences are such a numbering, and every stored parent is linked.  It *)
(* is an invariant of callers that never record a retired id again        *)
(* (NoneBack), as the application's commits are.                          *)

PortInv == /\ TypeOK
           /\ RefsResolve
           /\ OneActiveRef
           /\ SeqUnique
           /\ EdgesStored
           /\ RowsBelong
           /\ PrimaryKey

Descends(rank) ==
  /\ rank \in [CommitIds -> Nat]
  /\ commits \subseteq assigned
  /\ \A c \in assigned : /\ rank[c] < nextSeq
                         /\ hashed[c] \subseteq assigned
                         /\ \A p \in hashed[c] : rank[p] < rank[c]
  /\ \A e \in commitParents : rank[e[2]] < rank[e[1]]

Ranked == \E rank : Descends(rank)

IInv == /\ TypeOK
        /\ RefsResolve
        /\ OneActiveRef
        /\ SeqUnique
        /\ HashedEdges
        /\ ParentsOlder
        /\ RowsBelong
        /\ PrimaryKey

LEMMA InvPort == IInv => PortInv
  BY DEF IInv, PortInv, ParentsOlder, EdgesStored

LEMMA InvInit == Init => IInv
  <1> SUFFICES ASSUME Init PROVE IInv
    OBVIOUS
  <1> USE ConstantsAssumption DEF Init
  <1>1. TypeOK
    BY TypeInit
  <1>2. RefsResolve /\ OneActiveRef
    BY DEF RefsResolve, OneActiveRef
  <1>3. SeqUnique /\ HashedEdges /\ ParentsOlder /\ RowsBelong /\ PrimaryKey
    BY DEF SeqUnique, HashedEdges, ParentsOlder, RowsBelong, PrimaryKey, commits
  <1>4. QED
    BY <1>1, <1>2, <1>3 DEF IInv

LEMMA RankInit == Init => Ranked
  <1> SUFFICES ASSUME Init PROVE Ranked
    OBVIOUS
  <1>1. Descends([c \in CommitIds |-> 0])
    BY DEF Init, Descends, commits
  <1>2. QED
    BY <1>1 DEF Ranked

\* A commit that is not stored goes in above all others.
LEMMA InsertPort ==
  ASSUME PortInv, NEW c \in CommitIds, NEW ps \in SUBSET CommitIds, InsertCommit(c, ps)
  PROVE  /\ commits' = commits \cup {c}
         /\ c \notin commits
         /\ seq'[c] = nextSeq
         /\ \A d \in CommitIds : d # c => seq'[d] = seq[d]
         /\ SeqUnique' /\ EdgesStored'
  <1> USE DEF PortInv
  <1>1. c \notin commits /\ seq'[c] = nextSeq
    BY DEF InsertCommit, TypeOK
  <1>2. commits' = commits \cup {c}
    BY <1>1 DEF InsertCommit, commits, TypeOK
  <1>3. \A d \in CommitIds : d # c => seq'[d] = seq[d]
    BY DEF InsertCommit, TypeOK
  <1>4. SeqUnique'
    BY <1>1, <1>2, <1>3 DEF SeqUnique, InsertCommit, TypeOK, commits
  <1>5. EdgesStored'
    BY <1>2 DEF EdgesStored, InsertCommit
  <1>6. QED
    BY <1>1, <1>2, <1>3, <1>4, <1>5

LEMMA RecordNewPort ==
  ASSUME PortInv, NEW c \in CommitIds, NEW ps \in ParentSets, NEW es \in EntrySets,
         RecordNew(c, ps, es)
  PROVE  PortInv'
  <1>0. InsertCommit(c, ps) /\ ps \in SUBSET CommitIds
    BY DEF RecordNew, ParentSets, commits
  <1>1. /\ commits' = commits \cup {c}
        /\ c \notin commits
        /\ seq'[c] = nextSeq
        /\ \A d \in commits : seq'[d] = seq[d]
        /\ SeqUnique' /\ EdgesStored'
    BY <1>0, InsertPort DEF commits
  <1>2. TypeOK'
    BY RecordNewTypes DEF PortInv
  <1>3. RefsResolve'
    BY <1>1 DEF PortInv, RefsResolve, RecordNew, MoveActiveRef
  <1>4. OneActiveRef'
    BY ConstantsAssumption DEF PortInv, OneActiveRef, RecordNew, MoveActiveRef
  <1>5. ASSUME NEW r \in chunkHistory'
        PROVE  \/ r \in chunkHistory /\ r.commit \in commits
               \/ r \in RowsFor(c, nextSeq, es) /\ r.commit = c /\ r.seq = nextSeq
    BY <1>5 DEF RecordNew, RowsFor, RowAt, PortInv, RowsBelong
  <1>6. RowsBelong'
    BY <1>1, <1>5 DEF PortInv, RowsBelong
  <1>7. PrimaryKey'
    <2>1. ASSUME NEW r \in RowsFor(c, nextSeq, es), NEW q \in RowsFor(c, nextSeq, es),
                 r.coord = q.coord
          PROVE  r = q
      BY <2>1 DEF RowsFor, RowAt
    <2>2. QED
      BY <1>1, <1>5, <2>1 DEF PortInv, PrimaryKey
  <1>8. QED
    BY <1>1, <1>2, <1>3, <1>4, <1>6, <1>7 DEF PortInv

\* Recording known content inserts its edges again and moves no row.
LEMMA AgainPort ==
  ASSUME PortInv, NEW c \in CommitIds, RecordAgain(c) \/ CreateAgain(c), TypeOK'
  PROVE  PortInv'
  <1>1. /\ UNCHANGED <<seq, nextSeq, chunkHistory, activeRefs>>
        /\ commitParents' = commitParents \cup ({c} \X hashed[c])
        /\ c \in commits /\ hashed[c] \subseteq commits
    BY DEF RecordAgain, CreateAgain
  <1>2. commits' = commits
    BY <1>1 DEF commits
  <1>3. RefsResolve'
    BY <1>2 DEF PortInv, RefsResolve, RecordAgain, CreateAgain, MoveActiveRef
  <1>4. OneActiveRef'
    BY ConstantsAssumption
       DEF PortInv, OneActiveRef, RecordAgain, CreateAgain, MoveActiveRef, commits
  <1>5. EdgesStored'
    BY <1>1, <1>2 DEF PortInv, EdgesStored
  <1>6. QED
    BY <1>1, <1>2, <1>3, <1>4, <1>5 DEF PortInv, SeqUnique, RowsBelong, PrimaryKey

LEMMA CreateCommitPort ==
  ASSUME PortInv, NEW c \in CommitIds, NEW ps \in ParentSets, CreateCommit(c, ps), TypeOK'
  PROVE  PortInv'
  <1>0. InsertCommit(c, ps) /\ ps \in SUBSET CommitIds
    BY DEF CreateCommit, ParentSets, commits
  <1>1. /\ commits' = commits \cup {c}
        /\ c \notin commits
        /\ \A d \in commits : seq'[d] = seq[d]
        /\ SeqUnique' /\ EdgesStored'
    BY <1>0, InsertPort DEF commits
  <1>2. RefsResolve' /\ OneActiveRef'
    BY <1>1 DEF PortInv, RefsResolve, OneActiveRef, CreateCommit
  <1>3. RowsBelong' /\ PrimaryKey'
    BY <1>1 DEF PortInv, RowsBelong, PrimaryKey, CreateCommit
  <1>4. QED
    BY <1>1, <1>2, <1>3 DEF PortInv

LEMMA RecordChunkPort ==
  ASSUME PortInv, NEW c \in CommitIds, NEW k \in Coords, NEW b \in Blobs \cup {Tombstone},
         RecordChunk(c, k, b), TypeOK'
  PROVE  PortInv'
  <1>1. UNCHANGED <<seq, nextSeq, commitParents, target, activeRefs, assigned, hashed>>
    BY DEF RecordChunk
  <1>2. commits' = commits
    BY <1>1 DEF commits
  <1>3. RowsBelong' /\ PrimaryKey'
    BY <1>1, <1>2 DEF PortInv, RowsBelong, PrimaryKey, RecordChunk, RowAt
  <1>4. QED
    BY <1>1, <1>2, <1>3
       DEF PortInv, RefsResolve, OneActiveRef, SeqUnique, EdgesStored

LEMMA RefStepsPort ==
  ASSUME PortInv, NEW n \in RefNames, TypeOK',
         \/ \E t \in CommitIds \cup {Unborn} : SetRef(n, t)
         \/ DeleteRef(n)
         \/ ActivateRef(n)
  PROVE  PortInv'
  <1>1. UNCHANGED <<seq, nextSeq, commitParents, chunkHistory, assigned, hashed>>
    BY DEF SetRef, DeleteRef, ActivateRef
  <1>2. commits' = commits
    BY <1>1 DEF commits
  <1>3. RefsResolve' /\ OneActiveRef'
    <2>1. CASE \E t \in CommitIds \cup {Unborn} : SetRef(n, t)
      BY <1>2, <2>1, ConstantsAssumption
         DEF PortInv, TypeOK, RefsResolve, OneActiveRef, SetRef, commits
    <2>2. CASE DeleteRef(n)
      BY <1>2, <2>2, ConstantsAssumption DEF PortInv, TypeOK, RefsResolve, OneActiveRef, DeleteRef
    <2>3. CASE ActivateRef(n)
      BY <1>2, <2>3, ConstantsAssumption
         DEF PortInv, TypeOK, RefsResolve, OneActiveRef, ActivateRef, commits
    <2>4. QED
      BY <2>1, <2>2, <2>3
  <1>4. QED
    BY <1>1, <1>2, <1>3
       DEF PortInv, SeqUnique, EdgesStored, RowsBelong, PrimaryKey

-----------------------------------------------------------------------------
(* Retirement. *)

\* When the transaction's statements meet no foreign key: what hangs on the
\* retired commit goes to a newer stored one, or nothing hangs on it.
CanMove(from, into) ==
  /\ from \in commits
  /\ \/ into \in commits /\ seq[from] < seq[into]
     \/ RowsOf(from) = {} /\ \A n \in RefNames : target[n] # from

LEMMA RetireMoves ==
  ASSUME NEW from, NEW into, RetireCommit(from, into)
  PROVE  CanMove(from, into) /\ Fold(from, into)
  BY DEF RetireCommit, CanRetire, CanMove

LEMMA FoldCommits ==
  ASSUME TypeOK, NEW from \in commits, NEW into, Fold(from, into)
  PROVE  /\ commits' = commits \ {from}
         /\ \A d \in CommitIds : d # from => seq'[d] = seq[d]
  BY DEF TypeOK, Fold, commits

LEMMA FoldPort ==
  ASSUME PortInv, NEW from \in CommitIds, NEW into \in CommitIds,
         Fold(from, into), CanMove(from, into), TypeOK'
  PROVE  PortInv'
  <1> USE DEF PortInv
  <1>0. from \in commits
    BY DEF CanMove
  <1>1. /\ commits' = commits \ {from}
        /\ \A d \in CommitIds : d # from => seq'[d] = seq[d]
    BY <1>0, FoldCommits
  <1>2. /\ seq[from] \in Nat /\ seq[from] > 0
        /\ into \in commits /\ seq[from] < seq[into] => from # into /\ into \in commits'
    BY <1>0, <1>1 DEF TypeOK, commits
  <1>3. RefsResolve'
    BY <1>1, <1>2 DEF RefsResolve, CanMove, Fold, TypeOK
  <1>4. OneActiveRef'
    BY ConstantsAssumption DEF OneActiveRef, Fold
  <1>5. SeqUnique'
    <2>1. \A c \in CommitIds : seq'[c] < nextSeq'
      BY DEF SeqUnique, Fold, TypeOK
    <2>2. QED
      BY <1>1, <2>1 DEF SeqUnique, commits
  <1>6. EdgesStored'
    <2>1. ASSUME NEW e \in commitParents'
          PROVE  {e[1], e[2]} \subseteq commits'
      <3>1. e[1] # from /\ e[2] # from /\ e \in commitParents \cup Bridged(from)
        BY <2>1 DEF Fold
      <3>2. {e[1], e[2]} \subseteq commits
        BY <3>1 DEF EdgesStored, Bridged
      <3>3. QED
        BY <1>1, <3>1, <3>2
    <2>2. QED
      BY <2>1 DEF EdgesStored
  <1>8. ASSUME NEW r \in chunkHistory'
        PROVE  \/ r \in chunkHistory /\ r.commit # from
               \/ \E o \in RowsOf(from) \ Superseded(from, into) :
                    r = RowAt(into, seq[into], o.coord, o.blob)
    BY <1>8 DEF Fold, Restamped, RowsOf
  <1>a. \A o \in RowsOf(from) : into \in commits /\ seq[from] < seq[into]
    BY DEF CanMove
  <1>9. RowsBelong'
    BY <1>1, <1>2, <1>8, <1>a DEF RowsBelong, RowAt, commits
  <1>10. PrimaryKey'
    <2>1. ASSUME NEW o \in RowsOf(from) \ Superseded(from, into),
                 NEW q \in chunkHistory, q.commit = into, q.coord = o.coord
          PROVE  FALSE
      <3>1. q.seq = seq[into] /\ q.commit \in Ancestors(into)
        BY <2>1, AncestorsReflexive DEF RowsBelong
      <3>2. q.seq > seq[from]
        BY <2>1, <3>1, <1>2, <1>a DEF TypeOK, commits
      <3>3. QED
        BY <2>1, <3>1, <3>2 DEF Superseded
    <2>2. ASSUME NEW o \in RowsOf(from), NEW p \in RowsOf(from), o.coord = p.coord
          PROVE  o = p
      BY <2>2 DEF RowsOf, PrimaryKey
    <2>3. ASSUME NEW r \in chunkHistory', NEW q \in chunkHistory',
                 r.commit = q.commit, r.coord = q.coord
          PROVE  r = q
      <3>1. CASE r \in chunkHistory /\ q \in chunkHistory
        BY <2>3, <3>1 DEF PrimaryKey
      <3>2. CASE r \in chunkHistory /\ \E o \in RowsOf(from) \ Superseded(from, into) :
                   q = RowAt(into, seq[into], o.coord, o.blob)
        BY <2>1, <2>3, <3>2 DEF RowAt
      <3>3. CASE q \in chunkHistory /\ \E o \in RowsOf(from) \ Superseded(from, into) :
                   r = RowAt(into, seq[into], o.coord, o.blob)
        BY <2>1, <2>3, <3>3 DEF RowAt
      <3>4. CASE /\ \E o \in RowsOf(from) \ Superseded(from, into) :
                      r = RowAt(into, seq[into], o.coord, o.blob)
                 /\ \E o \in RowsOf(from) \ Superseded(from, into) :
                      q = RowAt(into, seq[into], o.coord, o.blob)
        BY <2>2, <2>3, <3>4 DEF RowAt
      <3>5. QED
        BY <1>8, <3>1, <3>2, <3>3, <3>4
    <2>4. QED
      BY <2>3 DEF PrimaryKey
  <1>11. QED
    BY <1>3, <1>4, <1>5, <1>6, <1>9, <1>10
-----------------------------------------------------------------------------
(* Every port call. *)

LEMMA PortStep == PortInv /\ [Next]_metaVars => PortInv'
  <1> SUFFICES ASSUME PortInv, [Next]_metaVars
               PROVE  PortInv'
    OBVIOUS
  <1>1. TypeOK'
    BY TypeStep DEF PortInv
  <1>2. CASE \E c \in CommitIds, ps \in ParentSets, es \in EntrySets : RecordNew(c, ps, es)
    BY <1>2, RecordNewPort
  <1>3. CASE \E c \in CommitIds : RecordAgain(c) \/ CreateAgain(c)
    BY <1>1, <1>3, AgainPort
  <1>4. CASE \E c \in CommitIds, ps \in ParentSets : CreateCommit(c, ps)
    BY <1>1, <1>4, CreateCommitPort
  <1>5. CASE \E c \in CommitIds, k \in Coords, b \in Blobs \cup {Tombstone} :
               RecordChunk(c, k, b)
    BY <1>1, <1>5, RecordChunkPort
  <1>6. CASE \E from, into \in CommitIds : RetireCommit(from, into)
    BY <1>1, <1>6, RetireMoves, FoldPort
  <1>7. CASE \/ \E n \in RefNames, t \in CommitIds \cup {Unborn} : SetRef(n, t)
             \/ \E n \in RefNames : DeleteRef(n) \/ ActivateRef(n)
    BY <1>1, <1>7, RefStepsPort
  <1>8. CASE UNCHANGED metaVars
    BY <1>8 DEF metaVars, PortInv, TypeOK, RefsResolve, OneActiveRef, SeqUnique, EdgesStored,
                RowsBelong, PrimaryKey, commits, Row
  <1>9. QED
    BY <1>2, <1>3, <1>4, <1>5, <1>6, <1>7, <1>8 DEF Next

\* Whatever is recorded, retired, recorded again and moved, the tables fit
\* together.
THEOREM PortCorrect == Spec => []PortInv
  <1>1. Init => PortInv
    BY InvInit, InvPort
  <1>2. QED
    BY <1>1, PortStep, PTL DEF Spec

\* A ref never names a commit the store does not hold, retirements and
\* repeated recordings included (retire_commit, set_ref,
\* apply_commit_incremental).
THEOREM RefsResolveCorrect == Spec => []RefsResolve
  <1>1. PortInv => RefsResolve
    BY DEF PortInv
  <1>2. QED
    BY <1>1, PortCorrect, PTL

\* There is always exactly one active ref.
THEOREM OneActiveRefCorrect == Spec => []OneActiveRef
  <1>1. PortInv => OneActiveRef
    BY DEF PortInv
  <1>2. QED
    BY <1>1, PortCorrect, PTL

\* Every delta row carries the commit and the sequence of a stored commit,
\* and the UPDATE of a retirement never violates the primary key.
THEOREM RowsKeyedCorrect == Spec => []RowsKeyed
  <1>1. PortInv => RowsKeyed
    BY DEF PortInv, RowsKeyed
  <1>2. QED
    BY <1>1, PortCorrect, PTL

-----------------------------------------------------------------------------
(* No cycle: the numbering.                                               *)

\* The id that goes in gets the counter's value, above all that was ever
\* recorded, unless it was recorded before: then it keeps its number, for
\* it covers the same parents.
LEMMA InsertRanked ==
  ASSUME PortInv, Ranked, NEW c \in CommitIds, NEW ps \in SUBSET CommitIds,
         InsertCommit(c, ps)
  PROVE  Ranked'
  <1> USE DEF PortInv
  <1>1. PICK rank : Descends(rank)
    BY DEF Ranked
  <1>2. /\ commits' = commits \cup {c} /\ c \notin commits
        /\ commitParents' = commitParents \cup ({c} \X ps)
        /\ nextSeq' = nextSeq + 1 /\ nextSeq \in Nat
        /\ assigned' = assigned \cup {c}
        /\ ps \subseteq commits
    BY InsertPort DEF InsertCommit, TypeOK
  <1>3. hashed'[c] = ps /\ \A d \in CommitIds : d # c => hashed'[d] = hashed[d]
    BY DEF InsertCommit, TypeOK
  <1>4. \A e \in commitParents : e[1] # c /\ e[2] # c
    BY <1>2 DEF EdgesStored
  <1>5. CASE c \in assigned
    <2>1. hashed' = hashed
      BY <1>5 DEF InsertCommit, TypeOK
    <2>2. \A e \in {c} \X ps : rank[e[2]] < rank[e[1]]
      BY <1>1, <1>3, <1>5, <2>1 DEF Descends
    <2>3. Descends(rank)'
      BY <1>1, <1>2, <1>5, <2>1, <2>2 DEF Descends, TypeOK
    <2>4. QED
      BY <2>3 DEF Ranked
  <1>6. CASE c \notin assigned
    <2>0. PICK new : new = [rank EXCEPT ![c] = nextSeq]
      OBVIOUS
    <2>1. /\ new \in [CommitIds -> Nat] /\ new[c] = nextSeq
          /\ \A d \in CommitIds : d # c => new[d] = rank[d]
      BY <1>1, <1>2, <2>0 DEF Descends
    <2>2. \A d \in assigned : /\ d \in CommitIds /\ d # c
                              /\ rank[d] \in Nat /\ rank[d] < nextSeq
      BY <1>1, <1>6 DEF Descends, TypeOK
    <2>3. commits' \subseteq assigned'
      BY <1>1, <1>2 DEF Descends
    <2>4. ASSUME NEW d \in assigned'
          PROVE  /\ new[d] < nextSeq' /\ hashed'[d] \subseteq assigned'
                 /\ \A p \in hashed'[d] : new[p] < new[d]
      <3>1. CASE d = c
        <4>1. \A p \in ps : p \in assigned
          BY <1>1, <1>2 DEF Descends
        <4>2. QED
          BY <1>2, <1>3, <2>1, <2>2, <3>1, <4>1
      <3>2. CASE d # c
        <4>1. d \in assigned
          BY <1>2, <2>4, <3>2
        <4>2. \A p \in hashed[d] : p \in assigned /\ rank[p] < rank[d]
          BY <1>1, <4>1 DEF Descends
        <4>3. hashed'[d] = hashed[d]
          BY <1>3, <2>2, <4>1
        <4>4. QED
          BY <1>2, <2>1, <2>2, <4>1, <4>2, <4>3
      <3>3. QED
        BY <3>1, <3>2
    <2>5. ASSUME NEW e \in commitParents'
          PROVE  new[e[2]] < new[e[1]]
      <3>1. CASE e \in commitParents
        BY <1>1, <1>4, <2>1, <3>1 DEF Descends, TypeOK
      <3>2. CASE e \in {c} \X ps
        <4>1. e[1] = c /\ e[2] \in assigned
          BY <1>1, <1>2, <3>2 DEF Descends
        <4>2. QED
          BY <2>1, <2>2, <4>1
      <3>3. QED
        BY <1>2, <2>5, <3>1, <3>2
    <2>6. Descends(new)'
      BY <2>1, <2>3, <2>4, <2>5 DEF Descends
    <2>7. QED
      BY <2>6 DEF Ranked
  <1>7. QED
    BY <1>5, <1>6

LEMMA AgainRanked ==
  ASSUME PortInv, Ranked, NEW c \in CommitIds, RecordAgain(c) \/ CreateAgain(c)
  PROVE  Ranked'
  <1>1. PICK rank : Descends(rank)
    BY DEF Ranked
  <1>2. /\ UNCHANGED <<seq, nextSeq, assigned, hashed>>
        /\ commitParents' = commitParents \cup ({c} \X hashed[c])
        /\ c \in commits
    BY DEF RecordAgain, CreateAgain
  <1>3. commits' = commits
    BY <1>2 DEF commits
  <1>4. \A e \in {c} \X hashed[c] : rank[e[2]] < rank[e[1]]
    BY <1>1, <1>2 DEF Descends
  <1>5. Descends(rank)'
    BY <1>1, <1>2, <1>3, <1>4 DEF Descends
  <1>6. QED
    BY <1>5 DEF Ranked

LEMMA FoldRanked ==
  ASSUME PortInv, Ranked, NEW from \in commits, NEW into, Fold(from, into)
  PROVE  Ranked'
  <1>1. PICK rank : Descends(rank)
    BY DEF Ranked
  <1>2. commits' = commits \ {from} /\ UNCHANGED <<nextSeq, assigned, hashed>>
    BY FoldCommits DEF Fold, PortInv
  <1>3. ASSUME NEW e \in Bridged(from)
        PROVE  rank[e[2]] < rank[e[1]]
    <2>1. PICK d \in commitParents, f \in commitParents :
            d[2] = from /\ f[1] = from /\ e = <<d[1], f[2]>>
      BY DEF Bridged
    <2>2. {d[1], from, f[2]} \subseteq CommitIds
      BY <2>1 DEF PortInv, TypeOK, commits
    <2>3. /\ rank[d[1]] \in Nat /\ rank[from] \in Nat /\ rank[f[2]] \in Nat
          /\ rank[from] < rank[d[1]] /\ rank[f[2]] < rank[from]
      BY <1>1, <2>1, <2>2 DEF Descends
    <2>4. rank[f[2]] < rank[d[1]]
      BY <2>3
    <2>5. e[1] = d[1] /\ e[2] = f[2]
      BY <2>1
    <2>6. QED
      BY <2>4, <2>5
  <1>4. \A e \in commitParents' : rank[e[2]] < rank[e[1]]
    BY <1>1, <1>3 DEF Descends, Fold
  <1>5. Descends(rank)'
    BY <1>1, <1>2, <1>4 DEF Descends
  <1>6. QED
    BY <1>5 DEF Ranked

LEMMA RankStep == PortInv /\ Ranked /\ [Next]_metaVars => Ranked'
  <1> SUFFICES ASSUME PortInv, Ranked, [Next]_metaVars
               PROVE  Ranked'
    OBVIOUS
  <1>1. ASSUME NEW c \in CommitIds, NEW ps \in ParentSets, InsertCommit(c, ps)
        PROVE  Ranked'
    BY <1>1, InsertRanked DEF ParentSets, commits
  <1>2. CASE \E c \in CommitIds : RecordAgain(c) \/ CreateAgain(c)
    BY <1>2, AgainRanked
  <1>3. CASE \E from, into \in CommitIds : RetireCommit(from, into)
    BY <1>3, RetireMoves, FoldRanked DEF CanMove
  <1>4. CASE UNCHANGED <<seq, nextSeq, commitParents, assigned, hashed>>
    BY <1>4 DEF Ranked, Descends, commits
  <1>5. QED
    BY <1>1, <1>2, <1>3, <1>4
       DEF Next, RecordNew, CreateCommit, RecordChunk, SetRef, DeleteRef, ActivateRef, metaVars

LEMMA RankCorrect == Spec => [](PortInv /\ Ranked)
  <1>1. Init => PortInv /\ Ranked
    BY InvInit, InvPort, RankInit
  <1>2. QED
    BY <1>1, PortStep, RankStep, PTL DEF Spec

LEMMA RankedAcyclic ==
  ASSUME TypeOK, Ranked
  PROVE  Acyclic
  <1>1. PICK rank : Descends(rank)
    BY DEF Ranked
  <1>2. SUFFICES ASSUME NEW e \in commitParents, e[1] \in Ancestors(e[2])
                 PROVE  FALSE
    BY DEF Acyclic
  <1>3. e[1] \in CommitIds /\ e[2] \in CommitIds
    BY DEF TypeOK
  <1> DEFINE S == {x \in CommitIds : rank[x] <= rank[e[2]]}
  <1>4. \A x \in CommitIds : rank[x] \in Nat
    BY <1>1 DEF Descends
  <1>5. ASSUME NEW d \in commitParents, d[1] \in S
        PROVE  d[2] \in S
    <2>1. d[2] \in CommitIds /\ rank[d[2]] < rank[d[1]]
      BY <1>1 DEF Descends, TypeOK
    <2>2. QED
      BY <1>3, <1>4, <1>5, <2>1
  <1>6. S \in SUBSET CommitIds /\ e[2] \in S
    BY <1>3, <1>4
  <1>7. Closed(S)
    BY <1>5 DEF Closed
  <1> HIDE DEF S
  <1>8. e[1] \in S
    BY <1>2, <1>3, <1>6, <1>7, AncestorsWithin
  <1>9. rank[e[2]] < rank[e[1]]
    BY <1>1 DEF Descends
  <1>10. QED
    BY <1>3, <1>4, <1>8, <1>9 DEF S

\* The history has no cycle, whatever is retired, bridged, recorded again
\* and linked again (retire_commit, apply_commit_incremental,
\* create_commit).
THEOREM AcyclicCorrect == Spec => []Acyclic
  <1>1. PortInv /\ Ranked => Acyclic
    BY RankedAcyclic DEF PortInv
  <1>2. QED
    BY <1>1, RankCorrect, PTL

-----------------------------------------------------------------------------
(* The order of the sequences.                                            *)

LEMMA InsertOlder ==
  ASSUME PortInv, ParentsOlder, NEW c \in CommitIds, NEW ps \in SUBSET CommitIds,
         InsertCommit(c, ps)
  PROVE  ParentsOlder'
  <1> USE DEF PortInv
  <1>1. /\ commits' = commits \cup {c} /\ c \notin commits
        /\ seq'[c] = nextSeq
        /\ \A d \in CommitIds : d # c => seq'[d] = seq[d]
    BY InsertPort
  <1>2. ASSUME NEW e \in commitParents'
        PROVE  {e[1], e[2]} \subseteq commits' /\ seq'[e[2]] < seq'[e[1]]
    <2>1. CASE e \in commitParents
      BY <1>1, <2>1 DEF ParentsOlder, commits
    <2>2. CASE e \in {c} \X ps
      BY <1>1, <2>2 DEF InsertCommit, SeqUnique, commits
    <2>3. QED
      BY <1>2, <2>1, <2>2 DEF InsertCommit
  <1>3. QED
    BY <1>2 DEF ParentsOlder

LEMMA FoldOlder ==
  ASSUME PortInv, ParentsOlder, NEW from \in commits, NEW into, Fold(from, into)
  PROVE  ParentsOlder'
  <1> USE DEF PortInv
  <1>1. /\ commits' = commits \ {from}
        /\ \A d \in CommitIds : d # from => seq'[d] = seq[d]
    BY FoldCommits
  <1>2. seq[from] \in Nat
    BY DEF TypeOK, commits
  <1>3. ASSUME NEW e \in commitParents'
        PROVE  {e[1], e[2]} \subseteq commits' /\ seq'[e[2]] < seq'[e[1]]
    <2>1. e[1] # from /\ e[2] # from
      BY <1>3 DEF Fold
    <2>2. CASE e \in commitParents
      BY <1>1, <2>1, <2>2 DEF ParentsOlder, commits
    <2>3. CASE e \in Bridged(from)
      <3>1. PICK d \in commitParents, f \in commitParents :
              d[2] = from /\ f[1] = from /\ e = <<d[1], f[2]>>
        BY <2>3 DEF Bridged
      <3>2. /\ {d[1], f[2]} \subseteq commits
            /\ seq[f[2]] < seq[from] /\ seq[from] < seq[d[1]]
        BY <3>1 DEF ParentsOlder
      <3>3. seq[f[2]] < seq[d[1]]
        BY <3>2, <1>2 DEF TypeOK, commits
      <3>4. QED
        BY <1>1, <2>1, <3>1, <3>2, <3>3 DEF commits
    <2>4. QED
      BY <1>3, <2>2, <2>3 DEF Fold
  <1>4. QED
    BY <1>3 DEF ParentsOlder

\* What an edge that comes back must be to break the order.
LEMMA RelinkOnly ==
  ASSUME PortInv, Ranked, ParentsOlder, NEW c \in CommitIds, RecordAgain(c) \/ CreateAgain(c),
         ~ ParentsOlder'
  PROVE  Relinks(c) /\ \E p \in hashed[c] : seq[c] < seq[p]
  <1> USE DEF PortInv
  <1>1. /\ seq' = seq /\ c \in commits /\ hashed[c] \subseteq commits
        /\ commitParents' = commitParents \cup ({c} \X hashed[c])
    BY DEF RecordAgain, CreateAgain
  <1>2. commits' = commits
    BY <1>1 DEF commits
  <1>3. PICK p \in hashed[c] : ~ seq[p] < seq[c]
    BY <1>1, <1>2 DEF ParentsOlder
  <1>4. p # c
    <2>1. PICK rank : Descends(rank)
      BY DEF Ranked
    <2>2. rank[p] < rank[c] /\ rank[c] \in Nat
      BY <1>1, <2>1 DEF Descends
    <2>3. QED
      BY <2>2
  <1>5. seq[p] \in Nat /\ seq[c] \in Nat /\ seq[p] # seq[c]
    BY <1>1, <1>4 DEF SeqUnique, TypeOK, commits
  <1>6. seq[c] < seq[p]
    BY <1>3, <1>5
  <1>7. ~ {c} \X hashed[c] \subseteq commitParents
    <2>1. <<c, p>> \notin commitParents
      BY <1>3 DEF ParentsOlder
    <2>2. <<c, p>> \in {c} \X hashed[c]
      BY <1>3
    <2>3. QED
      BY <2>1, <2>2
  <1>8. QED
    BY <1>6, <1>7 DEF Relinks

\* Only the repeated recording of a commit whose parent was retired and
\* came back can put a parent above its child in the order of sequences.
THEOREM OrderKeptCorrect == Spec => OrderKept
  <1> DEFINE broken == ParentsOlder /\ ~ ParentsOlder'
             cause == \E c \in CommitIds : Relinks(c) /\ \E p \in hashed[c] : seq[c] < seq[p]
  <1>1. ASSUME PortInv, Ranked, Next, ParentsOlder, ~ ParentsOlder'
        PROVE  cause
    <2>1. ASSUME NEW c \in CommitIds, NEW ps \in ParentSets, InsertCommit(c, ps)
          PROVE  FALSE
      BY <1>1, <2>1, InsertOlder DEF ParentSets, commits
    <2>2. ASSUME NEW c \in CommitIds, RecordAgain(c) \/ CreateAgain(c)
          PROVE  cause
      BY <1>1, <2>2, RelinkOnly
    <2>3. ASSUME NEW from \in CommitIds, NEW into \in CommitIds, RetireCommit(from, into)
          PROVE  FALSE
      BY <1>1, <2>3, RetireMoves, FoldOlder DEF CanMove
    <2>4. CASE UNCHANGED <<seq, commitParents>>
      BY <1>1, <2>4 DEF ParentsOlder, commits
    <2> HIDE DEF cause
    <2>5. QED
      BY <1>1, <2>1, <2>2, <2>3, <2>4
         DEF Next, RecordNew, CreateCommit, RecordChunk, SetRef, DeleteRef, ActivateRef
  <1> HIDE DEF cause
  <1>2. PortInv /\ Ranked /\ [Next]_metaVars => [broken => cause]_metaVars
    BY <1>1
  <1>3. QED
    BY <1>2, RankCorrect, PTL DEF Spec, OrderKept, cause

-----------------------------------------------------------------------------
(* Callers that bring no id back: all of IInv.                            *)

\* A commit the store has never seen: every stored commit keeps its links.
LEMMA InsertHashed ==
  ASSUME IInv, NEW c \in CommitIds \ assigned, NEW ps \in SUBSET CommitIds, InsertCommit(c, ps)
  PROVE  HashedEdges'
  <1> USE DEF IInv
  <1>0. commits' = commits \cup {c}
    BY InvPort, InsertPort
  <1>1. \A d \in CommitIds : d # c => hashed'[d] = hashed[d]
    BY DEF InsertCommit, TypeOK
  <1>2. hashed'[c] = ps
    BY DEF InsertCommit, TypeOK
  <1>3. commits' \subseteq assigned'
    BY <1>0 DEF HashedEdges, InsertCommit
  <1>4. \A d \in CommitIds : hashed'[d] \subseteq assigned'
    BY <1>1, <1>2 DEF HashedEdges, InsertCommit
  <1>5. ASSUME NEW d \in commits', NEW p \in hashed'[d], p \in commits'
        PROVE  <<d, p>> \in commitParents'
    <2>1. CASE d = c
      BY <1>2, <1>5, <2>1 DEF InsertCommit
    <2>2. CASE d # c
      <3>1. d \in commits /\ p \in hashed[d]
        BY <1>0, <1>1, <1>5, <2>2 DEF commits
      <3>2. p \in assigned
        BY <3>1 DEF HashedEdges, commits
      <3>3. p \in commits
        BY <1>0, <1>5, <3>2
      <3>4. QED
        BY <3>1, <3>3 DEF HashedEdges, InsertCommit
    <2>3. QED
      BY <2>1, <2>2
  <1>6. QED
    BY <1>3, <1>4, <1>5 DEF HashedEdges

LEMMA RecordNewInv ==
  ASSUME IInv, NEW c \in CommitIds \ assigned, NEW ps \in ParentSets, NEW es \in EntrySets,
         RecordNew(c, ps, es)
  PROVE  IInv'
  <1>1. InsertCommit(c, ps) /\ ps \in SUBSET CommitIds
    BY DEF RecordNew, ParentSets, commits
  <1>2. PortInv'
    BY InvPort, RecordNewPort
  <1>3. HashedEdges' /\ ParentsOlder'
    BY <1>1, InvPort, InsertHashed, InsertOlder DEF IInv
  <1>4. QED
    BY <1>2, <1>3 DEF IInv, PortInv

LEMMA CreateCommitInv ==
  ASSUME IInv, NEW c \in CommitIds \ assigned, NEW ps \in ParentSets, CreateCommit(c, ps), TypeOK'
  PROVE  IInv'
  <1>1. InsertCommit(c, ps) /\ ps \in SUBSET CommitIds
    BY DEF CreateCommit, ParentSets, commits
  <1>2. PortInv'
    BY InvPort, CreateCommitPort
  <1>3. HashedEdges' /\ ParentsOlder'
    BY <1>1, InvPort, InsertHashed, InsertOlder DEF IInv
  <1>4. QED
    BY <1>2, <1>3 DEF IInv, PortInv

\* Recording known content finds its edges in place.
LEMMA AgainKeepsEdges ==
  ASSUME HashedEdges, NEW c \in CommitIds, RecordAgain(c) \/ CreateAgain(c)
  PROVE  commitParents' = commitParents
  BY DEF HashedEdges, RecordAgain, CreateAgain

LEMMA AgainInv ==
  ASSUME IInv, NEW c \in CommitIds, RecordAgain(c) \/ CreateAgain(c), TypeOK'
  PROVE  IInv'
  <1>1. UNCHANGED <<seq, commitParents, assigned, hashed>>
    BY AgainKeepsEdges DEF IInv, RecordAgain, CreateAgain
  <1>2. commits' = commits
    BY <1>1 DEF commits
  <1>3. PortInv'
    BY InvPort, AgainPort
  <1>4. QED
    BY <1>1, <1>2, <1>3 DEF IInv, PortInv, HashedEdges, ParentsOlder

LEMMA FoldInv ==
  ASSUME IInv, NEW from \in CommitIds, NEW into \in CommitIds,
         Fold(from, into), CanMove(from, into), TypeOK'
  PROVE  IInv'
  <1> USE DEF IInv
  <1>1. PortInv' /\ from \in commits
    BY InvPort, FoldPort DEF CanMove
  <1>2. ParentsOlder'
    BY <1>1, InvPort, FoldOlder
  <1>3. commits' = commits \ {from}
    BY <1>1, FoldCommits
  <1>4. ASSUME NEW c \in commits', NEW p \in hashed[c], p \in commits'
        PROVE  <<c, p>> \in commitParents'
    <2>1. <<c, p>> \in commitParents /\ c # from /\ p # from
      BY <1>3, <1>4 DEF HashedEdges
    <2>2. QED
      BY <2>1 DEF Fold
  <1>5. UNCHANGED <<assigned, hashed>>
    BY DEF Fold
  <1>6. HashedEdges'
    BY <1>3, <1>4, <1>5 DEF HashedEdges
  <1>7. QED
    BY <1>1, <1>2, <1>6 DEF PortInv

LEMMA SameHistoryInv ==
  ASSUME IInv, PortInv', UNCHANGED <<seq, commitParents, assigned, hashed>>
  PROVE  IInv'
  <1>1. commits' = commits
    BY DEF commits
  <1>2. QED
    BY <1>1 DEF IInv, PortInv, HashedEdges, ParentsOlder

LEMMA InvStep == IInv /\ [Next /\ NoneBack]_metaVars => IInv'
  <1> SUFFICES ASSUME IInv, [Next /\ NoneBack]_metaVars
               PROVE  IInv'
    OBVIOUS
  <1>1. TypeOK' /\ PortInv'
    BY InvPort, PortStep, TypeStep DEF IInv
  <1>2. ASSUME NEW c \in CommitIds, NEW ps \in ParentSets, InsertCommit(c, ps), NoneBack
        PROVE  c \notin assigned
    <2>1. ps \in SUBSET CommitIds
      BY DEF ParentSets, commits
    <2>2. c \in commits' /\ c \notin commits
      BY <1>2, <2>1, InvPort, InsertPort
    <2>3. QED
      BY <1>2, <2>2 DEF NoneBack
  <1>3. ASSUME NEW c \in CommitIds, NEW ps \in ParentSets, NEW es \in EntrySets,
               RecordNew(c, ps, es), NoneBack
        PROVE  IInv'
    BY <1>2, <1>3, RecordNewInv DEF RecordNew
  <1>4. ASSUME NEW c \in CommitIds, NEW ps \in ParentSets, CreateCommit(c, ps), NoneBack
        PROVE  IInv'
    BY <1>1, <1>2, <1>4, CreateCommitInv DEF CreateCommit
  <1>5. CASE \E c \in CommitIds : RecordAgain(c) \/ CreateAgain(c)
    BY <1>1, <1>5, AgainInv
  <1>6. CASE \E from, into \in CommitIds : RetireCommit(from, into)
    BY <1>1, <1>6, RetireMoves, FoldInv
  <1>7. CASE UNCHANGED <<seq, commitParents, assigned, hashed>>
    BY <1>1, <1>7, SameHistoryInv
  <1>8. QED
    BY <1>3, <1>4, <1>5, <1>6, <1>7
       DEF Next, RecordChunk, SetRef, DeleteRef, ActivateRef, metaVars

\* As long as no retired id is recorded again, the local sequence is a
\* topological order of the history and every stored parent stays linked.
THEOREM ParentsOlderCorrect == Spec /\ [][NoneBack]_metaVars => []ParentsOlder
  <1>1. IInv /\ [Next]_metaVars /\ [NoneBack]_metaVars => IInv'
    BY InvStep
  <1>2. IInv => ParentsOlder
    BY DEF IInv
  <1>3. QED
    BY <1>1, <1>2, InvInit, PTL DEF Spec

-----------------------------------------------------------------------------
(* What a retirement does to reachability.                                *)

\* Every remaining commit loses the retired one and nothing else.
LEMMA FoldAncestors ==
  ASSUME TypeOK, NEW from \in CommitIds, NEW into \in CommitIds, Fold(from, into),
         NEW c \in CommitIds, c # from
  PROVE  Ancestors(c)' = Ancestors(c) \ {from}
  <1>0. commitParents' = {e \in commitParents \cup Bridged(from) : e[1] # from /\ e[2] # from}
    BY DEF Fold
  <1>1. ASSUME NEW S \in SUBSET CommitIds, c \in S, Closed(S)
        PROVE  Closed(S)'
    <2>1. ASSUME NEW e \in Bridged(from), e[1] \in S
          PROVE  e[2] \in S
      BY <1>1, <2>1 DEF Bridged, Closed
    <2>2. QED
      BY <1>0, <1>1, <2>1 DEF Closed
  <1>2. ASSUME NEW a \in Ancestors(c)'
        PROVE  a \in Ancestors(c) \ {from}
    <2>1. a \in Ancestors(c)
      BY <1>1, <1>2 DEF Ancestors
    <2>2. Closed(CommitIds \ {from})'
      BY <1>0 DEF Closed, TypeOK, Bridged
    <2>3. CommitIds \ {from} \in SUBSET CommitIds /\ c \in CommitIds \ {from}
      OBVIOUS
    <2>4. a \in CommitIds \ {from}
      BY <1>2, <2>2, <2>3 DEF Ancestors
    <2>5. QED
      BY <2>1, <2>4
  <1>3. ASSUME NEW a \in Ancestors(c) \ {from}
        PROVE  a \in Ancestors(c)'
    <2>1. SUFFICES ASSUME NEW T \in SUBSET CommitIds, c \in T, Closed(T)'
                   PROVE  a \in T
      BY <1>3 DEF Ancestors
    <2> DEFINE reached == \E x \in T \ {from} : <<x, from>> \in commitParents
               S == (T \ {from}) \cup (IF reached THEN {from} ELSE {})
    <2>2. Closed(S)
      <3>1. SUFFICES ASSUME NEW e \in commitParents, e[1] \in S
                     PROVE  e[2] \in S
        BY DEF Closed
      <3>2. e = <<e[1], e[2]>> /\ e[1] \in CommitIds /\ e[2] \in CommitIds
        BY DEF TypeOK
      <3>3. CASE e[1] # from /\ e[2] = from
        BY <3>1, <3>2, <3>3
      <3>4. CASE e[1] # from /\ e[2] # from
        BY <1>0, <2>1, <3>1, <3>4 DEF Closed
      <3>5. CASE e[1] = from /\ e[2] # from
        <4>1. PICK x \in T \ {from} : <<x, from>> \in commitParents
          BY <3>1, <3>5
        <4>2. <<x, e[2]>> \in Bridged(from)
          BY <3>5, <4>1 DEF Bridged
        <4>3. <<x, e[2]>> \in commitParents'
          BY <1>0, <3>2, <3>5, <4>1, <4>2
        <4>4. QED
          BY <2>1, <3>2, <3>5, <4>1, <4>3 DEF Closed
      <3>6. QED
        BY <3>1, <3>3, <3>4, <3>5
    <2>3. S \in SUBSET CommitIds /\ c \in S
      BY <2>1
    <2>4. a \in S
      BY <2>2, <2>3, AncestorsWithin
    <2>5. QED
      BY <1>3, <2>4
  <1>4. QED
    BY <1>2, <1>3

\* Reachability between the commits that remain is untouched by any
\* retirement, merges or not (retire_commit bridges the children).
THEOREM FoldKeepsAncestryCorrect == Spec => FoldKeepsAncestry
  <1> DEFINE A == commits' # commits =>
                    \A from, into \in CommitIds :
                      RetireCommit(from, into) =>
                        \A c \in commits \ {from} : Ancestors(c)' = Ancestors(c) \ {from}
  <1>1. PortInv /\ [Next]_metaVars => [A]_metaVars
    <2>1. ASSUME PortInv PROVE A
      BY <2>1, RetireMoves, FoldAncestors DEF commits, PortInv
    <2>2. QED
      BY <2>1
  <1>2. QED
    BY <1>1, PortCorrect, PTL DEF Spec, FoldKeepsAncestry

-----------------------------------------------------------------------------
(* What a recorded commit presents.                                       *)

\* AncestorsWithin for the state after a step.
LEMMA AncestorsWithinNext ==
  ASSUME NEW c \in CommitIds, NEW S \in SUBSET CommitIds, c \in S,
         \A e \in commitParents' : e[1] \in S => e[2] \in S
  PROVE  Ancestors(c)' \subseteq S
  BY DEF Ancestors, Closed

\* Membership of a closed set spreads to the ancestors, after a step.
LEMMA AncestorsInNext ==
  ASSUME NEW c \in CommitIds, NEW a \in CommitIds,
         \A S \in SUBSET CommitIds :
            c \in S /\ (\A e \in commitParents' : e[1] \in S => e[2] \in S) => a \in S
  PROVE  a \in Ancestors(c)'
  BY DEF Ancestors, Closed

\* A commit nobody descends from yet leaves all other ancestries alone,
\* and has those of its parents.
LEMMA InsertAncestors ==
  ASSUME PortInv, NEW c \in CommitIds, NEW ps \in SUBSET CommitIds, InsertCommit(c, ps)
  PROVE  /\ \A d \in commits : Ancestors(d)' = Ancestors(d)
         /\ Ancestors(c)' = {c} \cup UNION {Ancestors(p) : p \in ps}
  <1> USE DEF PortInv
  <1>0. commitParents' = commitParents \cup ({c} \X ps) /\ c \notin commits /\ ps \subseteq commits
    BY DEF InsertCommit
  <1>1. \A d \in commits : /\ d \in Ancestors(d) /\ c \notin Ancestors(d)
                           /\ Ancestors(d) \in SUBSET CommitIds /\ Closed(Ancestors(d))
    BY <1>0, AncestorsReflexive, AncestorsClosed, AncestorsOfStored DEF commits
  <1>2. ASSUME NEW d \in CommitIds
        PROVE  Ancestors(d) \subseteq Ancestors(d)'
    <2>1. ASSUME NEW a \in Ancestors(d), NEW S \in SUBSET CommitIds, d \in S,
                 \A e \in commitParents' : e[1] \in S => e[2] \in S
          PROVE  a \in S
      <3>1. Closed(S)
        BY <1>0, <2>1 DEF Closed
      <3>2. QED
        BY <2>1, <3>1, AncestorsWithin
    <2>2. Ancestors(d) \subseteq CommitIds
      BY DEF Ancestors
    <2>3. QED
      BY <2>1, <2>2, AncestorsInNext
  <1>3. ASSUME NEW d \in commits
        PROVE  Ancestors(d)' \subseteq Ancestors(d)
    <2>1. ASSUME NEW e \in commitParents', e[1] \in Ancestors(d)
          PROVE  e[2] \in Ancestors(d)
      <3>1. e \in commitParents
        BY <1>0, <1>1, <2>1
      <3>2. QED
        BY <1>1, <2>1, <3>1 DEF Closed
    <2>2. d \in CommitIds
      BY DEF commits
    <2>3. QED
      BY <1>1, <2>1, <2>2, AncestorsWithinNext
  <1>4. Ancestors(c)' \subseteq {c} \cup UNION {Ancestors(p) : p \in ps}
    <2> DEFINE T == {c} \cup UNION {Ancestors(p) : p \in ps}
    <2>1. ASSUME NEW e \in commitParents', e[1] \in T
          PROVE  e[2] \in T
      <3>1. CASE e \in {c} \X ps
        BY <1>0, <1>1, <3>1
      <3>2. CASE e \in commitParents
        <4>1. e[1] # c
          BY <1>0, <3>2 DEF EdgesStored
        <4>2. PICK p \in ps : e[1] \in Ancestors(p)
          BY <2>1, <4>1
        <4>3. e[2] \in Ancestors(p)
          BY <1>0, <1>1, <3>2, <4>2 DEF Closed
        <4>4. QED
          BY <4>3
      <3>3. QED
        BY <1>0, <2>1, <3>1, <3>2
    <2>2. T \in SUBSET CommitIds /\ c \in T
      BY <1>0, <1>1
    <2> HIDE DEF T
    <2>3. Ancestors(c)' \subseteq T
      BY <2>1, <2>2, AncestorsWithinNext
    <2>4. QED
      BY <2>3 DEF T
  <1>5. c \in Ancestors(c)'
    BY AncestorsInNext
  <1>6. ASSUME NEW p \in ps, NEW a \in Ancestors(p)
        PROVE  a \in Ancestors(c)'
    <2>1. <<c, p>> \in commitParents' /\ p \in CommitIds /\ a \in CommitIds
      BY <1>0, <1>1 DEF commits
    <2>2. a \in Ancestors(p)'
      BY <1>2, <2>1
    <2>3. Closed(Ancestors(c))' /\ Ancestors(c)' \in SUBSET CommitIds
      <3>1. commitParents' \subseteq CommitIds \X CommitIds
        BY <1>0 DEF TypeOK, commits
      <3>2. QED
        BY <3>1 DEF Ancestors, Closed
    <2>4. p \in Ancestors(c)'
      BY <1>5, <2>1, <2>3 DEF Closed
    <2>5. Ancestors(p)' \subseteq Ancestors(c)'
      BY <2>1, <2>3, <2>4, AncestorsWithinNext DEF Closed
    <2>6. QED
      BY <2>2, <2>5
  <1>7. QED
    BY <1>2, <1>3, <1>4, <1>5, <1>6 DEF commits

-----------------------------------------------------------------------------
(* A recorded commit keeps presenting what it presented: the theorem a    *)
(* snapshot store stands on.  It speaks of histories without merges, all  *)
(* that the application records; StaysLinear shows that they stay so.     *)
(* RecordResolves, what a new commit presents, holds either way.          *)

OrderedInv == PortInv /\ ParentsOlder /\ Linear

LEMMA LinearInit == Init => Linear
  BY DEF Init, Linear

LEMMA InsertSingle ==
  ASSUME PortInv, Linear, NEW c \in CommitIds, NEW ps \in SUBSET CommitIds, AtMostOne(ps),
         InsertCommit(c, ps)
  PROVE  Linear'
  <1>1. \A e \in commitParents : e[1] # c
    BY DEF PortInv, EdgesStored, InsertCommit
  <1>2. commitParents' = commitParents \cup ({c} \X ps)
    BY DEF InsertCommit
  <1>3. QED
    BY <1>1, <1>2 DEF Linear, AtMostOne

LEMMA FoldSingle ==
  ASSUME Linear, NEW from \in CommitIds, NEW into \in CommitIds, Fold(from, into)
  PROVE  Linear'
  <1>1. commitParents' = {e \in commitParents \cup Bridged(from) : e[1] # from /\ e[2] # from}
    BY DEF Fold
  <1>2. ASSUME NEW e \in commitParents', NEW f \in commitParents', e[1] = f[1]
        PROVE  e = f
    <2>1. ASSUME NEW x \in Bridged(from), NEW y \in commitParents, x[1] = y[1]
          PROVE  y[2] = from
      BY <2>1 DEF Bridged, Linear
    <2>2. ASSUME NEW x \in Bridged(from), NEW y \in Bridged(from), x[1] = y[1]
          PROVE  x = y
      <3>1. \A g, h \in commitParents : g[1] = from /\ h[1] = from => g[2] = h[2]
        BY DEF Linear
      <3>2. QED
        BY <2>2, <3>1 DEF Bridged
    <2>3. QED
      BY <1>1, <1>2, <2>1, <2>2 DEF Linear
  <1>3. QED
    BY <1>2 DEF Linear

LEMMA SingleStep ==
  ASSUME ~ Merges, IInv, Linear, [Next]_metaVars
  PROVE  Linear'
  <1>1. ASSUME NEW c \in CommitIds, NEW ps \in ParentSets,
               InsertCommit(c, ps)
        PROVE  Linear'
    BY <1>1, InvPort, InsertSingle DEF ParentSets, commits
  <1>2. ASSUME NEW c \in CommitIds, RecordAgain(c) \/ CreateAgain(c)
        PROVE  Linear'
    <2>1. commitParents' = commitParents
      BY <1>2, AgainKeepsEdges DEF IInv
    <2>2. QED
      BY <2>1 DEF Linear
  <1>3. ASSUME NEW from \in CommitIds, NEW into \in CommitIds, RetireCommit(from, into)
        PROVE  Linear'
    BY <1>3, RetireMoves, FoldSingle
  <1>4. CASE UNCHANGED commitParents
    BY <1>4 DEF Linear
  <1>5. QED
    BY <1>1, <1>2, <1>3, <1>4
    DEF Next, RecordNew, CreateCommit, RecordChunk, SetRef, DeleteRef, ActivateRef, metaVars

\* Histories without merges stay without: when no caller records a commit of
\* two parents or a retired id again (the application never does), neither
\* a retirement, which bridges edges, nor a repeated recording makes one.
THEOREM StaysLinear ==
  ASSUME ~ Merges
  PROVE  Spec /\ [][NoneBack]_metaVars => []Linear
  <1>1. Init => IInv /\ Linear
    BY InvInit, LinearInit
  <1>2. IInv /\ Linear /\ [Next]_metaVars /\ [NoneBack]_metaVars => IInv' /\ Linear'
    BY InvStep, SingleStep
  <1>3. QED
    BY <1>1, <1>2, PTL DEF Spec

-----------------------------------------------------------------------------
(* Without merges the ancestors of a commit are a chain.                  *)

LEMMA Chain ==
  ASSUME OrderedInv, NEW c \in CommitIds, NEW x \in Ancestors(c), NEW y \in Ancestors(c)
  PROVE  x \in Ancestors(y) \/ y \in Ancestors(x)
  <1> USE DEF OrderedInv, PortInv
  <1> DEFINE S == {z \in Ancestors(c) : x \in Ancestors(z) \/ z \in Ancestors(x)}
  <1>1. x \in CommitIds /\ Ancestors(c) \in SUBSET CommitIds
    BY AncestorsClosed
  <1>2. ASSUME NEW e \in commitParents, e[1] \in S
        PROVE  e[2] \in S
    <2>1. e[2] \in Ancestors(c) /\ e[1] \in CommitIds /\ e[2] \in CommitIds
      BY <1>1, <1>2, AncestorsClosed DEF Closed, TypeOK
    <2>2. CASE e[1] \in Ancestors(x)
      BY <1>1, <2>1, <2>2, AncestorsClosed DEF Closed
    <2>3. CASE x \in Ancestors(e[1]) /\ e[1] # x
      <3> DEFINE T == {e[1]} \cup Ancestors(e[2])
      <3>1. T \in SUBSET CommitIds /\ e[1] \in T
        BY <2>1, AncestorsClosed
      <3>2. Closed(T)
        BY <2>1, AncestorsClosed, AncestorsReflexive DEF Closed, Linear
      <3>3. x \in Ancestors(e[2])
        BY <2>1, <2>3, <3>1, <3>2, AncestorsWithin
      <3>4. QED
        BY <2>1, <3>3
    <2>4. CASE e[1] = x
      BY <1>1, <2>1, <2>4, AncestorsClosed, AncestorsReflexive DEF Closed
    <2>5. QED
      BY <1>2, <2>2, <2>3, <2>4
  <1>3. S \in SUBSET CommitIds /\ c \in S /\ Closed(S)
    BY <1>1, <1>2, AncestorsReflexive DEF Closed
  <1>4. y \in S
    BY <1>3, AncestorsWithin
  <1>5. QED
    BY <1>4

-----------------------------------------------------------------------------
(* Recording leaves what other commits present alone.                     *)

\* The rows a commit sees are all that decides what it presents.
LEMMA SameRowsSamePresent ==
  ASSUME NEW c, NEW k, Visible(c, k)' = Visible(c, k)
  PROVE  Present(c, k)' = Present(c, k)
  BY DEF Present, Effective

LEMMA RecordStable ==
  ASSUME PortInv, NEW c \in CommitIds, NEW ps \in SUBSET CommitIds, InsertCommit(c, ps),
         NEW R, \A r \in R : r.commit = c, chunkHistory' = chunkHistory \cup R,
         NEW d \in commits, NEW k \in Coords
  PROVE  Present(d, k)' = Present(d, k)
  <1>1. Ancestors(d)' = Ancestors(d)
    BY InsertAncestors
  <1>2. c \notin Ancestors(d)
    BY AncestorsOfStored DEF PortInv, InsertCommit
  <1>3. Visible(d, k)' = Visible(d, k)
    BY <1>1, <1>2 DEF Visible
  <1>4. QED
    BY <1>3, SameRowsSamePresent

-----------------------------------------------------------------------------
(* Folding leaves what the remaining commits present alone.               *)

\* A row of a commit that descends from the retired one, other than the
\* retired row itself, is older than it or newer than the fold target,
\* unless it supersedes the retired row.
LEMMA FoldGap ==
  ASSUME OrderedInv, NEW from \in CommitIds, NEW into \in CommitIds, RetireCommit(from, into),
         NEW c \in CommitIds, into \in Ancestors(c), NEW k \in Coords,
         NEW o \in RowsOf(from) \ Superseded(from, into), o.coord = k,
         NEW q \in Visible(c, k), q # o
  PROVE  q.seq < o.seq \/ seq[into] < q.seq
  <1> USE DEF OrderedInv, PortInv
  <1>1. /\ o \in chunkHistory /\ o.commit = from /\ o.seq = seq[from]
        /\ q \in chunkHistory /\ q.coord = k /\ q.commit \in Ancestors(c)
        /\ q.seq = seq[q.commit] /\ q.commit \in commits /\ from \in commits
    BY DEF RowsOf, Visible, RowsBelong
  <1>2. seq[from] \in Nat /\ q.seq \in Nat /\ seq[into] \in Nat /\ q.commit \in CommitIds
    BY <1>1 DEF TypeOK, commits
  <1>3. q.commit # from
    BY <1>1 DEF PrimaryKey
  <1>4. q.seq # seq[from]
    BY <1>1, <1>3 DEF SeqUnique
  <1>5. CASE q.seq > seq[from]
    <2>1. q.commit \notin Ancestors(into)
      BY <1>1, <1>5 DEF Superseded
    <2>2. into \in Ancestors(q.commit) /\ into # q.commit
      BY <1>1, <1>2, <2>1, Chain, AncestorsReflexive
    <2>3. seq[into] < seq[q.commit]
      BY <1>1, <2>2, AncestorsOlder
    <2>4. QED
      BY <1>1, <2>3
  <1>6. QED
    BY <1>1, <1>2, <1>4, <1>5

\* What a fold does to the rows of one coordinate that a remaining commit
\* sees, when that commit continues the fold target.
LEMMA FoldVisible ==
  ASSUME OrderedInv, NEW from \in CommitIds, NEW into \in CommitIds, RetireCommit(from, into),
         NEW c \in CommitIds, c # from, into \in Ancestors(c), NEW k \in Coords
  PROVE  Visible(c, k)' = (Visible(c, k) \ RowsOf(from))
                            \cup {r \in Restamped(from, into) : r.coord = k}
  <1> USE DEF OrderedInv, PortInv
  <1>1. Ancestors(c)' = Ancestors(c) \ {from}
    BY RetireMoves, FoldAncestors
  <1>2. chunkHistory' = (chunkHistory \ RowsOf(from)) \cup Restamped(from, into)
    BY DEF RetireCommit, Fold
  <1>3. \A r \in Restamped(from, into) : r.commit = into
    BY DEF Restamped, RowAt
  <1>4. into # from
    BY DEF RetireCommit, CanRetire, TypeOK
  <1>5. QED
    BY <1>1, <1>2, <1>3, <1>4 DEF Visible, RowsOf

\* The retired commit had nothing at k that is still effective at the
\* target: the rows that remain present what they presented.
LEMMA FoldDropStable ==
  ASSUME OrderedInv, NEW from \in CommitIds, NEW into \in CommitIds, RetireCommit(from, into),
         NEW c \in CommitIds, c # from, into \in Ancestors(c), NEW k \in Coords,
         \A o \in RowsOf(from) \ Superseded(from, into) : o.coord # k
  PROVE  Present(c, k)' = Present(c, k)
  <1> USE DEF OrderedInv, PortInv
  <1> DEFINE V == Visible(c, k)
             W == V \ RowsOf(from)
  <1>1. Visible(c, k)' = W
    BY FoldVisible DEF Restamped, RowAt
  <1>2. \A r \in V : r.seq \in Nat /\ r \in chunkHistory /\ r.coord = k
    BY DEF Visible, TypeOK, Row
  <1>3. ASSUME NEW o \in V \cap RowsOf(from)
        PROVE  \E q \in W : o.seq < q.seq
    <2>1. o \in Superseded(from, into) /\ o.coord = k
      BY <1>2
    <2>2. PICK q \in chunkHistory : /\ q.coord = k /\ q.seq > seq[from]
                                    /\ q.commit \in Ancestors(into)
      BY <2>1 DEF Superseded
    <2>3. o.seq = seq[from] /\ q.seq = seq[q.commit] /\ q.seq \in Nat /\ seq[from] \in Nat
      BY <2>2 DEF RowsOf, RowsBelong, TypeOK, Row
    <2>4. q.commit # from
      BY <2>2, <2>3
    <2>5. q.commit \in Ancestors(c)
      BY <2>2, AncestorsTransitive
    <2>6. q \in W
      BY <2>2, <2>4, <2>5 DEF Visible, RowsOf
    <2>7. QED
      BY <2>2, <2>3, <2>6
  <1>4. {r \in W : \A q \in W : q.seq <= r.seq} = {r \in V : \A q \in V : q.seq <= r.seq}
    <2> HIDE DEF V
    <2>1. ASSUME NEW r \in W, \A q \in W : q.seq <= r.seq, NEW o \in V
          PROVE  o.seq <= r.seq
      BY <1>2, <1>3, <2>1
    <2>2. ASSUME NEW r \in V, \A q \in V : q.seq <= r.seq
          PROVE  r \in W
      BY <1>2, <1>3, <2>2
    <2>3. QED
      BY <2>1, <2>2
  <1>5. Effective(c, k)' = Effective(c, k)
    BY <1>1, <1>4 DEF Effective
  <1>6. QED
    BY <1>5 DEF Present

\* The retired commit's row at k moves onto the target: it takes the place
\* in the order that it had.
LEMMA FoldMoveStable ==
  ASSUME OrderedInv, NEW from \in CommitIds, NEW into \in CommitIds, RetireCommit(from, into),
         NEW c \in CommitIds, c # from, into \in Ancestors(c), NEW k \in Coords,
         NEW o \in RowsOf(from) \ Superseded(from, into), o.coord = k
  PROVE  Present(c, k)' = Present(c, k)
  <1> USE DEF OrderedInv, PortInv
  <1> DEFINE V == Visible(c, k)
             n == RowAt(into, seq[into], k, o.blob)
             W == (V \ {o}) \cup {n}
  <1>1. o \in chunkHistory /\ o.commit = from /\ o.seq = seq[from]
    BY DEF RowsOf, RowsBelong
  <1>2. o \in V
    <2>1. from \in Ancestors(c)
      BY AncestorsTransitive DEF RetireCommit, CanRetire
    <2>2. QED
      BY <1>1, <2>1 DEF Visible
  <1>3. Visible(c, k)' = W
    <2>1. \A r \in chunkHistory : r.commit = from /\ r.coord = k => r = o
      BY <1>1 DEF PrimaryKey
    <2>2. V \ RowsOf(from) = V \ {o}
      BY <2>1 DEF Visible, RowsOf
    <2>3. {r \in Restamped(from, into) : r.coord = k} = {n}
      <3>1. n \in Restamped(from, into) /\ n.coord = k
        BY DEF Restamped, RowAt
      <3>2. ASSUME NEW r \in Restamped(from, into), r.coord = k
            PROVE  r = n
        <4>1. PICK p \in RowsOf(from) \ Superseded(from, into) :
                     r = RowAt(into, seq[into], p.coord, p.blob)
          BY DEF Restamped
        <4>2. p = o
          BY <2>1, <3>2, <4>1 DEF RowAt, RowsOf
        <4>3. QED
          BY <4>1, <4>2
      <3>3. QED
        BY <3>1, <3>2
    <2>4. QED
      BY <2>2, <2>3, FoldVisible
  <1>4. n.seq = seq[into] /\ n.blob = o.blob /\ o.seq < n.seq
    BY <1>1 DEF RowAt, RetireCommit, CanRetire
  <1>5. /\ \A r \in V : r.seq \in Nat
        /\ n.seq \in Nat
    BY <1>4 DEF Visible, TypeOK, Row
  <1>6. \A q \in V \ {o} : q.seq < o.seq \/ n.seq < q.seq
    BY <1>4, FoldGap
  <1> HIDE DEF V, n
  <1>7. ASSUME NEW r \in W, \A q \in W : q.seq <= r.seq
        PROVE  \E s \in V : s.blob = r.blob /\ \A q \in V : q.seq <= s.seq
    <2>1. CASE r = n
      <3>1. \A q \in V : q.seq <= o.seq
        BY <1>2, <1>4, <1>5, <1>6, <1>7, <2>1
      <3>2. QED
        BY <1>2, <1>4, <2>1, <3>1
    <2>2. CASE r # n
      <3>1. \A q \in V : q.seq <= r.seq
        BY <1>2, <1>4, <1>5, <1>7, <2>2
      <3>2. QED
        BY <1>7, <2>2, <3>1
    <2>3. QED
      BY <2>1, <2>2
  <1>8. ASSUME NEW r \in V, \A q \in V : q.seq <= r.seq
        PROVE  \E s \in W : s.blob = r.blob /\ \A q \in W : q.seq <= s.seq
    <2>1. CASE r = o
      <3>1. \A q \in W : q.seq <= n.seq
        BY <1>2, <1>4, <1>5, <1>6, <1>8, <2>1
      <3>2. QED
        BY <1>4, <2>1, <3>1
    <2>2. CASE r # o
      <3>1. \A q \in W : q.seq <= r.seq
        BY <1>2, <1>4, <1>5, <1>6, <1>8, <2>2
      <3>2. QED
        BY <1>8, <2>2, <3>1
    <2>3. QED
      BY <2>1, <2>2
  <1>9. QED
    BY <1>3, <1>7, <1>8 DEF Present, Effective, V

LEMMA FoldStable ==
  ASSUME OrderedInv, NEW from \in CommitIds, NEW into \in CommitIds, RetireCommit(from, into),
         NEW c \in commits \ {from}, from \in Ancestors(c) => into \in Ancestors(c),
         NEW k \in Coords
  PROVE  Present(c, k)' = Present(c, k)
  <1> USE DEF OrderedInv, PortInv
  <1>1. CASE from \notin Ancestors(c)
    <2>1. Ancestors(c)' = Ancestors(c)
      BY <1>1, RetireMoves, FoldAncestors DEF commits
    <2>2. into \notin Ancestors(c)
      BY <1>1, AncestorsTransitive DEF RetireCommit, CanRetire, commits
    <2>3. chunkHistory' = (chunkHistory \ RowsOf(from)) \cup Restamped(from, into)
      BY DEF RetireCommit, Fold
    <2>4. \A r \in Restamped(from, into) : r.commit = into
      BY DEF Restamped, RowAt
    <2>5. Visible(c, k)' = Visible(c, k)
      BY <1>1, <2>1, <2>2, <2>3, <2>4 DEF Visible, RowsOf
    <2>6. QED
      BY <2>5, SameRowsSamePresent
  <1>2. CASE from \in Ancestors(c)
    <2>1. into \in Ancestors(c) /\ c \in CommitIds /\ c # from
      BY <1>2 DEF commits
    <2>2. CASE \E o \in RowsOf(from) \ Superseded(from, into) : o.coord = k
      BY <2>1, <2>2, FoldMoveStable
    <2>3. CASE \A o \in RowsOf(from) \ Superseded(from, into) : o.coord # k
      BY <2>1, <2>3, FoldDropStable
    <2>4. QED
      BY <2>2, <2>3
  <1>3. QED
    BY <1>1, <1>2

\* No port call but record_chunk, and no repeated recording but one that
\* brings an edge back, changes what a commit presents that it leaves stored.
LEMMA StepStable ==
  ASSUME PortInv, ParentsOlder, Linear, Next,
         \A d \in CommitIds : ~ Relinks(d),
         \A c \in CommitIds, k \in Coords, b \in Blobs \cup {Tombstone} : ~ RecordChunk(c, k, b),
         \A from, into \in CommitIds : RetireCommit(from, into) => SoundFold(from, into),
         NEW c \in commits, c \in commits', NEW k \in Coords
  PROVE  Present(c, k)' = Present(c, k)
  <1> USE DEF OrderedInv
  <1>1. ASSUME NEW d \in CommitIds, NEW ps \in ParentSets, NEW es \in EntrySets,
               RecordNew(d, ps, es)
        PROVE  Present(c, k)' = Present(c, k)
    <2>1. \A r \in RowsFor(d, nextSeq, es) : r.commit = d
      BY DEF RowsFor, RowAt
    <2>2. ps \in SUBSET CommitIds
      BY DEF ParentSets, commits
    <2>3. QED
      BY <1>1, <2>1, <2>2, RecordStable DEF RecordNew
  <1>2. ASSUME NEW d \in CommitIds, RecordAgain(d) \/ CreateAgain(d)
        PROVE  Present(c, k)' = Present(c, k)
    <2>1. commitParents' = commitParents /\ chunkHistory' = chunkHistory
      BY <1>2 DEF Relinks, RecordAgain, CreateAgain
    <2>2. Visible(c, k)' = Visible(c, k)
      BY <2>1 DEF Visible, Ancestors, Closed
    <2>3. QED
      BY <2>2, SameRowsSamePresent
  <1>3. ASSUME NEW d \in CommitIds, NEW ps \in ParentSets, CreateCommit(d, ps)
        PROVE  Present(c, k)' = Present(c, k)
    <2>1. PICK R : /\ \A r \in R : r.commit = d
                   /\ chunkHistory' = chunkHistory \cup R
      <3>1. chunkHistory' = chunkHistory \cup {}
        BY <1>3 DEF CreateCommit
      <3>2. QED
        BY <3>1
    <2>2. ps \in SUBSET CommitIds
      BY DEF ParentSets, commits
    <2>3. QED
      BY <1>3, <2>1, <2>2, RecordStable DEF CreateCommit
  <1>4. ASSUME NEW from \in CommitIds, NEW into \in CommitIds, RetireCommit(from, into)
        PROVE  Present(c, k)' = Present(c, k)
    <2>1. c # from
      BY <1>4 DEF RetireCommit, Fold, commits, PortInv, TypeOK
    <2>2. QED
      BY <1>4, <2>1, FoldStable DEF SoundFold
  <1>5. CASE UNCHANGED <<commitParents, chunkHistory>>
    <2>1. Visible(c, k)' = Visible(c, k)
      BY <1>5 DEF Visible, Ancestors, Closed
    <2>2. QED
      BY <2>1, SameRowsSamePresent
  <1>6. QED
    BY <1>1, <1>2, <1>3, <1>4, <1>5 DEF Next, SetRef, DeleteRef, ActivateRef

\* What a commit presents never changes while no commit has two parents
\* and the sequences order the history, whatever is recorded, moved, pruned
\* or recorded again afterwards, retired ids included, as long as no edge
\* comes back and no commit is retired into a target that some remaining
\* descendant of it does not continue (apply_commit_incremental,
\* create_commit, retire_commit, the ref calls).
THEOREM HistoryStableCorrect == Spec => HistoryStable
  <1> DEFINE onPurpose ==
               /\ Linear
               /\ ParentsOlder
               /\ \A c \in CommitIds, k \in Coords, b \in Blobs \cup {Tombstone} :
                    ~ RecordChunk(c, k, b)
               /\ \A c \in CommitIds : ~ Relinks(c)
               /\ \A from, into \in CommitIds : RetireCommit(from, into) => SoundFold(from, into)
             stable == \A c \in commits \cap commits', k \in Coords :
                          Present(c, k)' = Present(c, k)
  <1>1. PortInv /\ [Next]_metaVars => [onPurpose => stable]_metaVars
    BY StepStable
  <1>2. QED
    BY <1>1, PortCorrect, PTL DEF Spec, HistoryStable

-----------------------------------------------------------------------------
(* What a new commit presents.                                            *)

LEMMA NewCommitPresents ==
  ASSUME PortInv, NEW c \in CommitIds, NEW ps \in SUBSET CommitIds, AtMostOne(ps),
         NEW es \in EntrySets, RecordNew(c, ps, es), NEW k \in Coords
  PROVE  Present(c, k)' = IF k \in DOMAIN es THEN {es[k]} \ {Tombstone}
                          ELSE UNION {Present(p, k) : p \in ps}
  <1> USE DEF PortInv
  <1>1. Ancestors(c)' = {c} \cup UNION {Ancestors(p) : p \in ps}
    BY InsertAncestors DEF RecordNew
  <1>2. chunkHistory' = chunkHistory \cup RowsFor(c, nextSeq, es)
    BY DEF RecordNew
  <1>3. \A r \in chunkHistory : r.commit # c /\ r.seq < nextSeq
    BY DEF RecordNew, InsertCommit, RowsBelong, SeqUnique, commits
  <1> DEFINE inherited == UNION {Visible(p, k) : p \in ps}
  <1>4. CASE k \in DOMAIN es
    <2> DEFINE n == RowAt(c, nextSeq, k, es[k])
    <2>1. n.seq = nextSeq /\ n.blob = es[k] /\ nextSeq \in Nat
      BY DEF RowAt, TypeOK
    <2>2. n \in Visible(c, k)'
      BY <1>1, <1>2, <1>4 DEF Visible, RowsFor, RowAt
    <2>3. \A r \in Visible(c, k)' : r = n \/ (r.seq \in Nat /\ r.seq < nextSeq)
      BY <1>2, <1>3 DEF Visible, RowsFor, RowAt, TypeOK, Row
    <2>4. Effective(c, k)' = {n}
      <3>1. \A r \in Visible(c, k)' : r.seq <= n.seq
        BY <2>1, <2>3
      <3>2. \A r \in Visible(c, k)' : n.seq <= r.seq => r = n
        BY <2>1, <2>3
      <3>3. QED
        BY <2>2, <3>1, <3>2 DEF Effective
    <2>5. QED
      BY <1>4, <2>1, <2>4 DEF Present
  <1>5. CASE k \notin DOMAIN es
    <2>1. \A r \in RowsFor(c, nextSeq, es) : r.coord # k
      BY <1>5 DEF RowsFor, RowAt
    <2>2. Visible(c, k)' = inherited
      BY <1>1, <1>2, <1>3, <2>1 DEF Visible
    <2>3. CASE ps = {}
      BY <1>5, <2>2, <2>3 DEF Present, Effective
    <2>4. ASSUME NEW p \in ps
          PROVE  Present(c, k)' = UNION {Present(q, k) : q \in ps}
      <3>1. ps = {p}
        BY DEF AtMostOne
      <3>2. Visible(c, k)' = Visible(p, k)
        BY <2>2, <3>1
      <3>3. Present(c, k)' = Present(p, k)
        BY <3>2 DEF Present, Effective
      <3>4. QED
        BY <3>1, <3>3
    <2>5. QED
      BY <1>5, <2>3, <2>4
  <1>6. QED
    BY <1>4, <1>5

\* A new commit presents its entries and, elsewhere, what its parent
\* presents (apply_commit_incremental under the effective-row query).
THEOREM RecordResolvesCorrect == Spec => RecordResolves
  <1> DEFINE A == commits' # commits =>
                    \A c \in CommitIds, ps \in ParentSets, es \in EntrySets :
                      RecordNew(c, ps, es) /\ AtMostOne(ps) =>
                        \A k \in Coords :
                          Present(c, k)' = IF k \in DOMAIN es THEN {es[k]} \ {Tombstone}
                                           ELSE UNION {Present(p, k) : p \in ps}
  <1>1. PortInv /\ [Next]_metaVars => [A]_metaVars
    <2>1. ParentSets \subseteq SUBSET CommitIds
      BY DEF ParentSets, commits
    <2>2. ASSUME PortInv PROVE A
      BY <2>1, <2>2, NewCommitPresents
    <2>3. QED
      BY <2>2
  <1>2. QED
    BY <1>1, PortCorrect, PTL DEF Spec, RecordResolves
=============================================================================
