---------------------------- MODULE StoreProofs ------------------------------
(***************************************************************************)
(* Commits, collections, prunes and ref calls over one store: what holds   *)
(* of them for every number of callers, and which calls must not overlap   *)
(* for it.  Each theorem names the overlaps it excludes and no others; the *)
(* code excludes none, so these are the caller's obligations.              *)
(*                                                                         *)
(* First pruning: what it may rely on while others use the store, and what *)
(* it leaves alone.  The argument: a step of anybody changes the metadata  *)
(* only in the ways of Evolves, and what a prune holds in memory           *)
(* (PlanSound) stays true under those.  So the fold it checked before its  *)
(* transaction is still a sound fold in the transaction, or one that has   *)
(* nothing to move.                                                        *)
(***************************************************************************)
EXTENDS StoreRuns, MetaStoreProofs

-----------------------------------------------------------------------------
(* What a step may do to the metadata.                                    *)

\* Commits come and go, ids never come back, and the commits that stay
\* keep their sequence and their ancestors among those that stay.
Evolves ==
  /\ assigned \subseteq assigned'
  /\ commits' \cap assigned \subseteq commits
  /\ \A c \in commits \cap commits' :
       /\ seq'[c] = seq[c]
       /\ Ancestors(c)' = Ancestors(c) \cap commits'

\* A fold as the transaction runs it: nothing to do for a commit that is
\* gone, and otherwise no foreign key in the way.
FoldRuns(from, into) ==
  /\ from \in CommitIds /\ into \in CommitIds
  /\ Fold(from, into)
  /\ from \in commits => CanMove(from, into)

LEMMA AncestorsStored ==
  ASSUME IInv, NEW c \in commits
  PROVE  Ancestors(c) \subseteq commits
  <1>1. c \in CommitIds /\ commits \in SUBSET CommitIds /\ Closed(commits)
    BY DEF IInv, ParentsOlder, Closed, commits
  <1>2. QED
    BY <1>1, AncestorsWithin

LEMMA FoldAbsent ==
  ASSUME IInv, NEW from \in CommitIds \ commits, NEW into \in CommitIds, Fold(from, into)
  PROVE  UNCHANGED metaVars
  <1> USE DEF IInv
  <1>1. seq' = seq
    BY DEF Fold, TypeOK, commits
  <1>2. chunkHistory' = chunkHistory
    BY DEF Fold, RowsOf, Restamped, RowsBelong
  <1>3. target' = target
    BY DEF Fold, TypeOK, RefsResolve
  <1>4. commitParents' = commitParents
    BY DEF Fold, Bridged, ParentsOlder
  <1>5. QED
    BY <1>1, <1>2, <1>3, <1>4 DEF Fold, metaVars

LEMMA FoldTyped ==
  ASSUME TypeOK, NEW from \in CommitIds, NEW into \in CommitIds, Fold(from, into),
         CanMove(from, into)
  PROVE  TypeOK'
  <1>1. RowsOf(from) \subseteq Row
    BY DEF TypeOK, RowsOf
  <1>2. Restamped(from, into) \subseteq Row
    BY <1>1 DEF TypeOK, Restamped, RowAt, Row
  <1>3. chunkHistory' \subseteq Row
    BY <1>2 DEF TypeOK, Fold
  <1>4. commitParents' \subseteq CommitIds \X CommitIds
    BY DEF TypeOK, Fold, Bridged
  <1>5. target' \in [RefNames -> CommitIds \cup {Unborn, Absent}]
    BY DEF TypeOK, Fold
  <1>6. seq' \in [CommitIds -> Nat]
    BY DEF TypeOK, Fold
  <1>7. UNCHANGED <<nextSeq, activeRefs, assigned, hashed>>
    BY DEF Fold
  <1>8. QED
    BY <1>3, <1>4, <1>5, <1>6, <1>7 DEF TypeOK, Row

LEMMA UnchangedInv ==
  ASSUME IInv, UNCHANGED metaVars
  PROVE  IInv' /\ Evolves
  <1>1. IInv'
    BY InvStep
  <1>2. commits' = commits /\ assigned' = assigned /\ seq' = seq
    BY DEF metaVars, commits
  <1>3. ASSUME NEW c \in commits
        PROVE  Ancestors(c)' = Ancestors(c) \cap commits'
    <2>1. Ancestors(c)' = Ancestors(c)
      BY DEF metaVars, Ancestors, Closed
    <2>2. QED
      BY <1>2, <2>1, AncestorsStored
  <1>4. QED
    BY <1>1, <1>2, <1>3 DEF Evolves

LEMMA FoldRunsInv ==
  ASSUME IInv, NEW from, NEW into, FoldRuns(from, into)
  PROVE  IInv' /\ Evolves
  <1> USE DEF FoldRuns
  <1>1. CASE from \notin commits
    BY <1>1, FoldAbsent, UnchangedInv
  <1>2. CASE from \in commits
    <2>1. TypeOK'
      BY <1>2, FoldTyped DEF IInv
    <2>2. IInv'
      BY <1>2, <2>1, FoldInv
    <2>3. commits' = commits \ {from} /\ \A d \in CommitIds : d # from => seq'[d] = seq[d]
      BY <1>2, FoldCommits DEF IInv
    <2>4. ASSUME NEW c \in commits'
          PROVE  seq'[c] = seq[c] /\ Ancestors(c)' = Ancestors(c) \cap commits'
      <3>1. Ancestors(c)' = Ancestors(c) \ {from} /\ c \in commits /\ c \in CommitIds
        BY <2>3, FoldAncestors DEF commits, IInv
      <3>2. Ancestors(c) \subseteq commits
        BY <3>1, AncestorsStored
      <3>3. QED
        BY <2>3, <3>1, <3>2
    <2>5. QED
      BY <2>2, <2>3, <2>4 DEF Evolves, Fold
  <1>3. QED
    BY <1>1, <1>2

LEMMA RecordNewEvolves ==
  ASSUME IInv, NEW c \in CommitIds \ assigned, NEW ps \in ParentSets, NEW es \in EntrySets,
         RecordNew(c, ps, es)
  PROVE  /\ IInv' /\ Evolves
         /\ commits' = commits \cup {c}
         /\ c \notin assigned
  <1>1. IInv'
    BY RecordNewInv
  <1>2. commits' = commits \cup {c} /\ c \notin assigned /\ commits \subseteq assigned
    BY DEF RecordNew, InsertCommit, commits, IInv, TypeOK, HashedEdges
  <1>3. ps \in SUBSET CommitIds
    BY DEF ParentSets, commits
  <1>4. \A d \in commits : Ancestors(d)' = Ancestors(d) /\ Ancestors(d) \subseteq commits
    BY <1>3, InvPort, InsertAncestors, AncestorsStored DEF RecordNew
  <1>5. assigned' = assigned \cup {c} /\ \A d \in commits : seq'[d] = seq[d]
    BY <1>2 DEF RecordNew, InsertCommit, IInv, TypeOK, commits
  <1>6. QED
    BY <1>1, <1>2, <1>4, <1>5 DEF Evolves

LEMMA RefCallInv ==
  ASSUME IInv, RefCall
  PROVE  /\ IInv' /\ Evolves
         /\ UNCHANGED <<seq, nextSeq, commitParents, chunkHistory, assigned, hashed>>
  <1>2. UNCHANGED <<seq, nextSeq, commitParents, chunkHistory, assigned, hashed>>
    BY DEF RefCall, SetRef, DeleteRef, ActivateRef
  <1>1. IInv'
    <2>1. PortInv'
      BY InvPort, PortStep DEF Next, RefCall
    <2>2. QED
      BY <1>2, <2>1, SameHistoryInv
  <1>3. \A c \in commits : Ancestors(c)' = Ancestors(c) /\ Ancestors(c) \subseteq commits
    BY <1>2, AncestorsStored DEF Ancestors, Closed
  <1>4. commits' = commits
    BY <1>2 DEF commits
  <1>5. QED
    BY <1>1, <1>2, <1>3, <1>4 DEF Evolves
-----------------------------------------------------------------------------
(* What a prune holds in memory.                                          *)

Listings == UNION {[S -> Nat] : S \in SUBSET CommitIds}

PlanRecords ==
  [at : {"idle", "selected", "listed", "planned", "starting", "applying", "checked"},
   keep : SUBSET CommitIds,
   rows : Listings,
   delete : SUBSET CommitIds,
   todo : SUBSET CommitIds,
   listed : SUBSET CommitIds,
   edges : SUBSET (CommitIds \X CommitIds),
   from : CommitIds \cup {Absent},
   into : CommitIds \cup {Absent}]

\* The selection and the links name commits of the past.
RemembersAssigned(p) ==
  /\ prune[p].keep \subseteq assigned
  /\ \A e \in prune[p].edges : e[2] \in assigned

\* Between the listing and the links: the commits listed that are still
\* there have all of their ancestors on the list.
ListingClosed(p) ==
  prune[p].at = "starting" =>
    /\ prune[p].listed \subseteq assigned
    /\ prune[p].keep \cap commits \subseteq prune[p].listed
    /\ \A c \in prune[p].listed \cap commits : Ancestors(c) \subseteq prune[p].listed

\* From then on: the links read earlier tell the ancestors of the retained
\* commits, among the commits that are still there.
LinksTell(p) ==
  prune[p].at \in {"applying", "checked"} =>
    \A c \in prune[p].keep \cap commits, a \in commits :
      a \in LinkedAncestors(prune[p].edges, c) <=> a \in Ancestors(c) /\ a # c

\* Between the checks and the transaction.
CheckHolds(p) ==
  prune[p].at = "checked" =>
    /\ prune[p].from \in assigned
    /\ prune[p].into \in FoldTargets(prune[p].edges, prune[p].keep, prune[p].from)
    /\ {prune[p].from, prune[p].into} \subseteq commits => CanRetire(prune[p].from, prune[p].into)

PlanSound(p) ==
  /\ prune[p] \in PlanRecords
  /\ RemembersAssigned(p)
  /\ ListingClosed(p)
  /\ LinksTell(p)
  /\ CheckHolds(p)

PruneInv ==
  /\ IInv
  /\ prune \in [Pruners -> PlanRecords]
  /\ \A p \in Pruners : PlanSound(p)

-----------------------------------------------------------------------------
(* Ancestors by links.                                                    *)

LEMMA LinkedWithin ==
  ASSUME NEW edges, NEW c, NEW S \in SUBSET CommitIds,
         \A e \in edges : e[1] = c => e[2] \in S,
         \A e \in edges : e[1] \in S => e[2] \in S
  PROVE  LinkedAncestors(edges, c) \subseteq S
  BY DEF LinkedAncestors

\* Ancestors by links are ends of links.
LEMMA LinkedEnds ==
  ASSUME NEW edges \in SUBSET (CommitIds \X CommitIds), NEW c
  PROVE  \A a \in LinkedAncestors(edges, c) : \E e \in edges : a = e[2]
  <1> DEFINE S == {a \in CommitIds : \E e \in edges : a = e[2]}
  <1>1. \A e \in edges : e[2] \in S
    OBVIOUS
  <1>2. LinkedAncestors(edges, c) \subseteq S
    BY <1>1, LinkedWithin
  <1>3. QED
    BY <1>2

\* The links of a set of commits that holds the ancestors of c tell them.
LEMMA LinksOfTell ==
  ASSUME IInv, NEW ids, NEW c \in commits, Ancestors(c) \subseteq ids
  PROVE  LinkedAncestors(LinksOf(ids), c) = Ancestors(c) \ {c}
  <1> USE DEF IInv
  <1> DEFINE A == Ancestors(c)
  <1>1. /\ A \in SUBSET CommitIds /\ Closed(A) /\ c \in A /\ c \in CommitIds
        /\ \A a \in A : seq[a] <= seq[c]
    BY AncestorsClosed, AncestorsReflexive, AncestorsOlder DEF commits, TypeOK
  <1>2. LinkedAncestors(LinksOf(ids), c) \subseteq A \ {c}
    <2>1. ASSUME NEW e \in LinksOf(ids), e[1] = c \/ e[1] \in A \ {c}
          PROVE  e[2] \in A \ {c}
      <3>1. e \in commitParents /\ e[2] \in A /\ e[1] \in A
        BY <1>1, <2>1 DEF LinksOf, Closed
      <3>2. seq[e[2]] < seq[e[1]] /\ seq[e[1]] <= seq[c]
        BY <1>1, <3>1 DEF ParentsOlder
      <3>3. e[2] # c
        BY <3>1, <3>2 DEF ParentsOlder, TypeOK, commits
      <3>4. QED
        BY <3>1, <3>3
    <2>2. QED
      BY <1>1, <2>1, LinkedWithin
  <1>3. ASSUME NEW a \in A \ {c}
        PROVE  a \in LinkedAncestors(LinksOf(ids), c)
    <2>1. ASSUME NEW S \in SUBSET CommitIds,
                 \A e \in LinksOf(ids) : e[1] = c => e[2] \in S,
                 \A e \in LinksOf(ids) : e[1] \in S => e[2] \in S
          PROVE  a \in S
      <3> DEFINE T == ({c} \cup S) \cap A
      <3>1. Closed(T)
        BY <1>1, <2>1 DEF Closed, LinksOf
      <3>2. A \subseteq T
        BY <1>1, <3>1, AncestorsWithin
      <3>3. QED
        BY <3>2
    <2>2. QED
      BY <1>1, <2>1 DEF LinkedAncestors
  <1>4. QED
    BY <1>2, <1>3

-----------------------------------------------------------------------------
(* The memory of a prune stays sound while others, or the prune itself,   *)
(* change the metadata.                                                   *)

\* What p holds is what it held, or it has ended a transaction.
SameMemory(p) ==
  /\ prune'[p] \in PlanRecords
  /\ prune'[p].keep = prune[p].keep
  /\ prune'[p].edges = prune[p].edges
  /\ prune'[p].listed = prune[p].listed
  /\ \/ /\ prune'[p].at = prune[p].at
        /\ prune'[p].from = prune[p].from
        /\ prune'[p].into = prune[p].into
     \/ prune[p].at = "checked" /\ prune'[p].at = "applying"

LEMMA MemoryHolds ==
  ASSUME IInv, IInv', Evolves, NEW p \in Pruners, PlanSound(p), SameMemory(p)
  PROVE  PlanSound(p)'
  <1> USE DEF PlanSound, SameMemory
  <1>1. /\ commits \subseteq assigned /\ commits' \subseteq assigned'
        /\ assigned \subseteq assigned' /\ commits' \cap assigned \subseteq commits
    BY DEF Evolves, IInv, HashedEdges
  <1>2. \A c \in commits \cap commits' : /\ seq'[c] = seq[c]
                                         /\ Ancestors(c)' = Ancestors(c) \cap commits'
    BY DEF Evolves
  <1>3. RemembersAssigned(p)'
    BY <1>1 DEF RemembersAssigned
  <1>4. ListingClosed(p)'
    BY <1>1, <1>2 DEF ListingClosed, RemembersAssigned
  <1>5. LinksTell(p)'
    <2>1. SUFFICES ASSUME prune[p].at \in {"applying", "checked"},
                          NEW c \in prune[p].keep \cap commits', NEW a \in commits'
                   PROVE  a \in LinkedAncestors(prune[p].edges, c) <=> a \in Ancestors(c)' /\ a # c
      BY DEF LinksTell
    <2>2. c \in prune[p].keep \cap commits
      BY <1>1 DEF RemembersAssigned
    <2>3. CASE a \in commits
      BY <1>2, <2>1, <2>2, <2>3 DEF LinksTell
    <2>4. CASE a \notin commits
      <3>1. a \notin assigned
        BY <1>1, <2>4
      <3>2. a \notin LinkedAncestors(prune[p].edges, c)
        BY <3>1, LinkedEnds DEF RemembersAssigned, PlanRecords
      <3>3. a \notin Ancestors(c)'
        BY <1>2, <2>2, <2>4, AncestorsStored
      <3>4. QED
        BY <3>2, <3>3
    <2>5. QED
      BY <2>3, <2>4
  <1>6. CheckHolds(p)'
    <2>1. SUFFICES ASSUME prune[p].at = "checked", prune'[p].at = "checked",
                          {prune[p].from, prune[p].into} \subseteq commits'
                   PROVE  CanRetire(prune[p].from, prune[p].into)'
      BY <1>1 DEF CheckHolds, CanRetire
    <2>2. {prune[p].from, prune[p].into} \subseteq commits
      BY <1>1, <2>1 DEF CheckHolds, FoldTargets, Continuing, RemembersAssigned
    <2>3. QED
      BY <1>2, <2>1, <2>2 DEF CheckHolds, CanRetire
  <1>7. QED
    BY <1>3, <1>4, <1>5, <1>6

\* Links and listing, for memory that holds neither.
LEMMA FreshSound ==
  ASSUME IInv, NEW p \in Pruners, prune'[p] \in PlanRecords, UNCHANGED metaVars,
         prune'[p].at \in {"idle", "selected", "listed", "planned"},
         prune'[p].keep \subseteq assigned, \A e \in prune'[p].edges : e[2] \in assigned
  PROVE  PlanSound(p)'
  BY DEF PlanSound, RemembersAssigned, ListingClosed, LinksTell, CheckHolds, metaVars

LEMMA GotoIs ==
  ASSUME prune \in [Pruners -> PlanRecords], NEW p \in Pruners, NEW r \in PlanRecords, Goto(p, r)
  PROVE  /\ prune' \in [Pruners -> PlanRecords]
         /\ prune'[p] = r
         /\ \A q \in Pruners \ {p} : prune'[q] = prune[q]
  BY DEF Goto

LEMMA RowsTyped ==
  ASSUME TypeOK
  PROVE  CommitRows \in Listings
  <1>1. CommitRows \in [commits -> Nat] /\ commits \in SUBSET CommitIds
    BY DEF CommitRows, TypeOK, commits
  <1>2. QED
    BY <1>1 DEF Listings

LEMMA IdleTyped == Idle \in PlanRecords
  <1>1. NoRows \in [{} -> Nat] /\ {} \in SUBSET CommitIds
    BY DEF NoRows
  <1>2. NoRows \in Listings
    BY <1>1 DEF Listings
  <1>3. QED
    BY <1>2 DEF Idle, PlanRecords

LEMMA PlannedTyped ==
  ASSUME NEW r \in PlanRecords
  PROVE  /\ Planned(r) \in PlanRecords
         /\ Planned(r).at = "planned" /\ Planned(r).keep = r.keep /\ Planned(r).edges = {}
         /\ Planned(r).delete = r.delete /\ Planned(r).rows = r.rows
  <1>1. /\ r.keep \in SUBSET CommitIds /\ r.rows \in Listings /\ r.delete \in SUBSET CommitIds
        /\ {} \in SUBSET CommitIds /\ {} \in SUBSET (CommitIds \X CommitIds)
    BY DEF PlanRecords
  <1>2. Planned(r) \in PlanRecords
    BY <1>1, IdleTyped DEF Planned, PlanRecords
  <1>3. QED
    BY <1>2 DEF Planned, Idle

\* One caller moves on, the metadata stay: the others' memory is theirs.
LEMMA OthersHold ==
  ASSUME PruneInv, UNCHANGED metaVars, NEW p \in Pruners, NEW r \in PlanRecords, Goto(p, r),
         PlanSound(p)'
  PROVE  PruneInv'
  <1>1. IInv' /\ Evolves
    BY UnchangedInv DEF PruneInv
  <1>2. /\ prune' \in [Pruners -> PlanRecords]
        /\ \A q \in Pruners \ {p} : prune'[q] = prune[q]
    BY GotoIs DEF PruneInv
  <1>3. ASSUME NEW q \in Pruners \ {p}
        PROVE  PlanSound(q)'
    <2>1. SameMemory(q)
      BY <1>2 DEF SameMemory, PruneInv
    <2>2. QED
      BY <1>1, <2>1, MemoryHolds DEF PruneInv
  <1>4. QED
    BY <1>1, <1>2, <1>3 DEF PruneInv

-----------------------------------------------------------------------------
(* The steps of a prune.                                                  *)

LEMMA GiveUpInv ==
  ASSUME PruneInv, NEW p \in Pruners, GiveUp(p)
  PROVE  PruneInv'
  <1> DEFINE r == IF StalePlans /\ Applying(p) THEN Planned(prune[p]) ELSE Idle
  <1>1. prune[p] \in PlanRecords /\ prune[p].keep \subseteq assigned /\ IInv
    BY DEF PruneInv, PlanSound, RemembersAssigned
  <1>2. /\ r \in PlanRecords /\ r.at \in {"idle", "planned"}
        /\ r.keep \subseteq assigned /\ r.edges = {}
    BY <1>1, IdleTyped, PlannedTyped DEF Idle
  <1>3. Goto(p, r) /\ UNCHANGED metaVars
    BY DEF GiveUp, snapshotVars
  <1> HIDE DEF r
  <1>4. PlanSound(p)'
    BY <1>1, <1>2, <1>3, GotoIs, FreshSound DEF PruneInv
  <1>5. QED
    BY <1>2, <1>3, <1>4, OthersHold

LEMMA IdleInv ==
  ASSUME PruneInv, NEW p \in Pruners, Goto(p, Idle), UNCHANGED metaVars
  PROVE  PruneInv'
  <1>1. /\ Idle \in PlanRecords /\ Idle.at = "idle"
        /\ Idle.keep \subseteq assigned /\ Idle.edges = {}
    BY IdleTyped DEF Idle
  <1>2. PlanSound(p)'
    BY <1>1, GotoIs, FreshSound DEF PruneInv
  <1>3. QED
    BY <1>1, <1>2, OthersHold

LEMMA SelectInv ==
  ASSUME PruneInv, NEW p \in Pruners, Select(p)
  PROVE  PruneInv'
  <1>1. PICK keep \in Suffixes(CommitRows) :
           Goto(p, [Idle EXCEPT !.at = "selected", !.keep = keep])
    BY DEF Select
  <1> DEFINE r == [Idle EXCEPT !.at = "selected", !.keep = keep]
  <1>2. keep \subseteq commits /\ commits \subseteq CommitIds /\ commits \subseteq assigned
    BY DEF Suffixes, CommitRows, PruneInv, IInv, HashedEdges, commits
  <1>3. r \in PlanRecords
    BY <1>2, IdleTyped DEF PlanRecords
  <1>4. r.at = "selected" /\ r.keep \subseteq assigned /\ r.edges = {}
    BY <1>2 DEF Idle
  <1>5. Goto(p, r) /\ UNCHANGED metaVars
    BY <1>1 DEF Select, snapshotVars
  <1> HIDE DEF r
  <1>6. PlanSound(p)'
    BY <1>3, <1>4, <1>5, GotoIs, FreshSound DEF PruneInv
  <1>7. QED
    BY <1>3, <1>5, <1>6, OthersHold

LEMMA ListCommitsInv ==
  ASSUME PruneInv, NEW p \in Pruners, ListCommits(p)
  PROVE  PruneInv'
  <1> DEFINE r == [prune[p] EXCEPT !.at = "listed", !.rows = CommitRows]
  <1>1. /\ prune[p] \in PlanRecords /\ TypeOK
        /\ prune[p].keep \subseteq assigned
        /\ \A e \in prune[p].edges : e[2] \in assigned
    BY DEF PruneInv, PlanSound, RemembersAssigned, IInv
  <1>2. r \in PlanRecords
    BY <1>1, RowsTyped DEF PlanRecords
  <1>3. r.at = "listed" /\ r.keep = prune[p].keep /\ r.edges = prune[p].edges
    BY <1>1 DEF PlanRecords
  <1>4. Goto(p, r) /\ UNCHANGED metaVars
    BY DEF ListCommits, snapshotVars
  <1> HIDE DEF r
  <1>5. PlanSound(p)'
    BY <1>1, <1>2, <1>3, <1>4, GotoIs, FreshSound DEF PruneInv
  <1>6. QED
    BY <1>2, <1>4, <1>5, OthersHold

LEMMA PlanInv ==
  ASSUME PruneInv, NEW p \in Pruners, Plan(p)
  PROVE  PruneInv'
  <1> DEFINE r == [prune[p] EXCEPT !.at = "planned",
                                   !.delete = DOMAIN prune[p].rows \ prune[p].keep]
  <1>1. CASE Goto(p, r) /\ UNCHANGED <<snapshotVars, doomed>>
    <2>1. /\ prune[p] \in PlanRecords
          /\ prune[p].keep \subseteq assigned
          /\ \A e \in prune[p].edges : e[2] \in assigned
      BY DEF PruneInv, PlanSound, RemembersAssigned
    <2>2. DOMAIN prune[p].rows \in SUBSET CommitIds
      BY <2>1 DEF PlanRecords, Listings
    <2>3. r \in PlanRecords
      BY <2>1, <2>2 DEF PlanRecords
    <2>4. r.at = "planned" /\ r.keep = prune[p].keep /\ r.edges = prune[p].edges
      BY <2>1 DEF PlanRecords
    <2> HIDE DEF r
    <2>5. PlanSound(p)'
      BY <1>1, <2>1, <2>3, <2>4, GotoIs, FreshSound DEF PruneInv, snapshotVars
    <2>6. QED
      BY <1>1, <2>3, <2>5, OthersHold DEF snapshotVars
  <1>2. CASE GiveUp(p)
    BY <1>2, GiveUpInv
  <1>3. QED
    BY <1>1, <1>2 DEF Plan

LEMMA StartApplyInv ==
  ASSUME PruneInv, NEW p \in Pruners, StartApply(p)
  PROVE  PruneInv'
  <1> DEFINE r == [prune[p] EXCEPT !.at = "starting", !.todo = prune[p].delete,
                                   !.listed = commits]
  <1>1. /\ prune[p] \in PlanRecords
        /\ prune[p].keep \subseteq assigned
        /\ \A e \in prune[p].edges : e[2] \in assigned
        /\ IInv /\ commits \in SUBSET CommitIds /\ commits \subseteq assigned
    BY DEF PruneInv, PlanSound, RemembersAssigned, IInv, HashedEdges, commits
  <1>2. r \in PlanRecords
    BY <1>1 DEF PlanRecords
  <1>3. /\ r.at = "starting" /\ r.keep = prune[p].keep /\ r.edges = prune[p].edges
        /\ r.listed = commits
    BY <1>1 DEF PlanRecords
  <1>4. Goto(p, r) /\ UNCHANGED metaVars
    BY DEF StartApply, snapshotVars
  <1>5. \A c \in commits : Ancestors(c) \subseteq commits
    BY <1>1, AncestorsStored
  <1>6. commits' = commits /\ assigned' = assigned /\ \A c : Ancestors(c)' = Ancestors(c)
    BY <1>4 DEF metaVars, commits, Ancestors, Closed
  <1> HIDE DEF r
  <1>7. prune'[p] = r
    BY <1>2, <1>4, GotoIs DEF PruneInv
  <1>8. PlanSound(p)'
    BY <1>1, <1>2, <1>3, <1>5, <1>6, <1>7
    DEF PlanSound, RemembersAssigned, ListingClosed, LinksTell, CheckHolds
  <1>9. QED
    BY <1>2, <1>4, <1>8, OthersHold

LEMMA LoadAncestryInv ==
  ASSUME PruneInv, NEW p \in Pruners, LoadAncestry(p)
  PROVE  PruneInv'
  <1> DEFINE r == [prune[p] EXCEPT !.at = "applying", !.listed = {},
                                   !.edges = LinksOf(prune[p].listed)]
  <1>1. /\ prune[p] \in PlanRecords /\ prune[p].at = "starting"
        /\ prune[p].keep \subseteq assigned
        /\ ListingClosed(p) /\ IInv
    BY DEF PruneInv, PlanSound, RemembersAssigned, LoadAncestry
  <1>2. /\ LinksOf(prune[p].listed) \in SUBSET (CommitIds \X CommitIds)
        /\ \A e \in LinksOf(prune[p].listed) : e[2] \in assigned
    BY <1>1 DEF LinksOf, IInv, TypeOK, ParentsOlder, HashedEdges
  <1>3. r \in PlanRecords
    BY <1>1, <1>2 DEF PlanRecords
  <1>4. /\ r.at = "applying" /\ r.keep = prune[p].keep /\ r.edges = LinksOf(prune[p].listed)
    BY <1>1 DEF PlanRecords
  <1>5. Goto(p, r) /\ UNCHANGED metaVars
    BY DEF LoadAncestry, snapshotVars
  <1>6. ASSUME NEW c \in prune[p].keep \cap commits
        PROVE  LinkedAncestors(LinksOf(prune[p].listed), c) = Ancestors(c) \ {c}
    <2>1. Ancestors(c) \subseteq prune[p].listed
      BY <1>1 DEF ListingClosed
    <2>2. QED
      BY <1>1, <2>1, LinksOfTell
  <1>7. commits' = commits /\ assigned' = assigned /\ \A c : Ancestors(c)' = Ancestors(c)
    BY <1>5 DEF metaVars, commits, Ancestors, Closed
  <1> HIDE DEF r
  <1>8. prune'[p] = r
    BY <1>3, <1>5, GotoIs DEF PruneInv
  <1>9. LinksTell(p)'
    BY <1>4, <1>6, <1>7, <1>8 DEF LinksTell
  <1>10. PlanSound(p)'
    BY <1>1, <1>2, <1>3, <1>4, <1>7, <1>8, <1>9
    DEF PlanSound, RemembersAssigned, ListingClosed, CheckHolds
  <1>11. QED
    BY <1>3, <1>5, <1>10, OthersHold

LEMMA CheckRetireInv ==
  ASSUME PruneInv, NEW p \in Pruners, CheckRetire(p)
  PROVE  PruneInv'
  <1>1. CASE GiveUp(p)
    BY <1>1, GiveUpInv
  <1>2. ASSUME NEW from, NEW into \in FoldTargets(prune[p].edges, prune[p].keep, from),
               CanRetire(from, into), UNCHANGED <<snapshotVars, doomed>>,
               Goto(p, [prune[p] EXCEPT !.at = "checked", !.from = from, !.into = into])
        PROVE  PruneInv'
    <2> DEFINE r == [prune[p] EXCEPT !.at = "checked", !.from = from, !.into = into]
    <2>1. prune[p] \in PlanRecords /\ PlanSound(p) /\ prune[p].at = "applying"
      BY DEF PruneInv, CheckRetire
    <2>2. {from, into} \subseteq commits /\ commits \subseteq CommitIds /\ commits \subseteq assigned
      BY <1>2 DEF CanRetire, PruneInv, IInv, HashedEdges, commits
    <2>3. r \in PlanRecords
      BY <2>1, <2>2 DEF PlanRecords
    <2>4. /\ r.at = "checked" /\ r.keep = prune[p].keep /\ r.edges = prune[p].edges
          /\ r.from = from /\ r.into = into
      BY <2>1 DEF PlanRecords
    <2>5. UNCHANGED metaVars
      BY <1>2 DEF snapshotVars
    <2>6. /\ commits' = commits /\ assigned' = assigned /\ seq' = seq
          /\ \A c : Ancestors(c)' = Ancestors(c)
      BY <2>5 DEF metaVars, commits, Ancestors, Closed
    <2>7. prune'[p] = r
      BY <1>2, <2>3, GotoIs DEF PruneInv
    <2> HIDE DEF r
    <2>8. CheckHolds(p)'
      BY <1>2, <2>2, <2>4, <2>6, <2>7 DEF CheckHolds, CanRetire
    <2>9. PlanSound(p)'
      BY <2>1, <2>3, <2>4, <2>6, <2>7, <2>8 DEF PlanSound, RemembersAssigned, ListingClosed, LinksTell
    <2>10. QED
      BY <1>2, <2>3, <2>5, <2>9, OthersHold DEF r
  <1>3. QED
    BY <1>1, <1>2 DEF CheckRetire

\* The transaction, when it is not refused, is a fold that runs.
LEMMA FoldStepRuns ==
  ASSUME PruneInv, NEW p \in Pruners, FoldStep(p), ~ GiveUp(p)
  PROVE  /\ FoldRuns(prune[p].from, prune[p].into)
         /\ prune[p].from \in commits /\ prune[p].into \in commits =>
              RetireCommit(prune[p].from, prune[p].into)
  <1> DEFINE from == prune[p].from
             into == prune[p].into
  <1>1. /\ CheckHolds(p) /\ RemembersAssigned(p) /\ prune[p].at = "checked"
        /\ assigned \subseteq CommitIds
    BY DEF PruneInv, PlanSound, FoldStep, IInv, TypeOK
  <1>2. from \in CommitIds /\ into \in CommitIds
    BY <1>1 DEF CheckHolds, RemembersAssigned, FoldTargets, Continuing
  <1>3. /\ Fold(from, into)
        /\ into \in commits \/ (RowsOf(from) = {} /\ \A n \in RefNames : target[n] # from)
    <2> DEFINE dangling == /\ into \notin commits
                           /\ \/ RowsOf(from) # {}
                              \/ \E n \in RefNames : target[n] = from
    <2>1. ~ dangling /\ Fold(from, into)
      BY DEF FoldStep
    <2>2. QED
      BY <2>1
  <1>4. from \in commits /\ into \in commits => CanRetire(from, into)
    BY <1>1 DEF CheckHolds
  <1>5. from \in commits => CanMove(from, into)
    BY <1>3, <1>4 DEF CanMove, CanRetire
  <1>6. QED
    BY <1>2, <1>3, <1>4, <1>5 DEF FoldRuns, RetireCommit

LEMMA FoldStepInv ==
  ASSUME PruneInv, NEW p \in Pruners, FoldStep(p)
  PROVE  PruneInv' /\ Evolves
  <1>1. CASE GiveUp(p)
    <2>1. UNCHANGED metaVars
      BY <1>1 DEF GiveUp, snapshotVars
    <2>2. QED
      BY <1>1, <2>1, GiveUpInv, UnchangedInv DEF PruneInv
  <1>2. CASE ~ GiveUp(p)
    <2> DEFINE r == [prune[p] EXCEPT !.at = "applying",
                                     !.todo = prune[p].todo \ {prune[p].from},
                                     !.from = Absent, !.into = Absent]
    <2>1. IInv' /\ Evolves
      BY <1>2, FoldStepRuns, FoldRunsInv DEF PruneInv
    <2>2. prune[p] \in PlanRecords /\ prune[p].at = "checked"
      BY DEF PruneInv, FoldStep
    <2>3. Goto(p, r)
      BY <1>2 DEF FoldStep
    <2>4. r \in PlanRecords
      BY <2>2 DEF PlanRecords
    <2>5. /\ r.at = "applying" /\ r.keep = prune[p].keep /\ r.edges = prune[p].edges
          /\ r.listed = prune[p].listed
      BY <2>2 DEF PlanRecords
    <2> HIDE DEF r
    <2>6. /\ prune' \in [Pruners -> PlanRecords]
          /\ prune'[p] = r
          /\ \A q \in Pruners \ {p} : prune'[q] = prune[q]
      BY <2>3, <2>4, GotoIs DEF PruneInv
    <2>7. ASSUME NEW q \in Pruners
          PROVE  PlanSound(q)'
      <3>1. SameMemory(q)
        BY <2>2, <2>4, <2>5, <2>6 DEF SameMemory, PruneInv
      <3>2. QED
        BY <2>1, <3>1, MemoryHolds DEF PruneInv
    <2>8. QED
      BY <2>1, <2>6, <2>7 DEF PruneInv
  <1>3. QED
    BY <1>1, <1>2

\* Somebody else changes the metadata, or nobody does anything.
LEMMA MetaMovesInv ==
  ASSUME PruneInv, IInv', Evolves, UNCHANGED prune
  PROVE  PruneInv'
  <1>1. ASSUME NEW p \in Pruners
        PROVE  PlanSound(p)'
    <2>1. SameMemory(p)
      BY DEF SameMemory, PruneInv
    <2>2. QED
      BY <2>1, MemoryHolds DEF PruneInv
  <1>2. QED
    BY <1>1 DEF PruneInv

LEMMA PruneProgressInv ==
  ASSUME PruneInv, NEW p \in Pruners, PruneCall(p) \/ PruneStep(p)
  PROVE  PruneInv' /\ Evolves
  <1>1. CASE Select(p) \/ StartApply(p) \/ ListCommits(p) \/ Plan(p) \/ LoadAncestry(p)
               \/ CheckRetire(p) \/ Finish(p) \/ Abandon(p)
    <2>1. UNCHANGED metaVars
      BY <1>1 DEF Select, StartApply, ListCommits, Plan, LoadAncestry, CheckRetire, Finish,
                  Abandon, GiveUp, snapshotVars
    <2>2. PruneInv'
      BY <1>1, <2>1, SelectInv, StartApplyInv, ListCommitsInv, PlanInv, LoadAncestryInv,
         CheckRetireInv, IdleInv DEF Finish, Abandon
    <2>3. QED
      BY <2>1, <2>2, UnchangedInv DEF PruneInv
  <1>2. CASE FoldStep(p)
    BY <1>2, FoldStepInv
  <1>3. QED
    BY <1>1, <1>2 DEF PruneCall, PruneStep

LEMMA PruneInvInit == PruneInit => PruneInv
  <1> SUFFICES ASSUME PruneInit PROVE PruneInv
    OBVIOUS
  <1>1. IInv
    BY InvInit DEF PruneInit, SnapshotsInit
  <1>2. Idle.at = "idle" /\ Idle.keep = {} /\ Idle.edges = {}
    BY DEF Idle
  <1>3. prune \in [Pruners -> PlanRecords] /\ \A p \in Pruners : prune[p] = Idle
    BY IdleTyped DEF PruneInit
  <1>4. QED
    BY <1>1, <1>2, <1>3
    DEF PruneInv, PlanSound, RemembersAssigned, ListingClosed, LinksTell, CheckHolds

LEMMA PruneInvStep == PruneInv /\ [PruneNext]_pruneVars => PruneInv' /\ Evolves
  <1> SUFFICES ASSUME PruneInv, [PruneNext]_pruneVars
               PROVE  PruneInv' /\ Evolves
    OBVIOUS
  <1>1. ASSUME NEW p \in Pruners, PruneCall(p) \/ PruneStep(p)
        PROVE  PruneInv' /\ Evolves
    BY <1>1, PruneProgressInv
  <1>2. CASE RecordStep
    <2>1. IInv' /\ Evolves /\ UNCHANGED prune
      <3>1. PICK c \in CommitIds, ps \in ParentSets, es \in EntrySets :
                   c \notin assigned /\ RecordNew(c, ps, es)
        BY <1>2 DEF RecordStep, Record
      <3>2. QED
        BY <1>2, <3>1, RecordNewEvolves DEF PruneInv, RecordStep
    <2>2. QED
      BY <2>1, MetaMovesInv
  <1>3. CASE RefStep
    <2>1. IInv' /\ Evolves /\ UNCHANGED prune
      BY <1>3, RefCallInv DEF RefStep, PruneInv
    <2>2. QED
      BY <2>1, MetaMovesInv
  <1>4. CASE UNCHANGED pruneVars
    <2>1. IInv' /\ Evolves /\ UNCHANGED prune
      BY <1>4, UnchangedInv DEF pruneVars, snapshotVars, PruneInv
    <2>2. QED
      BY <2>1, MetaMovesInv
  <1>5. QED
    BY <1>1, <1>2, <1>3, <1>4 DEF PruneNext

\* Whatever other callers do between its queries and its transactions, a
\* prune leaves the store whole, and what it remembers of the history is
\* still true of the commits that remain (prune_plan, prune_apply,
\* retire_commit).
THEOREM PruneInvCorrect == PruneSpec => []PruneInv
  <1>1. PruneInv /\ [PruneNext]_pruneVars => PruneInv'
    BY PruneInvStep
  <1>2. QED
    BY PruneInvInit, <1>1, PTL DEF PruneSpec

-----------------------------------------------------------------------------
(* What a fold leaves alone.                                              *)

LinearInv == IInv /\ Linear

LEMMA LinearOrdered == LinearInv => OrderedInv
  BY InvPort DEF LinearInv, OrderedInv, IInv

LEMMA FoldRunsLinear ==
  ASSUME LinearInv, NEW from, NEW into, FoldRuns(from, into)
  PROVE  LinearInv'
  BY FoldRunsInv, FoldSingle DEF LinearInv, FoldRuns

LEMMA SamePresentSameState ==
  ASSUME NEW c, \A k \in Coords : Present(c, k)' = Present(c, k)
  PROVE  StateOf(c)' = StateOf(c)
  BY DEF StateOf

LEMMA UnchangedState ==
  ASSUME UNCHANGED <<commitParents, chunkHistory>>, NEW c
  PROVE  StateOf(c)' = StateOf(c)
  <1>1. \A k \in Coords : Visible(c, k)' = Visible(c, k)
    BY DEF Visible, Ancestors, Closed
  <1>2. \A k \in Coords : Present(c, k)' = Present(c, k)
    BY <1>1, SameRowsSamePresent
  <1>3. QED
    BY <1>2, SamePresentSameState

\* A commit that continues the fold target, or does not continue the folded
\* commit, presents what it did.
LEMMA FoldRunsStable ==
  ASSUME LinearInv, NEW from, NEW into, FoldRuns(from, into),
         from \in commits /\ into \in commits => RetireCommit(from, into),
         NEW c \in commits \cap commits',
         from \in Ancestors(c) /\ into \in commits => into \in Ancestors(c)
  PROVE  StateOf(c)' = StateOf(c)
  <1> USE DEF LinearInv
  <1>1. from \in CommitIds /\ into \in CommitIds /\ Fold(from, into) /\ c \in CommitIds
    BY DEF FoldRuns, commits
  <1>2. CASE from \notin commits
    <2>1. UNCHANGED metaVars
      BY <1>1, <1>2, FoldAbsent
    <2>2. QED
      BY <2>1, UnchangedState DEF metaVars
  <1>3. CASE from \in commits
    <2>1. c # from /\ CanMove(from, into)
      BY <1>1, <1>3, FoldCommits DEF FoldRuns, IInv
    <2>2. ASSUME NEW k \in Coords
          PROVE  Present(c, k)' = Present(c, k)
      <3>1. CASE into \in commits
        BY <1>1, <1>3, <2>1, <3>1, LinearOrdered, FoldStable
      <3>2. CASE into \notin commits
        <4>1. RowsOf(from) = {}
          BY <2>1, <3>2 DEF CanMove
        <4>2. chunkHistory' = chunkHistory
          BY <1>1, <4>1 DEF Fold, Restamped
        <4>3. Ancestors(c)' = Ancestors(c) \ {from}
          BY <1>1, <2>1, FoldAncestors DEF IInv
        <4>4. Visible(c, k)' = Visible(c, k)
          BY <4>1, <4>2, <4>3 DEF Visible, RowsOf
        <4>5. QED
          BY <4>4, SameRowsSamePresent
      <3>3. QED
        BY <3>1, <3>2
    <2>3. QED
      BY <2>2, SamePresentSameState
  <1>4. QED
    BY <1>2, <1>3

\* What a fold target is for, told by the links: every retained commit
\* that continues the folded one continues the target.
LEMMA TargetContinued ==
  ASSUME PruneInv, NEW p \in Pruners, prune[p].at = "checked",
         prune[p].from \in commits, prune[p].into \in commits,
         NEW c \in (prune[p].keep \cap commits) \ {prune[p].from},
         prune[p].from \in Ancestors(c)
  PROVE  prune[p].into \in Ancestors(c)
  <1> DEFINE from == prune[p].from
             into == prune[p].into
             edges == prune[p].edges
  <1>1. LinksTell(p) /\ CheckHolds(p) /\ c \in CommitIds
    BY DEF PruneInv, PlanSound, commits
  <1>2. from \in LinkedAncestors(edges, c)
    BY <1>1 DEF LinksTell
  <1>3. c = into \/ into \in LinkedAncestors(edges, c)
    BY <1>1, <1>2 DEF CheckHolds, FoldTargets, Continuing
  <1>4. QED
    BY <1>1, <1>3, AncestorsReflexive DEF LinksTell

\* A fold step changes no commit that its own plan retains.
LEMMA FoldStepStable ==
  ASSUME PruneInv, Linear, NEW p \in Pruners, FoldStep(p),
         NEW c \in prune[p].keep \cap commits \cap commits'
  PROVE  StateOf(c)' = StateOf(c)
  <1>1. CASE GiveUp(p)
    BY <1>1, UnchangedState DEF GiveUp, snapshotVars, metaVars
  <1>2. CASE ~ GiveUp(p)
    <2> DEFINE from == prune[p].from
               into == prune[p].into
    <2>1. /\ FoldRuns(from, into) /\ prune[p].at = "checked"
          /\ from \in commits /\ into \in commits => RetireCommit(from, into)
      BY <1>2, FoldStepRuns DEF FoldStep
    <2>2. from \in Ancestors(c) /\ into \in commits => into \in Ancestors(c)
      <3>1. SUFFICES ASSUME from \in Ancestors(c), into \in commits
                     PROVE  into \in Ancestors(c)
        OBVIOUS
      <3>2. from \in commits
        BY <3>1, AncestorsStored DEF PruneInv
      <3>3. c # from
        BY <2>1, <3>2, FoldCommits DEF FoldRuns, PruneInv, IInv
      <3>4. QED
        BY <2>1, <3>1, <3>2, <3>3, TargetContinued
    <2> HIDE DEF from, into
    <2>3. QED
      BY <2>1, <2>2, FoldRunsStable DEF LinearInv, PruneInv
  <1>3. QED
    BY <1>1, <1>2

LEMMA LinearStep ==
  ASSUME ~ Merges, PruneInv, Linear, [PruneNext]_pruneVars
  PROVE  Linear'
  <1> USE DEF LinearInv, PruneInv
  <1>1. CASE RecordStep
    <2>1. PICK c \in CommitIds, ps \in ParentSets, es \in EntrySets : RecordNew(c, ps, es)
      BY <1>1 DEF RecordStep, Record
    <2>2. AtMostOne(ps) /\ ps \in SUBSET CommitIds
      BY DEF ParentSets, commits
    <2>3. QED
      BY <2>1, <2>2, InvPort, InsertSingle DEF RecordNew
  <1>2. ASSUME NEW p \in Pruners, FoldStep(p), ~ GiveUp(p)
        PROVE  Linear'
    BY <1>2, FoldStepRuns, FoldRunsLinear
  <1>3. CASE UNCHANGED commitParents
    BY <1>3 DEF Linear
  <1>4. CASE RefStep
    BY <1>3, <1>4, RefCallInv DEF RefStep
  <1>5. CASE \E p \in Pruners : GiveUp(p) \/ PruneCall(p) \/ (PruneStep(p) /\ ~ FoldStep(p))
    BY <1>3, <1>5
    DEF PruneCall, PruneStep, Select, StartApply, ListCommits, Plan, LoadAncestry, CheckRetire,
        Finish, Abandon, GiveUp, snapshotVars, metaVars
  <1>6. CASE UNCHANGED pruneVars
    BY <1>3, <1>6 DEF pruneVars, snapshotVars, metaVars
  <1>7. QED
    BY <1>1, <1>2, <1>4, <1>5, <1>6 DEF PruneNext, PruneStep

\* A fold never changes what a commit that its own plan retains presents,
\* whatever has been recorded, moved or retired since the plan was made and
\* however many prunes run at once (prune_apply, retire_commit).
THEOREM RetainedStableCorrect ==
  ASSUME ~ Merges
  PROVE  PruneSpec => RetainedStable
  <1> DEFINE Inv == PruneInv /\ Linear
             A == \A p \in Pruners :
                    FoldStep(p) => \A c \in prune[p].keep \cap commits \cap commits' :
                                     StateOf(c)' = StateOf(c)
  <1>1. PruneInit => Inv
    BY PruneInvInit, LinearInit DEF PruneInit, SnapshotsInit
  <1>2. Inv /\ [PruneNext]_pruneVars => Inv'
    BY PruneInvStep, LinearStep
  <1>3. Inv /\ [PruneNext]_pruneVars => [A]_pruneVars
    BY FoldStepStable
  <1>4. QED
    BY <1>1, <1>2, <1>3, PTL DEF PruneSpec, RetainedStable

-----------------------------------------------------------------------------
(* A store to itself: no other call while a prune runs, and no stale plan. *)
(* What a prune read is then still so when it writes.                      *)

Solitary ==
  \A p, q \in Pruners : prune[p].at # "idle" /\ prune[q].at # "idle" => p = q

\* The plan is of the commits there are; from the first fold on, of what is
\* left of them.
PlanCurrent(p) ==
  /\ prune[p].at = "listed" => DOMAIN prune[p].rows = commits
  /\ prune[p].at \in {"planned", "starting"} =>
       /\ prune[p].keep \subseteq commits
       /\ prune[p].delete = commits \ prune[p].keep
       /\ \A c \in prune[p].delete : FoldTargets(commitParents, prune[p].keep, c) # {}
  /\ prune[p].at = "starting" =>
       prune[p].todo = prune[p].delete /\ prune[p].listed = commits
  /\ prune[p].at \in {"applying", "checked"} =>
       /\ commits = prune[p].keep \cup prune[p].todo
       /\ prune[p].keep \cap prune[p].todo = {}
       /\ prune[p].todo \subseteq prune[p].delete
       /\ \A c \in prune[p].delete : FoldTargets(prune[p].edges, prune[p].keep, c) # {}
  /\ prune[p].at = "checked" => prune[p].from \in prune[p].todo
  /\ prune[p].at \in {"starting", "applying", "checked"} => prune[p].delete \subseteq doomed

LoneInv ==
  /\ PruneInv
  /\ Linear
  /\ Solitary
  /\ \A p \in Pruners : PlanCurrent(p)
  /\ SnapshotsIntact
  /\ presented \in [CommitIds -> [Coords -> SUBSET Blobs]]

LEMMA StoredLinks ==
  ASSUME IInv
  PROVE  LinksOf(commits) = commitParents
  BY DEF IInv, ParentsOlder, LinksOf

LEMMA SameMeta ==
  ASSUME UNCHANGED metaVars
  PROVE  commits' = commits /\ commitParents' = commitParents
  BY DEF metaVars, commits

LEMMA ListCommitsCurrent ==
  ASSUME LoneInv, NEW p \in Pruners, ListCommits(p)
  PROVE  PlanCurrent(p)'
  <1> DEFINE r == [prune[p] EXCEPT !.at = "listed", !.rows = CommitRows]
  <1>1. prune \in [Pruners -> PlanRecords] /\ prune[p] \in PlanRecords
    BY DEF LoneInv, PruneInv
  <1>2. prune'[p] = r /\ UNCHANGED metaVars
    BY <1>1 DEF ListCommits, Goto, snapshotVars
  <1>3. r.at = "listed" /\ r.rows = CommitRows
    BY <1>1 DEF PlanRecords
  <1> HIDE DEF r
  <1>4. QED
    BY <1>2, <1>3, SameMeta DEF PlanCurrent, CommitRows

LEMMA PlanPlansCurrent ==
  ASSUME LoneInv, NEW p \in Pruners, Plan(p), prune'[p].at # "idle", ~ StalePlans
  PROVE  PlanCurrent(p)'
  <1> DEFINE gone == DOMAIN prune[p].rows \ prune[p].keep
             r == [prune[p] EXCEPT !.at = "planned", !.delete = gone]
  <1>1. prune \in [Pruners -> PlanRecords] /\ prune[p] \in PlanRecords /\ PlanCurrent(p) /\ IInv
    BY DEF LoneInv, PruneInv
  <1>2. ~ GiveUp(p)
    BY <1>1 DEF GiveUp, Goto, Idle
  <1>3. /\ prune'[p] = r /\ UNCHANGED metaVars
        /\ prune[p].at = "listed" /\ prune[p].keep \subseteq DOMAIN prune[p].rows
        /\ \A c \in gone : FoldTargets(LinksOf(DOMAIN prune[p].rows), prune[p].keep, c) # {}
    BY <1>1, <1>2 DEF Plan, Goto, snapshotVars
  <1>4. r.at = "planned" /\ r.keep = prune[p].keep /\ r.delete = gone
    BY <1>1 DEF PlanRecords
  <1>5. DOMAIN prune[p].rows = commits
    BY <1>1, <1>3 DEF PlanCurrent
  <1> HIDE DEF r
  <1>6. QED
    BY <1>1, <1>3, <1>4, <1>5, SameMeta, StoredLinks DEF PlanCurrent

LEMMA StartApplyCurrent ==
  ASSUME LoneInv, NEW p \in Pruners, StartApply(p)
  PROVE  PlanCurrent(p)'
  <1> DEFINE r == [prune[p] EXCEPT !.at = "starting", !.todo = prune[p].delete,
                                   !.listed = commits]
  <1>1. prune \in [Pruners -> PlanRecords] /\ prune[p] \in PlanRecords /\ PlanCurrent(p)
    BY DEF LoneInv, PruneInv
  <1>2. /\ prune'[p] = r /\ UNCHANGED metaVars /\ prune[p].at = "planned"
        /\ doomed' = doomed \cup prune[p].delete
    BY <1>1 DEF StartApply, Goto, snapshotVars
  <1>3. /\ r.at = "starting" /\ r.keep = prune[p].keep /\ r.delete = prune[p].delete
        /\ r.todo = prune[p].delete /\ r.listed = commits
    BY <1>1 DEF PlanRecords
  <1> HIDE DEF r
  <1>4. QED
    BY <1>1, <1>2, <1>3, SameMeta DEF PlanCurrent

LEMMA LoadAncestryCurrent ==
  ASSUME LoneInv, NEW p \in Pruners, LoadAncestry(p)
  PROVE  PlanCurrent(p)'
  <1> DEFINE r == [prune[p] EXCEPT !.at = "applying", !.listed = {},
                                   !.edges = LinksOf(prune[p].listed)]
  <1>1. prune \in [Pruners -> PlanRecords] /\ prune[p] \in PlanRecords /\ PlanCurrent(p) /\ IInv
    BY DEF LoneInv, PruneInv
  <1>2. prune'[p] = r /\ UNCHANGED <<metaVars, doomed>> /\ prune[p].at = "starting"
    BY <1>1 DEF LoadAncestry, Goto, snapshotVars
  <1>3. /\ r.at = "applying" /\ r.keep = prune[p].keep /\ r.delete = prune[p].delete
        /\ r.todo = prune[p].todo /\ r.edges = LinksOf(prune[p].listed)
    BY <1>1 DEF PlanRecords
  <1>4. /\ prune[p].listed = commits /\ prune[p].todo = prune[p].delete
        /\ prune[p].delete = commits \ prune[p].keep /\ prune[p].keep \subseteq commits
        /\ \A c \in prune[p].delete : FoldTargets(commitParents, prune[p].keep, c) # {}
        /\ prune[p].delete \subseteq doomed
    BY <1>1, <1>2 DEF PlanCurrent
  <1> HIDE DEF r
  <1>5. QED
    BY <1>1, <1>2, <1>3, <1>4, SameMeta, StoredLinks DEF PlanCurrent

\* The checks of a retirement pass: the plan's targets are there, newer,
\* and continue what is deleted.
LEMMA CheckPasses ==
  ASSUME LoneInv, NEW p \in Pruners, prune[p].at = "applying", NEW from \in prune[p].todo
  PROVE  /\ FoldTargets(prune[p].edges, prune[p].keep, from) # {}
         /\ \A into \in FoldTargets(prune[p].edges, prune[p].keep, from) : CanRetire(from, into)
  <1>1. PlanCurrent(p) /\ LinksTell(p) /\ IInv
    BY DEF LoneInv, PruneInv, PlanSound
  <1>2. from \in commits /\ from \in prune[p].delete /\ prune[p].keep \subseteq commits
    BY <1>1 DEF PlanCurrent
  <1>3. ASSUME NEW into \in FoldTargets(prune[p].edges, prune[p].keep, from)
        PROVE  CanRetire(from, into)
    <2>1. into \in prune[p].keep /\ from \in LinkedAncestors(prune[p].edges, into)
      BY DEF FoldTargets, Continuing
    <2>2. from \in Ancestors(into) /\ from # into /\ into \in commits
      BY <1>1, <1>2, <2>1 DEF LinksTell
    <2>3. seq[from] < seq[into]
      BY <1>1, <2>2, AncestorsOlder DEF IInv, commits
    <2>4. QED
      BY <1>2, <2>2, <2>3 DEF CanRetire
  <1>4. QED
    BY <1>1, <1>2, <1>3 DEF PlanCurrent

LEMMA CheckGoesOn ==
  ASSUME LoneInv, NEW p \in Pruners, CheckRetire(p)
  PROVE  \E from \in prune[p].todo, into \in CommitIds :
           /\ Goto(p, [prune[p] EXCEPT !.at = "checked", !.from = from, !.into = into])
           /\ UNCHANGED <<snapshotVars, doomed>>
  <1>1. Oldest(p) \subseteq prune[p].todo /\ prune[p].at = "applying"
    BY DEF Oldest, CheckRetire
  <1>2. ASSUME NEW from \in Oldest(p)
        PROVE  /\ FoldTargets(prune[p].edges, prune[p].keep, from) # {}
               /\ \A into \in FoldTargets(prune[p].edges, prune[p].keep, from) :
                    CanRetire(from, into) /\ into \in CommitIds
    BY <1>1, CheckPasses DEF CanRetire, commits
  <1>3. QED
    BY <1>1, <1>2 DEF CheckRetire

LEMMA CheckRetireCurrent ==
  ASSUME LoneInv, NEW p \in Pruners, CheckRetire(p)
  PROVE  PlanCurrent(p)' /\ prune'[p].at = "checked" /\ UNCHANGED <<snapshotVars, doomed>>
  <1>1. prune \in [Pruners -> PlanRecords] /\ prune[p] \in PlanRecords /\ PlanCurrent(p)
    BY DEF LoneInv, PruneInv
  <1>2. PICK from \in prune[p].todo, into \in CommitIds :
          /\ Goto(p, [prune[p] EXCEPT !.at = "checked", !.from = from, !.into = into])
          /\ UNCHANGED <<snapshotVars, doomed>>
    BY CheckGoesOn
  <1> DEFINE r == [prune[p] EXCEPT !.at = "checked", !.from = from, !.into = into]
  <1>3. prune'[p] = r /\ UNCHANGED metaVars /\ prune[p].at = "applying" /\ doomed' = doomed
    BY <1>1, <1>2 DEF CheckRetire, Goto, snapshotVars
  <1>4. /\ r.at = "checked" /\ r.keep = prune[p].keep /\ r.delete = prune[p].delete
        /\ r.todo = prune[p].todo /\ r.edges = prune[p].edges /\ r.from = from
    BY <1>1 DEF PlanRecords
  <1> HIDE DEF r
  <1>5. PlanCurrent(p)'
    BY <1>1, <1>3, <1>4, SameMeta DEF PlanCurrent
  <1>6. QED
    BY <1>2, <1>3, <1>4, <1>5

\* The transaction is not refused either.
LEMMA FoldStepCurrent ==
  ASSUME LoneInv, NEW p \in Pruners, FoldStep(p)
  PROVE  /\ PlanCurrent(p)' /\ prune'[p].at = "applying"
         /\ ~ GiveUp(p)
         /\ UNCHANGED <<presented, doomed>>
  <1>1. /\ prune \in [Pruners -> PlanRecords] /\ prune[p] \in PlanRecords
        /\ PlanCurrent(p) /\ CheckHolds(p) /\ TypeOK
        /\ prune[p].at = "checked"
    BY DEF LoneInv, PruneInv, PlanSound, IInv, FoldStep
  <1> DEFINE from == prune[p].from
             into == prune[p].into
             r == [prune[p] EXCEPT !.at = "applying", !.todo = prune[p].todo \ {from},
                                   !.from = Absent, !.into = Absent]
  <1>2. from \in commits /\ into \in commits /\ from \notin prune[p].keep
    BY <1>1 DEF PlanCurrent, CheckHolds, FoldTargets, Continuing
  <1>3. prune'[p] = r /\ Fold(from, into) /\ UNCHANGED <<presented, doomed>>
    BY <1>1, <1>2 DEF FoldStep, Goto
  <1>4. commits' = commits \ {from}
    BY <1>1, <1>2, <1>3, FoldCommits
  <1>5. /\ r.at = "applying" /\ r.keep = prune[p].keep /\ r.delete = prune[p].delete
        /\ r.todo = prune[p].todo \ {from} /\ r.edges = prune[p].edges
    BY <1>1 DEF PlanRecords
  <1>6. ~ GiveUp(p)
    <2>1. commits' # commits
      BY <1>2, <1>4
    <2>2. QED
      BY <2>1, SameMeta DEF GiveUp, snapshotVars
  <1> HIDE DEF r
  <1>7. PlanCurrent(p)'
    BY <1>1, <1>2, <1>3, <1>4, <1>5 DEF PlanCurrent
  <1>8. QED
    BY <1>3, <1>5, <1>6, <1>7

\* A step of one caller, the only one that is not idle.
LEMMA LoneMoves ==
  ASSUME PruneInv, Solitary, \A p \in Pruners : PlanCurrent(p), NEW p \in Pruners,
         \A q \in Pruners \ {p} : prune[q].at = "idle",
         \A q \in Pruners \ {p} : prune'[q] = prune[q],
         PlanCurrent(p)'
  PROVE  Solitary' /\ \A q \in Pruners : PlanCurrent(q)'
  BY DEF Solitary, PlanCurrent

\* Nobody is in a call.
LEMMA NobodyMoves ==
  ASSUME \A q \in Pruners : prune[q].at = "idle", UNCHANGED prune
  PROVE  Solitary' /\ \A q \in Pruners : PlanCurrent(q)'
  BY DEF Solitary, PlanCurrent

LEMMA FreeIsIdle ==
  ASSUME Alone, ~ StalePlans, NEW others \in SUBSET Pruners, Free(others),
         prune \in [Pruners -> PlanRecords]
  PROVE  \A q \in others : prune[q].at = "idle"
  BY DEF Free, InCall, Applying, PlanRecords

LEMMA IdleCurrent ==
  ASSUME NEW p \in Pruners, prune'[p].at \in {"idle", "selected"}
  PROVE  PlanCurrent(p)'
  BY DEF PlanCurrent

\* The steps of a prune keep its plan current.
LEMMA StepCurrent ==
  ASSUME LoneInv, ~ StalePlans, NEW p \in Pruners, PruneCall(p) \/ PruneStep(p)
  PROVE  PlanCurrent(p)'
  <1>1. prune \in [Pruners -> PlanRecords]
    BY DEF LoneInv, PruneInv
  <1>2. CASE Goto(p, Idle)
    BY <1>1, <1>2, IdleCurrent DEF Goto, Idle
  <1>3. CASE Select(p)
    <2>1. PICK keep : Goto(p, [Idle EXCEPT !.at = "selected", !.keep = keep])
      BY <1>3 DEF Select
    <2>2. prune'[p].at = "selected"
      BY <1>1, <2>1 DEF Goto, Idle
    <2>3. QED
      BY <2>2, IdleCurrent
  <1>4. CASE Plan(p) /\ ~ GiveUp(p)
    <2>1. prune'[p].at # "idle"
      BY <1>1, <1>4 DEF Plan, Goto, PlanRecords
    <2>2. QED
      BY <1>4, <2>1, PlanPlansCurrent
  <1>5. GiveUp(p) => Goto(p, Idle)
    BY DEF GiveUp
  <1>6. QED
    BY <1>2, <1>3, <1>4, <1>5, ListCommitsCurrent, StartApplyCurrent, LoadAncestryCurrent,
       CheckRetireCurrent, FoldStepCurrent
    DEF PruneCall, PruneStep, Finish, Abandon

\* Snapshots under the steps of a prune.
LEMMA StepIntact ==
  ASSUME LoneInv, NEW p \in Pruners, PruneCall(p) \/ PruneStep(p)
  PROVE  SnapshotsIntact' /\ UNCHANGED presented
  <1>1. CASE FoldStep(p)
    <2>1. UNCHANGED <<presented, doomed>> /\ FoldRuns(prune[p].from, prune[p].into)
      BY <1>1, FoldStepCurrent, FoldStepRuns DEF LoneInv
    <2>2. ASSUME NEW c \in commits' \ doomed
          PROVE  StateOf(c)' = StateOf(c) /\ c \in commits
      <3>1. c \in commits /\ prune[p].at = "checked"
        BY <1>1, <2>1, FoldRunsInv, FoldAbsent, FoldCommits, SameMeta
        DEF LoneInv, PruneInv, IInv, FoldRuns, FoldStep
      <3>2. c \in prune[p].keep
        BY <2>2, <3>1 DEF LoneInv, PlanCurrent
      <3>3. QED
        BY <1>1, <3>1, <3>2, FoldStepStable DEF LoneInv
    <2>3. QED
      BY <2>1, <2>2 DEF LoneInv, SnapshotsIntact, Intact
  <1>2. CASE ~ FoldStep(p)
    <2>1. UNCHANGED snapshotVars /\ doomed \subseteq doomed'
      BY <1>2 DEF PruneCall, PruneStep, Select, StartApply, ListCommits, Plan, LoadAncestry,
                  CheckRetire, Finish, Abandon, GiveUp
    <2>2. commits' = commits /\ \A c : StateOf(c)' = StateOf(c)
      BY <2>1, SameMeta, UnchangedState DEF snapshotVars, metaVars
    <2>3. QED
      BY <2>1, <2>2 DEF LoneInv, SnapshotsIntact, Intact, snapshotVars
  <1>3. QED
    BY <1>1, <1>2

LEMMA StateTyped ==
  ASSUME TypeOK, NEW c
  PROVE  StateOf(c) \in [Coords -> SUBSET Blobs]
  <1>1. \A k : Effective(c, k) \subseteq Row
    BY DEF Effective, Visible, TypeOK
  <1>2. \A k : Present(c, k) \subseteq Blobs
    BY <1>1 DEF Present, Row
  <1>3. QED
    BY <1>2 DEF StateOf

\* Recording keeps what the stored commits present, and remembers what the
\* new one does.
LEMMA RecordIntact ==
  ASSUME IInv, NEW c \in CommitIds, NEW ps \in ParentSets, NEW es \in EntrySets,
         Record(c, ps, es), presented \in [CommitIds -> [Coords -> SUBSET Blobs]]
  PROVE  /\ \A d \in commits : StateOf(d)' = StateOf(d) /\ presented'[d] = presented[d]
         /\ Intact(c)'
         /\ presented' \in [CommitIds -> [Coords -> SUBSET Blobs]]
  <1>1. RecordNew(c, ps, es) /\ presented' = [presented EXCEPT ![c] = StateOf(c)']
    BY DEF Record
  <1>2. ps \in SUBSET CommitIds /\ commits \subseteq CommitIds
    BY DEF ParentSets, commits
  <1>3. \A r \in RowsFor(c, nextSeq, es) : r.commit = c
    BY DEF RowsFor, RowAt
  <1>4. ASSUME NEW d \in commits
        PROVE  StateOf(d)' = StateOf(d)
    <2>1. \A k \in Coords : Present(d, k)' = Present(d, k)
      BY <1>1, <1>2, <1>3, InvPort, RecordStable DEF RecordNew
    <2>2. QED
      BY <2>1, SamePresentSameState
  <1>5. c \notin commits
    BY <1>1 DEF RecordNew, InsertCommit, IInv, HashedEdges
  <1>6. StateOf(c)' \in [Coords -> SUBSET Blobs]
    <2>1. TypeOK'
      BY <1>1, RecordNewEvolves DEF IInv, Record
    <2>2. (TypeOK => StateOf(c) \in [Coords -> SUBSET Blobs])'
      BY StateTyped, PTL
    <2>3. QED
      BY <2>1, <2>2
  <1>7. QED
    BY <1>1, <1>2, <1>4, <1>5, <1>6 DEF Intact

LEMMA LoneInvInit ==
  ASSUME PruneInit
  PROVE  LoneInv
  <1>1. PruneInv /\ Linear
    BY PruneInvInit, LinearInit DEF PruneInit, SnapshotsInit
  <1>2. \A p \in Pruners : prune[p].at = "idle"
    BY DEF PruneInit, Idle
  <1>3. Solitary /\ \A p \in Pruners : PlanCurrent(p)
    BY <1>2 DEF Solitary, PlanCurrent
  <1>4. commits = {} /\ presented \in [CommitIds -> [Coords -> SUBSET Blobs]]
    BY DEF PruneInit, SnapshotsInit, Init, commits, NothingPresent
  <1>5. SnapshotsIntact
    BY <1>4 DEF SnapshotsIntact
  <1>6. QED
    BY <1>1, <1>3, <1>4, <1>5 DEF LoneInv

LEMMA LoneInvStep ==
  ASSUME ~ Merges, Alone, ~ StalePlans, LoneInv, [PruneNext]_pruneVars
  PROVE  LoneInv'
  <1> USE DEF LoneInv
  <1>1. PruneInv' /\ Linear'
    BY PruneInvStep, LinearStep
  <1>2. prune \in [Pruners -> PlanRecords]
    BY DEF PruneInv
  <1>3. ASSUME NEW p \in Pruners, (Free(Pruners \ {p}) /\ PruneCall(p)) \/ PruneStep(p)
        PROVE  LoneInv'
    <2>1. \A q \in Pruners \ {p} : prune[q].at = "idle"
      <3>1. CASE Free(Pruners \ {p})
        BY <1>2, <3>1, FreeIsIdle
      <3>2. CASE PruneStep(p)
        <4>1. prune[p].at # "idle"
          BY <3>2 DEF PruneStep, ListCommits, Plan, LoadAncestry, CheckRetire, FoldStep, Finish,
                      Abandon
        <4>2. QED
          BY <4>1 DEF Solitary
      <3>3. QED
        BY <1>3, <3>1, <3>2
    <2>2. \A q \in Pruners \ {p} : prune'[q] = prune[q]
      BY <1>2, <1>3 DEF PruneCall, PruneStep, Select, StartApply, ListCommits, Plan, LoadAncestry,
                        CheckRetire, FoldStep, Finish, Abandon, GiveUp, Goto
    <2>3. Solitary' /\ \A q \in Pruners : PlanCurrent(q)'
      BY <1>3, <2>1, <2>2, StepCurrent, LoneMoves
    <2>4. SnapshotsIntact' /\ UNCHANGED presented
      BY <1>3, StepIntact
    <2>5. QED
      BY <1>1, <2>3, <2>4
  <1>4. CASE Free(Pruners) /\ RecordStep
    <2>1. Solitary' /\ \A q \in Pruners : PlanCurrent(q)'
      BY <1>2, <1>4, FreeIsIdle, NobodyMoves DEF RecordStep
    <2>2. PICK c \in CommitIds, ps \in ParentSets, es \in EntrySets : Record(c, ps, es)
      BY <1>4 DEF RecordStep
    <2>3. commits' = commits \cup {c} /\ doomed' = doomed
      BY <1>4, <2>2, RecordNewEvolves DEF Record, RecordStep, PruneInv
    <2>4. SnapshotsIntact' /\ presented' \in [CommitIds -> [Coords -> SUBSET Blobs]]
      BY <2>2, <2>3, RecordIntact DEF SnapshotsIntact, Intact, PruneInv
    <2>5. QED
      BY <1>1, <2>1, <2>4
  <1>5. CASE (Free(Pruners) /\ RefStep) \/ UNCHANGED pruneVars
    <2>1. Solitary' /\ \A q \in Pruners : PlanCurrent(q)'
      <3>1. CASE Free(Pruners) /\ RefStep
        BY <1>2, <3>1, FreeIsIdle, NobodyMoves DEF RefStep
      <3>2. CASE UNCHANGED pruneVars
        <4>1. commits' = commits /\ commitParents' = commitParents /\ UNCHANGED <<prune, doomed>>
          BY <3>2, SameMeta DEF pruneVars, snapshotVars
        <4>2. QED
          BY <4>1 DEF Solitary, PlanCurrent
      <3>3. QED
        BY <1>5, <3>1, <3>2
    <2>2. UNCHANGED <<seq, commitParents, chunkHistory, presented, doomed>>
      BY <1>5, RefCallInv DEF RefStep, PruneInv, pruneVars, snapshotVars, metaVars
    <2>3. commits' = commits /\ \A c : StateOf(c)' = StateOf(c)
      BY <2>2, UnchangedState DEF commits
    <2>4. SnapshotsIntact'
      BY <2>2, <2>3 DEF SnapshotsIntact, Intact
    <2>5. QED
      BY <1>1, <2>1, <2>2, <2>4
  <1>6. QED
    BY <1>3, <1>4, <1>5 DEF PruneNext

LEMMA LoneInvCorrect ==
  ASSUME ~ Merges, Alone, ~ StalePlans
  PROVE  PruneSpec => []LoneInv
  <1>1. PruneInit => LoneInv
    BY LoneInvInit
  <1>2. LoneInv /\ [PruneNext]_pruneVars => LoneInv'
    BY LoneInvStep
  <1>3. QED
    BY <1>1, <1>2, PTL DEF PruneSpec

\* Pruning a store that nobody else uses changes no snapshot: every commit
\* that is not set out to be deleted presents what it presented when it was
\* recorded, in the middle of a run and after any number of them
\* (prune_apply, retire_commit).
THEOREM SnapshotsIntactCorrect ==
  ASSUME ~ Merges, Alone, ~ StalePlans
  PROVE  PruneSpec => []SnapshotsIntact
  <1>1. LoneInv => SnapshotsIntact
    BY DEF LoneInv
  <1>2. QED
    BY <1>1, LoneInvCorrect, PTL

\* A plan that passed its check is carried out to the end: no retirement of
\* it is refused, although every target is computed from links read before
\* the first one (prune_apply, fold_target).
THEOREM PlanCarriesThroughCorrect ==
  ASSUME ~ Merges, Alone, ~ StalePlans
  PROVE  PruneSpec => PlanCarriesThrough
  <1> DEFINE A == \A p \in Pruners :
                    CheckRetire(p) \/ FoldStep(p) => prune'[p].at # "idle"
  <1>1. LoneInv /\ [PruneNext]_pruneVars => [A]_pruneVars
    <2>1. ASSUME LoneInv, NEW p \in Pruners, CheckRetire(p) \/ FoldStep(p)
          PROVE  prune'[p].at # "idle"
      <3>1. prune'[p].at = "checked" \/ prune'[p].at = "applying"
        BY <2>1, CheckRetireCurrent, FoldStepCurrent
      <3>2. QED
        BY <3>1
    <2>2. QED
      BY <2>1
  <1>2. QED
    BY <1>1, LoneInvCorrect, PTL DEF PruneSpec, PlanCarriesThrough

\* A run that ends leaves exactly the commits its plan retains.
THEOREM FinishLeavesKeptCorrect ==
  ASSUME ~ Merges, Alone, ~ StalePlans
  PROVE  PruneSpec => FinishLeavesKept
  <1> DEFINE A == \A p \in Pruners : Finish(p) => commits = prune[p].keep
  <1>1. LoneInv /\ [PruneNext]_pruneVars => [A]_pruneVars
    <2>1. ASSUME LoneInv, NEW p \in Pruners, Finish(p)
          PROVE  commits = prune[p].keep
      <3>1. /\ prune[p].at = "applying" /\ prune[p].todo = {}
            /\ PlanCurrent(p)
        BY <2>1 DEF LoneInv, Finish
      <3>2. QED
        BY <3>1 DEF PlanCurrent
    <2>2. QED
      BY <2>1
  <1>2. QED
    BY <1>1, LoneInvCorrect, PTL DEF PruneSpec, FinishLeavesKept

-----------------------------------------------------------------------------
(* The shape of a plan.                                                   *)

\* What is to be deleted is on the listing the plan was made from, and
\* nothing is to be deleted before there is a plan.
PlanShape(p) ==
  /\ prune[p].todo \subseteq prune[p].delete
  /\ prune[p].delete \subseteq DOMAIN prune[p].rows
  /\ prune[p].at \in {"selected", "listed"} => prune[p].delete = {}

ShapeInv ==
  /\ PresentedType
  /\ doomed \subseteq CommitIds
  /\ \A p \in Pruners : PlanShape(p)

LEMMA GiveUpShape ==
  ASSUME PruneInv, NEW p \in Pruners, PlanShape(p), GiveUp(p)
  PROVE  PlanShape(p)'
  <1>1. Idle.todo = {} /\ Idle.delete = {} /\ Idle.at = "idle"
    BY DEF Idle
  <1>2. prune[p] \in PlanRecords
    BY DEF PruneInv
  <1>3. Planned(prune[p]).todo = {}
    BY DEF Planned, Idle
  <1>4. prune'[p] = IF StalePlans /\ Applying(p) THEN Planned(prune[p]) ELSE Idle
    BY DEF GiveUp, Goto, PruneInv
  <1>5. CASE prune'[p] = Idle
    BY <1>1, <1>5 DEF PlanShape
  <1>6. CASE prune'[p] = Planned(prune[p])
    BY <1>2, <1>3, <1>6, PlannedTyped DEF PlanShape
  <1>7. QED
    BY <1>4, <1>5, <1>6

LEMMA OwnShape ==
  ASSUME PruneInv, NEW p \in Pruners, PlanShape(p), PruneCall(p) \/ PruneStep(p)
  PROVE  PlanShape(p)'
  <1> DEFINE q == prune[p]
  <1>0. q \in PlanRecords /\ prune \in [Pruners -> PlanRecords]
    BY DEF PruneInv
  <1>1. Idle.todo = {} /\ Idle.delete = {} /\ Idle.at = "idle"
    BY DEF Idle
  <1>2. CASE Select(p)
    <2>1. PICK keep : prune'[p] = [Idle EXCEPT !.at = "selected", !.keep = keep]
      BY <1>0, <1>2 DEF Select, Goto
    <2>2. prune'[p].todo = {} /\ prune'[p].delete = {}
      BY <2>1 DEF Idle
    <2>3. QED
      BY <2>2 DEF PlanShape
  <1>3. CASE ListCommits(p)
    <2>1. /\ prune'[p] = [q EXCEPT !.at = "listed", !.rows = CommitRows]
          /\ q.at = "selected"
      BY <1>0, <1>3 DEF ListCommits, Goto
    <2>2. prune'[p].todo = q.todo /\ prune'[p].delete = q.delete
      BY <1>0, <2>1 DEF PlanRecords
    <2>3. QED
      BY <2>1, <2>2 DEF PlanShape
  <1>4. CASE Plan(p) /\ ~ GiveUp(p)
    <2>1. /\ prune'[p] = [q EXCEPT !.at = "planned", !.delete = DOMAIN q.rows \ q.keep]
          /\ q.at = "listed"
      BY <1>0, <1>4 DEF Plan, Goto
    <2>2. /\ prune'[p].todo = q.todo /\ prune'[p].delete = DOMAIN q.rows \ q.keep
          /\ prune'[p].rows = q.rows /\ prune'[p].at = "planned"
      BY <1>0, <2>1 DEF PlanRecords
    <2>3. QED
      BY <2>1, <2>2 DEF PlanShape
  <1>5. CASE StartApply(p)
    <2>1. prune'[p] = [q EXCEPT !.at = "starting", !.todo = q.delete, !.listed = commits]
      BY <1>0, <1>5 DEF StartApply, Goto
    <2>2. /\ prune'[p].todo = q.delete /\ prune'[p].delete = q.delete
          /\ prune'[p].rows = q.rows /\ prune'[p].at = "starting"
      BY <1>0, <2>1 DEF PlanRecords
    <2>3. QED
      BY <2>2 DEF PlanShape
  <1>6. CASE LoadAncestry(p)
    <2>1. prune'[p] = [q EXCEPT !.at = "applying", !.listed = {}, !.edges = LinksOf(q.listed)]
      BY <1>0, <1>6 DEF LoadAncestry, Goto
    <2>2. /\ prune'[p].todo = q.todo /\ prune'[p].delete = q.delete
          /\ prune'[p].rows = q.rows /\ prune'[p].at = "applying"
      BY <1>0, <2>1 DEF PlanRecords
    <2>3. QED
      BY <2>2 DEF PlanShape
  <1>7. CASE CheckRetire(p) /\ ~ GiveUp(p)
    <2>1. PICK from \in Oldest(p) : \E into \in FoldTargets(q.edges, q.keep, from) :
            Goto(p, [q EXCEPT !.at = "checked", !.from = from, !.into = into])
      BY <1>7 DEF CheckRetire
    <2>2. PICK into \in FoldTargets(q.edges, q.keep, from) :
            Goto(p, [q EXCEPT !.at = "checked", !.from = from, !.into = into])
      BY <2>1
    <2>3. prune'[p] = [q EXCEPT !.at = "checked", !.from = from, !.into = into]
      BY <1>0, <2>2 DEF Goto
    <2>4. /\ prune'[p].todo = q.todo /\ prune'[p].delete = q.delete
          /\ prune'[p].rows = q.rows /\ prune'[p].at = "checked"
      BY <1>0, <2>3 DEF PlanRecords
    <2>5. QED
      BY <2>4 DEF PlanShape
  <1>8. CASE FoldStep(p) /\ ~ GiveUp(p)
    <2>1. prune'[p] = [q EXCEPT !.at = "applying", !.todo = q.todo \ {q.from},
                                !.from = Absent, !.into = Absent]
      BY <1>0, <1>8 DEF FoldStep, Goto
    <2>2. /\ prune'[p].todo = q.todo \ {q.from} /\ prune'[p].delete = q.delete
          /\ prune'[p].rows = q.rows /\ prune'[p].at = "applying"
      BY <1>0, <2>1 DEF PlanRecords
    <2>3. QED
      BY <2>2 DEF PlanShape
  <1>9. CASE Finish(p) \/ Abandon(p)
    <2>1. prune'[p] = Idle
      BY <1>0, <1>9 DEF Finish, Abandon, Goto
    <2>2. QED
      BY <1>1, <2>1 DEF PlanShape
  <1>10. CASE GiveUp(p)
    BY <1>10, GiveUpShape
  <1>11. QED
    BY <1>2, <1>3, <1>4, <1>5, <1>6, <1>7, <1>8, <1>9, <1>10 DEF PruneCall, PruneStep

LEMMA PruneProgressShape ==
  ASSUME PruneInv, ShapeInv, NEW p \in Pruners, PruneCall(p) \/ PruneStep(p)
  PROVE  ShapeInv'
  <1>1. \A q \in Pruners \ {p} : prune'[q] = prune[q]
    BY DEF PruneCall, PruneStep, Select, StartApply, ListCommits, Plan, LoadAncestry, CheckRetire,
           FoldStep, Finish, Abandon, GiveUp, Goto, PruneInv
  <1>2. \A q \in Pruners : PlanShape(q)'
    BY <1>1, OwnShape DEF ShapeInv, PlanShape
  <1>3. presented' = presented
    BY DEF PruneCall, PruneStep, Select, StartApply, ListCommits, Plan, LoadAncestry, CheckRetire,
           FoldStep, Finish, Abandon, GiveUp, snapshotVars
  <1>4. doomed' \subseteq CommitIds
    <2>1. prune[p].delete \subseteq CommitIds
      BY DEF PruneInv, PlanRecords
    <2>2. doomed' = doomed \/ doomed' = doomed \cup prune[p].delete
      BY DEF PruneCall, PruneStep, Select, StartApply, ListCommits, Plan, LoadAncestry,
             CheckRetire, FoldStep, Finish, Abandon, GiveUp
    <2>3. QED
      BY <2>1, <2>2 DEF ShapeInv
  <1>5. QED
    BY <1>2, <1>3, <1>4 DEF ShapeInv, PresentedType

LEMMA RecordShape ==
  ASSUME IInv, ShapeInv, NEW c \in CommitIds, NEW ps \in ParentSets, NEW es \in EntrySets,
         Record(c, ps, es), UNCHANGED <<prune, doomed>>
  PROVE  ShapeInv'
  BY RecordIntact DEF ShapeInv, PresentedType, PlanShape

LEMMA ShapeUnchanged ==
  ASSUME ShapeInv, UNCHANGED <<presented, prune, doomed>>
  PROVE  ShapeInv'
  BY DEF ShapeInv, PresentedType, PlanShape

LEMMA ShapeInvInit == PruneInit => ShapeInv
  <1>1. Idle.todo = {} /\ Idle.delete = {}
    BY DEF Idle
  <1>2. NothingPresent \in [Coords -> SUBSET Blobs]
    BY DEF NothingPresent
  <1>3. QED
    BY <1>1, <1>2 DEF PruneInit, SnapshotsInit, ShapeInv, PresentedType, PlanShape

LEMMA ShapesTyped == PruneInv /\ ShapeInv => PruneTypeOK
  BY DEF PruneInv, ShapeInv, PlanShape, PruneTypeOK, PlanRecords, IInv

\* What the prunes hold has the types the code gives it, and a deletion
\* is always one of the listing its plan was made from (PruneTypeOK).
THEOREM PruneTypeOKCorrect == PruneSpec => []PruneTypeOK
  <1>1. PruneInv /\ ShapeInv /\ [PruneNext]_pruneVars => ShapeInv'
    <2> SUFFICES ASSUME PruneInv, ShapeInv, [PruneNext]_pruneVars
                 PROVE  ShapeInv'
      OBVIOUS
    <2>1. CASE RecordStep
      BY <2>1, RecordShape DEF RecordStep, PruneInv
    <2>2. QED
      BY <2>1, PruneProgressShape, ShapeUnchanged DEF PruneNext, RefStep, pruneVars, snapshotVars
  <1>2. QED
    BY <1>1, ShapeInvInit, ShapesTyped, PruneInvCorrect, PTL DEF PruneSpec

-----------------------------------------------------------------------------
(* Types. *)

ScanSet == UNION {[K -> Blobs] : K \in SUBSET Coords}

RunRecords ==
  [at : {"idle", "active", "based", "staging"},
   base : CommitIds \cup {Unborn},
   state : [Coords -> SUBSET Blobs],
   scope : SUBSET Coords,
   scan : ScanSet,
   todo : SUBSET Coords]

GcRecords ==
  [at : {"idle", "visiting", "planned", "removing"},
   again : BOOLEAN,
   todo : Listings,
   seen : SUBSET Blobs,
   plan : SUBSET Blobs,
   garbage : SUBSET Blobs]

StoreInv ==
  /\ PruneInv
  /\ run \in [Committers -> RunRecords]
  /\ \A w \in Committers : run[w].todo \subseteq DOMAIN run[w].scan
                           /\ DOMAIN run[w].scan \subseteq run[w].scope
  /\ gc \in [Collectors -> GcRecords]
  /\ cas \subseteq Blobs

-----------------------------------------------------------------------------
(* Nothing is lost.                                                       *)

\* Commits and collections exclude each other, plans in hand excepted.
Apart == \A w \in Committers, g \in Collectors : ~ (Committing(w) /\ Collecting(g))

\* What a run has staged is stored.
StagedStored ==
  \A w \in Committers : run[w].at = "staging" =>
    \A k \in DOMAIN run[w].scan \ run[w].todo : run[w].scan[k] \in cas

\* A scan visits the commits by sequence, so a row that a retirement moves
\* goes to a commit that is still to come.
ScanAhead(g) ==
  gc[g].at = "visiting" =>
    \A c \in DOMAIN gc[g].todo \cap commits :
      /\ gc[g].todo[c] = seq[c]
      /\ \A d \in commits : seq[d] > seq[c] => d \in DOMAIN gc[g].todo

\* A row that is not to come has been seen.
RowsSeen(g) ==
  gc[g].at = "visiting" =>
    \A r \in chunkHistory :
      r.blob = Tombstone \/ r.blob \in gc[g].seen \/ r.commit \in DOMAIN gc[g].todo

\* What is about to be removed no row names.
PlanUnreferenced(g) == gc[g].at = "removing" => gc[g].plan \cap Referenced = {}

KeepInv ==
  /\ Apart
  /\ StagedStored
  /\ \A g \in Collectors : ScanAhead(g) /\ RowsSeen(g) /\ PlanUnreferenced(g)
  /\ NoDangling

-----------------------------------------------------------------------------
(* Nothing stays behind.                                                  *)

OneCollector == \A g, h \in Collectors : Collecting(g) /\ Collecting(h) => g = h

GarbageFound(g) ==
  /\ gc[g].at = "visiting" =>
       gc[g].seen \cap gc[g].garbage = {} /\ Referenced \cap gc[g].garbage = {}
  /\ gc[g].at = "visiting" /\ ~ gc[g].again => gc[g].garbage \subseteq cas
  /\ gc[g].at = "planned" => gc[g].seen = {}
  /\ gc[g].at = "planned" \/ (gc[g].at = "visiting" /\ gc[g].again) =>
       gc[g].garbage \subseteq gc[g].plan
  /\ gc[g].at = "removing" => gc[g].garbage \cap cas \subseteq gc[g].plan

SweepInv ==
  /\ Apart
  /\ OneCollector
  /\ \A g \in Collectors : GarbageFound(g)

-----------------------------------------------------------------------------
(* A commit is what its scan found over its base.                         *)

\* No commit while a prune is in a call.
BasesStay == \A w \in Committers, p \in Pruners : ~ (Committing(w) /\ InCall(p))

\* What a run has read of its base is what the base presents.
BaseReadBy(w) ==
  /\ run[w].base \in assigned \cup {Unborn}
  /\ run[w].at = "staging" /\ run[w].base \in commits => run[w].state = StateOf(run[w].base)
  /\ run[w].at = "staging" /\ run[w].base = Unborn => run[w].state = NothingPresent

BaseRead == \A w \in Committers : BaseReadBy(w)

-----------------------------------------------------------------------------
(* Types are kept.                                                        *)

LEMMA StateSets ==
  ASSUME IInv
  PROVE  /\ \A c : StateOf(c) \in [Coords -> SUBSET Blobs]
         /\ NothingPresent \in [Coords -> SUBSET Blobs]
         /\ CommitRows \in Listings
         /\ Referenced \subseteq Blobs
  BY StateTyped, RowsTyped DEF IInv, NothingPresent, Referenced, TypeOK, Row

LEMMA EmptyTyped == NoScan \in ScanSet /\ NoRows \in Listings
  <1>1. NoScan \in [{} -> Blobs] /\ {} \in SUBSET Coords
    BY DEF NoScan
  <1>2. NoRows \in [{} -> Nat] /\ {} \in SUBSET CommitIds
    BY DEF NoRows
  <1>3. QED
    BY <1>1, <1>2 DEF ScanSet, Listings

LEMMA RestingTyped == Resting \in RunRecords
  <1>1. NothingPresent \in [Coords -> SUBSET Blobs]
    BY DEF NothingPresent
  <1>2. QED
    BY <1>1, EmptyTyped DEF Resting, RunRecords

LEMMA NoGcTyped == NoGc \in GcRecords
  BY EmptyTyped DEF NoGc, GcRecords

\* One committer moves on.
RunMoves(w, r) ==
  /\ r \in RunRecords /\ r.todo \subseteq DOMAIN r.scan /\ DOMAIN r.scan \subseteq r.scope
  /\ run' \in [Committers -> RunRecords]
  /\ run'[w] = r
  /\ \A v \in Committers \ {w} : run'[v] = run[v]

LEMMA AdvanceMoves ==
  ASSUME run \in [Committers -> RunRecords], NEW w \in Committers, NEW r \in RunRecords,
         r.todo \subseteq DOMAIN r.scan, DOMAIN r.scan \subseteq r.scope, Advance(w, r)
  PROVE  RunMoves(w, r)
  BY DEF RunMoves, Advance

LEMMA RestMoves ==
  ASSUME run \in [Committers -> RunRecords], NEW w \in Committers, Advance(w, Resting)
  PROVE  RunMoves(w, Resting)
  <1>1. Resting.todo = {} /\ DOMAIN Resting.scan = {} /\ Resting.scope = {}
    BY DEF Resting, NoScan
  <1>2. QED
    BY <1>1, RestingTyped, AdvanceMoves

LEMMA ReadActiveMoves ==
  ASSUME StoreInv, NEW w \in Committers, ReadActive(w)
  PROVE  \E base \in commits \cup {Unborn} :
           RunMoves(w, [Resting EXCEPT !.at = "active", !.base = base])
  <1>1. PICK n \in activeRefs : Advance(w, [Resting EXCEPT !.at = "active", !.base = target[n]])
    BY DEF ReadActive
  <1>2. target[n] \in commits \cup {Unborn}
    BY DEF StoreInv, PruneInv, IInv, TypeOK, RefsResolve, OneActiveRef
  <1> DEFINE r == [Resting EXCEPT !.at = "active", !.base = target[n]]
  <1>3. r \in RunRecords /\ r.todo = {} /\ DOMAIN r.scan = {} /\ r.scope = {}
    <2>1. r \in RunRecords
      BY <1>2, RestingTyped DEF RunRecords, commits
    <2>2. QED
      BY <2>1 DEF Resting, NoScan
  <1> HIDE DEF r
  <1>4. RunMoves(w, r)
    BY <1>1, <1>3, AdvanceMoves DEF StoreInv, r
  <1>5. QED
    BY <1>2, <1>4 DEF r

LEMMA LookupBaseMoves ==
  ASSUME StoreInv, NEW w \in Committers, LookupBase(w)
  PROVE  \E base \in commits \cup {Unborn} :
           RunMoves(w, [run[w] EXCEPT !.at = "based", !.base = base])
  <1> DEFINE base == IF run[w].base \in commits THEN run[w].base ELSE Unborn
             r == [run[w] EXCEPT !.at = "based", !.base = base]
  <1>1. /\ run \in [Committers -> RunRecords] /\ run[w] \in RunRecords
        /\ run[w].todo \subseteq DOMAIN run[w].scan /\ DOMAIN run[w].scan \subseteq run[w].scope
    BY DEF StoreInv
  <1>2. base \in commits \cup {Unborn} /\ Advance(w, r)
    BY DEF LookupBase
  <1>3. base \in CommitIds \cup {Unborn}
    BY DEF commits
  <1> HIDE DEF base
  <1>4. r \in RunRecords
    BY <1>1, <1>3 DEF RunRecords
  <1>5. r.todo = run[w].todo /\ r.scan = run[w].scan /\ r.scope = run[w].scope
    BY <1>1 DEF RunRecords
  <1> HIDE DEF r
  <1>6. RunMoves(w, r)
    BY <1>1, <1>2, <1>4, <1>5, AdvanceMoves
  <1>7. QED
    BY <1>2, <1>6 DEF r

LEMMA ReadStateMoves ==
  ASSUME StoreInv, NEW w \in Committers, ReadState(w)
  PROVE  \E scope \in SUBSET Coords : \E scan \in ScanSet :
           RunMoves(w, [run[w] EXCEPT
             !.at = "staging",
             !.state = IF run[w].base = Unborn THEN NothingPresent ELSE StateOf(run[w].base),
             !.scope = scope, !.scan = scan, !.todo = DOMAIN scan])
  <1> DEFINE state == IF run[w].base = Unborn THEN NothingPresent ELSE StateOf(run[w].base)
  <1>1. PICK scope \in SUBSET Coords : \E scan \in Scans(scope) :
          Advance(w, [run[w] EXCEPT !.at = "staging", !.state = state,
                                    !.scope = scope, !.scan = scan, !.todo = DOMAIN scan])
    BY DEF ReadState
  <1>2. PICK scan \in Scans(scope) :
          Advance(w, [run[w] EXCEPT !.at = "staging", !.state = state,
                                    !.scope = scope, !.scan = scan, !.todo = DOMAIN scan])
    BY <1>1
  <1>3. PICK K \in SUBSET scope : scan \in [K -> Blobs]
    BY DEF Scans
  <1>4. scan \in ScanSet /\ DOMAIN scan \subseteq scope /\ DOMAIN scan \in SUBSET Coords
    BY <1>3 DEF ScanSet
  <1>5. state \in [Coords -> SUBSET Blobs]
    BY StateSets DEF StoreInv, PruneInv
  <1> HIDE DEF state
  <1> DEFINE r == [run[w] EXCEPT !.at = "staging", !.state = state,
                                 !.scope = scope, !.scan = scan, !.todo = DOMAIN scan]
  <1>6. run[w] \in RunRecords /\ run \in [Committers -> RunRecords]
    BY DEF StoreInv
  <1>7. r \in RunRecords
    BY <1>4, <1>5, <1>6 DEF RunRecords
  <1>8. r.todo = DOMAIN scan /\ r.scan = scan /\ r.scope = scope
    BY <1>6 DEF RunRecords
  <1> HIDE DEF r
  <1>9. RunMoves(w, r)
    BY <1>2, <1>4, <1>6, <1>7, <1>8, AdvanceMoves DEF r
  <1>10. QED
    BY <1>4, <1>9 DEF r, state

LEMMA StageBlobMoves ==
  ASSUME StoreInv, NEW w \in Committers, NEW k, StageBlob(w, k)
  PROVE  /\ RunMoves(w, [run[w] EXCEPT !.todo = run[w].todo \ {k}])
         /\ run[w].scan[k] \in Blobs
  <1> DEFINE r == [run[w] EXCEPT !.todo = run[w].todo \ {k}]
  <1>1. /\ run \in [Committers -> RunRecords] /\ run[w] \in RunRecords
        /\ run[w].todo \subseteq DOMAIN run[w].scan /\ DOMAIN run[w].scan \subseteq run[w].scope
    BY DEF StoreInv
  <1>2. Advance(w, r) /\ k \in run[w].todo
    BY DEF StageBlob
  <1>3. r \in RunRecords
    BY <1>1 DEF RunRecords
  <1>4. r.todo \subseteq run[w].todo /\ r.scan = run[w].scan /\ r.scope = run[w].scope
    BY <1>1 DEF RunRecords
  <1>5. run[w].scan \in ScanSet
    BY <1>1 DEF RunRecords
  <1>6. run[w].scan[k] \in Blobs
    BY <1>1, <1>2, <1>5 DEF ScanSet
  <1> HIDE DEF r
  <1>7. RunMoves(w, r)
    BY <1>1, <1>2, <1>3, <1>4, AdvanceMoves
  <1>8. QED
    BY <1>6, <1>7 DEF r

LEMMA DeltaTyped ==
  ASSUME NEW r \in RunRecords, DOMAIN r.scan \subseteq r.scope
  PROVE  /\ Delta(r) \in EntrySets
         /\ DOMAIN Delta(r) = {k \in r.scope :
                                 r.state[k] # IF k \in DOMAIN r.scan THEN {r.scan[k]} ELSE {}}
         /\ \A k \in DOMAIN Delta(r) :
              Delta(r)[k] = IF k \in DOMAIN r.scan THEN r.scan[k] ELSE Tombstone
  <1> DEFINE changed == {k \in r.scope :
                           r.state[k] # IF k \in DOMAIN r.scan THEN {r.scan[k]} ELSE {}}
  <1>1. Delta(r) = [k \in changed |-> IF k \in DOMAIN r.scan THEN r.scan[k] ELSE Tombstone]
    BY DEF Delta
  <1>2. r.scan \in ScanSet /\ r.scope \in SUBSET Coords
    BY DEF RunRecords
  <1>3. \A k \in DOMAIN r.scan : r.scan[k] \in Blobs
    BY <1>2 DEF ScanSet
  <1>4. changed \in SUBSET Coords
    BY <1>2
  <1> HIDE DEF changed
  <1>5. Delta(r) \in [changed -> Blobs \cup {Tombstone}]
    BY <1>1, <1>3
  <1>6. Delta(r) \in EntrySets
    BY <1>4, <1>5 DEF EntrySets
  <1>7. QED
    BY <1>1, <1>6 DEF changed

\* What record_commit hands to the port.
LEMMA RecordCommitRecords ==
  ASSUME StoreInv, NEW w \in Committers, NEW c \in CommitIds, RecordCommit(w, c)
  PROVE  /\ ParentsOf(run[w]) \in ParentSets /\ AtMostOne(ParentsOf(run[w]))
         /\ Delta(run[w]) \in EntrySets
         /\ Record(c, ParentsOf(run[w]), Delta(run[w]))
         /\ RecordNew(c, ParentsOf(run[w]), Delta(run[w]))
         /\ RunMoves(w, Resting)
         /\ cas' = cas
  <1>1. Record(c, ParentsOf(run[w]), Delta(run[w])) /\ Advance(w, Resting) /\ cas' = cas
    BY DEF RecordCommit
  <1>2. RecordNew(c, ParentsOf(run[w]), Delta(run[w]))
    BY <1>1 DEF Record
  <1>3. ParentsOf(run[w]) \subseteq commits /\ AtMostOne(ParentsOf(run[w]))
    BY <1>2 DEF RecordNew, InsertCommit, ParentsOf, AtMostOne
  <1>4. ParentsOf(run[w]) \in ParentSets
    BY <1>3 DEF ParentSets
  <1>5. Delta(run[w]) \in EntrySets
    BY DeltaTyped DEF StoreInv
  <1>6. RunMoves(w, Resting)
    BY <1>1, RestMoves DEF StoreInv
  <1>7. QED
    BY <1>1, <1>2, <1>3, <1>4, <1>5, <1>6

\* Any other step of a commit leaves the metadata alone.
LEMMA CommitReads ==
  ASSUME NEW w, CommitCall(w) \/ CommitStep(w), \A c \in CommitIds : ~ RecordCommit(w, c)
  PROVE  UNCHANGED snapshotVars
  BY DEF CommitCall, CommitStep, ReadActive, LookupBase, ReadState, StageBlob, CommitRefused,
         CommitDies

LEMMA CommitProgressInv ==
  ASSUME StoreInv, NEW w \in Committers, CommitProgress(w)
  PROVE  StoreInv' /\ Evolves
  <1>1. PruneInv' /\ Evolves
    <2>1. CASE \E c \in CommitIds : RecordCommit(w, c)
      <3>1. PICK c \in CommitIds : RecordCommit(w, c)
        BY <2>1
      <3>2. IInv' /\ Evolves
        BY <3>1, RecordCommitRecords, RecordNewEvolves DEF StoreInv, PruneInv, Record
      <3>3. QED
        BY <3>2, MetaMovesInv DEF CommitProgress, StoreInv
    <2>2. CASE UNCHANGED metaVars
      BY <2>2, UnchangedInv, MetaMovesInv DEF CommitProgress, StoreInv, PruneInv
    <2>3. QED
      BY <2>1, <2>2, CommitReads DEF CommitProgress, snapshotVars
  <1>2. \E r : RunMoves(w, r)
    <2>1. CASE Advance(w, Resting)
      BY <2>1, RestMoves DEF StoreInv
    <2>2. QED
      BY <2>1, ReadActiveMoves, LookupBaseMoves, ReadStateMoves, StageBlobMoves
      DEF CommitProgress, CommitCall, CommitStep, RecordCommit, CommitRefused, CommitDies
  <1>3. cas' \subseteq Blobs
    <2>1. CASE \E k \in Coords : StageBlob(w, k)
      BY <2>1, StageBlobMoves DEF StageBlob, PutBlob, StoreInv
    <2>2. CASE cas' = cas
      BY <2>2 DEF StoreInv
    <2>3. QED
      BY <2>1, <2>2 DEF CommitProgress, CommitCall, CommitStep, ReadActive, LookupBase, ReadState,
                        RecordCommit, CommitRefused, CommitDies
  <1>4. gc' = gc
    BY DEF CommitProgress
  <1>5. QED
    BY <1>1, <1>2, <1>3, <1>4 DEF StoreInv, RunMoves

\* One collector moves on.
GcMoves(g, r) ==
  /\ r \in GcRecords
  /\ gc' \in [Collectors -> GcRecords]
  /\ gc'[g] = r
  /\ \A h \in Collectors \ {g} : gc'[h] = gc[h]

LEMMA ContinueMoves ==
  ASSUME gc \in [Collectors -> GcRecords], NEW g \in Collectors, NEW r \in GcRecords,
         Continue(g, r)
  PROVE  GcMoves(g, r)
  BY DEF GcMoves, Continue

LEMMA GcPlanMoves ==
  ASSUME StoreInv, NEW g \in Collectors, GcPlan(g)
  PROVE  \E r : /\ GcMoves(g, r)
                /\ r.at = "visiting" /\ r.again = FALSE /\ r.todo = CommitRows /\ r.seen = {}
                /\ r.garbage = cas \ Referenced
  <1> DEFINE r == [NoGc EXCEPT !.at = "visiting", !.todo = CommitRows,
                               !.garbage = cas \ Referenced]
  <1>1. cas \ Referenced \in SUBSET Blobs /\ CommitRows \in Listings
    BY StateSets DEF StoreInv, PruneInv
  <1>2. r \in GcRecords
    BY <1>1, NoGcTyped DEF GcRecords
  <1>3. /\ r.at = "visiting" /\ r.todo = CommitRows /\ r.seen = {}
        /\ r.garbage = cas \ Referenced
    BY DEF NoGc
  <1>4. r.again = FALSE
    BY DEF NoGc
  <1>5. Continue(g, r)
    BY DEF GcPlan
  <1> HIDE DEF r
  <1>6. GcMoves(g, r)
    BY <1>2, <1>5, ContinueMoves DEF StoreInv
  <1>7. QED
    BY <1>3, <1>4, <1>6

LEMMA GcApplyMoves ==
  ASSUME StoreInv, NEW g \in Collectors, GcApply(g)
  PROVE  \E r : /\ GcMoves(g, r)
                /\ r.at = "visiting" /\ r.again = TRUE /\ r.todo = CommitRows
                /\ r.seen = gc[g].seen /\ r.plan = gc[g].plan
                /\ r.garbage = gc[g].garbage \ Referenced
  <1> DEFINE r == [gc[g] EXCEPT !.at = "visiting", !.again = TRUE, !.todo = CommitRows,
                                !.garbage = gc[g].garbage \ Referenced]
  <1>1. /\ CommitRows \in Listings
        /\ gc \in [Collectors -> GcRecords] /\ gc[g] \in GcRecords
    BY StateSets DEF StoreInv, PruneInv
  <1>2. r \in GcRecords
    BY <1>1 DEF GcRecords
  <1>3. /\ r.at = "visiting" /\ r.todo = CommitRows /\ r.seen = gc[g].seen
        /\ r.plan = gc[g].plan /\ r.garbage = gc[g].garbage \ Referenced
    BY <1>1 DEF GcRecords
  <1>4. r.again = TRUE
    BY <1>1 DEF GcRecords
  <1>5. Continue(g, r)
    BY DEF GcApply
  <1> HIDE DEF r
  <1>6. GcMoves(g, r)
    BY <1>1, <1>2, <1>5, ContinueMoves
  <1>7. QED
    BY <1>3, <1>4, <1>6

LEMMA GcVisitMoves ==
  ASSUME StoreInv, NEW g \in Collectors, GcVisit(g)
  PROVE  \E c \in DOMAIN gc[g].todo : \E r :
           /\ GcMoves(g, r)
           /\ \A d \in DOMAIN gc[g].todo : gc[g].todo[c] <= gc[g].todo[d]
           /\ r.at = "visiting" /\ gc[g].at = "visiting" /\ r.again = gc[g].again
           /\ r.todo = [d \in DOMAIN gc[g].todo \ {c} |-> gc[g].todo[d]]
           /\ r.seen = gc[g].seen \cup UNION {Present(c, k) : k \in Coords}
           /\ r.plan = gc[g].plan /\ r.garbage = gc[g].garbage
  <1>1. PICK c \in DOMAIN gc[g].todo :
          /\ \A d \in DOMAIN gc[g].todo : gc[g].todo[c] <= gc[g].todo[d]
          /\ Continue(g, [gc[g] EXCEPT
               !.todo = [d \in DOMAIN gc[g].todo \ {c} |-> gc[g].todo[d]],
               !.seen = gc[g].seen \cup UNION {Present(c, k) : k \in Coords}])
    BY DEF GcVisit
  <1> DEFINE todo == [d \in DOMAIN gc[g].todo \ {c} |-> gc[g].todo[d]]
             seen == gc[g].seen \cup UNION {Present(c, k) : k \in Coords}
             r == [gc[g] EXCEPT !.todo = todo, !.seen = seen]
  <1>2. gc \in [Collectors -> GcRecords] /\ gc[g] \in GcRecords /\ gc[g].at = "visiting"
    BY DEF StoreInv, GcVisit
  <1>3. todo \in Listings
    <2>1. PICK S \in SUBSET CommitIds : gc[g].todo \in [S -> Nat]
      BY <1>2 DEF GcRecords, Listings
    <2>2. todo \in [S \ {c} -> Nat] /\ S \ {c} \in SUBSET CommitIds
      BY <2>1
    <2>3. QED
      BY <2>2 DEF Listings
  <1>4. seen \in SUBSET Blobs
    <2>1. \A k \in Coords : Present(c, k) \subseteq Blobs
      BY StateSets DEF StoreInv, PruneInv, StateOf
    <2>2. QED
      BY <1>2, <2>1 DEF GcRecords
  <1>5. Continue(g, r)
    BY <1>1
  <1> HIDE DEF todo, seen
  <1>6. r \in GcRecords
    BY <1>2, <1>3, <1>4 DEF GcRecords
  <1>7. /\ r.at = "visiting" /\ r.again = gc[g].again /\ r.todo = todo /\ r.seen = seen
        /\ r.plan = gc[g].plan /\ r.garbage = gc[g].garbage
    BY <1>2 DEF GcRecords
  <1> HIDE DEF r
  <1>8. GcMoves(g, r)
    BY <1>2, <1>5, <1>6, ContinueMoves
  <1>9. QED
    BY <1>1, <1>2, <1>7, <1>8 DEF todo, seen

LEMMA GcScanBlobsMoves ==
  ASSUME StoreInv, NEW g \in Collectors, GcScanBlobs(g)
  PROVE  \E r : /\ GcMoves(g, r)
                /\ gc[g].at = "visiting" /\ gc[g].todo = NoRows
                /\ r.seen = {} /\ r.garbage = gc[g].garbage
                /\ \/ /\ gc[g].again
                      /\ r.at = "removing" /\ r.plan = gc[g].plan \cap (cas \ gc[g].seen)
                   \/ /\ ~ gc[g].again
                      /\ r.at = "planned" /\ r.plan = cas \ gc[g].seen
  <1> DEFINE again == [gc[g] EXCEPT !.at = "removing", !.plan = gc[g].plan \cap (cas \ gc[g].seen),
                                    !.seen = {}]
             first == [gc[g] EXCEPT !.at = "planned", !.plan = cas \ gc[g].seen, !.seen = {}]
  <1>1. /\ gc \in [Collectors -> GcRecords] /\ gc[g] \in GcRecords /\ cas \in SUBSET Blobs
        /\ gc[g].at = "visiting" /\ gc[g].todo = NoRows
    BY DEF StoreInv, GcScanBlobs
  <1>2. again \in GcRecords /\ first \in GcRecords
    BY <1>1 DEF GcRecords
  <1>3. /\ again.at = "removing" /\ again.plan = gc[g].plan \cap (cas \ gc[g].seen)
        /\ again.seen = {} /\ again.garbage = gc[g].garbage
    BY <1>1 DEF GcRecords
  <1>4. /\ first.at = "planned" /\ first.plan = cas \ gc[g].seen
        /\ first.seen = {} /\ first.garbage = gc[g].garbage
    BY <1>1 DEF GcRecords
  <1>5. Continue(g, IF gc[g].again THEN again ELSE first)
    BY DEF GcScanBlobs
  <1> HIDE DEF again, first
  <1>6. CASE gc[g].again
    <2>1. GcMoves(g, again)
      BY <1>1, <1>2, <1>5, <1>6, ContinueMoves
    <2>2. QED
      BY <1>1, <1>3, <1>6, <2>1
  <1>7. CASE ~ gc[g].again
    <2>1. GcMoves(g, first)
      BY <1>1, <1>2, <1>5, <1>7, ContinueMoves
    <2>2. QED
      BY <1>1, <1>4, <1>7, <2>1
  <1>8. QED
    BY <1>6, <1>7

LEMMA GcRemoveMoves ==
  ASSUME StoreInv, NEW g \in Collectors, NEW b, GcRemove(g, b)
  PROVE  \E r : /\ GcMoves(g, r)
                /\ gc[g].at = "removing" /\ b \in gc[g].plan /\ cas' = cas \ {b}
                /\ r.at = "removing" /\ r.plan = gc[g].plan \ {b}
                /\ r.garbage = gc[g].garbage
  <1> DEFINE r == [gc[g] EXCEPT !.plan = gc[g].plan \ {b}]
  <1>1. /\ gc \in [Collectors -> GcRecords] /\ gc[g] \in GcRecords
        /\ gc[g].at = "removing" /\ b \in gc[g].plan /\ cas' = cas \ {b}
    BY DEF StoreInv, GcRemove, RemoveBlob
  <1>2. r \in GcRecords
    BY <1>1 DEF GcRecords
  <1>3. r.at = "removing" /\ r.plan = gc[g].plan \ {b} /\ r.garbage = gc[g].garbage
    BY <1>1 DEF GcRecords
  <1>4. Continue(g, r)
    BY DEF GcRemove
  <1> HIDE DEF r
  <1>5. GcMoves(g, r)
    BY <1>1, <1>2, <1>4, ContinueMoves
  <1>6. QED
    BY <1>1, <1>3, <1>5

LEMMA GcStopMoves ==
  ASSUME StoreInv, NEW g \in Collectors, GcFinish(g) \/ GcDies(g)
  PROVE  GcMoves(g, NoGc) /\ NoGc.at = "idle"
  BY NoGcTyped, ContinueMoves DEF StoreInv, GcFinish, GcDies, NoGc

LEMMA GcProgressInv ==
  ASSUME StoreInv, NEW g \in Collectors, GcProgress(g)
  PROVE  StoreInv' /\ Evolves /\ UNCHANGED <<snapshotVars, prune, doomed, run>>
  <1>1. UNCHANGED <<snapshotVars, prune, doomed, run>>
    BY DEF GcProgress, GcCall, GcStep, GcPlan, GcApply, GcVisit, GcScanBlobs, GcRemove, GcFinish,
           GcDies
  <1>2. PruneInv' /\ Evolves
    BY <1>1, UnchangedInv, MetaMovesInv DEF StoreInv, PruneInv, snapshotVars
  <1>3. \E r : GcMoves(g, r)
    BY GcPlanMoves, GcApplyMoves, GcVisitMoves, GcScanBlobsMoves, GcRemoveMoves, GcStopMoves
    DEF GcProgress, GcCall, GcStep
  <1>4. cas' \subseteq Blobs
    BY DEF StoreInv, GcProgress, GcCall, GcStep, GcPlan, GcApply, GcVisit, GcScanBlobs, GcRemove,
           GcFinish, GcDies, RemoveBlob
  <1>5. QED
    BY <1>1, <1>2, <1>3, <1>4 DEF StoreInv, GcMoves

LEMMA PruneRunsInv ==
  ASSUME StoreInv, NEW p \in Pruners, PruneProgress(p)
  PROVE  StoreInv' /\ Evolves
  BY PruneProgressInv DEF StoreInv, PruneProgress

LEMMA RefProgressInv ==
  ASSUME StoreInv, RefProgress
  PROVE  StoreInv' /\ Evolves
  <1>1. IInv' /\ Evolves /\ UNCHANGED <<prune, run, gc, cas>>
    BY RefCallInv DEF StoreInv, PruneInv, RefProgress
  <1>2. QED
    BY <1>1, MetaMovesInv DEF StoreInv

LEMMA StoreInvInit == StoreInit => StoreInv
  <1> SUFFICES ASSUME StoreInit PROVE StoreInv
    OBVIOUS
  <1>1. PruneInv
    BY PruneInvInit DEF StoreInit
  <1>2. run \in [Committers -> RunRecords] /\ \A w \in Committers : run[w] = Resting
    BY RestingTyped DEF StoreInit, CommitInit
  <1>3. gc \in [Collectors -> GcRecords]
    BY NoGcTyped DEF StoreInit, GcInit
  <1>4. Resting.todo = {} /\ DOMAIN Resting.scan = {}
    BY DEF Resting, NoScan
  <1>5. QED
    BY <1>1, <1>2, <1>3, <1>4 DEF StoreInv, StoreInit

LEMMA StoreInvStep == StoreInv /\ [StoreNext]_storeVars => StoreInv' /\ Evolves
  <1> SUFFICES ASSUME StoreInv, [StoreNext]_storeVars
               PROVE  StoreInv' /\ Evolves
    OBVIOUS
  <1>1. CASE UNCHANGED storeVars
    <2>1. UNCHANGED <<metaVars, prune, run, gc, cas>>
      BY <1>1 DEF storeVars, pruneVars, snapshotVars
    <2>2. IInv' /\ Evolves
      BY <2>1, UnchangedInv DEF StoreInv, PruneInv
    <2>3. QED
      BY <2>1, <2>2, MetaMovesInv DEF StoreInv
  <1>2. QED
    BY <1>1, CommitProgressInv, GcProgressInv, PruneRunsInv, RefProgressInv DEF StoreNext

\* Whatever commits, collections, prunes and ref calls interleave, without
\* any exclusion between them, the metadata stay whole and every prune in
\* flight remembers what is still so (the transactions of storage-sqlite).
THEOREM StoreInvCorrect == StoreSpec => []StoreInv
  <1>1. StoreInv /\ [StoreNext]_storeVars => StoreInv'
    BY StoreInvStep
  <1>2. QED
    BY StoreInvInit, <1>1, PTL DEF StoreSpec

-----------------------------------------------------------------------------
(* Who excludes whom.                                                     *)

\* A caller that goes on was in its call.
LEMMA StepInCall ==
  ASSUME StoreInv
  PROVE  /\ \A w \in Committers : CommitStep(w) => Committing(w)
         /\ \A g \in Collectors : GcStep(g) /\ Collecting(g)' => Collecting(g)
  <1>1. ASSUME NEW w \in Committers, CommitStep(w)
        PROVE  Committing(w)
    BY <1>1 DEF CommitStep, LookupBase, ReadState, StageBlob, RecordCommit, CommitRefused, Staged,
                CommitDies, Committing
  <1>2. ASSUME NEW g \in Collectors, GcStep(g), Collecting(g)'
        PROVE  Collecting(g)
    <2>1. CASE GcFinish(g) \/ GcDies(g)
      BY <1>2, <2>1, GcStopMoves DEF GcMoves, Collecting
    <2>2. CASE gc[g].at = "visiting" \/ gc[g].at = "removing"
      BY <2>2 DEF Collecting
    <2>3. QED
      BY <1>2, <2>1, <2>2 DEF GcStep, GcVisit, GcScanBlobs, GcRemove
  <1>3. QED
    BY <1>1, <1>2

\* The steps of one caller leave the others' memory alone.
LEMMA OthersStay ==
  ASSUME StoreInv
  PROVE  /\ \A w \in Committers : CommitProgress(w) =>
              gc' = gc /\ prune' = prune /\ \A v \in Committers \ {w} : run'[v] = run[v]
         /\ \A g \in Collectors : GcProgress(g) =>
              run' = run /\ prune' = prune /\ \A h \in Collectors \ {g} : gc'[h] = gc[h]
         /\ \A p \in Pruners : PruneProgress(p) =>
              run' = run /\ gc' = gc /\ \A q \in Pruners \ {p} : prune'[q] = prune[q]
  <1>1. ASSUME NEW w \in Committers, CommitProgress(w)
        PROVE  gc' = gc /\ prune' = prune /\ \A v \in Committers \ {w} : run'[v] = run[v]
    BY <1>1 DEF CommitProgress, CommitCall, CommitStep, ReadActive, LookupBase, ReadState, StageBlob,
                RecordCommit, CommitRefused, CommitDies, Advance, StoreInv
  <1>2. ASSUME NEW g \in Collectors, GcProgress(g)
        PROVE  run' = run /\ prune' = prune /\ \A h \in Collectors \ {g} : gc'[h] = gc[h]
    BY <1>2 DEF GcProgress, GcCall, GcStep, GcPlan, GcApply, GcVisit, GcScanBlobs, GcRemove,
                GcFinish, GcDies, Continue, StoreInv
  <1>3. ASSUME NEW p \in Pruners, PruneProgress(p)
        PROVE  run' = run /\ gc' = gc /\ \A q \in Pruners \ {p} : prune'[q] = prune[q]
    BY <1>3 DEF PruneProgress, PruneCall, PruneStep, Select, StartApply, ListCommits, Plan,
                LoadAncestry, CheckRetire, FoldStep, Finish, Abandon, GiveUp, Goto, StoreInv,
                PruneInv
  <1>4. QED
    BY <1>1, <1>2, <1>3

LEMMA ApartStep ==
  ASSUME {"commit", "gc"} \notin Overlap, StoreInv, Apart, [StoreNext]_storeVars
  PROVE  Apart'
  <1>1. ASSUME NEW w \in Committers, CommitProgress(w)
        PROVE  Apart'
    <2>1. CASE MayCall("commit", {w})
      <3>1. Collectors \ {w} = Collectors
        BY CallersAssumption
      <3>2. \A g \in Collectors : ~ Collecting(g)
        BY <2>1, <3>1 DEF MayCall
      <3>3. QED
        BY <1>1, <3>2, OthersStay DEF Apart, Collecting
    <2>2. CASE CommitStep(w)
      BY <1>1, <2>2, StepInCall, OthersStay DEF Apart, Collecting, Committing
    <2>3. QED
      BY <1>1, <2>1, <2>2 DEF CommitProgress
  <1>2. ASSUME NEW g \in Collectors, GcProgress(g)
        PROVE  Apart'
    <2>1. CASE MayCall("gc", {g})
      <3>1. Committers \ {g} = Committers
        BY CallersAssumption
      <3>2. {"gc", "commit"} \notin Overlap
        <4>1. {"gc", "commit"} = {"commit", "gc"}
          OBVIOUS
        <4>2. QED
          BY <4>1
      <3>3. \A w \in Committers : ~ Committing(w)
        BY <2>1, <3>1, <3>2 DEF MayCall
      <3>4. QED
        BY <1>2, <3>3, OthersStay DEF Apart, Committing
    <2>2. CASE GcStep(g)
      BY <1>2, <2>2, StepInCall, OthersStay DEF Apart, Collecting, Committing
    <2>3. QED
      BY <1>2, <2>1, <2>2 DEF GcProgress
  <1>3. CASE UNCHANGED <<run, gc>>
    BY <1>3 DEF Apart, Collecting, Committing
  <1>4. QED
    BY <1>1, <1>2, <1>3 DEF StoreNext, PruneProgress, RefProgress, storeVars

-----------------------------------------------------------------------------
(* The rows under a scan.                                                 *)

\* A fold leaves the rows it does not move, and moves a row to a newer
\* stored commit.
LEMMA FoldRunsRows ==
  ASSUME IInv, NEW from, NEW into, FoldRuns(from, into), NEW r \in chunkHistory'
  PROVE  \/ r \in chunkHistory
         \/ \E o \in chunkHistory :
              /\ r.blob = o.blob /\ o.commit = from /\ r.commit = into
              /\ from \in commits /\ into \in commits /\ seq[from] < seq[into]
  <1>1. CASE from \notin commits
    <2>1. chunkHistory' = chunkHistory
      BY <1>1, FoldAbsent DEF FoldRuns, metaVars
    <2>2. QED
      BY <2>1
  <1>2. CASE from \in commits
    BY <1>2 DEF FoldRuns, Fold, CanMove, Restamped, RowsOf, RowAt
  <1>3. QED
    BY <1>1, <1>2

LEMMA FoldRunsReferenced ==
  ASSUME IInv, NEW from, NEW into, FoldRuns(from, into)
  PROVE  Referenced' \subseteq Referenced
  BY FoldRunsRows DEF Referenced

\* What a prune does to the metadata is folds that run.
LEMMA PruneFolds ==
  ASSUME StoreInv, NEW p \in Pruners, PruneProgress(p)
  PROVE  \/ UNCHANGED metaVars
         \/ \E from, into : FoldRuns(from, into)
  <1>1. CASE FoldStep(p) /\ ~ GiveUp(p)
    BY <1>1, FoldStepRuns DEF StoreInv
  <1>2. CASE GiveUp(p) \/ ~ FoldStep(p)
    BY <1>2 DEF PruneProgress, PruneCall, PruneStep, Select, StartApply, ListCommits, Plan,
                LoadAncestry, CheckRetire, Finish, Abandon, GiveUp, snapshotVars
  <1>3. QED
    BY <1>1, <1>2

\* A visit of a commit sees the rows of its own: they are its newest.
LEMMA OwnRowPresent ==
  ASSUME IInv, NEW r \in chunkHistory, r.blob # Tombstone
  PROVE  r.blob \in Present(r.commit, r.coord) /\ r.coord \in Coords
  <1> USE DEF IInv
  <1>1. /\ r.commit \in commits /\ r.commit \in CommitIds /\ r.coord \in Coords
        /\ r.seq = seq[r.commit]
    BY DEF RowsBelong, TypeOK, Row
  <1>2. r \in Visible(r.commit, r.coord)
    BY <1>1, AncestorsReflexive DEF Visible
  <1>3. ASSUME NEW q \in Visible(r.commit, r.coord)
        PROVE  q.seq <= r.seq
    <2>1. q \in chunkHistory /\ q.commit \in Ancestors(r.commit)
      BY DEF Visible
    <2>2. q.seq = seq[q.commit] /\ seq[q.commit] \in Nat /\ seq[r.commit] \in Nat
      BY <1>1, <2>1 DEF RowsBelong, TypeOK, Row
    <2>3. q.commit = r.commit \/ seq[q.commit] < seq[r.commit]
      BY <1>1, <2>1, AncestorsOlder
    <2>4. QED
      BY <1>1, <2>2, <2>3
  <1>4. r \in Effective(r.commit, r.coord)
    BY <1>2, <1>3 DEF Effective
  <1>5. QED
    BY <1>1, <1>4 DEF Present

\* A scan under a step that records nothing: rows move ahead of it only.
LEMMA ScanUnderFold ==
  ASSUME StoreInv, IInv', Evolves, NEW from, NEW into, FoldRuns(from, into), gc' = gc,
         NEW g \in Collectors, ScanAhead(g), RowsSeen(g), PlanUnreferenced(g)
  PROVE  ScanAhead(g)' /\ RowsSeen(g)' /\ PlanUnreferenced(g)'
  <1>1. commits' \subseteq commits
    <2>1. commits' \subseteq assigned' /\ assigned' = assigned
      BY DEF IInv, HashedEdges, FoldRuns, Fold
    <2>2. QED
      BY <2>1 DEF Evolves
  <1>2. \A c \in commits' : seq'[c] = seq[c]
    BY <1>1 DEF Evolves
  <1>3. ScanAhead(g)'
    BY <1>1, <1>2 DEF ScanAhead
  <1>4. RowsSeen(g)'
    <2>1. ASSUME gc[g].at = "visiting", NEW r \in chunkHistory'
          PROVE  r.blob = Tombstone \/ r.blob \in gc[g].seen \/ r.commit \in DOMAIN gc[g].todo
      <3>1. CASE r \in chunkHistory
        BY <2>1, <3>1 DEF RowsSeen
      <3>2. ASSUME NEW o \in chunkHistory, r.blob = o.blob, o.commit = from, r.commit = into,
                   from \in commits, into \in commits, seq[from] < seq[into],
                   o.commit \in DOMAIN gc[g].todo
            PROVE  r.commit \in DOMAIN gc[g].todo
        <4>1. seq[from] \in Nat /\ seq[into] \in Nat
          BY <3>2 DEF StoreInv, PruneInv, IInv, TypeOK, commits
        <4>2. QED
          BY <2>1, <3>2, <4>1 DEF ScanAhead
      <3>3. QED
        BY <2>1, <3>1, <3>2, FoldRunsRows DEF RowsSeen, StoreInv, PruneInv
    <2>2. QED
      BY <2>1 DEF RowsSeen
  <1>5. PlanUnreferenced(g)'
    BY FoldRunsReferenced DEF PlanUnreferenced, StoreInv, PruneInv
  <1>6. QED
    BY <1>3, <1>4, <1>5

LEMMA ScanUnchanged ==
  ASSUME UNCHANGED <<seq, chunkHistory>>, NEW g, gc'[g] = gc[g],
         ScanAhead(g), RowsSeen(g), PlanUnreferenced(g)
  PROVE  ScanAhead(g)' /\ RowsSeen(g)' /\ PlanUnreferenced(g)'
  BY DEF ScanAhead, RowsSeen, PlanUnreferenced, commits, Referenced

\* The scan itself.
LEMMA ScanStarts ==
  ASSUME IInv, NEW g \in Collectors, UNCHANGED <<seq, chunkHistory>>,
         gc'[g].at = "visiting", gc'[g].todo = CommitRows
  PROVE  ScanAhead(g)' /\ RowsSeen(g)' /\ PlanUnreferenced(g)'
  <1>1. DOMAIN CommitRows = commits /\ \A c \in commits : CommitRows[c] = seq[c]
    BY DEF CommitRows
  <1>2. commits' = commits
    BY DEF commits
  <1>3. QED
    BY <1>1, <1>2 DEF ScanAhead, RowsSeen, PlanUnreferenced, IInv, RowsBelong

LEMMA ScanVisits ==
  ASSUME StoreInv, NEW g \in Collectors, GcVisit(g), ScanAhead(g), RowsSeen(g)
  PROVE  ScanAhead(g)' /\ RowsSeen(g)' /\ PlanUnreferenced(g)'
  <1>1. PICK c \in DOMAIN gc[g].todo : \E r :
           /\ GcMoves(g, r)
           /\ \A d \in DOMAIN gc[g].todo : gc[g].todo[c] <= gc[g].todo[d]
           /\ r.at = "visiting" /\ gc[g].at = "visiting"
           /\ r.todo = [d \in DOMAIN gc[g].todo \ {c} |-> gc[g].todo[d]]
           /\ r.seen = gc[g].seen \cup UNION {Present(c, k) : k \in Coords}
    BY GcVisitMoves
  <1>2. /\ \A d \in DOMAIN gc[g].todo : gc[g].todo[c] <= gc[g].todo[d]
        /\ gc'[g].at = "visiting" /\ gc[g].at = "visiting"
        /\ gc'[g].todo = [d \in DOMAIN gc[g].todo \ {c} |-> gc[g].todo[d]]
        /\ gc'[g].seen = gc[g].seen \cup UNION {Present(c, k) : k \in Coords}
    BY <1>1 DEF GcMoves
  <1>3. UNCHANGED <<seq, chunkHistory>> /\ commits' = commits
    BY DEF GcVisit, snapshotVars, metaVars, commits
  <1>4. /\ DOMAIN gc'[g].todo = DOMAIN gc[g].todo \ {c}
        /\ \A d \in DOMAIN gc'[g].todo : gc'[g].todo[d] = gc[g].todo[d]
    BY <1>2
  <1>5. ScanAhead(g)'
    <2>1. ASSUME NEW e \in DOMAIN gc'[g].todo \cap commits, NEW d \in commits, seq[d] > seq[e]
          PROVE  d \in DOMAIN gc'[g].todo
      <3>1. e \in DOMAIN gc[g].todo /\ d \in DOMAIN gc[g].todo /\ gc[g].todo[e] = seq[e]
        BY <1>2, <1>4, <2>1 DEF ScanAhead
      <3>2. d # c
        <4>1. SUFFICES ASSUME d = c PROVE FALSE
          OBVIOUS
        <4>2. gc[g].todo[c] = seq[d] /\ gc[g].todo[c] <= gc[g].todo[e]
          BY <1>2, <3>1, <4>1 DEF ScanAhead
        <4>3. seq[d] \in Nat /\ seq[e] \in Nat
          BY DEF StoreInv, PruneInv, IInv, TypeOK, commits
        <4>4. QED
          BY <2>1, <3>1, <4>2, <4>3
      <3>3. QED
        BY <1>4, <3>1, <3>2
    <2>2. QED
      BY <1>2, <1>3, <1>4, <2>1 DEF ScanAhead
  <1>6. RowsSeen(g)'
    <2>1. ASSUME NEW r \in chunkHistory, r.blob # Tombstone, r.commit \notin DOMAIN gc'[g].todo
          PROVE  r.blob \in gc'[g].seen
      <3>1. CASE r.commit = c
        BY <1>2, <2>1, <3>1, OwnRowPresent DEF StoreInv, PruneInv
      <3>2. CASE r.commit # c
        BY <1>2, <1>4, <2>1, <3>2 DEF RowsSeen
      <3>3. QED
        BY <3>1, <3>2
    <2>2. QED
      BY <1>3, <2>1 DEF RowsSeen
  <1>7. QED
    BY <1>2, <1>5, <1>6 DEF PlanUnreferenced

\* The second scan ends: what it found orphaned, no row names.
LEMMA ScanEnds ==
  ASSUME StoreInv, NEW g \in Collectors, GcScanBlobs(g), RowsSeen(g)
  PROVE  ScanAhead(g)' /\ RowsSeen(g)' /\ PlanUnreferenced(g)'
  <1>1. PICK r : /\ GcMoves(g, r)
                 /\ gc[g].at = "visiting" /\ gc[g].todo = NoRows
                 /\ \/ r.at = "removing" /\ r.plan = gc[g].plan \cap (cas \ gc[g].seen)
                    \/ r.at = "planned"
    BY GcScanBlobsMoves
  <1>2. Referenced' = Referenced
    BY DEF GcScanBlobs, snapshotVars, metaVars, Referenced
  <1>3. Referenced \subseteq gc[g].seen
    BY <1>1 DEF RowsSeen, Referenced, NoRows
  <1>4. gc'[g] = r
    BY <1>1 DEF GcMoves
  <1>5. QED
    BY <1>1, <1>2, <1>3, <1>4 DEF ScanAhead, RowsSeen, PlanUnreferenced

-----------------------------------------------------------------------------
(* Nothing is lost, step by step.                                         *)

\* Nobody removes while somebody commits, so what is staged stays stored.
LEMMA OthersStaged ==
  ASSUME StoreInv, StagedStored, cas \subseteq cas', NEW v \in Committers, run'[v] = run[v],
         run'[v].at = "staging", NEW k \in DOMAIN run'[v].scan \ run'[v].todo
  PROVE  run'[v].scan[k] \in cas'
  BY DEF StagedStored

LEMMA ReadsKeep ==
  ASSUME StoreInv, KeepInv, Apart', NEW w \in Committers, NEW r, RunMoves(w, r),
         r.at = "staging" => r.todo = DOMAIN r.scan, UNCHANGED <<seq, chunkHistory, gc, cas>>
  PROVE  KeepInv'
  <1>1. StagedStored'
    BY OthersStaged DEF StagedStored, KeepInv, RunMoves
  <1>2. ASSUME NEW g \in Collectors
        PROVE  ScanAhead(g)' /\ RowsSeen(g)' /\ PlanUnreferenced(g)'
    BY ScanUnchanged DEF KeepInv
  <1>3. NoDangling'
    BY DEF KeepInv, NoDangling, Referenced
  <1>4. QED
    BY <1>1, <1>2, <1>3 DEF KeepInv

LEMMA StageBlobKeeps ==
  ASSUME StoreInv, KeepInv, Apart', NEW w \in Committers, NEW k, StageBlob(w, k), gc' = gc
  PROVE  KeepInv'
  <1>1. /\ cas' = cas \cup {run[w].scan[k]} /\ UNCHANGED <<seq, chunkHistory>>
        /\ run[w].at = "staging"
    BY DEF StageBlob, PutBlob, snapshotVars, metaVars
  <1> DEFINE r == [run[w] EXCEPT !.todo = run[w].todo \ {k}]
  <1>2. RunMoves(w, r)
    BY StageBlobMoves
  <1>3. run[w] \in RunRecords
    BY DEF StoreInv
  <1>4. r.todo = run[w].todo \ {k} /\ r.scan = run[w].scan
    BY <1>3 DEF RunRecords
  <1> HIDE DEF r
  <1>5. /\ run'[w].todo = run[w].todo \ {k} /\ run'[w].scan = run[w].scan
        /\ \A v \in Committers \ {w} : run'[v] = run[v]
    BY <1>2, <1>4 DEF RunMoves
  <1>6. StagedStored'
    BY <1>1, <1>5, OthersStaged DEF StagedStored, KeepInv
  <1>7. ASSUME NEW g \in Collectors
        PROVE  ScanAhead(g)' /\ RowsSeen(g)' /\ PlanUnreferenced(g)'
    BY <1>1, ScanUnchanged DEF KeepInv
  <1>8. NoDangling'
    BY <1>1 DEF KeepInv, NoDangling, Referenced
  <1>9. QED
    BY <1>6, <1>7, <1>8 DEF KeepInv

LEMMA RecordCommitKeeps ==
  ASSUME StoreInv, KeepInv, Apart', NEW w \in Committers, NEW c \in CommitIds, RecordCommit(w, c),
         gc' = gc
  PROVE  KeepInv'
  <1>1. /\ RecordNew(c, ParentsOf(run[w]), Delta(run[w])) /\ RunMoves(w, Resting) /\ cas' = cas
        /\ run[w].at = "staging" /\ run[w].todo = {}
    BY RecordCommitRecords DEF RecordCommit, Staged
  <1>2. StagedStored'
    BY <1>1, OthersStaged DEF StagedStored, KeepInv, RunMoves, Resting
  <1>3. ASSUME NEW g \in Collectors
        PROVE  ScanAhead(g)' /\ RowsSeen(g)' /\ PlanUnreferenced(g)'
    <2>1. gc[g].at # "visiting" /\ gc[g].at # "removing"
      BY <1>1 DEF KeepInv, Apart, Committing, Collecting
    <2>2. QED
      BY <2>1 DEF ScanAhead, RowsSeen, PlanUnreferenced
  <1>4. ASSUME NEW r \in chunkHistory', r.blob # Tombstone
        PROVE  r.blob \in cas
    <2>1. CASE r \in chunkHistory
      BY <1>4, <2>1 DEF KeepInv, NoDangling, Referenced
    <2>2. CASE r \notin chunkHistory
      <3>1. PICK k \in DOMAIN Delta(run[w]) : r.blob = Delta(run[w])[k]
        BY <1>1, <2>2 DEF RecordNew, RowsFor, RowAt
      <3>2. run[w] \in RunRecords /\ DOMAIN run[w].scan \subseteq run[w].scope
        BY DEF StoreInv
      <3>3. k \in DOMAIN run[w].scan /\ r.blob = run[w].scan[k]
        BY <1>4, <3>1, <3>2, DeltaTyped
      <3>4. QED
        BY <1>1, <3>3 DEF KeepInv, StagedStored
    <2>3. QED
      BY <2>1, <2>2
  <1>5. NoDangling'
    BY <1>1, <1>4 DEF NoDangling, Referenced
  <1>6. QED
    BY <1>2, <1>3, <1>5 DEF KeepInv

LEMMA CommitKeeps ==
  ASSUME StoreInv, KeepInv, Apart', NEW w \in Committers, CommitProgress(w)
  PROVE  KeepInv'
  <1>1. gc' = gc
    BY DEF CommitProgress
  <1>2. CASE \E k \in Coords : StageBlob(w, k)
    BY <1>1, <1>2, StageBlobKeeps
  <1>3. CASE \E c \in CommitIds : RecordCommit(w, c)
    BY <1>1, <1>3, RecordCommitKeeps
  <1>4. CASE ReadActive(w)
    <2>1. PICK base \in commits \cup {Unborn} :
            RunMoves(w, [Resting EXCEPT !.at = "active", !.base = base])
      BY <1>4, ReadActiveMoves
    <2>2. [Resting EXCEPT !.at = "active", !.base = base].at = "active"
      BY DEF Resting
    <2>3. QED
      BY <1>1, <1>4, <2>1, <2>2, ReadsKeep DEF ReadActive, snapshotVars, metaVars
  <1>5. CASE LookupBase(w)
    <2>1. PICK base \in commits \cup {Unborn} :
            RunMoves(w, [run[w] EXCEPT !.at = "based", !.base = base])
      BY <1>5, LookupBaseMoves
    <2>2. [run[w] EXCEPT !.at = "based", !.base = base].at = "based"
      BY DEF StoreInv, RunRecords
    <2>3. QED
      BY <1>1, <1>5, <2>1, <2>2, ReadsKeep DEF LookupBase, snapshotVars, metaVars
  <1>6. CASE ReadState(w)
    <2> DEFINE state == IF run[w].base = Unborn THEN NothingPresent ELSE StateOf(run[w].base)
    <2>1. PICK scope \in SUBSET Coords, scan \in ScanSet :
            RunMoves(w, [run[w] EXCEPT !.at = "staging", !.state = state, !.scope = scope,
                                       !.scan = scan, !.todo = DOMAIN scan])
      BY <1>6, ReadStateMoves
    <2> HIDE DEF state
    <2> DEFINE r == [run[w] EXCEPT !.at = "staging", !.state = state, !.scope = scope,
                                   !.scan = scan, !.todo = DOMAIN scan]
    <2>2. run[w] \in RunRecords
      BY DEF StoreInv
    <2>3. r.todo = DOMAIN r.scan
      BY <2>2 DEF RunRecords
    <2>4. RunMoves(w, r)
      BY <2>1
    <2> HIDE DEF r
    <2>5. QED
      BY <1>1, <1>6, <2>3, <2>4, ReadsKeep DEF ReadState, snapshotVars, metaVars
  <1>7. CASE CommitRefused(w) \/ CommitDies(w)
    <2>1. RunMoves(w, Resting) /\ Resting.at = "idle"
      BY <1>7, RestMoves DEF CommitRefused, CommitDies, StoreInv, Resting
    <2>2. UNCHANGED <<seq, chunkHistory, cas>>
      BY <1>7 DEF CommitRefused, CommitDies, snapshotVars, metaVars
    <2>3. QED
      BY <1>1, <2>1, <2>2, ReadsKeep
  <1>8. QED
    BY <1>2, <1>3, <1>4, <1>5, <1>6, <1>7 DEF CommitProgress, CommitCall, CommitStep

LEMMA GcKeeps ==
  ASSUME StoreInv, KeepInv, Apart', NEW g \in Collectors, GcProgress(g)
  PROVE  KeepInv'
  <1>1. UNCHANGED <<metaVars, run>> /\ \A h \in Collectors \ {g} : gc'[h] = gc[h]
    BY OthersStay, GcProgressInv DEF snapshotVars
  <1>2. UNCHANGED <<seq, chunkHistory>>
    BY <1>1 DEF metaVars
  <1>3. ASSUME NEW h \in Collectors \ {g}
        PROVE  ScanAhead(h)' /\ RowsSeen(h)' /\ PlanUnreferenced(h)'
    BY <1>1, <1>2, ScanUnchanged DEF KeepInv
  <1>4. ASSUME ScanAhead(g)' /\ RowsSeen(g)' /\ PlanUnreferenced(g)', cas' = cas
        PROVE  KeepInv'
    BY <1>1, <1>2, <1>3, <1>4 DEF KeepInv, StagedStored, NoDangling, Referenced
  <1>5. CASE GcPlan(g)
    <2>1. gc'[g].at = "visiting" /\ gc'[g].todo = CommitRows
      BY <1>5, GcPlanMoves DEF GcMoves
    <2>2. QED
      BY <1>2, <1>4, <1>5, <2>1, ScanStarts DEF GcPlan, StoreInv, PruneInv
  <1>6. CASE GcApply(g)
    <2>1. gc'[g].at = "visiting" /\ gc'[g].todo = CommitRows
      BY <1>6, GcApplyMoves DEF GcMoves
    <2>2. QED
      BY <1>2, <1>4, <1>6, <2>1, ScanStarts DEF GcApply, StoreInv, PruneInv
  <1>7. CASE GcVisit(g)
    BY <1>4, <1>7, ScanVisits DEF GcVisit, KeepInv
  <1>8. CASE GcScanBlobs(g)
    BY <1>4, <1>8, ScanEnds DEF GcScanBlobs, KeepInv
  <1>9. ASSUME NEW b \in Blobs, GcRemove(g, b)
        PROVE  KeepInv'
    <2>1. /\ gc[g].at = "removing" /\ b \in gc[g].plan /\ cas' = cas \ {b}
          /\ gc'[g].at = "removing" /\ gc'[g].plan = gc[g].plan \ {b}
      BY <1>9, GcRemoveMoves DEF GcMoves
    <2>2. Referenced' = Referenced /\ b \notin Referenced
      BY <1>2, <2>1 DEF Referenced, KeepInv, PlanUnreferenced
    <2>3. \A w \in Committers : run[w].at = "idle"
      BY <2>1 DEF KeepInv, Apart, Committing, Collecting
    <2>4. StagedStored' /\ NoDangling'
      BY <1>1, <2>1, <2>2, <2>3 DEF StagedStored, NoDangling, KeepInv
    <2>5. ScanAhead(g)' /\ RowsSeen(g)' /\ PlanUnreferenced(g)'
      BY <2>1, <2>2 DEF ScanAhead, RowsSeen, PlanUnreferenced, KeepInv
    <2>6. QED
      BY <1>3, <2>4, <2>5 DEF KeepInv
  <1>10. CASE GcFinish(g) \/ GcDies(g)
    <2>1. gc'[g].at = "idle" /\ cas' = cas
      BY <1>10, GcStopMoves DEF GcMoves, GcFinish, GcDies
    <2>2. QED
      BY <1>4, <2>1 DEF ScanAhead, RowsSeen, PlanUnreferenced
  <1>11. QED
    BY <1>5, <1>6, <1>7, <1>8, <1>9, <1>10 DEF GcProgress, GcCall, GcStep

LEMMA PruneKeeps ==
  ASSUME StoreInv, StoreInv', Evolves, KeepInv, NEW p \in Pruners, PruneProgress(p)
  PROVE  KeepInv'
  <1>1. UNCHANGED <<run, gc, cas>>
    BY DEF PruneProgress
  <1>2. Apart' /\ StagedStored'
    BY <1>1 DEF KeepInv, Apart, StagedStored, Committing, Collecting
  <1>3. CASE UNCHANGED metaVars
    BY <1>1, <1>2, <1>3, ScanUnchanged DEF KeepInv, metaVars, NoDangling, Referenced
  <1>4. ASSUME NEW from, NEW into, FoldRuns(from, into)
        PROVE  KeepInv'
    <2>1. \A g \in Collectors : ScanAhead(g)' /\ RowsSeen(g)' /\ PlanUnreferenced(g)'
      BY <1>1, <1>4, ScanUnderFold DEF KeepInv, StoreInv, PruneInv
    <2>2. NoDangling'
      BY <1>1, <1>4, FoldRunsReferenced DEF KeepInv, NoDangling, StoreInv, PruneInv
    <2>3. QED
      BY <1>2, <2>1, <2>2 DEF KeepInv
  <1>5. QED
    BY <1>3, <1>4, PruneFolds

LEMMA RefKeeps ==
  ASSUME StoreInv, KeepInv, UNCHANGED <<seq, chunkHistory, run, gc, cas>>
  PROVE  KeepInv'
  BY ScanUnchanged
  DEF KeepInv, NoDangling, Referenced, Apart, StagedStored, Committing, Collecting

LEMMA KeepInvInit == StoreInit => KeepInv
  BY DEF StoreInit, PruneInit, SnapshotsInit, Init, CommitInit, GcInit, Resting, NoGc, KeepInv,
         Apart, StagedStored, ScanAhead, RowsSeen, PlanUnreferenced, NoDangling, Referenced,
         Committing, Collecting

LEMMA KeepInvStep ==
  ASSUME {"commit", "gc"} \notin Overlap, StoreInv, KeepInv, [StoreNext]_storeVars
  PROVE  KeepInv'
  <1>1. StoreInv' /\ Evolves
    BY StoreInvStep
  <1>2. Apart'
    BY ApartStep DEF KeepInv
  <1>3. CASE RefProgress
    BY <1>3, RefProgressInv, RefCallInv, RefKeeps DEF RefProgress, StoreInv, PruneInv
  <1>4. CASE UNCHANGED storeVars
    BY <1>4, RefKeeps DEF storeVars, pruneVars, snapshotVars, metaVars
  <1>5. QED
    BY <1>1, <1>2, <1>3, <1>4, CommitKeeps, GcKeeps, PruneKeeps DEF StoreNext

\* Every blob a row names stays stored, whatever prunes and ref calls do,
\* if only commits and collections keep out of each other's calls
\* (NoDangling): gc::apply removes what two scans found no row for, and a
\* scan that goes by sequence cannot miss a row that a retirement moves
\* forward.
THEOREM NoDanglingCorrect ==
  ASSUME {"commit", "gc"} \notin Overlap
  PROVE  StoreSpec => []NoDangling
  <1>1. StoreInv /\ KeepInv /\ [StoreNext]_storeVars => KeepInv'
    BY KeepInvStep
  <1>2. KeepInv => NoDangling
    BY DEF KeepInv
  <1>3. QED
    BY <1>1, <1>2, KeepInvInit, StoreInvCorrect, PTL DEF StoreSpec

-----------------------------------------------------------------------------
(* Nothing stays behind, step by step.                                    *)

LEMMA OneCollectorStep ==
  ASSUME {"gc"} \notin Overlap, StoreInv, OneCollector, NEW g \in Collectors, GcProgress(g)
  PROVE  OneCollector'
  <1>1. \A h \in Collectors \ {g} : gc'[h] = gc[h]
    BY OthersStay
  <1>2. CASE MayCall("gc", {g})
    <2>1. {"gc", "gc"} \notin Overlap
      <3>1. {"gc", "gc"} = {"gc"}
        OBVIOUS
      <3>2. QED
        BY <3>1
    <2>2. \A h \in Collectors \ {g} : ~ Collecting(h)
      BY <1>2, <2>1 DEF MayCall
    <2>3. QED
      BY <1>1, <2>2 DEF OneCollector, Collecting
  <1>3. CASE GcStep(g)
    BY <1>1, <1>3, StepInCall DEF OneCollector, Collecting
  <1>4. QED
    BY <1>2, <1>3 DEF GcProgress

\* While a collection runs nobody else stores or removes a blob, and no
\* row appears that names one anew.
LEMMA GarbageStays ==
  ASSUME NEW g \in Collectors, gc'[g] = gc[g], GarbageFound(g),
         Collecting(g) => cas' = cas /\ Referenced' \subseteq Referenced
  PROVE  GarbageFound(g)'
  BY DEF GarbageFound, Collecting

LEMMA PresentReferenced ==
  ASSUME NEW c, NEW k
  PROVE  Present(c, k) \subseteq Referenced
  BY DEF Present, Effective, Visible, Referenced

LEMMA OwnGarbage ==
  ASSUME StoreInv, NEW g \in Collectors, GcProgress(g), GarbageFound(g)
  PROVE  GarbageFound(g)'
  <1>1. Referenced' = Referenced
    BY GcProgressInv DEF Referenced, snapshotVars, metaVars
  <1>2. CASE GcPlan(g)
    <2>1. /\ gc'[g].at = "visiting" /\ gc'[g].again = FALSE /\ gc'[g].seen = {}
          /\ gc'[g].garbage = cas \ Referenced /\ cas' = cas
      BY <1>2, GcPlanMoves DEF GcMoves, GcPlan
    <2>2. QED
      BY <1>1, <2>1 DEF GarbageFound
  <1>3. CASE GcApply(g)
    <2>1. /\ gc'[g].at = "visiting" /\ gc'[g].again = TRUE /\ gc'[g].seen = gc[g].seen
          /\ gc'[g].plan = gc[g].plan /\ gc'[g].garbage = gc[g].garbage \ Referenced
          /\ gc[g].at = "planned"
      BY <1>3, GcApplyMoves DEF GcMoves, GcApply
    <2>2. QED
      BY <1>1, <2>1 DEF GarbageFound
  <1>4. CASE GcVisit(g)
    <2>1. PICK c \in DOMAIN gc[g].todo :
            /\ gc'[g].at = "visiting" /\ gc[g].at = "visiting"
            /\ gc'[g].again = gc[g].again /\ gc'[g].plan = gc[g].plan
            /\ gc'[g].garbage = gc[g].garbage
            /\ gc'[g].seen = gc[g].seen \cup UNION {Present(c, k) : k \in Coords}
      <3>1. PICK c \in DOMAIN gc[g].todo : \E r :
              /\ GcMoves(g, r)
              /\ r.at = "visiting" /\ gc[g].at = "visiting" /\ r.again = gc[g].again
              /\ r.seen = gc[g].seen \cup UNION {Present(c, k) : k \in Coords}
              /\ r.plan = gc[g].plan /\ r.garbage = gc[g].garbage
        BY <1>4, GcVisitMoves
      <3>2. QED
        BY <3>1 DEF GcMoves
    <2>2. gc'[g].seen \subseteq gc[g].seen \cup Referenced
      BY <2>1, PresentReferenced
    <2>3. gc'[g].seen \cap gc'[g].garbage = {} /\ Referenced' \cap gc'[g].garbage = {}
      BY <1>1, <2>1, <2>2 DEF GarbageFound
    <2>4. cas' = cas
      BY <1>4 DEF GcVisit
    <2>5. QED
      BY <2>1, <2>3, <2>4 DEF GarbageFound
  <1>5. CASE GcScanBlobs(g)
    <2>1. /\ gc[g].at = "visiting" /\ gc'[g].seen = {} /\ gc'[g].garbage = gc[g].garbage
          /\ \/ /\ gc[g].again /\ gc'[g].at = "removing"
                /\ gc'[g].plan = gc[g].plan \cap (cas \ gc[g].seen)
             \/ /\ ~ gc[g].again /\ gc'[g].at = "planned" /\ gc'[g].plan = cas \ gc[g].seen
          /\ cas' = cas
      BY <1>5, GcScanBlobsMoves DEF GcMoves, GcScanBlobs
    <2>2. CASE gc[g].again
      BY <2>1, <2>2 DEF GarbageFound
    <2>3. CASE ~ gc[g].again
      BY <2>1, <2>3 DEF GarbageFound
    <2>4. QED
      BY <2>2, <2>3
  <1>6. ASSUME NEW b \in Blobs, GcRemove(g, b)
        PROVE  GarbageFound(g)'
    <2>1. /\ gc[g].at = "removing" /\ cas' = cas \ {b}
          /\ gc'[g].at = "removing" /\ gc'[g].plan = gc[g].plan \ {b}
          /\ gc'[g].garbage = gc[g].garbage
      BY <1>6, GcRemoveMoves DEF GcMoves
    <2>2. QED
      BY <2>1 DEF GarbageFound
  <1>7. CASE GcFinish(g) \/ GcDies(g)
    <2>1. gc'[g].at = "idle"
      BY <1>7, GcStopMoves DEF GcMoves
    <2>2. QED
      BY <2>1 DEF GarbageFound
  <1>8. QED
    BY <1>2, <1>3, <1>4, <1>5, <1>6, <1>7 DEF GcProgress, GcCall, GcStep

LEMMA SweepStep ==
  ASSUME {"commit", "gc"} \notin Overlap, {"gc"} \notin Overlap,
         StoreInv, SweepInv, [StoreNext]_storeVars
  PROVE  SweepInv'
  <1>1. Apart'
    BY ApartStep DEF SweepInv
  <1>2. ASSUME NEW w \in Committers, CommitProgress(w)
        PROVE  SweepInv'
    <2>1. gc' = gc
      BY <1>2 DEF CommitProgress
    <2>2. ASSUME NEW g \in Collectors, Collecting(g)
          PROVE  cas' = cas /\ Referenced' \subseteq Referenced
      <3>1. ~ CommitStep(w)
        BY <2>2, StepInCall DEF SweepInv, Apart
      <3>2. QED
        BY <1>2, <3>1 DEF CommitProgress, CommitCall, ReadActive, snapshotVars, metaVars, Referenced
    <2>3. QED
      BY <1>1, <2>1, <2>2, GarbageStays DEF SweepInv, OneCollector, Collecting
  <1>3. ASSUME NEW g \in Collectors, GcProgress(g)
        PROVE  SweepInv'
    <2>1. Referenced' = Referenced /\ \A h \in Collectors \ {g} : gc'[h] = gc[h]
      BY <1>3, OthersStay, GcProgressInv DEF Referenced, snapshotVars, metaVars
    <2>2. ASSUME NEW h \in Collectors \ {g}, Collecting(h)
          PROVE  cas' = cas
      <3>1. \A b \in Blobs : ~ GcRemove(g, b)
        BY <2>2 DEF SweepInv, OneCollector, GcRemove, Collecting
      <3>2. QED
        BY <1>3, <3>1 DEF GcProgress, GcCall, GcStep, GcPlan, GcApply, GcVisit, GcScanBlobs,
                          GcFinish, GcDies
    <2>3. \A h \in Collectors \ {g} : GarbageFound(h)'
      BY <2>1, <2>2, GarbageStays DEF SweepInv
    <2>4. GarbageFound(g)' /\ OneCollector'
      BY <1>3, OwnGarbage, OneCollectorStep DEF SweepInv
    <2>5. QED
      BY <1>1, <2>3, <2>4 DEF SweepInv
  <1>4. ASSUME UNCHANGED <<gc, cas>>, Referenced' \subseteq Referenced
        PROVE  SweepInv'
    BY <1>1, <1>4, GarbageStays DEF SweepInv, OneCollector, Collecting
  <1>5. ASSUME NEW p \in Pruners, PruneProgress(p)
        PROVE  SweepInv'
    <2>1. Referenced' \subseteq Referenced
      BY <1>5, PruneFolds, FoldRunsReferenced DEF Referenced, metaVars, StoreInv, PruneInv
    <2>2. QED
      BY <1>4, <1>5, <2>1 DEF PruneProgress
  <1>6. CASE RefProgress
    BY <1>4, <1>6, RefCallInv DEF RefProgress, Referenced, StoreInv, PruneInv
  <1>7. CASE UNCHANGED storeVars
    BY <1>4, <1>7 DEF storeVars, pruneVars, snapshotVars, metaVars, Referenced
  <1>8. QED
    BY <1>2, <1>3, <1>5, <1>6, <1>7 DEF StoreNext

LEMMA SweepInvInit == StoreInit => SweepInv
  BY DEF StoreInit, CommitInit, GcInit, Resting, NoGc, SweepInv, Apart, OneCollector, GarbageFound,
         Committing, Collecting

\* A collection that ends leaves nothing of what was garbage when it began
\* (CollectionComplete), if no commit and no other collection falls into
\* its calls: core::usecase::gc removes what both of its scans found
\* orphaned, and a prune beside it takes row names away but adds none.
THEOREM CollectionCompleteCorrect ==
  ASSUME {"commit", "gc"} \notin Overlap, {"gc"} \notin Overlap
  PROVE  StoreSpec => CollectionComplete
  <1>1. StoreInv /\ SweepInv /\ [StoreNext]_storeVars => SweepInv'
    BY SweepStep
  <1>2. SweepInv /\ [StoreNext]_storeVars
          => [\A g \in Collectors : GcFinish(g) => gc[g].garbage \cap cas \subseteq Referenced]_storeVars
    <2>1. ASSUME SweepInv, NEW g \in Collectors, GcFinish(g)
          PROVE  gc[g].garbage \cap cas \subseteq Referenced
      BY <2>1 DEF SweepInv, GarbageFound, GcFinish
    <2>2. QED
      BY <2>1
  <1>3. QED
    BY <1>1, <1>2, SweepInvInit, StoreInvCorrect, PTL DEF StoreSpec, CollectionComplete

-----------------------------------------------------------------------------
(* A commit is its scan over its base, step by step.                      *)

LEMMA PruneInCall ==
  ASSUME StoreInv, NEW p \in Pruners, PruneStep(p), InCall(p)'
  PROVE  InCall(p)
  <1>1. CASE GiveUp(p) \/ Finish(p) \/ Abandon(p)
    <2>1. prune'[p].at \in {"idle", "planned"}
      <3>1. Idle.at = "idle" /\ Planned(prune[p]).at = "planned"
        BY DEF Idle, Planned
      <3>2. QED
        BY <1>1, <3>1 DEF GiveUp, Finish, Abandon, Goto, StoreInv, PruneInv
    <2>2. QED
      BY <2>1 DEF InCall, Applying
  <1>2. CASE ~ (Finish(p) \/ Abandon(p))
    BY <1>2 DEF PruneStep, ListCommits, Plan, LoadAncestry, CheckRetire, FoldStep, InCall, Applying
  <1>3. QED
    BY <1>1, <1>2

LEMMA BasesStayStep ==
  ASSUME {"commit", "prune"} \notin Overlap, StoreInv, BasesStay, [StoreNext]_storeVars
  PROVE  BasesStay'
  <1>1. ASSUME NEW w \in Committers, CommitProgress(w)
        PROVE  BasesStay'
    <2>1. CASE MayCall("commit", {w})
      <3>1. Pruners \ {w} = Pruners
        BY CallersAssumption
      <3>2. \A p \in Pruners : ~ InCall(p)
        BY <2>1, <3>1 DEF MayCall
      <3>3. QED
        BY <1>1, <3>2, OthersStay DEF BasesStay, InCall, Applying
    <2>2. CASE CommitStep(w)
      BY <1>1, <2>2, StepInCall, OthersStay DEF BasesStay, InCall, Applying, Committing
    <2>3. QED
      BY <1>1, <2>1, <2>2 DEF CommitProgress
  <1>2. ASSUME NEW p \in Pruners, PruneProgress(p)
        PROVE  BasesStay'
    <2>1. CASE MayCall("prune", {p})
      <3>1. Committers \ {p} = Committers
        BY CallersAssumption
      <3>2. {"prune", "commit"} \notin Overlap
        <4>1. {"prune", "commit"} = {"commit", "prune"}
          OBVIOUS
        <4>2. QED
          BY <4>1
      <3>3. \A w \in Committers : ~ Committing(w)
        BY <2>1, <3>1, <3>2 DEF MayCall
      <3>4. QED
        BY <1>2, <3>3, OthersStay DEF BasesStay, Committing
    <2>2. CASE PruneStep(p)
      BY <1>2, <2>2, PruneInCall, OthersStay DEF BasesStay, InCall, Applying, Committing
    <2>3. QED
      BY <1>2, <2>1, <2>2 DEF PruneProgress
  <1>3. CASE UNCHANGED <<run, prune>>
    BY <1>3 DEF BasesStay, InCall, Applying, Committing
  <1>4. QED
    BY <1>1, <1>2, <1>3 DEF StoreNext, GcProgress, RefProgress, storeVars, pruneVars

\* Whoever else moves, the base that a run has read stays as it was read.
LEMMA ReadStays ==
  ASSUME StoreInv, StoreInv', Evolves, BaseRead, NEW w \in Committers, run'[w] = run[w],
         \A c \in commits \cap commits' : run[w].at = "staging" => StateOf(c)' = StateOf(c)
  PROVE  BaseReadBy(w)'
  <1> DEFINE base == run[w].base
  <1>1. /\ base \in assigned \cup {Unborn}
        /\ run[w].at = "staging" /\ base \in commits => run[w].state = StateOf(base)
        /\ run[w].at = "staging" /\ base = Unborn => run[w].state = NothingPresent
    BY DEF BaseRead, BaseReadBy
  <1>2. assigned \subseteq assigned' /\ commits' \cap assigned \subseteq commits
    BY DEF Evolves
  <1>3. Unborn \notin commits'
    BY ConstantsAssumption DEF commits
  <1>4. QED
    BY <1>1, <1>2, <1>3 DEF BaseReadBy

LEMMA RecordKeepsStates ==
  ASSUME IInv, NEW c \in CommitIds, NEW ps \in ParentSets, NEW es, RecordNew(c, ps, es),
         NEW d \in commits
  PROVE  StateOf(d)' = StateOf(d)
  <1>1. ps \in SUBSET CommitIds
    BY DEF ParentSets, commits
  <1>2. \A r \in RowsFor(c, nextSeq, es) : r.commit = c
    BY DEF RowsFor, RowAt
  <1>3. \A k \in Coords : Present(d, k)' = Present(d, k)
    BY <1>1, <1>2, InvPort, RecordStable DEF RecordNew
  <1>4. QED
    BY <1>3, SamePresentSameState

LEMMA OwnRead ==
  ASSUME StoreInv, BaseRead, NEW w \in Committers, CommitProgress(w)
  PROVE  /\ run'[w].base \in assigned \cup {Unborn}
         /\ run'[w].at = "staging" /\ run'[w].base \in commits =>
              run'[w].state = StateOf(run'[w].base)
         /\ run'[w].at = "staging" /\ run'[w].base = Unborn => run'[w].state = NothingPresent
  <1>1. commits \subseteq assigned
    BY DEF StoreInv, PruneInv, IInv, HashedEdges
  <1>2. run[w] \in RunRecords /\ Unborn \notin commits
    BY ConstantsAssumption DEF StoreInv, commits
  <1>3. CASE ReadActive(w)
    <2>1. PICK base \in commits \cup {Unborn} :
            RunMoves(w, [Resting EXCEPT !.at = "active", !.base = base])
      BY <1>3, ReadActiveMoves
    <2>2. /\ [Resting EXCEPT !.at = "active", !.base = base].at = "active"
          /\ [Resting EXCEPT !.at = "active", !.base = base].base = base
      BY DEF Resting
    <2>3. QED
      BY <1>1, <2>1, <2>2 DEF RunMoves
  <1>4. CASE LookupBase(w)
    <2>1. PICK base \in commits \cup {Unborn} :
            RunMoves(w, [run[w] EXCEPT !.at = "based", !.base = base])
      BY <1>4, LookupBaseMoves
    <2>2. /\ [run[w] EXCEPT !.at = "based", !.base = base].at = "based"
          /\ [run[w] EXCEPT !.at = "based", !.base = base].base = base
      BY <1>2 DEF RunRecords
    <2>3. QED
      BY <1>1, <2>1, <2>2 DEF RunMoves
  <1>5. CASE ReadState(w)
    <2> DEFINE state == IF run[w].base = Unborn THEN NothingPresent ELSE StateOf(run[w].base)
    <2>1. PICK scope \in SUBSET Coords, scan \in ScanSet :
            RunMoves(w, [run[w] EXCEPT !.at = "staging", !.state = state, !.scope = scope,
                                       !.scan = scan, !.todo = DOMAIN scan])
      BY <1>5, ReadStateMoves
    <2> HIDE DEF state
    <2> DEFINE r == [run[w] EXCEPT !.at = "staging", !.state = state, !.scope = scope,
                                   !.scan = scan, !.todo = DOMAIN scan]
    <2>2. r.base = run[w].base /\ r.state = state
      BY <1>2 DEF RunRecords
    <2>3. run'[w] = r
      BY <2>1 DEF RunMoves
    <2> HIDE DEF r
    <2>4. run[w].base \in assigned \cup {Unborn}
      BY DEF BaseRead, BaseReadBy
    <2>5. QED
      BY <1>2, <2>2, <2>3, <2>4 DEF state
  <1>6. ASSUME NEW k \in Coords, StageBlob(w, k)
        PROVE  /\ run'[w].base = run[w].base /\ run'[w].state = run[w].state
               /\ run'[w].at = run[w].at
    <2> DEFINE r == [run[w] EXCEPT !.todo = run[w].todo \ {k}]
    <2>1. run'[w] = r
      BY <1>6, StageBlobMoves DEF RunMoves
    <2>2. r.base = run[w].base /\ r.state = run[w].state /\ r.at = run[w].at
      BY <1>2 DEF RunRecords
    <2>3. QED
      BY <2>1, <2>2
  <1>7. CASE Advance(w, Resting)
    <2>1. run'[w] = Resting /\ Resting.at = "idle" /\ Resting.base = Unborn
      BY <1>7, RestMoves DEF StoreInv, RunMoves, Resting
    <2>2. QED
      BY <2>1
  <1>8. QED
    BY <1>3, <1>4, <1>5, <1>6, <1>7
    DEF BaseRead, BaseReadBy, CommitProgress, CommitCall, CommitStep, RecordCommit, CommitRefused, CommitDies

\* No other step changes what a commit that a run is based on presents.
LEMMA StatesStay ==
  ASSUME StoreInv, BasesStay, [StoreNext]_storeVars, NEW c \in commits \cap commits',
         \E v \in Committers : Committing(v)
  PROVE  StateOf(c)' = StateOf(c)
  <1>1. ASSUME NEW w \in Committers, CommitProgress(w)
        PROVE  StateOf(c)' = StateOf(c)
    <2>1. ASSUME NEW d \in CommitIds, RecordCommit(w, d)
          PROVE  StateOf(c)' = StateOf(c)
      BY <2>1, RecordCommitRecords, RecordKeepsStates DEF StoreInv, PruneInv
    <2>2. CASE UNCHANGED snapshotVars
      BY <2>2, UnchangedState DEF snapshotVars, metaVars
    <2>3. QED
      BY <1>1, <2>1, <2>2, CommitReads DEF CommitProgress
  <1>2. CASE UNCHANGED <<commitParents, chunkHistory>>
    BY <1>2, UnchangedState
  <1>3. ASSUME NEW g \in Collectors, GcProgress(g)
        PROVE  UNCHANGED <<commitParents, chunkHistory>>
    BY <1>3, GcProgressInv DEF snapshotVars, metaVars
  <1>4. ASSUME NEW p \in Pruners, PruneProgress(p)
        PROVE  UNCHANGED <<commitParents, chunkHistory>>
    <2>1. ~ FoldStep(p)
      BY DEF BasesStay, FoldStep, InCall, Applying
    <2>2. UNCHANGED snapshotVars
      BY <1>4, <2>1 DEF PruneProgress, PruneCall, PruneStep, Select, StartApply, ListCommits, Plan,
                        LoadAncestry, CheckRetire, Finish, Abandon, GiveUp
    <2>3. QED
      BY <2>2 DEF snapshotVars, metaVars
  <1>5. CASE RefProgress
    BY <1>2, <1>5, RefCallInv DEF RefProgress, StoreInv, PruneInv
  <1>6. CASE UNCHANGED storeVars
    BY <1>2, <1>6 DEF storeVars, pruneVars, snapshotVars, metaVars
  <1>7. QED
    BY <1>1, <1>2, <1>3, <1>4, <1>5, <1>6 DEF StoreNext

LEMMA BaseReadStep ==
  ASSUME StoreInv, StoreInv', Evolves, BasesStay, BaseRead, [StoreNext]_storeVars
  PROVE  BaseRead'
  <1>1. ASSUME NEW w \in Committers, run'[w] = run[w]
        PROVE  BaseReadBy(w)'
    <2>1. \A c \in commits \cap commits' : run[w].at = "staging" => StateOf(c)' = StateOf(c)
      BY StatesStay DEF Committing
    <2>2. QED
      BY <1>1, <2>1, ReadStays
  <1>2. ASSUME NEW w \in Committers, CommitProgress(w)
        PROVE  BaseReadBy(w)'
    <2>1. /\ run'[w].base \in assigned \cup {Unborn}
          /\ run'[w].at = "staging" /\ run'[w].base \in commits =>
               run'[w].state = StateOf(run'[w].base)
          /\ run'[w].at = "staging" /\ run'[w].base = Unborn => run'[w].state = NothingPresent
      BY <1>2, OwnRead
    <2>2. assigned \subseteq assigned'
      BY DEF Evolves
    <2>3. ASSUME NEW c \in CommitIds, RecordCommit(w, c)
          PROVE  run'[w].at = "idle"
      BY <2>3, RecordCommitRecords DEF RunMoves, Resting
    <2>4. ASSUME UNCHANGED snapshotVars
          PROVE  commits' = commits /\ \A c : StateOf(c)' = StateOf(c)
      <3>1. UNCHANGED <<commitParents, chunkHistory>>
        BY <2>4 DEF snapshotVars, metaVars
      <3>2. \A c : StateOf(c)' = StateOf(c)
        BY <3>1, UnchangedState
      <3>3. QED
        BY <2>4, <3>2 DEF snapshotVars, metaVars, commits
    <2>5. CASE \E c \in CommitIds : RecordCommit(w, c)
      BY <2>1, <2>2, <2>3, <2>5 DEF BaseReadBy
    <2>6. CASE UNCHANGED snapshotVars
      BY <2>1, <2>2, <2>4, <2>6 DEF BaseReadBy
    <2>7. QED
      BY <1>2, <2>5, <2>6, CommitReads DEF CommitProgress
  <1>3. ASSUME NEW w \in Committers
        PROVE  run'[w] = run[w] \/ CommitProgress(w)
    BY <1>3, OthersStay DEF StoreNext, storeVars, GcProgress, PruneProgress, RefProgress
  <1>4. QED
    BY <1>1, <1>2, <1>3 DEF BaseRead

LEMMA BaseInvInit == StoreInit => BasesStay /\ BaseRead
  <1>1. Resting.at = "idle" /\ Resting.base = Unborn
    BY DEF Resting
  <1>2. QED
    BY <1>1 DEF StoreInit, CommitInit, BasesStay, BaseRead, BaseReadBy, Committing

\* Under the effective-row query the delta over the base's state is the
\* scan within the scope and the base's state outside it.
LEMMA DeltaPresents ==
  ASSUME StoreInv, BaseRead, NEW w \in Committers, NEW c \in CommitIds, RecordCommit(w, c)
  PROVE  StateOf(c)' = [k \in Coords |->
                          IF k \in DOMAIN run[w].scan THEN {run[w].scan[k]}
                          ELSE IF k \in run[w].scope \/ run[w].base = Unborn THEN {}
                          ELSE StateOf(run[w].base)[k]]
  <1> DEFINE r == run[w]
  <1>1. /\ ParentsOf(r) \in ParentSets /\ AtMostOne(ParentsOf(r)) /\ Delta(r) \in EntrySets
        /\ RecordNew(c, ParentsOf(r), Delta(r)) /\ IInv
    BY RecordCommitRecords DEF StoreInv, PruneInv
  <1>2. ParentsOf(r) \subseteq commits /\ ParentsOf(r) \in SUBSET CommitIds
    BY <1>1 DEF RecordNew, InsertCommit, ParentSets, commits
  <1>3. r \in RunRecords /\ DOMAIN r.scan \subseteq r.scope /\ r.at = "staging" /\ BaseReadBy(w)
    BY DEF StoreInv, RecordCommit, Staged, BaseRead
  <1>4. \A k \in DOMAIN r.scan : r.scan[k] # Tombstone
    BY <1>3, ConstantsAssumption DEF RunRecords, ScanSet
  <1>5. ASSUME NEW k \in Coords
        PROVE  UNION {Present(p, k) : p \in ParentsOf(r)} = r.state[k]
    <2>1. CASE r.base = Unborn
      <3>1. r.state = NothingPresent /\ ParentsOf(r) = {}
        BY <1>3, <2>1 DEF BaseReadBy, ParentsOf
      <3>2. QED
        BY <3>1 DEF NothingPresent
    <2>2. CASE r.base # Unborn
      <3>1. ParentsOf(r) = {r.base} /\ r.base \in commits
        BY <1>2, <2>2 DEF ParentsOf
      <3>2. r.state = StateOf(r.base)
        BY <1>3, <3>1 DEF BaseReadBy
      <3>3. QED
        BY <3>1, <3>2 DEF StateOf
    <2>3. QED
      BY <2>1, <2>2
  <1>6. \A k \in Coords : r.state[k] = IF r.base = Unborn THEN {} ELSE StateOf(r.base)[k]
    <2>1. r.base = Unborn \/ r.base \in commits
      BY <1>2 DEF ParentsOf
    <2>2. QED
      BY <1>3, <2>1 DEF BaseReadBy, NothingPresent
  <1>7. ASSUME NEW k \in Coords
        PROVE  Present(c, k)' = IF k \in DOMAIN r.scan THEN {r.scan[k]}
                                ELSE IF k \in r.scope \/ r.base = Unborn THEN {}
                                ELSE StateOf(r.base)[k]
    <2> HIDE DEF r
    <2>1. Present(c, k)' = IF k \in DOMAIN Delta(r) THEN {Delta(r)[k]} \ {Tombstone}
                           ELSE r.state[k]
      <3>1. Present(c, k)' = IF k \in DOMAIN Delta(r) THEN {Delta(r)[k]} \ {Tombstone}
                             ELSE UNION {Present(p, k) : p \in ParentsOf(r)}
        BY <1>1, <1>2, InvPort, NewCommitPresents
      <3>2. UNION {Present(p, k) : p \in ParentsOf(r)} = r.state[k]
        BY <1>5
      <3>3. QED
        BY <3>1, <3>2
    <2>2. /\ k \in DOMAIN Delta(r) <=>
               k \in r.scope /\ r.state[k] # IF k \in DOMAIN r.scan THEN {r.scan[k]} ELSE {}
          /\ k \in DOMAIN Delta(r) =>
               Delta(r)[k] = IF k \in DOMAIN r.scan THEN r.scan[k] ELSE Tombstone
      BY <1>3, DeltaTyped
    <2>3. CASE k \in DOMAIN r.scan
      BY <1>3, <1>4, <2>1, <2>2, <2>3
    <2>4. CASE k \in r.scope \ DOMAIN r.scan
      BY <2>1, <2>2, <2>4
    <2>5. CASE k \notin r.scope
      BY <1>3, <1>6, <2>1, <2>2, <2>5
    <2>6. QED
      BY <2>3, <2>4, <2>5
  <1>8. StateOf(c)' = [k \in Coords |-> Present(c, k)']
    BY DEF StateOf
  <1>9. QED
    BY <1>7, <1>8

\* The commit continues what the active ref named when it was recorded.
LEMMA RecordContinues ==
  ASSUME StoreInv, NEW w \in Committers, NEW c \in CommitIds, RecordCommit(w, c),
         NEW n \in activeRefs, target[n] \in CommitIds
  PROVE  target[n] \in Ancestors(c)'
  <1>1. /\ ParentsOf(run[w]) \in ParentSets /\ IInv
        /\ RecordNew(c, ParentsOf(run[w]), Delta(run[w]))
    BY RecordCommitRecords DEF StoreInv, PruneInv
  <1>2. ParentsOf(run[w]) \in SUBSET CommitIds
    BY <1>1 DEF ParentSets, commits
  <1>3. target[n] \in ParentsOf(run[w])
    BY <1>1, ConstantsAssumption DEF RecordNew, Continues
  <1>4. Ancestors(c)' = {c} \cup UNION {Ancestors(p) : p \in ParentsOf(run[w])}
    BY <1>1, <1>2, InvPort, InsertAncestors DEF RecordNew
  <1>5. target[n] \in Ancestors(target[n])
    BY <1>2, <1>3, AncestorsReflexive
  <1>6. QED
    BY <1>3, <1>4, <1>5

\* A commit records what its scan found over what its base presents, and
\* continues the active ref (RecordedExactly), as long as no prune runs
\* beside it: plan_commit reads the state of the base long before
\* apply_commit_incremental records the delta against it.
THEOREM RecordedExactlyCorrect ==
  ASSUME {"commit", "prune"} \notin Overlap
  PROVE  StoreSpec => RecordedExactly
  <1> DEFINE Exactly ==
        \A w \in Committers, c \in CommitIds :
          RecordCommit(w, c) =>
            LET r == run[w]
            IN  /\ StateOf(c)' = [k \in Coords |->
                                    IF k \in DOMAIN r.scan THEN {r.scan[k]}
                                    ELSE IF k \in r.scope \/ r.base = Unborn THEN {}
                                    ELSE StateOf(r.base)[k]]
                /\ \A n \in activeRefs : target[n] \in CommitIds => target[n] \in Ancestors(c)'
  <1>1. StoreInv /\ BasesStay /\ BaseRead /\ [StoreNext]_storeVars
          => BasesStay' /\ BaseRead'
    <2> SUFFICES ASSUME StoreInv, BasesStay, BaseRead, [StoreNext]_storeVars
                 PROVE  BasesStay' /\ BaseRead'
      OBVIOUS
    <2>1. StoreInv' /\ Evolves
      BY StoreInvStep
    <2>2. BasesStay'
      BY BasesStayStep
    <2>3. QED
      BY <2>1, <2>2, BaseReadStep
  <1>2. StoreInv /\ BaseRead /\ [StoreNext]_storeVars => [Exactly]_storeVars
    <2>1. ASSUME StoreInv, BaseRead
          PROVE  Exactly
      BY <2>1, DeltaPresents, RecordContinues
    <2> HIDE DEF Exactly
    <2>2. QED
      BY <2>1
  <1>3. QED
    BY <1>1, <1>2, BaseInvInit, StoreInvCorrect, PTL DEF StoreSpec, RecordedExactly

-----------------------------------------------------------------------------
(* Types.                                                                 *)

LEMMA ShapeInvStep == StoreInv /\ ShapeInv /\ [StoreNext]_storeVars => ShapeInv'
  <1> SUFFICES ASSUME StoreInv, ShapeInv, [StoreNext]_storeVars
               PROVE  ShapeInv'
    OBVIOUS
  <1>1. ASSUME NEW w \in Committers, CommitProgress(w)
        PROVE  ShapeInv'
    <2>1. UNCHANGED <<prune, doomed>>
      BY <1>1 DEF CommitProgress
    <2>2. ASSUME NEW c \in CommitIds, RecordCommit(w, c)
          PROVE  ShapeInv'
      BY <2>1, <2>2, RecordCommitRecords, RecordShape DEF StoreInv, PruneInv
    <2>3. CASE UNCHANGED snapshotVars
      BY <2>1, <2>3, ShapeUnchanged DEF snapshotVars
    <2>4. QED
      BY <1>1, <2>2, <2>3, CommitReads DEF CommitProgress
  <1>2. ASSUME NEW g \in Collectors, GcProgress(g)
        PROVE  ShapeInv'
    BY <1>2, GcProgressInv, ShapeUnchanged DEF snapshotVars
  <1>3. ASSUME NEW p \in Pruners, PruneProgress(p)
        PROVE  ShapeInv'
    BY <1>3, PruneProgressShape DEF PruneProgress, StoreInv
  <1>4. CASE RefProgress
    BY <1>4, ShapeUnchanged DEF RefProgress
  <1>5. CASE UNCHANGED storeVars
    BY <1>5, ShapeUnchanged DEF storeVars, pruneVars, snapshotVars
  <1>6. QED
    BY <1>1, <1>2, <1>3, <1>4, <1>5 DEF StoreNext

\* What every caller holds has the types the code gives it (StoreTypeOK),
\* whatever overlaps: a run stages within its scan and a scan stays within
\* its scope, a deletion is on the listing its plan was made from.
THEOREM StoreTypeOKCorrect == StoreSpec => []StoreTypeOK
  <1>1. StoreInit => ShapeInv
    BY ShapeInvInit DEF StoreInit
  <1>2. StoreInv /\ ShapeInv => StoreTypeOK
    <2> SUFFICES ASSUME StoreInv, ShapeInv
                 PROVE  StoreTypeOK
      OBVIOUS
    <2>1. PruneTypeOK
      BY ShapesTyped DEF StoreInv
    <2>2. QED
      BY <2>1 DEF StoreInv, StoreTypeOK, RunRecords, GcRecords
  <1>3. QED
    BY <1>1, <1>2, ShapeInvStep, StoreInvCorrect, PTL DEF StoreSpec

-----------------------------------------------------------------------------
(* The store seen as immutable snapshots.                                  *)

UserInv == LoneInv /\ doomed \subseteq assigned

\* A commit presents one blob at a coordinate, or none.
LEMMA OneBlobPresent ==
  ASSUME IInv, NEW c, NEW k
  PROVE  Present(c, k) \in Users!Cells
  <1> USE DEF IInv
  <1>1. ASSUME NEW r \in Effective(c, k), NEW q \in Effective(c, k)
        PROVE  r = q
    <2>1. /\ r \in chunkHistory /\ q \in chunkHistory
          /\ r.coord = k /\ q.coord = k
          /\ r.seq <= q.seq /\ q.seq <= r.seq
      BY DEF Effective, Visible
    <2>2. r.seq \in Nat /\ q.seq \in Nat
      BY <2>1 DEF TypeOK, Row
    <2>3. r.commit \in commits /\ q.commit \in commits /\ seq[r.commit] = seq[q.commit]
      BY <2>1, <2>2 DEF RowsBelong
    <2>4. r.commit = q.commit
      BY <2>3 DEF SeqUnique
    <2>5. QED
      BY <2>1, <2>4 DEF PrimaryKey
  <1>2. \A r \in Effective(c, k) : r.blob \in Blobs \cup {Tombstone}
    BY DEF Effective, Visible, TypeOK, Row
  <1>3. CASE Effective(c, k) = {}
    BY <1>3 DEF Present, Users!Cells
  <1>4. ASSUME NEW r \in Effective(c, k)
        PROVE  Present(c, k) \in Users!Cells
    <2>1. Present(c, k) = {r.blob} \ {Tombstone}
      BY <1>1 DEF Present
    <2>2. QED
      BY <1>2, <2>1 DEF Users!Cells
  <1>5. QED
    BY <1>3, <1>4

\* What a recorded commit lies over, in what it presents and in its lineage.
LEMMA RecordMaps ==
  ASSUME ~ Merges, UserInv, NEW c \in CommitIds, NEW ps \in ParentSets, NEW es \in EntrySets,
         Record(c, ps, es), doomed' = doomed
  PROVE  \E base \in CommitIds \cup {Unborn} : Users!Record(c, base)
  <1>1. /\ IInv /\ SnapshotsIntact /\ RecordNew(c, ps, es)
        /\ presented \in [CommitIds -> [Coords -> SUBSET Blobs]]
        /\ presented' = [presented EXCEPT ![c] = StateOf(c)']
    BY DEF UserInv, LoneInv, PruneInv, Record
  <1>2. commits' = commits \cup {c} /\ c \notin assigned /\ c \notin commits
    BY <1>1, RecordNewEvolves DEF IInv, HashedEdges, Record
  <1>3. AtMostOne(ps) /\ ps \subseteq commits /\ ps \in SUBSET CommitIds
    BY DEF ParentSets, commits
  <1>4. PICK base \in commits \cup {Unborn} : ps = {base} \ {Unborn}
    <2>1. CASE ps = {}
      BY <2>1
    <2>2. ASSUME NEW p \in ps
          PROVE  ps = {p} /\ p # Unborn /\ p \in commits
      BY <1>3, ConstantsAssumption DEF AtMostOne
    <2>3. QED
      BY <2>1, <2>2
  <1>5. base \in commits => base # Unborn
    BY <1>3, ConstantsAssumption DEF commits
  <1>6. /\ \A n \in activeRefs : target[n] \in {Unborn, base}
        /\ target' = [n \in RefNames |-> IF n \in activeRefs THEN c ELSE target[n]]
        /\ UNCHANGED activeRefs
    BY <1>1, <1>4 DEF RecordNew, Continues, MoveActiveRef
  <1>7. (commits \ doomed)' = (commits \ doomed) \cup {c}
    BY <1>2 DEF UserInv
  <1>8. [d \in commits |-> Ancestors(d)]' =
          [d \in commits \cup {c} |->
             IF d # c THEN [e \in commits |-> Ancestors(e)][d]
             ELSE {c} \cup (IF base = Unborn THEN {} ELSE [e \in commits |-> Ancestors(e)][base])]
    <2>1. /\ \A d \in commits : Ancestors(d)' = Ancestors(d)
          /\ Ancestors(c)' = {c} \cup UNION {Ancestors(p) : p \in ps}
      BY <1>1, <1>3, InvPort, InsertAncestors DEF RecordNew
    <2>2. UNION {Ancestors(p) : p \in ps} = IF base = Unborn THEN {} ELSE Ancestors(base)
      BY <1>4
    <2>3. QED
      BY <1>2, <1>4, <2>1, <2>2
  <1> DEFINE cells == {{}} \cup {{b} : b \in Blobs}
             under == IF base = Unborn THEN Users!Blank ELSE StateOf(base)
             changes == [k \in DOMAIN es |-> {es[k]} \ {Tombstone}]
  <1>9. under \in Users!Grounds(base)
    <2>1. CASE base = Unborn
      BY <2>1 DEF Users!Grounds
    <2>2. CASE base \in commits \ doomed
      <3>1. presented[base] = StateOf(base)
        BY <1>1, <2>2 DEF SnapshotsIntact, Intact
      <3>2. QED
        BY <1>5, <2>2, <3>1 DEF Users!Grounds
    <2>3. CASE base \in commits \cap doomed
      <3>1. StateOf(base) \in [Coords -> Users!Cells]
        BY <1>1, OneBlobPresent DEF StateOf
      <3>2. QED
        BY <1>5, <2>3, <3>1 DEF Users!Grounds
    <2>4. QED
      BY <2>1, <2>2, <2>3
  <1>10. changes \in Users!Changes
    <2>1. PICK K \in SUBSET Coords : es \in [K -> Blobs \cup {Tombstone}]
      BY DEF EntrySets
    <2>2. changes \in [K -> Users!Cells]
      BY <2>1 DEF Users!Cells
    <2>3. QED
      BY <2>2 DEF Users!Changes
  <1>11. StateOf(c)' = Users!Overlaid(under, changes)
    <2>1. ASSUME NEW k \in Coords
          PROVE  Present(c, k)' = IF k \in DOMAIN changes THEN changes[k] ELSE under[k]
      <3>1. Present(c, k)' = IF k \in DOMAIN es THEN {es[k]} \ {Tombstone}
                             ELSE UNION {Present(p, k) : p \in ps}
        BY <1>1, <1>3, InvPort, NewCommitPresents
      <3>2. UNION {Present(p, k) : p \in ps} = under[k]
        BY <1>4 DEF StateOf, Users!Blank
      <3>3. QED
        BY <3>1, <3>2
    <2>2. QED
      BY <2>1 DEF StateOf, Users!Overlaid
  <1>12. [d \in commits \ doomed |-> presented[d]]' =
           [d \in (commits \ doomed) \cup {c} |->
              IF d = c THEN Users!Overlaid(under, changes)
              ELSE [e \in commits \ doomed |-> presented[e]][d]]
    <2>1. \A d \in commits' : presented'[d] = IF d = c THEN StateOf(c)' ELSE presented[d]
      BY <1>1 DEF commits
    <2>2. QED
      BY <1>7, <1>11, <2>1
  <1> HIDE DEF under, changes
  <1>13. base \in CommitIds \cup {Unborn}
    BY DEF commits
  <1>14. Users!Record(c, base)
    BY <1>2, <1>6, <1>7, <1>8, <1>9, <1>10, <1>12 DEF Users!Record
  <1>15. QED
    BY <1>13, <1>14

\* A retirement is the end of a commit nobody was promised any more.
LEMMA FoldMaps ==
  ASSUME UserInv, NEW p \in Pruners, FoldStep(p)
  PROVE  \E c, heir \in CommitIds : Users!Forget(c, heir)
  <1> DEFINE from == prune[p].from
             into == prune[p].into
  <1>1. /\ LoneInv /\ PruneInv /\ IInv /\ CheckHolds(p) /\ PlanCurrent(p)
        /\ prune[p].at = "checked"
    BY DEF UserInv, LoneInv, PruneInv, PlanSound, FoldStep
  <1>2. /\ from \in commits \cap doomed /\ into \in commits /\ into # from
        /\ CanRetire(from, into)
    BY <1>1 DEF PlanCurrent, CheckHolds, FoldTargets, Continuing
  <1>3. ~ GiveUp(p) /\ UNCHANGED <<presented, doomed>>
    BY <1>1, FoldStepCurrent
  <1>4. from \in CommitIds /\ into \in CommitIds /\ Fold(from, into)
    BY <1>1, <1>2, <1>3, FoldStepRuns DEF FoldRuns
  <1> HIDE DEF from, into
  <1>5. commits' = commits \ {from}
    BY <1>1, <1>2, <1>4, FoldCommits DEF IInv
  <1>6. [c \in commits |-> Ancestors(c)]' =
          [c \in commits \ {from} |-> [d \in commits |-> Ancestors(d)][c] \ {from}]
    <2>1. \A c \in commits \ {from} : Ancestors(c)' = Ancestors(c) \ {from}
      BY <1>1, <1>4, FoldAncestors DEF commits, IInv
    <2>2. QED
      BY <1>5, <2>1
  <1>7. [c \in commits \ doomed |-> presented[c]]' = [c \in commits \ doomed |-> presented[c]]
    BY <1>2, <1>3, <1>5
  <1>8. (commits \ doomed)' = commits \ doomed
    BY <1>2, <1>3, <1>5
  <1>9. /\ target' = [n \in RefNames |-> IF target[n] = from THEN into ELSE target[n]]
        /\ UNCHANGED activeRefs
    BY <1>4 DEF Fold
  <1>10. from \in [c \in commits |-> Ancestors(c)][into]
    BY <1>2 DEF CanRetire
  <1>11. Users!Forget(from, into)
    BY <1>2, <1>5, <1>6, <1>7, <1>8, <1>9, <1>10 DEF Users!Forget
  <1>12. QED
    BY <1>4, <1>11

\* What a step of a prune that is no retirement leaves as it was.
LEMMA PruneReads ==
  ASSUME NEW p \in Pruners, PruneCall(p) \/ PruneStep(p), ~ FoldStep(p)
  PROVE  /\ UNCHANGED snapshotVars
         /\ doomed' = doomed \/ (StartApply(p) /\ doomed' = doomed \cup prune[p].delete)
  BY DEF PruneCall, PruneStep, Select, StartApply, ListCommits, Plan, LoadAncestry, CheckRetire,
         Finish, Abandon, GiveUp

LEMMA SameMaps ==
  ASSUME UNCHANGED snapshotVars
  PROVE  /\ commits' = commits
         /\ [c \in commits |-> Ancestors(c)]' = [c \in commits |-> Ancestors(c)]
         /\ UNCHANGED <<target, activeRefs, presented, assigned>>
  <1>1. UNCHANGED <<seq, commitParents, target, activeRefs, presented, assigned>>
    BY DEF snapshotVars, metaVars
  <1>2. commits' = commits /\ \A c : Ancestors(c)' = Ancestors(c)
    BY <1>1 DEF commits, Ancestors, Closed
  <1>3. QED
    BY <1>1, <1>2

LEMMA StartMaps ==
  ASSUME NEW gone, UNCHANGED snapshotVars, doomed' = doomed \cup gone
  PROVE  \E S \in SUBSET CommitIds : Users!Withdraw(S)
  <1>1. PICK S \in SUBSET CommitIds : S = gone \cap (commits \ doomed)
    BY DEF commits
  <1>2. S \subseteq commits \ doomed /\ (commits \ doomed)' = (commits \ doomed) \ S
    BY <1>1, SameMaps
  <1>3. [c \in commits \ doomed |-> presented[c]]' =
          [c \in (commits \ doomed) \ S |-> [d \in commits \ doomed |-> presented[d]][c]]
    BY <1>2, SameMaps
  <1>4. Users!Withdraw(S)
    BY <1>2, <1>3, SameMaps DEF Users!Withdraw
  <1>5. QED
    BY <1>4

LEMMA RefMaps ==
  ASSUME TypeOK, RefStep
  PROVE  \/ \E n \in RefNames, t \in CommitIds \cup {Unborn} : Users!SetRef(n, t)
         \/ \E n \in RefNames : Users!DeleteRef(n) \/ Users!ActivateRef(n)
  <1>1. UNCHANGED <<seq, commitParents, presented, doomed>>
    BY DEF RefStep, RefCall, SetRef, DeleteRef, ActivateRef
  <1>2. commits' = commits /\ \A c : Ancestors(c)' = Ancestors(c)
    BY <1>1 DEF commits, Ancestors, Closed
  <1>3. /\ (commits \ doomed)' = commits \ doomed
        /\ [c \in commits |-> Ancestors(c)]' = [c \in commits |-> Ancestors(c)]
        /\ [c \in commits \ doomed |-> presented[c]]' = [c \in commits \ doomed |-> presented[c]]
    BY <1>1, <1>2
  <1>4. ASSUME NEW n \in RefNames, NEW t \in CommitIds \cup {Unborn}, SetRef(n, t)
        PROVE  Users!SetRef(n, t)
    BY <1>2, <1>3, <1>4 DEF SetRef, Users!SetRef
  <1>5. ASSUME NEW n \in RefNames, DeleteRef(n)
        PROVE  Users!DeleteRef(n)
    BY <1>2, <1>3, <1>5 DEF DeleteRef, Users!DeleteRef
  <1>6. ASSUME NEW n \in RefNames, ActivateRef(n)
        PROVE  Users!ActivateRef(n)
    <2>1. target[n] # Absent
      BY <1>6, ConstantsAssumption DEF ActivateRef, commits
    <2>2. QED
      BY <1>2, <1>3, <1>6, <2>1 DEF ActivateRef, Users!ActivateRef
  <1>7. QED
    BY <1>4, <1>5, <1>6 DEF RefStep, RefCall

LEMMA UserInvStep ==
  ASSUME ~ Merges, Alone, ~ StalePlans, UserInv, [PruneNext]_pruneVars
  PROVE  UserInv'
  <1>1. LoneInv'
    BY LoneInvStep DEF UserInv
  <1>2. assigned \subseteq assigned'
    BY PruneInvStep DEF UserInv, LoneInv, Evolves
  <1>3. doomed' = doomed \/ \E p \in Pruners : StartApply(p) /\ doomed' = doomed \cup prune[p].delete
    <2>1. ASSUME NEW p \in Pruners, FoldStep(p)
          PROVE  doomed' = doomed
      BY <2>1 DEF FoldStep, GiveUp
    <2>2. QED
      BY <2>1, PruneReads DEF PruneNext, PruneStep, RecordStep, RefStep, pruneVars
  <1>4. ASSUME NEW p \in Pruners, StartApply(p)
        PROVE  prune[p].delete \subseteq assigned
    BY <1>4 DEF StartApply, UserInv, LoneInv, PlanCurrent, PruneInv, IInv, HashedEdges
  <1>5. QED
    BY <1>1, <1>2, <1>3, <1>4 DEF UserInv

LEMMA UserMaps ==
  ASSUME ~ Merges, UserInv, [PruneNext]_pruneVars
  PROVE  [Users!Next]_(Users!vars)
  <1>1. ASSUME NEW p \in Pruners, FoldStep(p)
        PROVE  Users!Next
    BY <1>1, FoldMaps DEF Users!Next
  <1>2. ASSUME UNCHANGED <<snapshotVars, doomed>>
        PROVE  UNCHANGED Users!vars
    BY <1>2, SameMaps DEF Users!vars
  <1>3. ASSUME NEW p \in Pruners, PruneCall(p) \/ PruneStep(p), ~ FoldStep(p)
        PROVE  [Users!Next]_(Users!vars)
    <2>1. CASE doomed' = doomed
      BY <1>2, <1>3, <2>1, PruneReads
    <2>2. CASE doomed' # doomed
      BY <1>3, <2>2, PruneReads, StartMaps DEF Users!Next
    <2>3. QED
      BY <2>1, <2>2
  <1>4. CASE RecordStep
    BY <1>4, RecordMaps DEF RecordStep, Users!Next
  <1>5. CASE RefStep
    BY <1>5, RefMaps DEF UserInv, LoneInv, PruneInv, IInv, Users!Next
  <1>6. CASE UNCHANGED pruneVars
    BY <1>2, <1>6 DEF pruneVars
  <1>7. QED
    BY <1>1, <1>3, <1>4, <1>5, <1>6 DEF PruneNext

LEMMA UserInvInit == PruneInit => UserInv /\ Users!Init
  <1> SUFFICES ASSUME PruneInit PROVE UserInv /\ Users!Init
    OBVIOUS
  <1>1. UserInv
    BY LoneInvInit DEF UserInv, PruneInit
  <1>2. commits = {}
    BY DEF PruneInit, SnapshotsInit, Init, commits
  <1>3. [c \in commits |-> Ancestors(c)] = [c \in {} |-> {}]
    BY <1>2
  <1>4. [c \in commits \ doomed |-> presented[c]] = [c \in {} |-> Users!Blank]
    BY <1>2
  <1>5. QED
    BY <1>1, <1>2, <1>3, <1>4 DEF Users!Init, PruneInit, SnapshotsInit, Init

\* To its users a store of delta rows, links and sequences is a store of
\* immutable snapshots, while prunes run, after they crashed, and after any
\* number of them.
THEOREM KeepsPromiseCorrect ==
  ASSUME ~ Merges, Alone, ~ StalePlans
  PROVE  PruneSpec => KeepsPromise
  <1>1. UserInv /\ [PruneNext]_pruneVars => UserInv'
    BY UserInvStep
  <1>2. UserInv /\ [PruneNext]_pruneVars => [Users!Next]_(Users!vars)
    BY UserMaps
  <1>3. QED
    BY UserInvInit, <1>1, <1>2, PTL DEF PruneSpec, KeepsPromise, Users!Spec

-----------------------------------------------------------------------------
(* The whole store, as the prunes in it see it.                            *)

\* A commit in its call stands in no prune's way.
OutOfTheWay == \A w \in Committers : Committing(w) => Free(Pruners)

LEMMA OutOfTheWayStep ==
  ASSUME {"commit", "prune"} \notin Overlap, StoreInv, BasesStay, OutOfTheWay,
         [StoreNext]_storeVars
  PROVE  OutOfTheWay'
  <1>1. ASSUME NEW w \in Committers, CommitProgress(w)
        PROVE  OutOfTheWay'
    <2>1. Free(Pruners)
      <3>1. CASE MayCall("commit", {w})
        <4>1. Pruners \ {w} = Pruners
          BY CallersAssumption
        <4>2. QED
          BY <3>1, <4>1 DEF MayCall
      <3>2. CASE CommitStep(w)
        BY <3>2, StepInCall DEF OutOfTheWay
      <3>3. QED
        BY <1>1, <3>1, <3>2 DEF CommitProgress
    <2>2. prune' = prune
      BY <1>1 DEF CommitProgress
    <2>3. QED
      BY <2>1, <2>2 DEF OutOfTheWay, Free, InCall, Applying
  <1>2. ASSUME NEW p \in Pruners, PruneProgress(p)
        PROVE  OutOfTheWay'
    <2>1. run' = run /\ \A q \in Pruners \ {p} : prune'[q] = prune[q]
      BY <1>2, OthersStay
    <2>2. SUFFICES ASSUME NEW w \in Committers, Committing(w)
                   PROVE  Free(Pruners)'
      BY <2>1 DEF OutOfTheWay, Committing
    <2>3. Free(Pruners) /\ ~ InCall(p)
      BY <2>2 DEF OutOfTheWay, BasesStay
    <2>4. PruneStep(p)
      <3>1. Committers \ {p} = Committers
        BY CallersAssumption
      <3>2. {"prune", "commit"} \notin Overlap
        <4>1. {"prune", "commit"} = {"commit", "prune"}
          OBVIOUS
        <4>2. QED
          BY <4>1
      <3>3. ~ MayCall("prune", {p})
        BY <2>2, <3>1, <3>2 DEF MayCall
      <3>4. QED
        BY <1>2, <3>3 DEF PruneProgress
    <2>5. Abandon(p)
      BY <2>3, <2>4 DEF PruneStep, ListCommits, Plan, LoadAncestry, CheckRetire, FoldStep, Finish,
                        InCall, Applying
    <2>6. prune'[p].at = "idle"
      BY <2>5 DEF Abandon, Goto, Idle, StoreInv, PruneInv
    <2>7. QED
      BY <2>1, <2>3, <2>6 DEF Free, InCall, Applying
  <1>3. CASE UNCHANGED <<run, prune>>
    BY <1>3 DEF OutOfTheWay, Committing, Free, InCall, Applying
  <1>4. QED
    BY <1>1, <1>2, <1>3 DEF StoreNext, GcProgress, RefProgress, storeVars, pruneVars

LEMMA PruneMaps ==
  ASSUME StoreInv, OutOfTheWay, [StoreNext]_storeVars
  PROVE  [PruneNext]_pruneVars
  <1>1. ASSUME NEW w \in Committers, CommitProgress(w)
        PROVE  [PruneNext]_pruneVars
    <2>1. ASSUME NEW c \in CommitIds, RecordCommit(w, c)
          PROVE  Free(Pruners) /\ RecordStep
      <3>1. Committing(w)
        BY <2>1 DEF RecordCommit, Staged, Committing
      <3>2. Record(c, ParentsOf(run[w]), Delta(run[w]))
        BY <2>1 DEF RecordCommit
      <3>3. ParentsOf(run[w]) \in ParentSets /\ Delta(run[w]) \in EntrySets
        BY <2>1, RecordCommitRecords
      <3>4. QED
        BY <1>1, <3>1, <3>2, <3>3 DEF OutOfTheWay, CommitProgress, RecordStep
    <2>2. CASE UNCHANGED snapshotVars
      BY <1>1, <2>2 DEF CommitProgress, pruneVars
    <2>3. QED
      BY <1>1, <2>1, <2>2, CommitReads DEF CommitProgress, PruneNext
  <1>2. ASSUME NEW g \in Collectors, GcProgress(g)
        PROVE  UNCHANGED pruneVars
    BY <1>2 DEF GcProgress, GcCall, GcStep, GcPlan, GcApply, GcVisit, GcScanBlobs, GcRemove,
                GcFinish, GcDies, pruneVars
  <1>3. ASSUME NEW p \in Pruners, PruneProgress(p)
        PROVE  PruneNext
    BY <1>3 DEF PruneProgress, MayCall, PruneNext
  <1>4. CASE RefProgress
    <2>1. Pruners \ {} = Pruners
      OBVIOUS
    <2>2. Free(Pruners) /\ RefStep
      BY <1>4, <2>1 DEF RefProgress, MayCall, RefStep
    <2>3. QED
      BY <2>2 DEF PruneNext
  <1>5. CASE UNCHANGED storeVars
    BY <1>5 DEF storeVars
  <1>6. QED
    BY <1>1, <1>2, <1>3, <1>4, <1>5 DEF StoreNext

\* Commits that take many steps and collections beside them are, to prunes,
\* single recordings: what holds of prunes over single port calls holds of
\* the whole store, as long as no commit overlaps a prune.
THEOREM StoreImplementsPrune ==
  ASSUME {"commit", "prune"} \notin Overlap
  PROVE  StoreSpec => PruneSpec
  <1>1. StoreInit => PruneInit /\ BasesStay /\ OutOfTheWay
    <2>1. StoreInit => PruneInit
      BY DEF StoreInit
    <2>2. StoreInit => OutOfTheWay
      BY DEF StoreInit, CommitInit, OutOfTheWay, Committing, Resting
    <2>3. QED
      BY <2>1, <2>2, BaseInvInit
  <1>2. StoreInv /\ BasesStay /\ OutOfTheWay /\ [StoreNext]_storeVars => BasesStay' /\ OutOfTheWay'
    BY BasesStayStep, OutOfTheWayStep
  <1>3. StoreInv /\ OutOfTheWay /\ [StoreNext]_storeVars => [PruneNext]_pruneVars
    BY PruneMaps
  <1>4. QED
    BY <1>1, <1>2, <1>3, StoreInvCorrect, PTL DEF StoreSpec, PruneSpec

\* However stale its plan and however many prunes run at once, a fold
\* leaves what its own plan retains as it was, with commits that read,
\* stage and record step by step and collections beside it.
THEOREM StoreRetainedStableCorrect ==
  ASSUME ~ Merges, {"commit", "prune"} \notin Overlap
  PROVE  StoreSpec => RetainedStable
  <1>1. PruneSpec => RetainedStable
    BY RetainedStableCorrect
  <1>2. StoreSpec => PruneSpec
    BY StoreImplementsPrune
  <1>3. QED
    BY <1>1, <1>2, PTL

\* The same promise, snapshots that read as they were recorded, and plans
\* that are carried through, with commits that read, stage and record step
\* by step, any number of them at once, and with collections beside prunes
\* and commits.
THEOREM StoreKeepsPromiseCorrect ==
  ASSUME ~ Merges, Alone, ~ StalePlans, {"commit", "prune"} \notin Overlap
  PROVE  StoreSpec => /\ KeepsPromise
                      /\ []SnapshotsIntact
                      /\ PlanCarriesThrough
                      /\ FinishLeavesKept
  <1>1. PruneSpec => KeepsPromise
    BY KeepsPromiseCorrect
  <1>2. PruneSpec => []SnapshotsIntact
    BY SnapshotsIntactCorrect
  <1>3. PruneSpec => PlanCarriesThrough /\ FinishLeavesKept
    BY PlanCarriesThroughCorrect, FinishLeavesKeptCorrect
  <1>4. StoreSpec => PruneSpec
    BY StoreImplementsPrune
  <1>5. QED
    BY <1>1, <1>2, <1>3, <1>4, PTL
=============================================================================
