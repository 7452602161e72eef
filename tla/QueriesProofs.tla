---------------------------- MODULE QueriesProofs ----------------------------
(***************************************************************************)
(* Operations of several queries, among the calls of everybody else: what  *)
(* a walk, a listing and a comparison return is right, for every store.    *)
(*                                                                         *)
(* What others do between two queries is bounded by three facts: an id is  *)
(* recorded once, so a commit that is gone stays gone; a retirement gives  *)
(* the children of a commit its parents, so no edge leads out of a history *)
(* that was closed; and without merges a stored commit keeps presenting    *)
(* what it presented (StepStable).  A walk carries its own distances:      *)
(* Layers gives what it took and what is ahead of it a distance, which its *)
(* next step extends.                                                      *)
(***************************************************************************)
EXTENDS Queries, MetaStoreProofs

WalkRecords ==
  [at : {"row", "edges", "done"}, kind : {"ancestors", "history"}, start : CommitIds,
   cur : CommitIds, level : SUBSET CommitIds, next : SUBSET CommitIds,
   out : Seq(CommitIds), known : SUBSET CommitIds]

ListRecords ==
  [at : {"rows", "listed"}, listed : UNION {[D -> SUBSET CommitIds] : D \in SUBSET CommitIds},
   seqs : [CommitIds -> Nat]]

PairRecords == [at : {"pair"}, cur : CommitIds, steady : BOOLEAN]

DiffRecords ==
  [at : {"oldCoords", "newCoords", "oldSide", "newSide", "compared"}, old : CommitIds,
   new : CommitIds, coords : SUBSET Coords,
   sides : [Coords -> Seq(SUBSET Blobs)], steady : BOOLEAN]

\* A set of commits no edge leads out of, and that no new commit joins.
SealedHistory(H) ==
  /\ H \subseteq assigned
  /\ \A e \in commitParents : e[1] \in H => e[2] \in H

Processed(q) == IF q.start \in q.level THEN {} ELSE Reported(q) \cup {q.start}

\* What a walk knows of distances: it is at level n, what it took is no
\* further, what it has ahead beyond the level is one step further.
Layers(q, d, n) ==
  /\ d[q.start] = 0
  /\ \A a \in Processed(q) \cup q.level \cup q.next :
       /\ d[a] + seq[a] <= seq[q.start]
       /\ a = q.start \/ \E x \in Processed(q) : a \in Parents(x) /\ d[a] = d[x] + 1
  /\ \A x \in Processed(q) : d[x] <= n /\ \A a \in Parents(x) : d[a] <= d[x] + 1
  /\ \A a \in q.level \ Processed(q) : d[a] = n
  /\ \A a \in q.next \ (q.level \cup Processed(q)) : d[a] = n + 1
  /\ \A i, j \in DOMAIN q.out : i < j => d[q.out[i]] <= d[q.out[j]]

\* A walk stays inside its history, takes each commit once, and has ahead
\* of it the parents of what it took.
WalkSound(q) ==
  /\ SealedHistory(q.known)
  /\ q.start \in q.known
  /\ q.level \cup q.next \cup Reported(q) \subseteq q.known
  /\ q.start \in commits =>
       \A a \in q.known \cap commits : a = q.start \/ seq[a] < seq[q.start]
  /\ q.start \notin q.next
  /\ q.start \in q.level => q.cur = q.start /\ q.out = <<>> /\ q.at # "done"
  /\ q.start \notin q.level => (q.start \in Reported(q) <=> q.kind = "history")
  /\ q.at # "done" => q.cur \in q.level \ Reported(q)
  /\ q.at = "done" => q.level \cup q.next \subseteq Reported(q)
  /\ \A i, j \in DOMAIN q.out : i < j => q.out[i] # q.out[j]
  /\ q.known \subseteq commits =>
       /\ q.known = Ancestors(q.start)
       /\ \A p \in Processed(q) : Parents(p) \subseteq Processed(q) \cup q.level \cup q.next
       /\ \E d \in [q.known -> Nat], n \in Nat : Layers(q, d, n)

ListSound(q) ==
  IF q.at = "rows"
  THEN /\ SealedHistory(DOMAIN q.listed)
       /\ \A e \in commitParents : e[1] \in DOMAIN q.listed => q.seqs[e[2]] < q.seqs[e[1]]
  ELSE \A c \in DOMAIN q.listed : \A p \in q.listed[c] :
         p \in DOMAIN q.listed /\ q.seqs[p] < q.seqs[c]

\* What was read so far is what the two commits present now.
DiffCurrent(q) ==
  /\ q.at = "newCoords" => \A k \in Coords : Present(q.old, k) # {} => k \in q.coords
  /\ q.at \in {"oldSide", "newSide"} =>
       \A k \in Coords : Present(q.old, k) # Present(q.new, k) => k \in q.coords
  /\ q.at \in {"oldSide", "newSide"} =>
       \A k \in Coords :
         /\ Len(q.sides[k]) # 0 => q.sides[k][1] = Present(q.old, k)
         /\ Len(q.sides[k]) = 2 => q.sides[k][2] = Present(q.new, k)
  /\ q.at = "compared" =>
       /\ q.coords = {k \in Coords : Present(q.old, k) # Present(q.new, k)}
       /\ \A k \in q.coords : q.sides[k] = <<Present(q.old, k), Present(q.new, k)>>

DiffSound(q) ==
  /\ {q.old, q.new} \subseteq assigned
  /\ q.at \in {"oldCoords", "newCoords"} => \A k \in Coords : Len(q.sides[k]) = 0
  /\ \A k \in Coords : Len(q.sides[k]) \in (IF q.at = "newSide" THEN {0, 1, 2} ELSE {0, 2})
  /\ \A j, k \in Coords : Len(q.sides[j]) = 1 /\ Len(q.sides[k]) = 1 => j = k
  /\ q.steady /\ {q.old, q.new} \subseteq commits => DiffCurrent(q)

QueryInv ==
  \/ query = NoQuery
  \/ query \in WalkRecords /\ WalkSound(query)
  \/ query \in ListRecords /\ ListSound(query)
  \/ query \in PairRecords /\ query.cur \in assigned
  \/ query \in DiffRecords /\ DiffSound(query)

QueriesInv == query = NoReader \/ (IInv /\ QueryInv)

-----------------------------------------------------------------------------
(* What others do between two queries. *)

\* An id is recorded once: what is gone stays gone, what stays keeps its
\* sequence.
LEMMA StepIds ==
  ASSUME IInv, Next, NoneBack
  PROVE  /\ assigned \subseteq assigned'
         /\ commits' \cap assigned \subseteq commits
         /\ \A c \in commits \cap commits' : seq'[c] = seq[c]
  <1> USE DEF IInv
  <1>1. ASSUME NEW c \in CommitIds, NEW ps, InsertCommit(c, ps)
        PROVE  /\ assigned \subseteq assigned'
               /\ \A d \in commits \cap commits' : seq'[d] = seq[d]
    BY <1>1 DEF InsertCommit, commits, TypeOK
  <1>2. ASSUME NEW from \in CommitIds, NEW into \in CommitIds, Fold(from, into)
        PROVE  /\ assigned \subseteq assigned'
               /\ \A d \in commits \cap commits' : seq'[d] = seq[d]
    BY <1>2 DEF Fold, commits, TypeOK
  <1>3. CASE UNCHANGED <<seq, assigned>>
    BY <1>3 DEF commits
  <1>4. QED
    BY <1>1, <1>2, <1>3 DEF NoneBack, Next, RecordNew, CreateCommit, RecordAgain, CreateAgain,
       RecordChunk, RetireCommit, SetRef, DeleteRef, ActivateRef

\* An edge of a commit that was known before was there, or bridges one that
\* is gone now; an edge between two that stay stays.
LEMMA StepEdges ==
  ASSUME IInv, Next, NoneBack
  PROVE  /\ \A e \in commitParents' :
              e[1] \in assigned =>
                \/ e \in commitParents
                \/ \E g, f \in commitParents :
                     g[1] = e[1] /\ g[2] = f[1] /\ f[2] = e[2] /\ g[2] \notin commits'
         /\ \A e \in commitParents : {e[1], e[2]} \subseteq commits' => e \in commitParents'
  <1> USE DEF IInv
  <1>1. ASSUME NEW c \in CommitIds, NEW ps, InsertCommit(c, ps)
        PROVE  /\ \A e \in commitParents' : e[1] \in assigned => e \in commitParents
               /\ commitParents \subseteq commitParents'
    <2>1. c \in commits' /\ c \notin commits
      BY <1>1 DEF InsertCommit, commits, TypeOK
    <2>2. c \notin assigned
      BY <2>1 DEF NoneBack
    <2>3. QED
      BY <1>1, <2>2 DEF InsertCommit
  <1>2. ASSUME NEW c \in CommitIds, RecordAgain(c) \/ CreateAgain(c)
        PROVE  commitParents' = commitParents
    BY <1>2, AgainKeepsEdges
  <1>3. ASSUME NEW from \in CommitIds, NEW into \in CommitIds, Fold(from, into)
        PROVE  /\ \A e \in commitParents' :
                    \/ e \in commitParents
                    \/ \E g, f \in commitParents :
                         g[1] = e[1] /\ g[2] = f[1] /\ f[2] = e[2] /\ g[2] \notin commits'
               /\ \A e \in commitParents : {e[1], e[2]} \subseteq commits' => e \in commitParents'
    <2>1. from \notin commits'
      BY <1>3 DEF Fold, commits, TypeOK
    <2>2. commitParents' = {e \in commitParents \cup Bridged(from) : e[1] # from /\ e[2] # from}
      BY <1>3 DEF Fold
    <2>3. ASSUME NEW e \in Bridged(from)
          PROVE  \E g, f \in commitParents :
                   g[1] = e[1] /\ g[2] = f[1] /\ f[2] = e[2] /\ g[2] = from
      BY DEF Bridged
    <2>4. QED
      BY <2>1, <2>2, <2>3
  <1>4. CASE UNCHANGED commitParents
    BY <1>4
  <1>5. QED
    BY <1>1, <1>2, <1>3, <1>4 DEF Next, RecordNew, CreateCommit, RecordChunk, RetireCommit,
       SetRef, DeleteRef, ActivateRef

\* Nothing comes back, so nothing is linked again.
LEMMA NeverRelinks ==
  ASSUME HashedEdges, NEW c \in CommitIds
  PROVE  ~ Relinks(c)
  BY DEF HashedEdges, Relinks, RecordAgain, CreateAgain

LEMMA SealedStep ==
  ASSUME IInv, Next, NoneBack, NEW H \in SUBSET CommitIds, SealedHistory(H)
  PROVE  /\ SealedHistory(H)'
         /\ H \subseteq commits' =>
              /\ H \subseteq commits
              /\ \A e \in commitParents' : e[1] \in H => e \in commitParents
              /\ \A e \in commitParents : e[1] \in H => e \in commitParents'
  BY StepIds, StepEdges DEF SealedHistory

\* The ancestors of a commit are what they were, if its history still is.
LEMMA SealedAncestors ==
  ASSUME NEW H \in SUBSET CommitIds, NEW c \in H, H = Ancestors(c),
         \A e \in commitParents' : e[1] \in H => e[2] \in H,
         \A e \in commitParents : e[1] \in H => e \in commitParents'
  PROVE  H = Ancestors(c)'
  <1>1. Ancestors(c)' \subseteq H
    BY AncestorsWithinNext
  <1>2. ASSUME NEW a \in H, NEW S \in SUBSET CommitIds, c \in S,
               \A e \in commitParents' : e[1] \in S => e[2] \in S
        PROVE  a \in S
    <2>1. \A e \in commitParents : e[1] \in H => e[2] \in H
      BY AncestorsClosed DEF Ancestors, Closed
    <2>2. Closed(S \cap H)
      BY <1>2, <2>1 DEF Closed
    <2>3. c \in S \cap H /\ S \cap H \in SUBSET CommitIds
      BY <1>2
    <2>4. Ancestors(c) \subseteq S \cap H
      BY <2>2, <2>3, AncestorsWithin
    <2>5. QED
      BY <1>2, <2>4
  <1>3. QED
    BY <1>1, <1>2, AncestorsInNext

-----------------------------------------------------------------------------
(* Walks. *)

LEMMA WalkUnmoved ==
  ASSUME Reads, NEW k \in WalkRecords, WalkSound(k)
  PROVE  WalkSound(k)'
  <1>1. UNCHANGED <<seq, commitParents, assigned>>
    BY DEF Reads, metaVars
  <1>2. commits' = commits /\ Ancestors(k.start)' = Ancestors(k.start)
    BY <1>1 DEF commits, Ancestors, Closed
  <1>3. \A p \in Processed(k) : Parents(p)' = Parents(p)
    BY <1>1 DEF Parents
  <1> DEFINE P == Processed(k)
  <1>4. P' = P
    BY DEF Processed, Reported
  <1>5. SealedHistory(k.known)'
    BY <1>1 DEF WalkSound, SealedHistory
  <1>6. \A d, n : Layers(k, d, n) => Layers(k, d, n)'
    BY <1>1, <1>3, <1>4 DEF Layers
  <1>7. QED
    BY <1>1, <1>2, <1>3, <1>4, <1>5, <1>6 DEF WalkSound, Reported, Processed

LEMMA WalkOthers ==
  ASSUME IInv, Next, NoneBack, NEW k \in WalkRecords, WalkSound(k)
  PROVE  WalkSound(k)'
  <1>1. k.known \in SUBSET CommitIds /\ k.start \in k.known /\ k.start \in CommitIds
    BY DEF WalkRecords, WalkSound
  <1>2. /\ SealedHistory(k.known)'
        /\ k.known \subseteq commits' =>
             /\ k.known \subseteq commits
             /\ \A e \in commitParents' : e[1] \in k.known => e \in commitParents
             /\ \A e \in commitParents : e[1] \in k.known => e \in commitParents'
    BY <1>1, SealedStep DEF WalkSound
  <1>3. k.start \in commits' =>
          \A a \in k.known \cap commits' : a = k.start \/ seq'[a] < seq'[k.start]
    BY <1>1, StepIds DEF WalkSound, SealedHistory
  <1>4. ASSUME k.known \subseteq commits'
        PROVE  /\ k.known = Ancestors(k.start)'
               /\ \A p \in Processed(k) : Parents(p)' \subseteq Processed(k) \cup k.level \cup k.next
               /\ \E d \in [k.known -> Nat], n \in Nat : Layers(k, d, n)'
    <2>1. /\ k.known = Ancestors(k.start)
          /\ \A p \in Processed(k) : Parents(p) \subseteq Processed(k) \cup k.level \cup k.next
          /\ \E d \in [k.known -> Nat], n \in Nat : Layers(k, d, n)
      BY <1>2, <1>4 DEF WalkSound
    <2>2. k.known = Ancestors(k.start)'
      BY <1>1, <1>2, <1>4, <2>1, SealedAncestors DEF SealedHistory
    <2>3. Processed(k) \subseteq k.known
      BY <1>1 DEF WalkSound, Processed
    <2>4. \A p \in k.known : Parents(p)' = Parents(p)
      BY <1>2, <1>4 DEF Parents
    <2>5. \A a \in k.known : seq'[a] = seq[a]
      BY <1>2, <1>4, StepIds
    <2>6. Processed(k)' = Processed(k)
      BY DEF Processed, Reported
    <2>7. k.level \cup k.next \subseteq k.known
      BY DEF WalkSound
    <2>8. \A d, n : Layers(k, d, n) => Layers(k, d, n)'
      BY <1>1, <2>3, <2>4, <2>5, <2>6, <2>7 DEF Layers
    <2>9. QED
      BY <2>1, <2>2, <2>3, <2>4, <2>8
  <1> DEFINE P == Processed(k)
             R == Reported(k)
  <1>5. P' = P /\ R' = R
    BY DEF Processed, Reported
  <1>6. QED
    BY <1>2, <1>3, <1>4, <1>5 DEF WalkSound, Reported, Processed

LEMMA StartWalkSound ==
  ASSUME IInv, NEW kind \in {"ancestors", "history"}, StartWalk(kind)
  PROVE  \E k \in WalkRecords : query' = k /\ WalkSound(k)
  <1> USE DEF IInv
  <1>1. PICK c \in Resolvable :
           query' = [at |-> "row", kind |-> kind, start |-> c, cur |-> c, level |-> {c},
                     next |-> {}, out |-> <<>>, known |-> Ancestors(c)]
    BY DEF StartWalk
  <1>2. c \in commits /\ c \in CommitIds
    BY DEF Resolvable, RefsResolve, commits
  <1>3. PICK H \in SUBSET CommitIds : H = Ancestors(c)
    BY DEF Ancestors
  <1>4. PICK e : e = <<>> /\ e \in Seq(CommitIds) /\ DOMAIN e = {}
    <2>1. <<>> \in Seq(CommitIds)
      OBVIOUS
    <2>2. DOMAIN <<>> = {}
      OBVIOUS
    <2>3. QED
      BY <2>1, <2>2
  <1>5. PICK k \in WalkRecords :
           /\ query' = k
           /\ k.at = "row" /\ k.kind = kind /\ k.start = c /\ k.cur = c /\ k.level = {c}
           /\ k.next = {} /\ k.out = e /\ k.known = H
    <2> DEFINE w == [at |-> "row", kind |-> kind, start |-> c, cur |-> c, level |-> {c},
                     next |-> {}, out |-> e, known |-> H]
    <2>1. w \in WalkRecords
      BY <1>2, <1>4 DEF WalkRecords
    <2>2. query' = w
      BY <1>1, <1>3, <1>4
    <2>3. QED
      BY <2>1, <2>2
  <1>6. Reported(k) = {}
    BY <1>4, <1>5 DEF Reported
  <1>7. c \in H /\ H \subseteq commits /\ \A a \in H : a = c \/ seq[a] < seq[c]
    BY <1>2, <1>3, AncestorsReflexive, AncestorsOlder
  <1>8. SealedHistory(H)
    BY <1>2, <1>3, <1>7, AncestorsClosed DEF SealedHistory, HashedEdges, Closed
  <1>9. Processed(k) = {}
    BY <1>5 DEF Processed
  <1>12. \E d \in [k.known -> Nat], n \in Nat : Layers(k, d, n)
    <2> DEFINE d == [a \in H |-> 0]
    <2>1. d \in [k.known -> Nat] /\ d[c] = 0
      BY <1>5, <1>7
    <2>2. seq[c] \in Nat
      BY <1>2 DEF TypeOK
    <2> HIDE DEF d
    <2>3. 0 + seq[c] <= seq[c]
      BY <2>2
    <2>4. Layers(k, d, 0)
      BY <1>4, <1>5, <1>9, <2>1, <2>3 DEF Layers
    <2>5. QED
      BY <2>1, <2>4
  <1>10. WalkSound(k)
    BY <1>3, <1>4, <1>5, <1>6, <1>7, <1>8, <1>9, <1>12 DEF WalkSound
  <1>11. QED
    BY <1>5, <1>10

LEMMA ReadRecordSound ==
  ASSUME NEW q \in WalkRecords, q = query, WalkSound(q), ReadRecord
  PROVE  query' = NoQuery \/ \E k \in WalkRecords : query' = k /\ WalkSound(k)
  <1> DEFINE k == [q EXCEPT !.at = "edges"]
  <1>1. query' = NoQuery \/ query' = k
    BY DEF ReadRecord
  <1>2. /\ k \in WalkRecords /\ k.at = "edges" /\ k.kind = q.kind /\ k.start = q.start
        /\ k.cur = q.cur /\ k.level = q.level /\ k.next = q.next /\ k.out = q.out
        /\ k.known = q.known
    BY DEF WalkRecords
  <1>3. q.at = "row"
    BY DEF ReadRecord
  <1> HIDE DEF k
  <1>6. Reported(k) = Reported(q) /\ Processed(k) = Processed(q)
    BY <1>2 DEF Reported, Processed
  <1>7. \A d, n : Layers(q, d, n) => Layers(k, d, n)
    BY <1>2, <1>6 DEF Layers
  <1>4. WalkSound(k)
    BY <1>2, <1>3, <1>6, <1>7 DEF WalkSound
  <1>5. QED
    BY <1>1, <1>2, <1>4

\* Where a walk goes next: into the rest of its level, or into the next one.
LEMMA AdvanceShape ==
  ASSUME NEW s \in WalkRecords, s.at = "edges", NEW w \in Advance(s)
  PROVE  /\ w \in WalkRecords
         /\ w.kind = s.kind /\ w.start = s.start /\ w.known = s.known /\ w.out = s.out
         /\ \/ /\ w.at = "done" /\ w.level = s.level /\ w.next = s.next
               /\ s.level \cup s.next \subseteq Reported(s)
            \/ /\ w.at # "done" /\ w.cur \in w.level
               /\ \/ w.level = s.level \ Reported(s) /\ w.next = s.next
                  \/ /\ s.level \subseteq Reported(s)
                     /\ w.level = s.next \ Reported(s) /\ w.next = {}
  <1> DEFINE rest == s.level \ Reported(s)
             level == IF rest = {} THEN s.next \ Reported(s) ELSE rest
             next == IF rest = {} THEN {} ELSE s.next
             at == IF s.kind = "history" THEN "row" ELSE "edges"
  <1>1. level \in SUBSET CommitIds /\ next \in SUBSET CommitIds /\ at \in {"row", "edges"}
    BY DEF WalkRecords
  <1>2. CASE level = {}
    <2>1. w = [s EXCEPT !.at = "done"]
      BY <1>2 DEF Advance
    <2>2. s.level \cup s.next \subseteq Reported(s)
      BY <1>2
    <2>3. /\ w \in WalkRecords
          /\ w.kind = s.kind /\ w.start = s.start /\ w.known = s.known /\ w.out = s.out
          /\ w.at = "done" /\ w.level = s.level /\ w.next = s.next
      BY <2>1 DEF WalkRecords
    <2>4. QED
      BY <2>2, <2>3
  <1>3. CASE level # {}
    <2>1. PICK c \in level : w = [s EXCEPT !.at = at, !.cur = c, !.level = level, !.next = next]
      BY <1>3 DEF Advance
    <2>2. PICK L \in SUBSET CommitIds, N \in SUBSET CommitIds, a \in {"row", "edges"} :
             L = level /\ N = next /\ a = at
      BY <1>1
    <2>3. c \in L /\ c \in CommitIds
      BY <2>2
    <2>4. w = [s EXCEPT !.at = a, !.cur = c, !.level = L, !.next = N]
      BY <2>1, <2>2
    <2>5. /\ w \in WalkRecords
          /\ w.kind = s.kind /\ w.start = s.start /\ w.known = s.known /\ w.out = s.out
          /\ w.at = a /\ w.cur = c /\ w.level = L /\ w.next = N
      BY <2>3, <2>4 DEF WalkRecords
    <2>6. \/ L = s.level \ Reported(s) /\ N = s.next
          \/ s.level \subseteq Reported(s) /\ L = s.next \ Reported(s) /\ N = {}
      BY <2>2
    <2>7. QED
      BY <2>3, <2>5, <2>6
  <1>4. QED
    BY <1>2, <1>3

\* The walk behind one query for edges: the commit is taken, its parents
\* are ahead.
LEMMA ReadEdgesTakes ==
  ASSUME IInv, NEW q \in WalkRecords, q = query, WalkSound(q), ReadEdges
  PROVE  \E s \in WalkRecords :
           /\ query' \in Advance(s)
           /\ s.at = "edges" /\ s.kind = q.kind /\ s.start = q.start /\ s.known = q.known
           /\ s.level = q.level \ {q.cur}
           /\ s.next = q.next \cup (Parents(q.cur) \ Reported(s))
           /\ Reported(s) = Reported(q) \cup
                (IF q.kind = "ancestors" /\ q.cur = q.start THEN {} ELSE {q.cur})
           /\ \A i, j \in DOMAIN s.out : i < j => s.out[i] # s.out[j]
           /\ s.out = IF q.kind = "ancestors" /\ q.cur = q.start THEN q.out ELSE Append(q.out, q.cur)
  <1> DEFINE skip == q.kind = "ancestors" /\ q.cur = q.start
  <1>1. q.at = "edges" /\ q.cur \in CommitIds /\ q.out \in Seq(CommitIds)
    BY DEF ReadEdges, WalkRecords
  <1>2. Parents(q.cur) \in SUBSET CommitIds
    BY DEF IInv, TypeOK, Parents
  <1>3. PICK out \in Seq(CommitIds) : out = IF skip THEN q.out ELSE Append(q.out, q.cur)
    <2>1. Append(q.out, q.cur) \in Seq(CommitIds)
      BY <1>1
    <2>2. CASE skip
      BY <1>1, <2>2
    <2>3. CASE ~ skip
      BY <2>1, <2>3
    <2>4. QED
      BY <2>2, <2>3
  <1> DEFINE r == [q EXCEPT !.out = out, !.level = @ \ {q.cur}]
  <1>4. /\ r \in WalkRecords /\ r.at = "edges" /\ r.kind = q.kind /\ r.start = q.start
        /\ r.known = q.known /\ r.level = q.level \ {q.cur} /\ r.next = q.next /\ r.out = out
        /\ r.cur = q.cur
    BY <1>1, <1>3 DEF WalkRecords
  <1> DEFINE s == [r EXCEPT !.next = @ \cup (Parents(q.cur) \ Reported(r))]
  <1>5. query' \in Advance(s)
    BY <1>3 DEF ReadEdges
  <1> HIDE DEF r
  <1>6. /\ s \in WalkRecords /\ s.at = "edges" /\ s.kind = q.kind /\ s.start = q.start
        /\ s.known = q.known /\ s.level = q.level \ {q.cur} /\ s.out = out
        /\ s.next = q.next \cup (Parents(q.cur) \ Reported(r))
    BY <1>2, <1>4 DEF WalkRecords
  <1> HIDE DEF s
  <1>7. Reported(s) = Reported(r)
    BY <1>4, <1>6 DEF Reported
  <1>8. CASE skip
    <2>1. out = q.out
      BY <1>3, <1>8
    <2>2. Reported(s) = Reported(q)
      BY <1>6, <2>1 DEF Reported
    <2>3. \A i, j \in DOMAIN s.out : i < j => s.out[i] # s.out[j]
      BY <1>6, <2>1 DEF WalkSound
    <2>4. s.out = q.out
      BY <1>6, <2>1
    <2>5. /\ s.next = q.next \cup (Parents(q.cur) \ Reported(s))
          /\ Reported(s) = Reported(q) \cup (IF skip THEN {} ELSE {q.cur})
          /\ s.out = IF skip THEN q.out ELSE Append(q.out, q.cur)
      BY <1>6, <1>7, <1>8, <2>2, <2>4
    <2>6. QED
      BY <1>5, <1>6, <2>3, <2>5
  <1>9. CASE ~ skip
    <2>1. out = Append(q.out, q.cur)
      BY <1>3, <1>9
    <2>2. /\ DOMAIN out = DOMAIN q.out \cup {Len(q.out) + 1}
          /\ DOMAIN q.out = 1 .. Len(q.out) /\ Len(q.out) \in Nat
          /\ \A i \in DOMAIN q.out : out[i] = q.out[i]
          /\ out[Len(q.out) + 1] = q.cur
      BY <1>1, <2>1
    <2>3. Reported(s) = Reported(q) \cup {q.cur}
      BY <1>6, <2>2 DEF Reported
    <2>4. q.cur \notin Reported(q)
      BY <1>1 DEF WalkSound
    <2>5. ASSUME NEW i \in DOMAIN out, NEW j \in DOMAIN out, i < j
          PROVE  out[i] # out[j]
      <3>1. i \in DOMAIN q.out
        BY <2>2, <2>5
      <3>2. CASE j \in DOMAIN q.out
        BY <2>2, <2>5, <3>1, <3>2 DEF WalkSound
      <3>3. CASE j = Len(q.out) + 1
        BY <2>2, <2>4, <3>1, <3>3 DEF Reported
      <3>4. QED
        BY <2>2, <3>2, <3>3
    <2>6. \A i, j \in DOMAIN s.out : i < j => s.out[i] # s.out[j]
      BY <1>6, <2>5
    <2>7. /\ s.next = q.next \cup (Parents(q.cur) \ Reported(s))
          /\ Reported(s) = Reported(q) \cup (IF skip THEN {} ELSE {q.cur})
          /\ s.out = IF skip THEN q.out ELSE Append(q.out, q.cur)
      BY <1>6, <1>7, <1>9, <2>1, <2>3
    <2>8. QED
      BY <1>5, <1>6, <2>6, <2>7
  <1>10. QED
    BY <1>8, <1>9

LEMMA ReadEdgesSound ==
  ASSUME IInv, NEW q \in WalkRecords, q = query, WalkSound(q), ReadEdges
  PROVE  \E k \in WalkRecords : query' = k /\ WalkSound(k)
  <1>1. PICK s \in WalkRecords :
           /\ query' \in Advance(s)
           /\ s.at = "edges" /\ s.kind = q.kind /\ s.start = q.start /\ s.known = q.known
           /\ s.level = q.level \ {q.cur}
           /\ s.next = q.next \cup (Parents(q.cur) \ Reported(s))
           /\ Reported(s) = Reported(q) \cup
                (IF q.kind = "ancestors" /\ q.cur = q.start THEN {} ELSE {q.cur})
           /\ \A i, j \in DOMAIN s.out : i < j => s.out[i] # s.out[j]
           /\ s.out = IF q.kind = "ancestors" /\ q.cur = q.start THEN q.out ELSE Append(q.out, q.cur)
    BY ReadEdgesTakes
  <1>2. PICK k \in WalkRecords :
           /\ query' = k
           /\ k.kind = q.kind /\ k.start = q.start /\ k.known = q.known /\ k.out = s.out
           /\ \/ /\ k.at = "done" /\ k.level = s.level /\ k.next = s.next
                 /\ s.level \cup s.next \subseteq Reported(s)
              \/ /\ k.at # "done" /\ k.cur \in k.level
                 /\ \/ k.level = s.level \ Reported(s) /\ k.next = s.next
                    \/ /\ s.level \subseteq Reported(s)
                       /\ k.level = s.next \ Reported(s) /\ k.next = {}
    BY <1>1, AdvanceShape
  <1>3. Reported(k) = Reported(s)
    BY <1>2 DEF Reported
  <1>4. q.at = "edges" /\ q.cur \in q.level /\ q.cur \in q.known /\ q.cur \notin Reported(q)
    BY DEF ReadEdges, WalkSound
  <1>5. Parents(q.cur) \subseteq q.known
    BY <1>4 DEF WalkSound, SealedHistory, Parents
  <1>6. q.start \notin Parents(q.cur)
    <2>1. ASSUME NEW e \in commitParents, e[1] = q.cur, e[2] = q.start
          PROVE  FALSE
      <3>1. /\ q.cur \in commits /\ q.start \in commits /\ seq[q.start] < seq[q.cur]
            /\ seq[q.start] \in Nat /\ seq[q.cur] \in Nat
        BY <2>1 DEF IInv, ParentsOlder, TypeOK, commits
      <3>2. QED
        BY <1>4, <3>1 DEF WalkSound
    <2>2. QED
      BY <2>1 DEF Parents
  <1>7. k.level \cup k.next \subseteq s.level \cup s.next
    BY <1>2
  <1>8. q.start \notin s.level \cup s.next
    BY <1>1, <1>6 DEF WalkSound
  <1>9. q.start \notin k.level /\ q.start \notin k.next
    BY <1>7, <1>8
  <1>10. k.level \cup k.next \cup Reported(k) \subseteq q.known
    BY <1>1, <1>3, <1>4, <1>5, <1>7 DEF WalkSound
  <1>11. q.start \in Reported(k) <=> q.kind = "history"
    <2>1. CASE q.start \in q.level
      <3>1. q.cur = q.start /\ Reported(q) = {}
        <4>1. q.out = <<>> /\ q.cur = q.start
          BY <2>1 DEF WalkSound
        <4>2. DOMAIN q.out = {}
          BY <4>1
        <4>3. QED
          BY <4>1, <4>2 DEF Reported
      <3>2. QED
        BY <1>1, <1>3, <3>1 DEF WalkRecords
    <2>2. CASE q.start \notin q.level
      BY <1>1, <1>3, <1>4, <2>2 DEF WalkSound
    <2>3. QED
      BY <2>1, <2>2
  <1>12. Processed(k) = Reported(k) \cup {q.start}
    BY <1>2, <1>9 DEF Processed
  <1>13. Processed(k) \subseteq Processed(q) \cup {q.cur} /\ q.cur \in Processed(k)
    <2>1. CASE q.start \in q.level
      <3>1. q.cur = q.start /\ q.out = <<>>
        BY <2>1 DEF WalkSound
      <3>2. DOMAIN q.out = {}
        BY <3>1
      <3>3. Reported(q) = {}
        BY <3>2 DEF Reported
      <3>4. QED
        BY <1>1, <1>3, <1>12, <3>1, <3>3
    <2>2. CASE q.start \notin q.level
      BY <1>1, <1>3, <1>4, <1>12, <2>2 DEF Processed
    <2>3. QED
      BY <2>1, <2>2
  <1>14. Processed(q) \cup q.level \cup q.next \cup Parents(q.cur)
            \subseteq Processed(k) \cup k.level \cup k.next
    <2>1. Processed(q) \subseteq Processed(k)
      BY <1>1, <1>3, <1>12 DEF Processed
    <2>2. s.level \cup s.next \subseteq Reported(s) \cup k.level \cup k.next
      BY <1>2
    <2>3. q.level \cup q.next \cup Parents(q.cur) \subseteq s.level \cup s.next \cup Reported(s) \cup {q.cur}
      BY <1>1
    <2>4. QED
      BY <1>3, <1>12, <1>13, <2>1, <2>2, <2>3
  <1>15. k.at # "done" => k.cur \in k.level \ Reported(k)
    BY <1>2, <1>3
  <1>16. k.at = "done" => k.level \cup k.next \subseteq Reported(k)
    BY <1>2, <1>3
  <1>17. q.known \subseteq commits =>
           \A p \in Processed(k) : Parents(p) \subseteq Processed(k) \cup k.level \cup k.next
    BY <1>13, <1>14 DEF WalkSound
  <1>18. q.known \subseteq commits => \E d \in [k.known -> Nat], n \in Nat : Layers(k, d, n)
    <2> SUFFICES ASSUME q.known \subseteq commits
                 PROVE  \E d \in [k.known -> Nat], n \in Nat : Layers(k, d, n)
      OBVIOUS
    <2>1. PICK d \in [q.known -> Nat], n \in Nat : Layers(q, d, n)
      BY DEF WalkSound
    <2> DEFINE seen == Processed(q) \cup q.level \cup q.next
               new  == [a \in q.known |-> IF a \in seen THEN d[a] ELSE n + 1]
    <2>2. seen \subseteq q.known
      BY DEF WalkSound, Processed
    <2>3. new \in [q.known -> Nat] /\ \A a \in seen : new[a] = d[a]
      BY <2>1, <2>2
    <2>4. \A a \in q.known \ seen : new[a] = n + 1
      OBVIOUS
    <2> HIDE DEF new
    <2>5. q.cur \in q.level \ Processed(q) /\ q.cur \in seen /\ q.start \in seen
      BY <1>4 DEF WalkSound, Processed
    <2>6. new[q.cur] = n /\ new[q.start] = 0
      BY <2>1, <2>3, <2>5 DEF Layers
    <2>7. \A x \in Processed(q) : Parents(x) \subseteq seen
      BY DEF WalkSound
    <2>8. Processed(q) \subseteq Processed(k)
      BY <1>1, <1>3, <1>12 DEF Processed
    <2>9. \A a \in seen : a = q.start \/ \E x \in Processed(k) : a \in Parents(x) /\ new[a] = new[x] + 1
      BY <2>1, <2>3, <2>8 DEF Layers
    <2>10. \A a \in Parents(q.cur) \ seen : q.cur \in Processed(k) /\ new[a] = new[q.cur] + 1
      BY <1>5, <1>13, <2>4, <2>6
    <2>11. Processed(k) \cup k.level \cup k.next \subseteq seen \cup Parents(q.cur)
      BY <1>1, <1>7, <1>13, <2>5
    <2>12. ASSUME NEW a \in Processed(k) \cup k.level \cup k.next
           PROVE  /\ new[a] + seq[a] <= seq[q.start]
                  /\ a = q.start \/ \E x \in Processed(k) : a \in Parents(x) /\ new[a] = new[x] + 1
      <3>1. CASE a \in seen
        BY <2>1, <2>3, <2>9, <3>1 DEF Layers
      <3>2. CASE a \in Parents(q.cur) \ seen
        <4>1. new[q.cur] + seq[q.cur] <= seq[q.start]
          BY <2>1, <2>3, <2>5 DEF Layers
        <4>2. seq[a] < seq[q.cur] /\ seq[a] \in Nat /\ seq[q.cur] \in Nat /\ seq[q.start] \in Nat
          BY <3>2, <1>4, <1>5 DEF IInv, ParentsOlder, TypeOK, Parents, commits, WalkSound
        <4>3. new[a] + seq[a] <= seq[q.start]
          BY <2>6, <2>10, <3>2, <4>1, <4>2
        <4>4. QED
          BY <2>10, <3>2, <4>3
      <3>3. QED
        BY <2>11, <3>1, <3>2
    <2>13. ASSUME NEW x \in Processed(k)
           PROVE  new[x] <= n /\ \A a \in Parents(x) : new[a] <= new[x] + 1
      <3>1. CASE x \in Processed(q)
        BY <2>1, <2>3, <2>7, <3>1 DEF Layers
      <3>2. CASE x = q.cur
        <4>1. ASSUME NEW a \in seen PROVE new[a] <= n + 1
          <5>1. a \in Processed(q) => new[a] <= n
            BY <2>1, <2>3 DEF Layers
          <5>2. a \notin Processed(q) => new[a] \in {n, n + 1}
            BY <2>1, <2>3 DEF Layers
          <5>3. new[a] \in Nat
            BY <2>2, <2>3
          <5>4. QED
            BY <5>1, <5>2, <5>3
        <4>2. \A a \in Parents(q.cur) : new[a] <= n + 1
          BY <1>5, <2>4, <4>1
        <4>3. QED
          BY <2>6, <3>2, <4>2
      <3>3. QED
        BY <1>13, <3>1, <3>2
    <2>14. \A a \in s.level \ Processed(k) : new[a] = n
      BY <1>1, <2>1, <2>3, <2>8 DEF Layers
    <2>15. \A a \in s.next \ (s.level \cup Processed(k)) : new[a] = n + 1
      <3>1. ASSUME NEW a \in s.next, a \notin s.level, a \notin Processed(k)
            PROVE  new[a] = n + 1
        <4>1. a \notin Processed(q) /\ a \notin q.level
          BY <1>1, <1>13, <2>8, <3>1
        <4>2. CASE a \in q.next
          BY <2>1, <2>3, <4>1, <4>2 DEF Layers
        <4>3. CASE a \notin q.next
          BY <1>1, <1>5, <2>4, <4>1, <4>3
        <4>4. QED
          BY <4>2, <4>3
      <3>2. QED
        BY <3>1
    <2>16. \A i, j \in DOMAIN k.out : i < j => new[k.out[i]] <= new[k.out[j]]
      <3>1. Reported(q) \subseteq Processed(q)
        <4>1. CASE q.start \in q.level
          <5>1. q.out = <<>>
            BY <4>1 DEF WalkSound
          <5>2. DOMAIN q.out = {}
            BY <5>1
          <5>3. QED
            BY <5>2 DEF Reported
        <4>2. CASE q.start \notin q.level
          BY <4>2 DEF Processed
        <4>3. QED
          BY <4>1, <4>2
      <3>2. \A i \in DOMAIN q.out : q.out[i] \in Processed(q)
        BY <3>1 DEF Reported
      <3>3. \A i, j \in DOMAIN q.out : i < j => new[q.out[i]] <= new[q.out[j]]
        BY <2>1, <2>3, <3>2 DEF Layers
      <3>4. CASE k.out = q.out
        BY <3>3, <3>4
      <3>5. CASE k.out = Append(q.out, q.cur)
        <4>1. q.out \in Seq(CommitIds) /\ q.cur \in CommitIds
          BY DEF WalkRecords
        <4>2. /\ DOMAIN k.out = DOMAIN q.out \cup {Len(q.out) + 1}
              /\ DOMAIN q.out = 1 .. Len(q.out) /\ Len(q.out) \in Nat
              /\ \A i \in DOMAIN q.out : k.out[i] = q.out[i]
              /\ k.out[Len(q.out) + 1] = q.cur
          BY <3>5, <4>1
        <4>3. ASSUME NEW i \in DOMAIN k.out, NEW j \in DOMAIN k.out, i < j
              PROVE  new[k.out[i]] <= new[k.out[j]]
          <5>1. i \in DOMAIN q.out
            BY <4>2, <4>3
          <5>2. CASE j \in DOMAIN q.out
            BY <3>3, <4>2, <4>3, <5>1, <5>2
          <5>3. CASE j = Len(q.out) + 1
            <6>1. new[q.out[i]] <= n
              BY <2>8, <2>13, <3>2, <5>1
            <6>2. QED
              BY <2>6, <4>2, <5>1, <5>3, <6>1
          <5>4. QED
            BY <4>2, <5>2, <5>3
        <4>4. QED
          BY <4>3
      <3>6. QED
        BY <1>1, <1>2, <3>4, <3>5
    <2>17. CASE k.level = s.level \ Reported(s) /\ k.next = s.next
      <3>1. \A a \in k.level \ Processed(k) : new[a] = n
        BY <2>14, <2>17
      <3>2. k.next \ (k.level \cup Processed(k)) \subseteq s.next \ (s.level \cup Processed(k))
        BY <1>3, <1>12, <2>17
      <3>3. Layers(k, new, n)
        BY <1>2, <2>6, <2>12, <2>13, <2>15, <2>16, <3>1, <3>2 DEF Layers
      <3>4. QED
        BY <1>2, <2>3, <3>3
    <2>18. CASE s.level \subseteq Reported(s) /\ k.level = s.next \ Reported(s) /\ k.next = {}
      <3>1. \A a \in k.level \ Processed(k) : new[a] = n + 1
        BY <1>3, <1>12, <2>15, <2>18
      <3>2. \A x \in Processed(k) : new[x] <= n + 1
        <4>1. \A x \in Processed(k) : new[x] \in Nat
          BY <1>10, <1>12, <2>3 DEF WalkSound
        <4>2. QED
          BY <2>13, <4>1
      <3>3. Layers(k, new, n + 1)
        BY <1>2, <2>6, <2>12, <2>13, <2>16, <2>18, <3>1, <3>2 DEF Layers
      <3>4. n + 1 \in Nat
        OBVIOUS
      <3>5. QED
        BY <1>2, <2>3, <3>3, <3>4
    <2>19. CASE k.level = s.level /\ k.next = s.next /\ s.level \cup s.next \subseteq Reported(s)
      <3>1. k.level \cup k.next \subseteq Processed(k)
        BY <1>3, <1>12, <2>19
      <3>2. Layers(k, new, n)
        BY <1>2, <2>6, <2>12, <2>13, <2>16, <3>1 DEF Layers
      <3>3. QED
        BY <1>2, <2>3, <3>2
    <2>20. QED
      BY <1>2, <2>17, <2>18, <2>19
  <1>19. \A i, j \in DOMAIN k.out : i < j => k.out[i] # k.out[j]
    BY <1>1, <1>2
  <1>20. WalkSound(k)
    BY <1>2, <1>9, <1>10, <1>11, <1>15, <1>16, <1>17, <1>18, <1>19 DEF WalkSound
  <1>21. QED
    BY <1>2, <1>20

\* A walk that returns has covered the history it set out on, if that is
\* still there.
LEMMA WalkCovers ==
  ASSUME IInv, NEW q \in WalkRecords, WalkSound(q), q.at = "done", q.known \subseteq commits
  PROVE  Reported(q) = q.known \ (IF q.kind = "history" THEN {} ELSE {q.start})
  <1>1. q.start \notin q.level
    BY DEF WalkSound
  <1>2. Processed(q) = Reported(q) \cup {q.start}
    BY <1>1 DEF Processed
  <1>3. q.level \cup q.next \subseteq Processed(q)
    BY <1>2 DEF WalkSound
  <1>4. \A p \in Processed(q) : Parents(p) \subseteq Processed(q)
    BY <1>3 DEF WalkSound
  <1>5. Closed(Processed(q))
    BY <1>4 DEF Closed, Parents
  <1>6. Processed(q) \in SUBSET CommitIds /\ q.start \in CommitIds /\ q.start \in Processed(q)
    BY <1>2 DEF WalkSound, WalkRecords
  <1>7. q.known \subseteq Processed(q)
    BY <1>5, <1>6, AncestorsWithin DEF WalkSound
  <1>8. Reported(q) \subseteq q.known /\ (q.start \in Reported(q) <=> q.kind = "history")
    BY <1>1 DEF WalkSound
  <1>9. QED
    BY <1>2, <1>7, <1>8

\* And it has met the nearest first.
LEMMA WalkNearest ==
  ASSUME IInv, NEW q \in WalkRecords, WalkSound(q), q.at = "done", q.known \subseteq commits
  PROVE  \E d \in Distances(q.start) :
           \A i, j \in DOMAIN q.out : i < j => d[q.out[i]] <= d[q.out[j]]
  <1>1. PICK d \in [q.known -> Nat], n \in Nat : Layers(q, d, n)
    BY DEF WalkSound
  <1>2. q.known = Ancestors(q.start) /\ q.start \in q.known
    BY DEF WalkSound
  <1>3. q.known = Processed(q)
    BY WalkCovers DEF WalkSound, Processed
  <1>4. ASSUME NEW a \in q.known PROVE d[a] \in 0 .. seq[q.start]
    <2>1. d[a] + seq[a] <= seq[q.start]
      BY <1>1, <1>3 DEF Layers
    <2>2. seq[a] \in Nat /\ seq[q.start] \in Nat /\ d[a] \in Nat
      BY <1>2 DEF IInv, TypeOK, WalkRecords
    <2>3. QED
      BY <2>1, <2>2
  <1>5. d \in [q.known -> 0 .. seq[q.start]]
    BY <1>4
  <1>6. /\ d[q.start] = 0
        /\ \A a \in q.known \ {q.start} : \E x \in q.known : a \in Parents(x) /\ d[a] = d[x] + 1
        /\ \A x \in q.known : \A a \in Parents(x) : d[a] <= d[x] + 1
        /\ \A i, j \in DOMAIN q.out : i < j => d[q.out[i]] <= d[q.out[j]]
    BY <1>1, <1>3 DEF Layers
  <1>7. d \in Distances(q.start)
    BY <1>2, <1>5, <1>6 DEF Distances
  <1>8. QED
    BY <1>6, <1>7

-----------------------------------------------------------------------------
(* The listing. *)

LEMMA ListUnmoved ==
  ASSUME Reads, NEW k \in ListRecords, ListSound(k)
  PROVE  ListSound(k)'
  BY DEF Reads, metaVars, ListSound, SealedHistory

LEMMA ListOthers ==
  ASSUME IInv, Next, NoneBack, NEW k \in ListRecords, ListSound(k)
  PROVE  ListSound(k)'
  <1>1. CASE k.at = "rows"
    <2>1. PICK D \in SUBSET CommitIds : D = DOMAIN k.listed
      BY DEF ListRecords
    <2>2. /\ SealedHistory(D)
          /\ \A e \in commitParents : e[1] \in D => e[2] \in D /\ k.seqs[e[2]] < k.seqs[e[1]]
      BY <1>1, <2>1 DEF ListSound, SealedHistory
    <2>3. SealedHistory(D)'
      BY <2>2, SealedStep
    <2>4. \A c \in CommitIds : k.seqs[c] \in Nat
      BY DEF ListRecords
    <2>5. ASSUME NEW e \in commitParents', e[1] \in D
          PROVE  k.seqs[e[2]] < k.seqs[e[1]]
      <3>1. CASE e \in commitParents
        BY <2>2, <2>5, <3>1
      <3>2. CASE \E g, f \in commitParents : g[1] = e[1] /\ g[2] = f[1] /\ f[2] = e[2]
        <4>1. PICK g \in commitParents, f \in commitParents :
                 g[1] = e[1] /\ g[2] = f[1] /\ f[2] = e[2]
          BY <3>2
        <4>2. /\ k.seqs[g[2]] < k.seqs[g[1]] /\ k.seqs[f[2]] < k.seqs[f[1]]
              /\ {g[1], g[2], f[2]} \subseteq D
          BY <2>2, <2>5, <4>1
        <4>3. k.seqs[g[1]] \in Nat /\ k.seqs[g[2]] \in Nat /\ k.seqs[f[2]] \in Nat
          BY <2>4, <4>2
        <4>4. QED
          BY <4>1, <4>2, <4>3
      <3>3. QED
        BY <2>2, <2>5, <3>1, <3>2, StepEdges DEF SealedHistory
    <2>6. QED
      BY <1>1, <2>1, <2>3, <2>5 DEF ListSound
  <1>2. CASE k.at # "rows"
    BY <1>2 DEF ListSound
  <1>3. QED
    BY <1>1, <1>2

LEMMA ListStepsSound ==
  ASSUME IInv, QueryInv, ListCommits \/ ListEdges
  PROVE  \E k \in ListRecords : query' = k /\ ListSound(k)
  <1> USE DEF IInv
  <1>1. CASE ListCommits
    <2>1. PICK D \in SUBSET CommitIds : D = commits
      BY DEF commits
    <2> DEFINE none == [c \in D |-> {}]
    <2>2. PICK l \in UNION {[E -> SUBSET CommitIds] : E \in SUBSET CommitIds} :
             l = none /\ DOMAIN l = D
      <3>1. none \in [D -> SUBSET CommitIds] /\ DOMAIN none = D
        OBVIOUS
      <3>2. QED
        BY <3>1
    <2> DEFINE k == [at |-> "rows", listed |-> l, seqs |-> seq]
    <2>3. k \in ListRecords /\ k.at = "rows" /\ k.listed = l /\ k.seqs = seq
      BY DEF ListRecords, TypeOK
    <2>4. query' = k
      BY <1>1, <2>1, <2>2 DEF ListCommits
    <2> HIDE DEF k
    <2>5. SealedHistory(D)
      BY <2>1 DEF SealedHistory, HashedEdges, ParentsOlder
    <2>6. \A e \in commitParents : e[1] \in D => seq[e[2]] < seq[e[1]]
      BY DEF ParentsOlder
    <2>7. ListSound(k)
      BY <2>2, <2>3, <2>5, <2>6 DEF ListSound
    <2>8. QED
      BY <2>3, <2>4, <2>7
  <1>2. CASE ListEdges
    <2>1. PICK q \in ListRecords : q = query /\ ListSound(q) /\ q.at = "rows"
      BY <1>2 DEF ListEdges, QueryInv, NoQuery, WalkRecords, PairRecords, DiffRecords
    <2>2. PICK D \in SUBSET CommitIds : D = DOMAIN q.listed
      BY DEF ListRecords
    <2> DEFINE read == [c \in D |-> Parents(c)]
    <2>3. PICK l \in UNION {[E -> SUBSET CommitIds] : E \in SUBSET CommitIds} :
             l = read /\ DOMAIN l = D
      <3>1. \A c \in D : Parents(c) \in SUBSET CommitIds
        BY DEF Parents, TypeOK
      <3>2. read \in [D -> SUBSET CommitIds] /\ DOMAIN read = D
        BY <3>1
      <3>3. QED
        BY <3>2
    <2> DEFINE k == [q EXCEPT !.at = "listed", !.listed = l]
    <2>4. k \in ListRecords /\ k.at = "listed" /\ k.listed = l /\ k.seqs = q.seqs
      BY DEF ListRecords
    <2>5. query' = k
      BY <1>2, <2>1, <2>2, <2>3 DEF ListEdges
    <2> HIDE DEF k
    <2>6. \A c \in D : \A p \in Parents(c) : p \in D /\ q.seqs[p] < q.seqs[c]
      BY <2>1, <2>2 DEF ListSound, SealedHistory, Parents
    <2>7. ListSound(k)
      BY <2>3, <2>4, <2>6 DEF ListSound
    <2>8. QED
      BY <2>4, <2>5, <2>7
  <1>3. QED
    BY <1>1, <1>2

-----------------------------------------------------------------------------
(* The comparison. *)

LEMMA PresentBlobs ==
  ASSUME TypeOK, NEW c, NEW k
  PROVE  Present(c, k) \in SUBSET Blobs
  BY DEF Present, Effective, Visible, TypeOK, Row

LEMMA DiffUnmoved ==
  ASSUME Reads, NEW k \in DiffRecords, DiffSound(k)
  PROVE  DiffSound(k)'
  <1>1. UNCHANGED <<seq, commitParents, chunkHistory, assigned>>
    BY DEF Reads, metaVars
  <1>2. commits' = commits
    BY <1>1 DEF commits
  <1>3. \A c, j : Present(c, j)' = Present(c, j)
    BY <1>1 DEF Present, Effective, Visible, Ancestors, Closed
  <1>4. DiffCurrent(k)' <=> DiffCurrent(k)
    BY <1>3 DEF DiffCurrent
  <1>5. QED
    BY <1>1, <1>2, <1>4 DEF DiffSound

LEMMA DiffOthers ==
  ASSUME IInv, Next, NoneBack, NEW q \in DiffRecords, DiffSound(q), NEW b \in BOOLEAN,
         b = (q.steady /\ Steady)
  PROVE  \E k \in DiffRecords : k = [q EXCEPT !.steady = b] /\ DiffSound(k)'
  <1> DEFINE k == [q EXCEPT !.steady = b]
  <1>1. /\ k \in DiffRecords /\ k.at = q.at /\ k.old = q.old /\ k.new = q.new
        /\ k.coords = q.coords /\ k.sides = q.sides /\ k.steady = b
    BY DEF DiffRecords
  <1>2. {q.old, q.new} \subseteq assigned /\ assigned \subseteq assigned'
    BY StepIds DEF DiffSound
  <1>3. ASSUME b, {q.old, q.new} \subseteq commits'
        PROVE  DiffCurrent(q)'
    <2>1. q.steady /\ Steady
      BY <1>3
    <2>2. {q.old, q.new} \subseteq commits
      BY <1>2, <1>3, StepIds
    <2>3. DiffCurrent(q)
      BY <2>1, <2>2 DEF DiffSound
    <2>4. \A j \in Coords : /\ Present(q.old, j)' = Present(q.old, j)
                            /\ Present(q.new, j)' = Present(q.new, j)
      <3>1. PortInv /\ ParentsOlder /\ \A c \in CommitIds : ~ Relinks(c)
        BY InvPort, NeverRelinks DEF IInv
      <3>2. QED
        BY <1>3, <2>1, <2>2, <3>1, StepStable DEF Steady
    <2>5. q.coords \subseteq Coords
      BY DEF DiffRecords
    <2>6. QED
      BY <2>3, <2>4, <2>5 DEF DiffCurrent
  <1> HIDE DEF k
  <1>4. DiffCurrent(k)' <=> DiffCurrent(q)'
    BY <1>1 DEF DiffCurrent
  <1>5. DiffSound(k)'
    BY <1>1, <1>2, <1>3, <1>4 DEF DiffSound
  <1>6. QED
    BY <1>1, <1>5 DEF k

LEMMA StartDiffSound ==
  ASSUME IInv, StartDiff
  PROVE  query' \in PairRecords /\ query'.cur \in assigned
  <1>1. PICK c \in Resolvable : query' = [at |-> "pair", cur |-> c, steady |-> Linear]
    BY DEF StartDiff
  <1>2. c \in CommitIds /\ c \in assigned
    BY <1>1 DEF IInv, Resolvable, RefsResolve, commits, HashedEdges
  <1>3. Linear \in BOOLEAN
    BY DEF Linear
  <1>4. QED
    BY <1>1, <1>2, <1>3 DEF PairRecords

LEMMA PairUpSound ==
  ASSUME IInv, NEW q \in PairRecords, q = query, q.cur \in assigned, PairUp
  PROVE  query' = NoQuery \/ \E k \in DiffRecords : query' = k /\ DiffSound(k)
  <1> USE DEF IInv
  <1>1. Resolvable \subseteq commits /\ commits \subseteq CommitIds /\ commits \subseteq assigned
    BY DEF Resolvable, RefsResolve, commits, HashedEdges
  <1>2. q.cur \in commits => Parents(q.cur) \subseteq commits
    BY DEF Parents, ParentsOlder
  <1>3. q.cur \in CommitIds /\ q.steady \in BOOLEAN
    BY DEF PairRecords
  <1>4. SUFFICES ASSUME query' # NoQuery
                 PROVE  \E k \in DiffRecords : query' = k /\ DiffSound(k)
    OBVIOUS
  <1>5. PICK c \in CommitIds, d \in CommitIds :
           query' = Compare(c, d, q.steady) /\ {c, d} \subseteq assigned
    <2> DEFINE parents == IF q.cur \in commits THEN Parents(q.cur) ELSE {}
    <2>1. parents \subseteq commits
      BY <1>2
    <2>2. \/ \E d \in Resolvable : query' = Compare(q.cur, d, q.steady)
          \/ \E d \in Resolvable \cup parents : query' = Compare(d, q.cur, q.steady)
      BY <1>4 DEF PairUp
    <2> HIDE DEF parents
    <2>3. QED
      BY <1>1, <1>3, <2>1, <2>2
  <1>6. PICK none \in [Coords -> Seq(SUBSET Blobs)] :
           none = [j \in Coords |-> <<>>] /\ \A j \in Coords : Len(none[j]) = 0
    <2> DEFINE f == [j \in Coords |-> <<>>]
    <2>1. <<>> \in Seq(SUBSET Blobs) /\ Len(<<>>) = 0
      OBVIOUS
    <2>2. f \in [Coords -> Seq(SUBSET Blobs)] /\ \A j \in Coords : Len(f[j]) = 0
      BY <2>1
    <2>3. QED
      BY <2>2
  <1> DEFINE k == [at |-> "oldCoords", old |-> c, new |-> d, coords |-> {}, sides |-> none,
                   steady |-> q.steady]
  <1>7. /\ k \in DiffRecords /\ k.at = "oldCoords" /\ k.old = c /\ k.new = d /\ k.sides = none
    BY <1>3, <1>6 DEF DiffRecords
  <1>8. query' = k
    BY <1>5, <1>6 DEF Compare
  <1> HIDE DEF k
  <1>9. DiffSound(k)
    BY <1>5, <1>6, <1>7 DEF DiffSound, DiffCurrent
  <1>10. QED
    BY <1>7, <1>8, <1>9

LEMMA ListCoordsSound ==
  ASSUME IInv, NEW q \in DiffRecords, q = query, DiffSound(q), ListCoords
  PROVE  \E k \in DiffRecords : query' = k /\ DiffSound(k)
  <1>1. ASSUME NEW c, NEW j \in Coords, Present(c, j) # {}
        PROVE  j \in CoordsOf(c)
    BY <1>1 DEF Present, CoordsOf
  <1>2. \A c : CoordsOf(c) \in SUBSET Coords
    BY DEF CoordsOf
  <1>3. q.coords \in SUBSET Coords
    BY DEF DiffRecords
  <1>4. CASE q.at = "oldCoords"
    <2>1. PICK K \in SUBSET Coords : K = CoordsOf(q.old)
      BY <1>2
    <2> DEFINE k == [q EXCEPT !.at = "newCoords", !.coords = K]
    <2>2. /\ k \in DiffRecords /\ k.at = "newCoords" /\ k.old = q.old /\ k.new = q.new
          /\ k.coords = K /\ k.sides = q.sides
      BY DEF DiffRecords
    <2>3. query' = k
      BY <1>4, <2>1 DEF ListCoords
    <2> HIDE DEF k
    <2>4. DiffSound(k)
      BY <1>1, <1>4, <2>1, <2>2 DEF DiffSound, DiffCurrent
    <2>5. QED
      BY <2>2, <2>3, <2>4
  <1>5. CASE q.at = "newCoords"
    <2>1. PICK K \in SUBSET Coords : K = q.coords \cup CoordsOf(q.new)
      BY <1>2, <1>3
    <2> DEFINE k == [q EXCEPT !.at = "oldSide", !.coords = K]
    <2>2. /\ k \in DiffRecords /\ k.at = "oldSide" /\ k.old = q.old /\ k.new = q.new
          /\ k.coords = K /\ k.sides = q.sides /\ k.steady = q.steady
      BY DEF DiffRecords
    <2>3. query' = k
      BY <1>5, <2>1 DEF ListCoords
    <2> HIDE DEF k
    <2>4. \A j \in Coords : Len(k.sides[j]) = 0
      BY <1>5, <2>2 DEF DiffSound
    <2>5. ASSUME k.steady, {k.old, k.new} \subseteq commits
          PROVE  \A j \in Coords : Present(k.old, j) # Present(k.new, j) => j \in K
      <3>1. \A j \in Coords : Present(q.old, j) # {} => j \in q.coords
        BY <1>5, <2>2, <2>5 DEF DiffSound, DiffCurrent
      <3>2. QED
        BY <1>1, <2>1, <2>2, <3>1
    <2>6. DiffSound(k)
      BY <2>2, <2>4, <2>5 DEF DiffSound, DiffCurrent
    <2>7. QED
      BY <2>2, <2>3, <2>6
  <1>6. QED
    BY <1>4, <1>5 DEF ListCoords

LEMMA ReadOldSideSound ==
  ASSUME IInv, NEW q \in DiffRecords, q = query, DiffSound(q), ReadSide, q.at = "oldSide"
  PROVE  \E k \in DiffRecords : query' = k /\ DiffSound(k)
  <1>1. PICK j \in Open(q) :
           query' = [q EXCEPT !.at = "newSide", !.sides[j] = <<Side(q.old, j)>>]
    BY DEF ReadSide
  <1>2. j \in Coords /\ q.sides \in [Coords -> Seq(SUBSET Blobs)]
    BY DEF Open, DiffRecords
  <1>3. PICK answer \in SUBSET Blobs : answer = Side(q.old, j) /\ answer = Present(q.old, j)
    BY PresentBlobs DEF IInv, Side
  <1>4. PICK one : one = <<answer>> /\ one \in Seq(SUBSET Blobs) /\ Len(one) = 1 /\ one[1] = answer
    <2>1. <<answer>> \in Seq(SUBSET Blobs)
      OBVIOUS
    <2>2. Len(<<answer>>) = 1 /\ <<answer>>[1] = answer
      OBVIOUS
    <2>3. QED
      BY <2>1, <2>2
  <1> DEFINE k == [q EXCEPT !.at = "newSide", !.sides[j] = one]
  <1>5. /\ k \in DiffRecords /\ k.at = "newSide" /\ k.old = q.old /\ k.new = q.new
        /\ k.coords = q.coords /\ k.steady = q.steady
        /\ k.sides = [q.sides EXCEPT ![j] = one]
    BY <1>2, <1>4 DEF DiffRecords
  <1>6. query' = k
    BY <1>1, <1>3, <1>4
  <1> HIDE DEF k
  <1>7. k.sides[j] = one /\ \A i \in Coords \ {j} : k.sides[i] = q.sides[i]
    BY <1>2, <1>5
  <1>8. \A i \in Coords : Len(q.sides[i]) \in {0, 2}
    BY DEF DiffSound
  <1>9. ASSUME k.steady, {k.old, k.new} \subseteq commits
        PROVE  DiffCurrent(k)
    <2>1. DiffCurrent(q)
      BY <1>5, <1>9 DEF DiffSound
    <2>2. QED
      BY <1>3, <1>4, <1>5, <1>7, <2>1 DEF DiffCurrent
  <1>10. /\ \A i \in Coords : Len(k.sides[i]) \in {0, 1, 2}
         /\ \A i \in Coords : Len(k.sides[i]) = 1 => i = j
    <2>1. Len(k.sides[j]) = 1
      BY <1>4, <1>7
    <2>2. ASSUME NEW i \in Coords, i # j
          PROVE  Len(k.sides[i]) \in {0, 2} /\ Len(k.sides[i]) # 1
      <3>1. k.sides[i] = q.sides[i]
        BY <1>7, <2>2
      <3>2. PICK n \in {0, 2} : n = Len(q.sides[i])
        BY <1>8
      <3>3. n # 1
        OBVIOUS
      <3>4. QED
        BY <3>1, <3>2, <3>3
    <2>3. QED
      BY <2>1, <2>2
  <1>11. DiffSound(k)
    BY <1>5, <1>9, <1>10 DEF DiffSound
  <1>12. QED
    BY <1>5, <1>6, <1>11

LEMMA ReadNewSideSound ==
  ASSUME IInv, NEW q \in DiffRecords, q = query, DiffSound(q), ReadSide, q.at = "newSide"
  PROVE  \E k \in DiffRecords : query' = k /\ DiffSound(k)
  <1>1. PICK j \in q.coords :
           /\ Len(q.sides[j]) = 1
           /\ query' = [q EXCEPT !.at = "oldSide", !.sides[j] = Append(@, Side(q.new, j))]
    BY DEF ReadSide
  <1>2. j \in Coords /\ q.sides \in [Coords -> Seq(SUBSET Blobs)] /\ q.sides[j] \in Seq(SUBSET Blobs)
    BY DEF DiffRecords
  <1>3. PICK answer \in SUBSET Blobs : answer = Side(q.new, j) /\ answer = Present(q.new, j)
    BY PresentBlobs DEF IInv, Side
  <1>4. PICK two \in Seq(SUBSET Blobs) :
           /\ two = Append(q.sides[j], answer)
           /\ Len(two) = 2 /\ two[1] = q.sides[j][1] /\ two[2] = answer
    <2> DEFINE t == Append(q.sides[j], answer)
    <2>1. t \in Seq(SUBSET Blobs)
      BY <1>2
    <2>2. Len(t) = 2 /\ t[1] = q.sides[j][1] /\ t[2] = answer
      <3>1. PICK s \in Seq(SUBSET Blobs) : s = q.sides[j] /\ Len(s) = 1
        BY <1>1, <1>2
      <3>2. Len(Append(s, answer)) = 2
        <4>1. Len(Append(s, answer)) = Len(s) + 1
          OBVIOUS
        <4>2. QED
          BY <3>1, <4>1
      <3>3. Append(s, answer)[1] = s[1] /\ Append(s, answer)[2] = answer
        BY <3>1
      <3>4. QED
        BY <3>1, <3>2, <3>3
    <2>3. QED
      BY <2>1, <2>2
  <1> DEFINE k == [q EXCEPT !.at = "oldSide", !.sides[j] = two]
  <1>5. /\ k \in DiffRecords /\ k.at = "oldSide" /\ k.old = q.old /\ k.new = q.new
        /\ k.coords = q.coords /\ k.steady = q.steady
        /\ k.sides = [q.sides EXCEPT ![j] = two]
    BY <1>2, <1>4 DEF DiffRecords
  <1>6. query' = k
    BY <1>1, <1>3, <1>4
  <1> HIDE DEF k
  <1>7. k.sides[j] = two /\ \A i \in Coords \ {j} : k.sides[i] = q.sides[i]
    BY <1>2, <1>5
  <1>8. /\ \A i \in Coords : Len(q.sides[i]) \in {0, 1, 2}
        /\ \A i \in Coords \ {j} : Len(q.sides[i]) # 1
    BY <1>1, <1>2 DEF DiffSound
  <1>9. ASSUME k.steady, {k.old, k.new} \subseteq commits
        PROVE  DiffCurrent(k)
    <2>1. DiffCurrent(q)
      BY <1>5, <1>9 DEF DiffSound
    <2>2. q.sides[j][1] = Present(q.old, j)
      BY <1>1, <1>2, <2>1 DEF DiffCurrent
    <2>3. QED
      BY <1>3, <1>4, <1>5, <1>7, <2>1, <2>2 DEF DiffCurrent
  <1>10. \A i \in Coords : Len(k.sides[i]) \in {0, 2} /\ Len(k.sides[i]) # 1
    <2>1. Len(k.sides[j]) = 2
      BY <1>4, <1>7
    <2>2. ASSUME NEW i \in Coords, i # j
          PROVE  Len(k.sides[i]) \in {0, 2} /\ Len(k.sides[i]) # 1
      <3>1. k.sides[i] = q.sides[i]
        BY <1>7, <2>2
      <3>2. QED
        BY <1>8, <2>2, <3>1
    <2>3. QED
      BY <2>1, <2>2
  <1>11. DiffSound(k)
    BY <1>5, <1>9, <1>10 DEF DiffSound
  <1>12. QED
    BY <1>5, <1>6, <1>11

LEMMA FinishDiffSound ==
  ASSUME IInv, NEW q \in DiffRecords, q = query, DiffSound(q), FinishDiff
  PROVE  \E k \in DiffRecords : query' = k /\ DiffSound(k)
  <1>1. q.at = "oldSide" /\ Open(q) = {}
    BY DEF FinishDiff
  <1>2. q.coords \in SUBSET Coords /\ q.sides \in [Coords -> Seq(SUBSET Blobs)]
    BY DEF DiffRecords
  <1>3. \A j \in q.coords : Len(q.sides[j]) = 2
    <2>1. ASSUME NEW j \in q.coords
          PROVE  Len(q.sides[j]) # 0
      <3>1. q.sides[j] # <<>> /\ q.sides[j] \in Seq(SUBSET Blobs)
        BY <1>1, <1>2 DEF Open
      <3>2. QED
        BY <3>1
    <2>2. QED
      BY <1>1, <1>2, <2>1 DEF DiffSound
  <1>4. PICK K \in SUBSET Coords : K = {j \in q.coords : q.sides[j][1] # q.sides[j][2]}
    BY <1>2
  <1> DEFINE k == [q EXCEPT !.at = "compared", !.coords = K]
  <1>5. /\ k \in DiffRecords /\ k.at = "compared" /\ k.old = q.old /\ k.new = q.new
        /\ k.coords = K /\ k.steady = q.steady /\ k.sides = q.sides
    BY DEF DiffRecords
  <1>6. query' = k
    BY <1>4 DEF FinishDiff
  <1> HIDE DEF k
  <1>7. ASSUME k.steady, {k.old, k.new} \subseteq commits
        PROVE  DiffCurrent(k)
    <2>1. /\ \A j \in Coords : Present(q.old, j) # Present(q.new, j) => j \in q.coords
          /\ \A j \in q.coords : /\ q.sides[j][1] = Present(q.old, j)
                                 /\ q.sides[j][2] = Present(q.new, j)
      BY <1>1, <1>2, <1>3, <1>5, <1>7 DEF DiffSound, DiffCurrent
    <2>2. K = {j \in Coords : Present(q.old, j) # Present(q.new, j)}
      BY <1>2, <1>4, <2>1
    <2>3. ASSUME NEW j \in K
          PROVE  q.sides[j] = <<Present(q.old, j), Present(q.new, j)>>
      <3>1. q.sides[j] \in Seq(SUBSET Blobs) /\ Len(q.sides[j]) = 2
        BY <1>2, <1>3, <1>4
      <3>2. q.sides[j] = <<q.sides[j][1], q.sides[j][2]>>
        BY <3>1
      <3>3. QED
        BY <1>4, <2>1, <3>2
    <2>4. QED
      BY <1>5, <2>2, <2>3 DEF DiffCurrent
  <1>8. DiffSound(k)
    BY <1>1, <1>5, <1>7 DEF DiffSound
  <1>9. QED
    BY <1>5, <1>6, <1>8

-----------------------------------------------------------------------------
(* The invariant. *)

LEMMA QueriesInvInit == QueriesInit => QueriesInv
  BY InvInit DEF QueriesInit, QueriesInv, QueryInv

LEMMA ReaderNamed == NoQuery # NoReader /\ NoReader.at = "none" /\ "steady" \notin DOMAIN NoReader
  BY DEF NoQuery, NoReader

\* Where there is no reader there never is one.
LEMMA NoReaderStep ==
  ASSUME query = NoReader, [Others \/ QueryStep]_<<metaVars, query>>
  PROVE  query' = NoReader
  <1>1. ~ QueryStep
    BY ReaderNamed
       DEF QueryStep, StartWalk, ReadRecord, ReadEdges, ListCommits, ListEdges, StartDiff, PairUp,
           ListCoords, ReadSide, FinishDiff, Return, Ended
  <1>2. QED
    BY <1>1, ReaderNamed DEF Others, Watch

LEMMA OthersStep ==
  ASSUME IInv, QueryInv, query # NoReader, Others
  PROVE  QueriesInv'
  <1> USE DEF QueriesInv
  <1>1. IInv' /\ Next /\ NoneBack
    BY InvStep DEF Others
  <1>2. CASE query = NoQuery
    <2>1. query' = query
      BY <1>2 DEF Others, Watch, NoQuery
    <2>2. QED
      BY <1>1, <1>2, <2>1 DEF QueryInv
  <1>3. CASE query \in WalkRecords /\ WalkSound(query)
    <2>1. PICK q \in WalkRecords : q = query
      BY <1>3
    <2>2. "steady" \notin DOMAIN q
      BY DEF WalkRecords
    <2>3. query' = q
      BY <2>1, <2>2 DEF Others, Watch
    <2>4. WalkSound(q)'
      BY <1>1, <1>3, <2>1, WalkOthers
    <2>5. QED
      BY <1>1, <2>1, <2>3, <2>4 DEF QueryInv
  <1>4. CASE query \in ListRecords /\ ListSound(query)
    <2>1. PICK q \in ListRecords : q = query
      BY <1>4
    <2>2. "steady" \notin DOMAIN q
      BY DEF ListRecords
    <2>3. query' = q
      BY <2>1, <2>2 DEF Others, Watch
    <2>4. ListSound(q)'
      BY <1>1, <1>4, <2>1, ListOthers
    <2>5. QED
      BY <1>1, <2>1, <2>3, <2>4 DEF QueryInv
  <1>5. CASE query \in PairRecords /\ query.cur \in assigned
    <2>1. PICK q \in PairRecords : q = query
      BY <1>5
    <2>2. PICK b \in BOOLEAN : b = (q.steady /\ Steady)
      BY DEF PairRecords
    <2>3. "steady" \in DOMAIN q
      BY DEF PairRecords
    <2>4. query' = [q EXCEPT !.steady = b]
      BY <2>1, <2>2, <2>3 DEF Others, Watch
    <2>5. query' \in PairRecords /\ query'.cur = q.cur
      BY <2>4 DEF PairRecords
    <2>6. q.cur \in assigned'
      BY <1>1, <1>5, <2>1, StepIds
    <2>7. QED
      BY <1>1, <2>5, <2>6 DEF QueryInv
  <1>6. CASE query \in DiffRecords /\ DiffSound(query)
    <2>1. PICK q \in DiffRecords : q = query
      BY <1>6
    <2>2. PICK b \in BOOLEAN : b = (q.steady /\ Steady)
      BY DEF DiffRecords
    <2>3. "steady" \in DOMAIN q
      BY DEF DiffRecords
    <2>4. query' = [q EXCEPT !.steady = b]
      BY <2>1, <2>2, <2>3 DEF Others, Watch
    <2>5. PICK k \in DiffRecords : k = [q EXCEPT !.steady = b] /\ DiffSound(k)'
      BY <1>1, <1>6, <2>1, <2>2, DiffOthers
    <2>6. QED
      BY <1>1, <2>4, <2>5 DEF QueryInv
  <1>7. QED
    BY <1>2, <1>3, <1>4, <1>5, <1>6 DEF QueryInv

\* A query of the operation itself leaves a sound one, or none.
LEMMA QueryStepSound ==
  ASSUME IInv, QueryInv, QueryStep
  PROVE  \/ query' = NoQuery
         \/ \E k \in WalkRecords : query' = k /\ WalkSound(k)
         \/ \E k \in ListRecords : query' = k /\ ListSound(k)
         \/ query' \in PairRecords /\ query'.cur \in assigned
         \/ \E k \in DiffRecords : query' = k /\ DiffSound(k)
  <1>1. CASE StartWalk("ancestors") \/ StartWalk("history")
    BY <1>1, StartWalkSound
  <1>2. CASE ReadRecord
    <2>1. query \in WalkRecords /\ WalkSound(query)
      BY <1>2 DEF ReadRecord, QueryInv, NoQuery, ListRecords, PairRecords, DiffRecords
    <2>2. QED
      BY <1>2, <2>1, ReadRecordSound
  <1>3. CASE ReadEdges
    <2>1. query \in WalkRecords /\ WalkSound(query)
      BY <1>3 DEF ReadEdges, QueryInv, NoQuery, ListRecords, PairRecords, DiffRecords
    <2>2. QED
      BY <1>3, <2>1, ReadEdgesSound
  <1>4. CASE ListCommits \/ ListEdges
    BY <1>4, ListStepsSound
  <1>5. CASE StartDiff
    BY <1>5, StartDiffSound
  <1>6. CASE PairUp
    <2>1. query \in PairRecords /\ query.cur \in assigned
      BY <1>6 DEF PairUp, QueryInv, NoQuery, ListRecords, WalkRecords, DiffRecords
    <2>2. QED
      BY <1>6, <2>1, PairUpSound
  <1>7. CASE ListCoords
    <2>1. query \in DiffRecords /\ DiffSound(query)
      BY <1>7 DEF ListCoords, QueryInv, NoQuery, ListRecords, WalkRecords, PairRecords
    <2>2. QED
      BY <1>7, <2>1, ListCoordsSound
  <1>8. CASE ReadSide
    <2>1. query.at \in {"oldSide", "newSide"}
      BY <1>8 DEF ReadSide
    <2>2. query \in DiffRecords /\ DiffSound(query)
      BY <2>1 DEF QueryInv, NoQuery, ListRecords, WalkRecords, PairRecords
    <2>3. QED
      BY <1>8, <2>1, <2>2, ReadOldSideSound, ReadNewSideSound
  <1>9. CASE FinishDiff
    <2>1. query \in DiffRecords /\ DiffSound(query)
      BY <1>9 DEF FinishDiff, QueryInv, NoQuery, ListRecords, WalkRecords, PairRecords
    <2>2. QED
      BY <1>9, <2>1, FinishDiffSound
  <1>10. CASE Return
    BY <1>10 DEF Return
  <1>11. QED
    BY <1>1, <1>2, <1>3, <1>4, <1>5, <1>6, <1>7, <1>8, <1>9, <1>10 DEF QueryStep

LEMMA QueryStepStep ==
  ASSUME IInv, QueryInv, QueryStep
  PROVE  QueriesInv'
  <1>1. Reads
    BY DEF QueryStep, StartWalk, ReadRecord, ReadEdges, ListCommits, ListEdges, StartDiff, PairUp,
       ListCoords, ReadSide, FinishDiff, Return
  <1>2. IInv'
    BY <1>1, InvStep DEF Reads
  <1>3. assigned' = assigned
    BY <1>1 DEF Reads, metaVars
  <1>4. QueryInv'
    BY <1>1, <1>3, QueryStepSound, WalkUnmoved, ListUnmoved, DiffUnmoved DEF QueryInv
  <1>5. QED
    BY <1>2, <1>4 DEF QueriesInv

LEMMA QueriesInvStep == QueriesInv /\ [Others \/ QueryStep]_<<metaVars, query>> => QueriesInv'
  <1> SUFFICES ASSUME QueriesInv, [Others \/ QueryStep]_<<metaVars, query>>
               PROVE  QueriesInv'
    OBVIOUS
  <1>0. CASE query = NoReader
    BY <1>0, NoReaderStep DEF QueriesInv
  <1> SUFFICES ASSUME query # NoReader, IInv, QueryInv
               PROVE  QueriesInv'
    BY <1>0 DEF QueriesInv
  <1>1. CASE Others
    BY <1>1, OthersStep
  <1>2. CASE QueryStep
    BY <1>2, QueryStepStep
  <1>3. CASE UNCHANGED <<metaVars, query>>
    <2>1. IInv'
      BY <1>3, InvStep
    <2>2. Reads /\ query' = query
      BY <1>3 DEF Reads
    <2>3. assigned' = assigned
      BY <1>3 DEF metaVars
    <2>4. QueryInv'
      BY <2>2, <2>3, WalkUnmoved, ListUnmoved, DiffUnmoved DEF QueryInv
    <2>5. QED
      BY <2>1, <2>4 DEF QueriesInv
  <1>4. QED
    BY <1>1, <1>2, <1>3

THEOREM QueriesInvCorrect == QueriesSpec => []QueriesInv
  <1>1. QED
    BY QueriesInvInit, QueriesInvStep, PTL DEF QueriesSpec

-----------------------------------------------------------------------------
(* What the runs check. *)

\* A walk reports nothing that was not in the history it set out on,
\* whatever is retired between its queries (usecase::graph).
THEOREM WalkWithinCorrect == QueriesSpec => []WalkWithin
  <1>1. QueriesInv => WalkWithin
    <2> SUFFICES ASSUME QueriesInv, query.at = "done"
                 PROVE  Reported(query) \subseteq query.known
      BY DEF WalkWithin
    <2>1. query \in WalkRecords /\ WalkSound(query)
      BY DEF QueriesInv, QueryInv, NoReader, NoQuery, ListRecords, PairRecords, DiffRecords
    <2>2. QED
      BY <2>1 DEF WalkSound
  <1>2. QED
    BY <1>1, QueriesInvCorrect, PTL

\* A walk that returns while its history is still stored has reported all
\* of it, each commit once and the nearest first, whatever is recorded and
\* retired elsewhere between its queries (usecase::graph).
THEOREM WalkExactCorrect == QueriesSpec => []WalkExact
  <1>1. QueriesInv => WalkExact
    <2> SUFFICES ASSUME QueriesInv, query.at = "done", query.known \subseteq commits
                 PROVE  /\ Reported(query) =
                             query.known \ (IF query.kind = "history" THEN {} ELSE {query.start})
                        /\ \A i, j \in DOMAIN query.out : i < j => query.out[i] # query.out[j]
                        /\ \E d \in Distances(query.start) :
                             \A i, j \in DOMAIN query.out :
                               i < j => d[query.out[i]] <= d[query.out[j]]
      BY DEF WalkExact, WalkComplete, NearestFirst
    <2>1. query \in WalkRecords /\ WalkSound(query)
      BY DEF QueriesInv, QueryInv, NoReader, NoQuery, ListRecords, PairRecords, DiffRecords
    <2>2. Reported(query) = query.known \ (IF query.kind = "history" THEN {} ELSE {query.start})
      BY <2>1, WalkCovers DEF QueriesInv, NoReader
    <2>3. \E d \in Distances(query.start) :
            \A i, j \in DOMAIN query.out : i < j => d[query.out[i]] <= d[query.out[j]]
      BY <2>1, WalkNearest DEF QueriesInv, NoReader
    <2>4. QED
      BY <2>1, <2>2, <2>3 DEF WalkSound
  <1>2. QED
    BY <1>1, QueriesInvCorrect, PTL

\* A listing names only parents that it lists, all older: the edges, read
\* by a later query than the commits, lead to nothing newer (visit_commits).
THEOREM ListedParentsCorrect == QueriesSpec => []ListedParents
  <1>1. QueriesInv => ListedParents
    <2> SUFFICES ASSUME QueriesInv, query.at = "listed"
                 PROVE  \A c \in DOMAIN query.listed : \A p \in query.listed[c] :
                          p \in DOMAIN query.listed /\ query.seqs[p] < query.seqs[c]
      BY DEF ListedParents
    <2>1. query \in ListRecords /\ ListSound(query)
      BY DEF QueriesInv, QueryInv, NoReader, NoQuery, WalkRecords, PairRecords, DiffRecords
    <2>2. QED
      BY <2>1 DEF ListSound
  <1>2. QED
    BY <1>1, QueriesInvCorrect, PTL

\* A comparison read by one query per side and coordinate is the one of an
\* instant, while both commits stay and nobody merges or retires into a
\* target that leaves a descendant behind (diff_coords).
THEOREM DiffExactCorrect == QueriesSpec => []DiffExact
  <1>1. QueriesInv => DiffExact
    <2> SUFFICES ASSUME QueriesInv, query.at = "compared", query.steady,
                        {query.old, query.new} \subseteq commits
                 PROVE  /\ query.coords = {k \in Coords : Present(query.old, k) # Present(query.new, k)}
                        /\ \A k \in query.coords :
                             query.sides[k] = <<Present(query.old, k), Present(query.new, k)>>
      BY DEF DiffExact
    <2>1. query \in DiffRecords /\ DiffSound(query)
      BY DEF QueriesInv, QueryInv, NoReader, NoQuery, WalkRecords, PairRecords, ListRecords
    <2>2. QED
      BY <2>1 DEF DiffSound, DiffCurrent
  <1>2. QED
    BY <1>1, QueriesInvCorrect, PTL
=============================================================================
