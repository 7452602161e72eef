------------------------------ MODULE Queries --------------------------------
(***************************************************************************)
(* The read operations that need several queries of the metadata port, by  *)
(* one caller among others: the walks over the history and the listing of  *)
(* commits (core's usecase::graph), and the comparison of two commits      *)
(* (`sekai diff`).  No query shares a transaction with the next, so        *)
(* commits and retirements happen between any two.                         *)
(***************************************************************************)
EXTENDS MetaStore, SequencesExt

CONSTANT ReaderRefs   \* bound: the refs that calls beside a reader create or move

VARIABLE query   \* the running operation; at = "idle" when there is none

NoQuery == [at |-> "idle"]

\* Nobody reads, for good: the calls of the port alone.
NoReader == [at |-> "none"]

\* Slip: child and parent exchanged in the WHERE clause.
Children(c) == {e[1] : e \in {d \in commitParents : d[2] = c}}

Parents(c) == {e[2] : e \in {d \in commitParents : d[1] = c}}

Reads == UNCHANGED metaVars

-----------------------------------------------------------------------------
(* commit_ancestors and commit_history: level by level, each commit once.  *)
(* `known` is history: the ancestors of `start` when it was resolved.      *)

StartWalk(kind) ==
  /\ query.at = "idle"
  /\ \E c \in Resolvable :
       query' = [at |-> "row", kind |-> kind, start |-> c, cur |-> c, level |-> {c},
                 next |-> {}, out |-> <<>>, known |-> Ancestors(c)]
  /\ Reads

\* lookup_commit reads the record and then its edges, by two queries.  A
\* missing record ends the operation with an error.
ReadRecord ==
  /\ query.at = "row"
  /\ query' = IF query.cur \in commits THEN [query EXCEPT !.at = "edges"] ELSE NoQuery
  /\ Reads

Reported(q) == {q.out[i] : i \in DOMAIN q.out}

\* Slip: a commit that another one of its level continues is taken twice.
AdvanceAgain(q) ==
  LET rest   == q.level
      level  == IF rest = {} THEN q.next ELSE rest
      next   == IF rest = {} THEN {} ELSE q.next
      at     == IF q.kind = "history" THEN "row" ELSE "edges"
  IN  IF level = {}
      THEN {[q EXCEPT !.at = "done"]}
      ELSE {[q EXCEPT !.at = at, !.cur = c, !.level = level, !.next = next] : c \in level}

\* The next commit of the level (in hash order: any), or of the next level;
\* those already reported are passed over.
Advance(q) ==
  LET rest   == q.level \ Reported(q)
      level  == IF rest = {} THEN q.next \ Reported(q) ELSE rest
      next   == IF rest = {} THEN {} ELSE q.next
      at     == IF q.kind = "history" THEN "row" ELSE "edges"
  IN  IF level = {}
      THEN {[q EXCEPT !.at = "done"]}
      ELSE {[q EXCEPT !.at = at, !.cur = c, !.level = level, !.next = next] : c \in level}

ReadEdges ==
  LET q   == query
      out == IF q.kind = "ancestors" /\ q.cur = q.start THEN q.out ELSE Append(q.out, q.cur)
      r   == [q EXCEPT !.out = out, !.level = @ \ {q.cur}]
  IN  /\ q.at = "edges"
      /\ query' \in Advance([r EXCEPT !.next = @ \cup (Parents(q.cur) \ Reported(r))])
      /\ Reads

-----------------------------------------------------------------------------
(* visit_commits, behind `sekai log`: the commits by one query and all the *)
(* edges by the next.                                                      *)

ListCommits ==
  /\ query.at = "idle"
  /\ query' = [at |-> "rows", listed |-> [c \in commits |-> {}], seqs |-> seq]
  /\ Reads

\* Slip: the edges decide what is listed.
ListByEdges ==
  /\ query.at = "rows"
  /\ query' = [query EXCEPT !.at = "listed", !.listed = [c \in commits |-> Parents(c)]]
  /\ Reads

\* A commit without an edge is taken for a root.
ListEdges ==
  /\ query.at = "rows"
  /\ query' = [query EXCEPT !.at = "listed", !.listed = [c \in DOMAIN @ |-> Parents(c)]]
  /\ Reads

-----------------------------------------------------------------------------
(* `sekai diff` of two commits.  `steady` is history: whether every call   *)
(* of others since the start was of the kind HistoryStable speaks of.      *)

\* The first commit resolved: the one given, or the active ref's.
StartDiff ==
  /\ query.at = "idle"
  /\ \E c \in Resolvable : query' = [at |-> "pair", cur |-> c, steady |-> Linear]
  /\ Reads

Compare(old, new, steady) ==
  [at |-> "oldCoords", old |-> old, new |-> new, coords |-> {},
   sides |-> [k \in Coords |-> <<>>], steady |-> steady]

\* The other one: given too, or a parent of the first, whose record must
\* still be there.
PairUp ==
  /\ query.at = "pair"
  /\ LET c       == query.cur
         parents == IF c \in commits THEN Parents(c) ELSE {}
     IN  query' \in {Compare(c, d, query.steady) : d \in Resolvable}
                      \cup {Compare(d, c, query.steady) : d \in Resolvable \cup parents}
                      \cup (IF parents = {} THEN {NoQuery} ELSE {})
  /\ Reads

CoordsOf(c) == {k \in Coords : Effective(c, k) # {}}

\* The coordinates to compare, tombstones included: first of the old
\* commit, then of the new one.
ListCoords ==
  /\ query.at \in {"oldCoords", "newCoords"}
  /\ query' = IF query.at = "oldCoords"
              THEN [query EXCEPT !.at = "newCoords", !.coords = CoordsOf(query.old)]
              ELSE [query EXCEPT !.at = "oldSide", !.coords = @ \cup CoordsOf(query.new)]
  /\ Reads

Open(q) == {k \in q.coords : q.sides[k] = <<>>}

\* Slip: a tombstone is read as the chunk before it.
SideSkippingTombstones(c, k) ==
  LET rows == {r \in Visible(c, k) : r.blob # Tombstone}
  IN  {r.blob : r \in {q \in rows : \A p \in rows : p.seq <= q.seq}}

\* commit_chunk_hash: the digest recorded, none for a tombstone, and none
\* for a commit that is gone.
Side(c, k) == Present(c, k)

\* diff_coords: per coordinate the old side, then the new one.
ReadSide ==
  /\ \/ /\ query.at = "oldSide"
        /\ \E k \in Open(query) :
             query' = [query EXCEPT !.at = "newSide",
                                    !.sides[k] = <<Side(query.old, k)>>]
     \/ /\ query.at = "newSide"
        /\ \E k \in {j \in query.coords : Len(query.sides[j]) = 1} :
             query' = [query EXCEPT !.at = "oldSide",
                                    !.sides[k] = Append(@, Side(query.new, k))]
  /\ Reads

\* is_empty entries are left out of what is printed.
FinishDiff ==
  /\ query.at = "oldSide"
  /\ Open(query) = {}
  /\ query' = [query EXCEPT !.at = "compared",
                            !.coords = {k \in @ : query.sides[k][1] # query.sides[k][2]}]
  /\ Reads

Ended == query.at \in {"done", "listed", "compared"}

Return ==
  /\ Ended
  /\ query' = NoQuery
  /\ Reads

-----------------------------------------------------------------------------
\* A call of somebody else, seen from a diff under way.
Steady ==
  /\ Linear
  /\ \A c \in CommitIds, k \in Coords, b \in Blobs \cup {Tombstone} : ~ RecordChunk(c, k, b)
  /\ \A from, into \in CommitIds : RetireCommit(from, into) => SoundFold(from, into)

Watch == query' = IF "steady" \in DOMAIN query
                  THEN [query EXCEPT !.steady = @ /\ Steady]
                  ELSE query

\* A result is returned at once: what follows meets it no more.  A reader is
\* one beside the application, which records under fresh timestamps.
Others ==
  /\ ~ Ended
  /\ Next
  /\ query = NoReader \/ (NoneBack /\ \A n \in RefNames \ ReaderRefs : target'[n] = target[n])
  /\ Watch

QueryStep ==
  \/ StartWalk("ancestors") \/ StartWalk("history") \/ ReadRecord \/ ReadEdges
  \/ ListCommits \/ ListEdges
  \/ StartDiff \/ PairUp \/ ListCoords \/ ReadSide \/ FinishDiff
  \/ Return

QueriesInit == Init /\ query \in {NoQuery, NoReader}

QueriesSpec == QueriesInit /\ [][Others \/ QueryStep]_<<metaVars, query>>

-----------------------------------------------------------------------------
\* How far each commit of the history of c is from c along parent links: one
\* step further than the nearest of its children.
Distances(c) ==
  {d \in [Ancestors(c) -> 0 .. seq[c]] :
     /\ d[c] = 0
     /\ \A a \in Ancestors(c) \ {c} : \E x \in Ancestors(c) : a \in Parents(x) /\ d[a] = d[x] + 1
     /\ \A x \in Ancestors(c) : \A a \in Parents(x) : d[a] <= d[x] + 1}

\* Each commit of the history once, and no other.
WalkComplete ==
  query.at = "done" /\ query.known \subseteq commits =>
    /\ Reported(query) = query.known \ (IF query.kind = "history" THEN {} ELSE {query.start})
    /\ \A i, j \in DOMAIN query.out : i < j => query.out[i] # query.out[j]

NearestFirst ==
  query.at = "done" /\ query.known \subseteq commits =>
    \E d \in Distances(query.start) :
      \A i, j \in DOMAIN query.out : i < j => d[query.out[i]] <= d[query.out[j]]

\* A walk that returns while every commit of the history it set out on is
\* still stored has reported each of them once, nearest first: commits and
\* retirements elsewhere, between its queries, do not disturb it.
WalkExact == WalkComplete /\ NearestFirst

\* Whatever is retired under it, a walk reports no commit that was not in
\* the history it set out on.
WalkWithin == query.at = "done" => Reported(query) \subseteq query.known

\* Every parent that a listing names is listed itself, and was recorded
\* before its child: although the edges are read after the commits, they
\* lead to no commit that was recorded in between.
ListedParents ==
  query.at = "listed" =>
    \A c \in DOMAIN query.listed : \A p \in query.listed[c] :
      p \in DOMAIN query.listed /\ query.seqs[p] < query.seqs[c]

\* The comparison of two commits that are both still stored when it ends
\* names exactly the coordinates at which they differ, each with what the
\* two commits present there, as if it had been read at one instant.
DiffExact ==
  query.at = "compared" /\ query.steady /\ {query.old, query.new} \subseteq commits =>
    /\ query.coords = {k \in Coords : Present(query.old, k) # Present(query.new, k)}
    /\ \A k \in query.coords :
         query.sides[k] = <<Present(query.old, k), Present(query.new, k)>>
=============================================================================
