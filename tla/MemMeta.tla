------------------------------ MODULE MemMeta --------------------------------
(***************************************************************************)
(* The in-memory store that the tests of the use cases run on (core's      *)
(* support.rs), against the port it stands in for.  It keeps each commit's *)
(* parents in the commit and no sequence in the rows; MetaStore, which is  *)
(* the SQLite one, keeps edges in a table and stamps the rows.             *)
(*                                                                         *)
(* One action is one call that succeeds.  A vector whose order no call     *)
(* looks at is a set.  As in MetaStore, an id covers its parents for good, *)
(* and may be recorded again when its commit was retired.                  *)
(***************************************************************************)
EXTENDS Naturals

CONSTANTS CommitIds, Coords, Blobs, RefNames, Main, Unborn, Absent, Tombstone, Merges,
  MaxSeq   \* bound on the sequences handed out

ASSUME MemAssumption ==
  /\ Main \in RefNames
  /\ Unborn \notin CommitIds
  /\ Absent \notin CommitIds \cup {Unborn}
  /\ MaxSeq \in Nat

VARIABLES
  parents,   \* commits: stored id -> its parents
  seqs,      \* stored id -> local sequence
  next_seq,  \* the last sequence handed out
  rows,      \* delta rows: commit, coordinate, blob
  refs,      \* name -> commit and activity
  assigned,  \* history: ids ever recorded
  hashed     \* history: id -> the parents its hash covers

memVars == <<parents, seqs, next_seq, rows, refs, assigned, hashed>>

held == DOMAIN parents

ClosedUp(S) == \A c \in S \cap held : parents[c] \subseteq S

\* ancestor_ids: what the stack reaches, the commit itself excluded.
ancestor_ids(c) ==
  LET first == IF c \in held THEN parents[c] ELSE {}
      closed == {S \in SUBSET CommitIds : first \subseteq S /\ ClosedUp(S)}
  IN  {a \in CommitIds : \A S \in closed : a \in S}

\* Slip: the nearest ancestor is looked for among all rows at once.
effectiveUnscoped(c, k) ==
  LET seen == {r \in rows : r.coord = k}
  IN  {r \in seen : \A q \in seen : seqs[q.commit] <= seqs[r.commit]}

\* effective_at, lookup_chunk: of the rows at the commit and its ancestors
\* that are no newer than the commit, the newest.
effective_at(c, k) ==
  LET seen == {r \in rows : /\ r.coord = k
                            /\ r.commit \in DOMAIN seqs \cap (ancestor_ids(c) \cup {c})
                            /\ seqs[r.commit] <= seqs[c]}
  IN  IF c \in DOMAIN seqs
      THEN {r \in seen : \A q \in seen : seqs[q.commit] <= seqs[r.commit]}
      ELSE {}

-----------------------------------------------------------------------------
RefRecord(c, active) == [commit |-> c, active |-> active]

\* A fresh fake with with_active_ref(Main).
MemInit ==
  /\ parents = [c \in {} |-> {}]
  /\ seqs = [c \in {} |-> 0]
  /\ next_seq = 0
  /\ rows = {}
  /\ refs = [n \in {Main} |-> RefRecord(Unborn, TRUE)]
  /\ assigned = {}
  /\ hashed = [c \in CommitIds |-> {}]

With(f, x, y) == [z \in DOMAIN f \cup {x} |-> IF z = x THEN y ELSE f[z]]

Without(f, x) == [z \in DOMAIN f \ {x} |-> f[z]]

\* insert_commit of an id that is not held.  (Of one that is, it changes
\* nothing: neither does create_commit then.)
insert_commit(c, ps) ==
  /\ c \notin held
  /\ c \in assigned => hashed[c] = ps
  /\ ps \subseteq held
  /\ next_seq' = next_seq + 1
  /\ seqs' = With(seqs, c, next_seq + 1)
  /\ parents' = With(parents, c, ps)
  /\ assigned' = assigned \cup {c}
  /\ hashed' = [hashed EXCEPT ![c] = ps]

create_commit(c, ps) == insert_commit(c, ps) /\ UNCHANGED <<rows, refs>>

\* The fake looks neither for the commit nor for a row in the way: that is
\* left to its callers.
record_chunk(c, k, b) ==
  /\ rows' = rows \cup {[commit |-> c, coord |-> k, blob |-> b]}
  /\ UNCHANGED <<parents, seqs, next_seq, refs, assigned, hashed>>

Recordable(c, k) == c \in held /\ \A r \in rows : ~ (r.commit = c /\ r.coord = k)

actives == {n \in DOMAIN refs : refs[n].active}

continues(ps) ==
  /\ actives # {}
  /\ \A n \in actives : refs[n].commit = Unborn \/ refs[n].commit \in ps

move_active(c) ==
  refs' = [n \in DOMAIN refs |-> IF n \in actives THEN RefRecord(c, TRUE) ELSE refs[n]]

EntrySets == UNION {[K -> Blobs \cup {Tombstone}] : K \in SUBSET Coords}

\* apply_commit_incremental of new content.
apply_new(c, ps, entries) ==
  /\ continues(ps)
  /\ insert_commit(c, ps)
  /\ rows' = rows \cup {[commit |-> c, coord |-> k, blob |-> entries[k]] : k \in DOMAIN entries}
  /\ move_active(c)

\* Of content it holds: nothing is inserted, not even an edge to a parent
\* that was retired and is held again; the active ref moves.
apply_again(c) ==
  /\ c \in held
  /\ continues(hashed[c])
  /\ hashed[c] \subseteq held
  /\ move_active(c)
  /\ UNCHANGED <<parents, seqs, next_seq, rows, assigned, hashed>>

-----------------------------------------------------------------------------
superseded(r, from, into) ==
  \E q \in rows : /\ q.coord = r.coord
                  /\ q.commit \in DOMAIN seqs /\ seqs[q.commit] > seqs[from]
                  /\ q.commit \in ancestor_ids(into) \cup {into}

\* Slip: the retired commit's parents take the place of all of a child's.
relinkOnly(from) ==
  [c \in held \ {from} |->
     IF from \in parents[c] THEN parents[from] ELSE parents[c]]

\* Children of the retired commit continue its parents.
relink(from) ==
  [c \in held \ {from} |->
     IF from \in parents[c]
     THEN (parents[c] \ {from}) \cup parents[from]
     ELSE parents[c]]

retire_commit(from, into) ==
  /\ {from, into} \subseteq DOMAIN seqs
  /\ seqs[into] > seqs[from]
  /\ from \in ancestor_ids(into)
  /\ rows' = {r \in rows : r.commit # from}
               \cup {[r EXCEPT !.commit = into] :
                       r \in {q \in rows : q.commit = from /\ ~ superseded(q, from, into)}}
  /\ parents' = relink(from)
  /\ seqs' = Without(seqs, from)
  /\ refs' = [n \in DOMAIN refs |->
                IF refs[n].commit = from THEN [refs[n] EXCEPT !.commit = into] ELSE refs[n]]
  /\ UNCHANGED <<next_seq, assigned, hashed>>

-----------------------------------------------------------------------------
set_ref(n, t) ==
  /\ t \in held \cup {Unborn}
  /\ refs' = With(refs, n, RefRecord(t, n \in actives))
  /\ UNCHANGED <<parents, seqs, next_seq, rows, assigned, hashed>>

delete_ref(n) ==
  /\ n \in DOMAIN refs \ actives
  /\ refs' = Without(refs, n)
  /\ UNCHANGED <<parents, seqs, next_seq, rows, assigned, hashed>>

activate_ref(n) ==
  /\ n \in DOMAIN refs
  /\ refs[n].commit \in held \cup {Unborn}
  /\ refs' = [m \in DOMAIN refs |-> RefRecord(refs[m].commit, m = n)]
  /\ UNCHANGED <<parents, seqs, next_seq, rows, assigned, hashed>>

-----------------------------------------------------------------------------
AtMostOne(S) == \A x, y \in S : x = y

ParentSets == {ps \in SUBSET held : Merges \/ AtMostOne(ps)}

MemNext ==
  \/ /\ next_seq < MaxSeq
     /\ \E c \in CommitIds, ps \in ParentSets :
          \/ \E es \in EntrySets : apply_new(c, ps, es)
          \/ create_commit(c, ps)
  \/ \E c \in CommitIds : apply_again(c)
  \/ \E c \in CommitIds, k \in Coords, b \in Blobs \cup {Tombstone} :
       Recordable(c, k) /\ record_chunk(c, k, b)
  \/ \E from, into \in CommitIds : retire_commit(from, into)
  \/ \E n \in RefNames, t \in CommitIds \cup {Unborn} : set_ref(n, t)
  \/ \E n \in RefNames : delete_ref(n) \/ activate_ref(n)

MemSpec == MemInit /\ [][MemNext]_memVars

-----------------------------------------------------------------------------
(* The port, seen through the fake. *)

Meta == INSTANCE MetaStore WITH
  seq           <- [c \in CommitIds |-> IF c \in DOMAIN seqs THEN seqs[c] ELSE 0],
  nextSeq       <- next_seq + 1,
  commitParents <- {e \in CommitIds \X CommitIds : e[1] \in held /\ e[2] \in parents[e[1]]},
  chunkHistory  <- {[commit |-> r.commit, seq |-> seqs[r.commit], coord |-> r.coord,
                     blob |-> r.blob] : r \in rows},
  target        <- [n \in RefNames |-> IF n \in DOMAIN refs THEN refs[n].commit ELSE Absent],
  activeRefs    <- actives

\* The one step of the fake that the port does not make: a stored commit is
\* recorded again while it lacks an edge to a parent, which was retired and
\* is stored again.  The port inserts the edge, the fake moves the ref only.
LeavesUnlinked(c) ==
  /\ c \in held
  /\ ~ hashed[c] \subseteq parents[c]
  /\ Meta!Continues(hashed[c])
  /\ hashed[c] \subseteq held
  /\ Meta!MoveActiveRef(c)
  /\ UNCHANGED <<parents, seqs, next_seq, rows, actives, assigned, hashed>>

\* Whatever else a test does to the fake, the SQLite store could have done
\* too: every call that succeeds on the fake is the same call, with the same
\* effect, on the port's other implementation, a retired id recorded again
\* included.  (A row recorded for a commit that is not held, or twice for
\* one coordinate, it accepts where the other refuses; see Recordable.)
ImplementsPort ==
  Meta!Init /\ [][Meta!Next \/ \E c \in CommitIds : LeavesUnlinked(c)]_(Meta!metaVars)

\* And it answers alike: at every commit, held or not, its scan by parents
\* in memory finds the row that the recursive query finds.
SameAnswers ==
  \A c \in CommitIds, k \in Coords :
    {r.blob : r \in effective_at(c, k)} = {r.blob : r \in Meta!Effective(c, k)}

\* The types.  Every row's commit has a sequence: a row without one, which
\* the scans pass over silently, would be lost.
MemTypeOK ==
  /\ held \subseteq CommitIds
  /\ DOMAIN seqs = held
  /\ next_seq \in Nat
  /\ \A c \in held : parents[c] \subseteq held
  /\ rows \subseteq [commit : held, coord : Coords, blob : Blobs \cup {Tombstone}]
  /\ DOMAIN refs \subseteq RefNames
  /\ assigned \subseteq CommitIds
=============================================================================
