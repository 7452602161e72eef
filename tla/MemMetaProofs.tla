---------------------------- MODULE MemMetaProofs ----------------------------
(***************************************************************************)
(* The in-memory store implements the metadata port, for every set of      *)
(* commits, coordinates, blobs and refs, merges or not: what the tests of  *)
(* the use cases show on it is shown of a store that MetaStore describes.  *)
(*                                                                         *)
(* The tables are rebuilt from the fake: edges from the parents kept in    *)
(* the commits, the sequence of a row from that of its commit.             *)
(***************************************************************************)
EXTENDS MemMeta, TLAPS

RefRecords == [commit : CommitIds \cup {Unborn}, active : BOOLEAN]

MemTypes ==
  /\ held \subseteq CommitIds
  /\ parents \in [held -> SUBSET held]
  /\ seqs \in [held -> Nat]
  /\ next_seq \in Nat
  /\ rows \subseteq [commit : held, coord : Coords, blob : Blobs \cup {Tombstone}]
  /\ DOMAIN refs \subseteq RefNames
  /\ refs \in [DOMAIN refs -> RefRecords]
  /\ assigned \subseteq CommitIds
  /\ hashed \in [CommitIds -> SUBSET assigned]

\* Sequences are positive, below the counter, and go up along the edges.
SeqsOrdered ==
  /\ \A c \in held : 0 < seqs[c] /\ seqs[c] <= next_seq
  /\ \A c \in held : \A p \in parents[c] : seqs[p] < seqs[c]

MemInv == MemTypes /\ SeqsOrdered /\ held \subseteq assigned

LEMMA InvInitially == MemInit => MemInv
  <1> SUFFICES ASSUME MemInit PROVE MemInv
    OBVIOUS
  <1>1. held = {} /\ DOMAIN seqs = {} /\ DOMAIN refs = {Main}
    BY DEF MemInit, held
  <1>2. parents \in [held -> SUBSET held] /\ seqs \in [held -> Nat]
    BY <1>1 DEF MemInit
  <1>3. refs \in [DOMAIN refs -> RefRecords]
    BY DEF MemInit, RefRecord, RefRecords
  <1>4. hashed \in [CommitIds -> SUBSET assigned]
    BY DEF MemInit
  <1>5. QED
    BY <1>1, <1>2, <1>3, <1>4, MemAssumption DEF MemInv, MemTypes, SeqsOrdered, MemInit

-----------------------------------------------------------------------------
(* Each call keeps the invariant. *)

\* What a new commit does to commits and parents, rows and refs apart.
LEMMA InsertInv ==
  ASSUME MemInv, NEW c \in CommitIds, NEW ps \in SUBSET held, insert_commit(c, ps)
  PROVE  /\ c \notin held /\ held' = held \cup {c}
         /\ parents' \in [held' -> SUBSET held'] /\ seqs' \in [held' -> Nat]
         /\ parents'[c] = ps /\ seqs'[c] = next_seq + 1
         /\ \A d \in held : parents'[d] = parents[d] /\ seqs'[d] = seqs[d]
         /\ next_seq' \in Nat /\ assigned' \subseteq CommitIds
         /\ hashed' \in [CommitIds -> SUBSET assigned']
         /\ SeqsOrdered' /\ held' \subseteq assigned'
  <1>1. c \notin held
    BY DEF insert_commit
  <1>2. held' = held \cup {c}
    BY DEF insert_commit, With, held
  <1>3. /\ parents' = [z \in held \cup {c} |-> IF z = c THEN ps ELSE parents[z]]
        /\ seqs' = [z \in held \cup {c} |-> IF z = c THEN next_seq + 1 ELSE seqs[z]]
    BY DEF insert_commit, With, held, MemInv, MemTypes
  <1>4. /\ parents' \in [held' -> SUBSET held'] /\ seqs' \in [held' -> Nat]
        /\ parents'[c] = ps /\ seqs'[c] = next_seq + 1
        /\ \A d \in held : parents'[d] = parents[d] /\ seqs'[d] = seqs[d]
    BY <1>1, <1>2, <1>3 DEF MemInv, MemTypes
  <1>5. next_seq' = next_seq + 1 /\ next_seq \in Nat /\ assigned' = assigned \cup {c}
    BY DEF insert_commit, MemInv, MemTypes
  <1>6. hashed' = [hashed EXCEPT ![c] = ps] /\ ps \subseteq assigned'
    BY <1>5 DEF insert_commit, MemInv
  <1>7. hashed' \in [CommitIds -> SUBSET assigned']
    BY <1>5, <1>6 DEF MemInv, MemTypes
  <1>8. SeqsOrdered'
    BY <1>1, <1>2, <1>4, <1>5 DEF SeqsOrdered, MemInv, MemTypes
  <1>9. held' \subseteq assigned'
    BY <1>2, <1>5 DEF MemInv
  <1>10. QED
    BY <1>1, <1>2, <1>4, <1>5, <1>7, <1>8, <1>9 DEF MemInv, MemTypes

\* Nothing happens to the commits.
LEMMA CommitsStay ==
  ASSUME MemInv, UNCHANGED <<parents, seqs, next_seq, assigned, hashed>>,
         rows' \subseteq [commit : held, coord : Coords, blob : Blobs \cup {Tombstone}],
         DOMAIN refs' \subseteq RefNames, refs' \in [DOMAIN refs' -> RefRecords]
  PROVE  MemInv'
  BY DEF MemInv, MemTypes, SeqsOrdered, held

LEMMA MoveActiveTyped ==
  ASSUME MemInv, NEW c \in CommitIds, move_active(c)
  PROVE  DOMAIN refs' = DOMAIN refs /\ refs' \in [DOMAIN refs' -> RefRecords]
  <1>1. RefRecord(c, TRUE) \in RefRecords
    BY DEF RefRecord, RefRecords
  <1>2. QED
    BY <1>1 DEF move_active, MemInv, MemTypes

LEMMA NewRowsTyped ==
  ASSUME MemInv, NEW c \in held', NEW es \in EntrySets, held \subseteq held',
         rows' = rows \cup {[commit |-> c, coord |-> k, blob |-> es[k]] : k \in DOMAIN es}
  PROVE  rows' \subseteq [commit : held', coord : Coords, blob : Blobs \cup {Tombstone}]
  <1>1. PICK K \in SUBSET Coords : es \in [K -> Blobs \cup {Tombstone}]
    BY DEF EntrySets
  <1>2. QED
    BY <1>1 DEF MemInv, MemTypes

LEMMA RecordingInv ==
  ASSUME MemInv, NEW c \in CommitIds, NEW ps \in SUBSET held,
         (\E es \in EntrySets : apply_new(c, ps, es)) \/ create_commit(c, ps)
  PROVE  MemInv'
  <1>1. insert_commit(c, ps)
    BY DEF apply_new, create_commit
  <1>2. held' = held \cup {c}
    BY <1>1, InsertInv
  <1>3. /\ rows' \subseteq [commit : held', coord : Coords, blob : Blobs \cup {Tombstone}]
        /\ DOMAIN refs' \subseteq RefNames /\ refs' \in [DOMAIN refs' -> RefRecords]
    <2>1. CASE create_commit(c, ps)
      BY <1>2, <2>1 DEF create_commit, MemInv, MemTypes
    <2>2. ASSUME NEW es \in EntrySets, apply_new(c, ps, es)
          PROVE  /\ rows' \subseteq [commit : held', coord : Coords, blob : Blobs \cup {Tombstone}]
                 /\ DOMAIN refs' \subseteq RefNames /\ refs' \in [DOMAIN refs' -> RefRecords]
      BY <1>2, <2>2, NewRowsTyped, MoveActiveTyped DEF apply_new, MemInv, MemTypes
    <2>3. QED
      BY <2>1, <2>2
  <1>4. held' \subseteq CommitIds
    BY <1>2 DEF MemInv, MemTypes
  <1>5. QED
    BY <1>1, <1>3, <1>4, InsertInv DEF MemInv, MemTypes

LEMMA OtherCallsInv ==
  ASSUME MemInv,
         \/ \E c \in CommitIds : apply_again(c)
         \/ \E c \in CommitIds, k \in Coords, b \in Blobs \cup {Tombstone} :
              Recordable(c, k) /\ record_chunk(c, k, b)
         \/ \E n \in RefNames, t \in CommitIds \cup {Unborn} : set_ref(n, t)
         \/ \E n \in RefNames : delete_ref(n) \/ activate_ref(n)
  PROVE  MemInv'
  <1>1. ASSUME NEW c \in CommitIds, apply_again(c) PROVE MemInv'
    BY <1>1, MoveActiveTyped, CommitsStay DEF apply_again, MemInv, MemTypes
  <1>2. ASSUME NEW c \in CommitIds, NEW k \in Coords, NEW b \in Blobs \cup {Tombstone},
               Recordable(c, k), record_chunk(c, k, b)
        PROVE  MemInv'
    BY <1>2, CommitsStay DEF Recordable, record_chunk, MemInv, MemTypes
  <1>3. ASSUME NEW n \in RefNames, NEW t \in CommitIds \cup {Unborn}, set_ref(n, t) PROVE MemInv'
    <2>1. RefRecord(t, n \in actives) \in RefRecords
      BY DEF RefRecord, RefRecords
    <2>2. refs' = [z \in DOMAIN refs \cup {n} |-> IF z = n THEN RefRecord(t, n \in actives) ELSE refs[z]]
      BY <1>3 DEF set_ref, With
    <2> HIDE DEF RefRecord
    <2>3. QED
      BY <1>3, <2>1, <2>2, CommitsStay DEF set_ref, MemInv, MemTypes
  <1>4. ASSUME NEW n \in RefNames, delete_ref(n) PROVE MemInv'
    BY <1>4, CommitsStay DEF delete_ref, Without, MemInv, MemTypes
  <1>5. ASSUME NEW n \in RefNames, activate_ref(n) PROVE MemInv'
    <2>1. \A m \in DOMAIN refs : RefRecord(refs[m].commit, m = n) \in RefRecords
      BY DEF RefRecord, RefRecords, MemInv, MemTypes
    <2>2. refs' = [m \in DOMAIN refs |-> RefRecord(refs[m].commit, m = n)]
      BY <1>5 DEF activate_ref
    <2> HIDE DEF RefRecord
    <2>3. QED
      BY <1>5, <2>1, <2>2, CommitsStay DEF activate_ref, MemInv, MemTypes
  <1>6. QED
    BY <1>1, <1>2, <1>3, <1>4, <1>5

LEMMA RetireInv ==
  ASSUME MemInv, NEW from \in CommitIds, NEW into \in CommitIds, retire_commit(from, into)
  PROVE  /\ MemInv' /\ held' = held \ {from}
         /\ {from, into} \subseteq held /\ from # into
         /\ \A c \in held' : /\ seqs'[c] = seqs[c]
                             /\ parents'[c] = relink(from)[c]
  <1>1. {from, into} \subseteq held /\ seqs[into] > seqs[from] /\ DOMAIN seqs = held
    BY DEF retire_commit, MemInv, MemTypes
  <1>2. parents' = relink(from) /\ held' = held \ {from}
    BY DEF retire_commit, relink, held
  <1>3. from # into
    BY <1>1 DEF MemInv, MemTypes
  <1>4. seqs' = [z \in held \ {from} |-> seqs[z]]
    BY <1>1 DEF retire_commit, Without
  <1>5. from \notin parents[from]
    BY <1>1 DEF MemInv, MemTypes, SeqsOrdered
  <1>6. \A c \in held' : parents'[c] \subseteq held'
    BY <1>1, <1>2, <1>5 DEF relink, MemInv, MemTypes
  <1>7. parents' \in [held' -> SUBSET held'] /\ seqs' \in [held' -> Nat]
    BY <1>2, <1>4, <1>6 DEF relink, MemInv, MemTypes
  <1>8. rows' \subseteq [commit : held', coord : Coords, blob : Blobs \cup {Tombstone}]
    <2>1. \A r \in rows : r.commit # from => r \in [commit : held', coord : Coords, blob : Blobs \cup {Tombstone}]
      BY <1>2 DEF MemInv, MemTypes
    <2>2. \A r \in rows : [r EXCEPT !.commit = into] \in [commit : held', coord : Coords, blob : Blobs \cup {Tombstone}]
      BY <1>1, <1>2, <1>3 DEF MemInv, MemTypes
    <2>3. QED
      BY <2>1, <2>2 DEF retire_commit
  <1>9. DOMAIN refs' = DOMAIN refs /\ refs' \in [DOMAIN refs -> RefRecords]
    <2>1. \A n \in DOMAIN refs : [refs[n] EXCEPT !.commit = into] \in RefRecords
      BY DEF MemInv, MemTypes, RefRecords
    <2>2. refs' = [n \in DOMAIN refs |->
                     IF refs[n].commit = from THEN [refs[n] EXCEPT !.commit = into] ELSE refs[n]]
      BY DEF retire_commit
    <2>3. QED
      BY <2>1, <2>2 DEF MemInv, MemTypes
  <1>10. MemTypes'
    BY <1>2, <1>7, <1>8, <1>9 DEF MemInv, MemTypes, retire_commit
  <1>11. SeqsOrdered'
    <2>1. ASSUME NEW c \in held', NEW p \in parents'[c]
          PROVE  p \in parents[c] \/ (from \in parents[c] /\ p \in parents[from])
      <3>1. c \in held \ {from} /\ p \in relink(from)[c]
        BY <1>2
      <3>2. QED
        BY <3>1 DEF relink
    <2>2. \A c \in held' : seqs'[c] = seqs[c]
      BY <1>2, <1>4
    <2>3. \A p \in parents[from] : seqs[p] < seqs[from] /\ p \in held
      BY <1>1 DEF MemInv, MemTypes, SeqsOrdered
    <2>4. ASSUME NEW c \in held', NEW p \in parents'[c] PROVE seqs'[p] < seqs'[c]
      <3>1. p \in held' /\ c \in held /\ p \in held
        BY <1>2, <1>6
      <3>2. seqs[p] < seqs[c]
        BY <1>1, <2>1, <2>3, <3>1 DEF MemInv, MemTypes, SeqsOrdered
      <3>3. QED
        BY <2>2, <3>1, <3>2
    <2>5. next_seq' = next_seq
      BY DEF retire_commit
    <2>6. QED
      BY <1>2, <2>2, <2>4, <2>5 DEF MemInv, SeqsOrdered
  <1>12. held' \subseteq assigned'
    BY <1>2 DEF retire_commit, MemInv
  <1>13. QED
    BY <1>1, <1>2, <1>3, <1>4, <1>10, <1>11, <1>12 DEF MemInv

LEMMA InvStep == MemInv /\ [MemNext]_memVars => MemInv'
  <1> SUFFICES ASSUME MemInv, [MemNext]_memVars PROVE MemInv'
    OBVIOUS
  <1>1. ASSUME NEW from \in CommitIds, NEW into \in CommitIds, retire_commit(from, into) PROVE MemInv'
    BY <1>1, RetireInv
  <1>2. CASE UNCHANGED memVars
    BY <1>2, CommitsStay DEF memVars, MemInv, MemTypes
  <1>3. ASSUME NEW c \in CommitIds, NEW ps \in ParentSets,
               (\E es \in EntrySets : apply_new(c, ps, es)) \/ create_commit(c, ps)
        PROVE  MemInv'
    BY <1>3, RecordingInv DEF ParentSets
  <1>4. QED
    BY <1>1, <1>2, <1>3, OtherCallsInv DEF MemNext

-----------------------------------------------------------------------------
(* The mapping, and reachability under it. *)

Sequences == [c \in CommitIds |-> IF c \in DOMAIN seqs THEN seqs[c] ELSE 0]

Edges == {e \in CommitIds \X CommitIds : e[1] \in held /\ e[2] \in parents[e[1]]}

Stamped(r) == [commit |-> r.commit, seq |-> seqs[r.commit], coord |-> r.coord, blob |-> r.blob]

History == {[commit |-> r.commit, seq |-> seqs[r.commit], coord |-> r.coord,
             blob |-> r.blob] : r \in rows}

Targets == [n \in RefNames |-> IF n \in DOMAIN refs THEN refs[n].commit ELSE Absent]

LEMMA SameCommits ==
  ASSUME MemInv
  PROVE  Meta!commits = held
  <1>1. held \subseteq CommitIds /\ DOMAIN seqs = held /\ \A c \in held : seqs[c] > 0
    BY DEF MemInv, MemTypes, SeqsOrdered
  <1>2. Meta!commits = {c \in CommitIds : Sequences[c] > 0}
    BY DEF Meta!commits, Sequences
  <1>3. \A c \in CommitIds : Sequences[c] = IF c \in held THEN seqs[c] ELSE 0
    BY <1>1 DEF Sequences
  <1>4. QED
    BY <1>1, <1>2, <1>3

LEMMA SameClosed ==
  ASSUME MemInv, NEW S \in SUBSET CommitIds
  PROVE  Meta!Closed(S) <=> ClosedUp(S)
  <1>1. ASSUME Meta!Closed(S), NEW c \in S \cap held, NEW p \in parents[c] PROVE p \in S
    <2>1. <<c, p>> \in Edges
      BY <1>1 DEF Edges, MemInv, MemTypes
    <2>2. QED
      BY <1>1, <2>1 DEF Meta!Closed, Edges
  <1>2. ASSUME ClosedUp(S), NEW e \in Edges, e[1] \in S PROVE e[2] \in S
    BY <1>2 DEF ClosedUp, Edges
  <1>3. QED
    BY <1>1, <1>2 DEF Meta!Closed, ClosedUp, Edges

\* The stack of ancestor_ids reaches what the recursive query does, the
\* commit itself excluded.
LEMMA SameAncestors ==
  ASSUME MemInv, NEW c \in CommitIds
  PROVE  Meta!Ancestors(c) = ancestor_ids(c) \cup {c}
  <1> DEFINE A == ancestor_ids(c)
             first == IF c \in held THEN parents[c] ELSE {}
             M == Meta!Ancestors(c)
  <1>1. A \subseteq CommitIds /\ first \subseteq A /\ ClosedUp(A) /\ first \subseteq CommitIds
    BY DEF ancestor_ids, ClosedUp, MemInv, MemTypes
  <1>2. ClosedUp(A \cup {c})
    BY <1>1 DEF ClosedUp
  <1>3. Meta!Closed(A \cup {c})
    BY <1>1, <1>2, SameClosed
  <1>4. M \subseteq A \cup {c}
    <2> HIDE DEF A
    <2>1. A \cup {c} \in SUBSET CommitIds /\ c \in A \cup {c}
      BY <1>1
    <2>2. QED
      BY <1>3, <2>1 DEF Meta!Ancestors
  <1>5. c \in M /\ M \subseteq CommitIds
    BY DEF Meta!Ancestors
  <1>6. ASSUME NEW S \in SUBSET CommitIds, c \in S, Meta!Closed(S) PROVE A \subseteq S
    BY <1>6, SameClosed DEF ancestor_ids, ClosedUp
  <1>7. ASSUME NEW a \in A PROVE a \in M
    <2>1. a \in CommitIds
      BY <1>1
    <2>2. QED
      BY <1>6, <2>1 DEF Meta!Ancestors
  <1>8. QED
    BY <1>4, <1>5, <1>7

LEMMA AncestorsOlder ==
  ASSUME MemInv, NEW c \in held, NEW a \in ancestor_ids(c)
  PROVE  a \in held /\ seqs[a] < seqs[c]
  <1> DEFINE S == {x \in held : seqs[x] < seqs[c]}
  <1>1. parents[c] \subseteq S /\ S \in SUBSET CommitIds
    BY DEF MemInv, MemTypes, SeqsOrdered
  <1>2. ClosedUp(S)
    BY DEF ClosedUp, MemInv, MemTypes, SeqsOrdered
  <1>3. QED
    BY <1>1, <1>2 DEF ancestor_ids

LEMMA InitMaps == MemInit => Meta!Init
  <1> SUFFICES ASSUME MemInit PROVE Meta!Init
    OBVIOUS
  <1>1. held = {} /\ DOMAIN seqs = {} /\ DOMAIN refs = {Main} /\ rows = {}
    BY DEF MemInit, held
  <1>2. refs[Main].commit = Unborn /\ actives = {Main}
    BY DEF MemInit, RefRecord, actives
  <1>3. Edges = {} /\ History = {}
    BY <1>1 DEF Edges, History
  <1>4. Sequences = [c \in CommitIds |-> 0]
    BY <1>1 DEF Sequences
  <1>5. Targets = [n \in RefNames |-> IF n = Main THEN Unborn ELSE Absent]
    BY <1>1, <1>2 DEF Targets
  <1>6. next_seq + 1 = 1 /\ assigned = {} /\ hashed = [c \in CommitIds |-> {}]
    BY DEF MemInit
  <1>7. QED
    BY <1>2, <1>3, <1>4, <1>5, <1>6 DEF Meta!Init, Edges, History, Sequences, Targets

-----------------------------------------------------------------------------
(* Each call is the call of the port. *)

\* The tables that stay when the commits do.
LEMMA TablesStay ==
  ASSUME UNCHANGED <<parents, seqs>>
  PROVE  Sequences' = Sequences /\ Edges' = Edges /\ (rows' = rows => History' = History)
  BY DEF Sequences, Edges, History, held

LEMMA RefsMap ==
  ASSUME MemInv
  PROVE  /\ actives \subseteq DOMAIN refs /\ actives \subseteq RefNames
         /\ \A n \in DOMAIN refs : Targets[n] = refs[n].commit /\ refs[n].commit # Absent
         /\ \A n \in RefNames : n \notin DOMAIN refs => Targets[n] = Absent
         /\ \A n \in RefNames : (n \in DOMAIN refs <=> Targets[n] # Absent)
         /\ Targets \in [RefNames -> CommitIds \cup {Unborn, Absent}]
  <1>1. \A n \in DOMAIN refs : n \in RefNames /\ refs[n].commit \in CommitIds \cup {Unborn}
    BY DEF MemInv, MemTypes, RefRecords
  <1>2. QED
    BY <1>1, MemAssumption DEF actives, Targets

LEMMA InsertMaps ==
  ASSUME MemInv, NEW c \in CommitIds, NEW ps \in SUBSET held, insert_commit(c, ps)
  PROVE  /\ Meta!InsertCommit(c, ps)
         /\ \A r \in rows : Stamped(r)' = Stamped(r)
  <1>1. /\ c \notin held /\ held' = held \cup {c}
        /\ parents'[c] = ps /\ seqs'[c] = next_seq + 1
        /\ \A d \in held : parents'[d] = parents[d] /\ seqs'[d] = seqs[d]
        /\ DOMAIN seqs = held /\ DOMAIN seqs' = held'
    BY InsertInv DEF MemInv, MemTypes
  <1>2. Sequences' = [Sequences EXCEPT ![c] = next_seq + 1]
    BY <1>1 DEF Sequences
  <1>3. Edges' = Edges \cup ({c} \X ps)
    <2>1. ASSUME NEW e \in CommitIds \X CommitIds PROVE e \in Edges' <=> e \in Edges \cup ({c} \X ps)
      BY <1>1 DEF Edges
    <2>2. Edges' \subseteq CommitIds \X CommitIds /\ Edges \cup ({c} \X ps) \subseteq CommitIds \X CommitIds
      BY DEF Edges, MemInv, MemTypes
    <2>3. QED
      BY <2>1, <2>2
  <1>4. next_seq' + 1 = (next_seq + 1) + 1 /\ assigned' = assigned \cup {c}
        /\ hashed' = [hashed EXCEPT ![c] = ps] /\ (c \in assigned => hashed[c] = ps)
    BY DEF insert_commit
  <1>5. \A r \in rows : Stamped(r)' = Stamped(r)
    BY <1>1 DEF Stamped, MemInv, MemTypes
  <1>6. ps \subseteq Meta!commits /\ c \in CommitIds \ Meta!commits
    BY <1>1, SameCommits
  <1>7. Meta!InsertCommit(c, ps)
    BY <1>2, <1>3, <1>4, <1>6 DEF Meta!InsertCommit, Sequences, Edges
  <1>8. QED
    BY <1>5, <1>7

LEMMA HistoryIs == History = {Stamped(r) : r \in rows}
  BY DEF History, Stamped

LEMMA ContinuesMaps ==
  ASSUME MemInv, NEW ps, continues(ps)
  PROVE  Meta!Continues(ps)
  <1>1. actives # {} /\ \A n \in actives : Targets[n] = Unborn \/ Targets[n] \in ps
    BY RefsMap DEF continues
  <1>2. QED
    BY <1>1 DEF Meta!Continues, Targets

LEMMA MoveMaps ==
  ASSUME MemInv, NEW c \in CommitIds, move_active(c)
  PROVE  Meta!MoveActiveRef(c) /\ UNCHANGED actives
  <1>1. refs' = [n \in DOMAIN refs |-> IF n \in actives THEN RefRecord(c, TRUE) ELSE refs[n]]
    BY DEF move_active
  <1>2. DOMAIN refs' = DOMAIN refs
    BY <1>1
  <1>3. Targets' = [n \in RefNames |-> IF n \in actives THEN c ELSE Targets[n]]
    BY <1>1, <1>2, RefsMap DEF Targets, RefRecord
  <1>4. actives' = actives
    BY <1>1, <1>2 DEF actives, RefRecord
  <1>5. QED
    BY <1>3, <1>4 DEF Meta!MoveActiveRef, Targets

LEMMA ApplyNewMaps ==
  ASSUME MemInv, NEW c \in CommitIds, NEW ps \in SUBSET held, NEW es \in EntrySets, apply_new(c, ps, es)
  PROVE  Meta!RecordNew(c, ps, es)
  <1>1. Meta!Continues(ps) /\ Meta!InsertCommit(c, ps) /\ Meta!MoveActiveRef(c) /\ actives' = actives
    BY ContinuesMaps, InsertMaps, MoveMaps DEF apply_new
  <1>2. seqs'[c] = next_seq + 1
    BY InsertInv DEF apply_new
  <1>3. rows' = rows \cup {[commit |-> c, coord |-> k, blob |-> es[k]] : k \in DOMAIN es}
    BY DEF apply_new
  <1>4. {Stamped(r)' : r \in rows} = {Stamped(r) : r \in rows}
    BY InsertMaps DEF apply_new
  <1>5. History' = {Stamped(r)' : r \in rows'}
    BY DEF History, Stamped
  <1>6. {Stamped(r)' : r \in {[commit |-> c, coord |-> k, blob |-> es[k]] : k \in DOMAIN es}}
          = Meta!RowsFor(c, next_seq + 1, es)
    <2> DEFINE row(k) == [commit |-> c, coord |-> k, blob |-> es[k]]
    <2>1. ASSUME NEW k \in DOMAIN es
          PROVE  Stamped(row(k))' = Meta!RowAt(c, next_seq + 1, k, es[k])
      BY <1>2 DEF Stamped, Meta!RowAt
    <2>2. {Stamped(r)' : r \in {row(k) : k \in DOMAIN es}} = {Stamped(row(k))' : k \in DOMAIN es}
      <3> HIDE DEF row
      <3>1. QED
        OBVIOUS
    <2> HIDE DEF row
    <2>3. {Stamped(row(k))' : k \in DOMAIN es} = Meta!RowsFor(c, next_seq + 1, es)
      BY <2>1 DEF Meta!RowsFor
    <2>4. QED
      BY <2>2, <2>3 DEF row
  <1>7. History' = History \cup Meta!RowsFor(c, next_seq + 1, es)
    BY <1>3, <1>4, <1>5, <1>6, HistoryIs
  <1>8. QED
    BY <1>1, <1>7 DEF Meta!RecordNew, History

LEMMA CreateMaps ==
  ASSUME MemInv, NEW c \in CommitIds, NEW ps \in SUBSET held, create_commit(c, ps)
  PROVE  Meta!CreateCommit(c, ps)
  <1>1. Meta!InsertCommit(c, ps) /\ UNCHANGED <<rows, refs>>
    BY InsertMaps DEF create_commit
  <1>2. {Stamped(r)' : r \in rows} = {Stamped(r) : r \in rows}
    BY InsertMaps DEF create_commit
  <1>3. History' = History
    BY <1>1, <1>2 DEF History, Stamped
  <1>4. Targets' = Targets /\ actives' = actives
    BY <1>1 DEF Targets, actives
  <1>5. QED
    BY <1>1, <1>3, <1>4 DEF Meta!CreateCommit, History, Targets

\* A commit recorded again adds no edge in the fake; nor does it in the
\* port, unless a parent came back since.
LEMMA ApplyAgainMaps ==
  ASSUME MemInv, NEW c \in CommitIds, apply_again(c)
  PROVE  Meta!RecordAgain(c) \/ LeavesUnlinked(c)
  <1>1. /\ c \in held /\ hashed[c] \subseteq held /\ move_active(c)
        /\ UNCHANGED <<parents, seqs, next_seq, rows, assigned, hashed>>
    BY DEF apply_again
  <1>2. Meta!Continues(hashed[c]) /\ Meta!MoveActiveRef(c) /\ UNCHANGED actives
    BY ContinuesMaps, MoveMaps DEF apply_again
  <1>3. CASE hashed[c] \subseteq parents[c]
    <2>1. Sequences' = Sequences /\ Edges' = Edges /\ History' = History
      BY <1>1, TablesStay
    <2>2. {c} \X hashed[c] \subseteq Edges
      BY <1>1, <1>3 DEF Edges, MemInv, MemTypes
    <2>3. Edges' = Edges \cup ({c} \X hashed[c])
      BY <2>1, <2>2
    <2>4. c \in Meta!commits /\ hashed[c] \subseteq Meta!commits
      BY <1>1, SameCommits
    <2>5. Meta!RecordAgain(c)
      BY <1>1, <1>2, <2>1, <2>3, <2>4 DEF Meta!RecordAgain, Sequences, Edges, History
    <2>6. QED
      BY <2>5
  <1>4. CASE ~ hashed[c] \subseteq parents[c]
    BY <1>1, <1>2, <1>4 DEF LeavesUnlinked
  <1>5. QED
    BY <1>3, <1>4

LEMMA RecordChunkMaps ==
  ASSUME MemInv, NEW c \in CommitIds, NEW k \in Coords, NEW b \in Blobs \cup {Tombstone},
         Recordable(c, k), record_chunk(c, k, b)
  PROVE  Meta!RecordChunk(c, k, b)
  <1>1. /\ c \in held /\ UNCHANGED <<parents, seqs, next_seq, refs, assigned, hashed>>
        /\ rows' = rows \cup {[commit |-> c, coord |-> k, blob |-> b]}
    BY DEF Recordable, record_chunk
  <1>2. Sequences' = Sequences /\ Edges' = Edges
    BY <1>1, TablesStay
  <1>3. c \in Meta!commits
    BY <1>1, SameCommits
  <1>4. ~ \E r \in History : r.commit = c /\ r.coord = k
    BY DEF Recordable, History
  <1>5. Sequences[c] = seqs[c]
    BY <1>1 DEF Sequences, MemInv, MemTypes
  <1>6. History' = {Stamped(r) : r \in rows'}
    BY <1>1 DEF History, Stamped
  <1>7. Stamped([commit |-> c, coord |-> k, blob |-> b]) = Meta!RowAt(c, Sequences[c], k, b)
    BY <1>5 DEF Stamped, Meta!RowAt
  <1>8. History' = History \cup {Meta!RowAt(c, Sequences[c], k, b)}
    BY <1>1, <1>6, <1>7, HistoryIs
  <1>9. Targets' = Targets /\ actives' = actives
    BY <1>1 DEF Targets, actives
  <1>10. QED
    BY <1>1, <1>2, <1>3, <1>4, <1>8, <1>9 DEF Meta!RecordChunk, Sequences, Edges, History, Targets

LEMMA RefCallsMap ==
  ASSUME MemInv, NEW n \in RefNames
  PROVE  /\ \A t \in CommitIds \cup {Unborn} : set_ref(n, t) => Meta!SetRef(n, t)
         /\ delete_ref(n) => Meta!DeleteRef(n)
         /\ activate_ref(n) => Meta!ActivateRef(n)
  <1>1. ASSUME NEW t \in CommitIds \cup {Unborn}, set_ref(n, t) PROVE Meta!SetRef(n, t)
    <2>1. /\ t \in held \cup {Unborn}
          /\ refs' = [z \in DOMAIN refs \cup {n} |-> IF z = n THEN RefRecord(t, n \in actives) ELSE refs[z]]
          /\ UNCHANGED <<parents, seqs, next_seq, rows, assigned, hashed>>
      BY <1>1 DEF set_ref, With
    <2>2. Targets' = [Targets EXCEPT ![n] = t]
      BY <2>1 DEF Targets, RefRecord
    <2>3. actives' = actives
      BY <2>1 DEF actives, RefRecord
    <2>4. Sequences' = Sequences /\ Edges' = Edges /\ History' = History
      BY <2>1, TablesStay
    <2>5. t \in Meta!commits \cup {Unborn}
      BY <2>1, SameCommits
    <2>6. QED
      BY <2>1, <2>2, <2>3, <2>4, <2>5 DEF Meta!SetRef, Sequences, Edges, History, Targets
  <1>2. ASSUME delete_ref(n) PROVE Meta!DeleteRef(n)
    <2>1. /\ n \in DOMAIN refs /\ n \notin actives
          /\ refs' = [z \in DOMAIN refs \ {n} |-> refs[z]]
          /\ UNCHANGED <<parents, seqs, next_seq, rows, assigned, hashed>>
      BY <1>2 DEF delete_ref, Without
    <2>2. Targets' = [Targets EXCEPT ![n] = Absent]
      BY <2>1 DEF Targets
    <2>3. actives' = actives
      BY <2>1 DEF actives
    <2>4. Sequences' = Sequences /\ Edges' = Edges /\ History' = History
      BY <2>1, TablesStay
    <2>5. Targets[n] # Absent
      BY <2>1, RefsMap
    <2>6. QED
      BY <2>1, <2>2, <2>3, <2>4, <2>5 DEF Meta!DeleteRef, Sequences, Edges, History, Targets
  <1>3. ASSUME activate_ref(n) PROVE Meta!ActivateRef(n)
    <2>1. /\ n \in DOMAIN refs /\ refs[n].commit \in held \cup {Unborn}
          /\ refs' = [m \in DOMAIN refs |-> RefRecord(refs[m].commit, m = n)]
          /\ UNCHANGED <<parents, seqs, next_seq, rows, assigned, hashed>>
      BY <1>3 DEF activate_ref
    <2>2. Targets' = Targets
      BY <2>1 DEF Targets, RefRecord
    <2>3. actives' = {n}
      BY <2>1 DEF actives, RefRecord
    <2>4. Sequences' = Sequences /\ Edges' = Edges /\ History' = History
      BY <2>1, TablesStay
    <2>5. Targets[n] \in Meta!commits \cup {Unborn}
      BY <2>1, RefsMap, SameCommits
    <2>6. QED
      BY <2>1, <2>2, <2>3, <2>4, <2>5 DEF Meta!ActivateRef, Sequences, Edges, History, Targets
  <1>4. QED
    BY <1>1, <1>2, <1>3

-----------------------------------------------------------------------------
(* Retirement.                                                            *)

LEMMA SupersededMaps ==
  ASSUME MemInv, NEW from \in held, NEW into \in CommitIds, NEW r \in rows, r.commit = from
  PROVE  Stamped(r) \in Meta!Superseded(from, into) <=> superseded(r, from, into)
  <1>1. Stamped(r) \in Meta!RowsOf(from)
    BY HistoryIs DEF Meta!RowsOf, History, Stamped
  <1>2. Sequences[from] = seqs[from]
    BY DEF Sequences, MemInv, MemTypes
  <1>3. \A q \in rows : q.commit \in DOMAIN seqs
    BY DEF MemInv, MemTypes
  <1>4. Stamped(r) \in Meta!Superseded(from, into) <=>
          \E p \in History : /\ p.coord = Stamped(r).coord
                             /\ p.seq > Sequences[from]
                             /\ p.commit \in Meta!Ancestors(into)
    BY <1>1 DEF Meta!Superseded, History, Sequences
  <1>5. (\E p \in History : /\ p.coord = Stamped(r).coord
                            /\ p.seq > Sequences[from]
                            /\ p.commit \in Meta!Ancestors(into))
        <=> \E q \in rows : /\ Stamped(q).coord = Stamped(r).coord
                            /\ Stamped(q).seq > Sequences[from]
                            /\ Stamped(q).commit \in Meta!Ancestors(into)
    BY HistoryIs
  <1>6. QED
    BY <1>2, <1>3, <1>4, <1>5, SameAncestors DEF superseded, Stamped

LEMMA RowsMove ==
  ASSUME MemInv, NEW from \in CommitIds, NEW into \in CommitIds, retire_commit(from, into)
  PROVE  History' = (History \ Meta!RowsOf(from)) \cup Meta!Restamped(from, into)
  <1> DEFINE stay == {r \in rows : r.commit # from}
             leave == {q \in rows : q.commit = from /\ ~ superseded(q, from, into)}
  <1>1. /\ from \in held /\ into \in held /\ from # into /\ held' = held \ {from}
        /\ \A c \in held \ {from} : seqs'[c] = seqs[c]
    BY RetireInv
  <1>2. rows' = stay \cup {[r EXCEPT !.commit = into] : r \in leave}
    BY DEF retire_commit
  <1>3. Sequences[into] = seqs[into]
    BY <1>1 DEF Sequences, MemInv, MemTypes
  <1>4. \A r \in rows : r \in [commit : held, coord : Coords, blob : Blobs \cup {Tombstone}]
    BY DEF MemInv, MemTypes
  <1>5. ASSUME NEW r \in stay PROVE Stamped(r)' = Stamped(r)
    BY <1>1, <1>4 DEF Stamped
  <1>6. ASSUME NEW r \in leave
        PROVE  Stamped([r EXCEPT !.commit = into])'
                 = Meta!RowAt(into, Sequences[into], Stamped(r).coord, Stamped(r).blob)
    BY <1>1, <1>3, <1>4 DEF Stamped, Meta!RowAt
  <1>7. {Stamped(r) : r \in stay} = History \ Meta!RowsOf(from)
    BY HistoryIs DEF Meta!RowsOf, History, Stamped
  <1>8. {Stamped(r) : r \in leave} = Meta!RowsOf(from) \ Meta!Superseded(from, into)
    <2>1. ASSUME NEW r \in rows
          PROVE  Stamped(r) \in Meta!RowsOf(from) <=> r.commit = from
      BY HistoryIs DEF Meta!RowsOf, History, Stamped
    <2>2. Meta!RowsOf(from) \subseteq {Stamped(r) : r \in rows}
      BY HistoryIs DEF Meta!RowsOf, History
    <2>3. ASSUME NEW r \in rows, r.commit = from
          PROVE  Stamped(r) \in Meta!Superseded(from, into) <=> superseded(r, from, into)
      BY <1>1, <2>3, SupersededMaps
    <2>4. QED
      BY <2>1, <2>2, <2>3
  <1>9. Meta!Restamped(from, into)
          = {Meta!RowAt(into, Sequences[into], Stamped(r).coord, Stamped(r).blob) : r \in leave}
    <2>1. Meta!Restamped(from, into)
            = {Meta!RowAt(into, Sequences[into], p.coord, p.blob) :
                 p \in Meta!RowsOf(from) \ Meta!Superseded(from, into)}
      BY DEF Meta!Restamped, Sequences
    <2> HIDE DEF leave
    <2>2. QED
      BY <1>8, <2>1
  <1>10. History' = {Stamped(r)' : r \in rows'}
    BY DEF History, Stamped
  <1> HIDE DEF stay, leave
  <1>11. History' = {Stamped(r)' : r \in stay} \cup {Stamped([r EXCEPT !.commit = into])' : r \in leave}
    BY <1>2, <1>10
  <1>12. {Stamped(r)' : r \in stay} = {Stamped(r) : r \in stay}
    BY <1>5
  <1>13. {Stamped([r EXCEPT !.commit = into])' : r \in leave} = Meta!Restamped(from, into)
    BY <1>6, <1>9
  <1>14. QED
    BY <1>7, <1>11, <1>12, <1>13

LEMMA EdgesBridged ==
  ASSUME MemInv, NEW from \in CommitIds, NEW into \in CommitIds, retire_commit(from, into)
  PROVE  Edges' = {e \in Edges \cup Meta!Bridged(from) : e[1] # from /\ e[2] # from}
  <1>1. /\ from \in held /\ held' = held \ {from}
        /\ \A c \in held' : parents'[c] = relink(from)[c]
        /\ held' \subseteq CommitIds
    BY RetireInv DEF MemInv, MemTypes
  <1>2. from \notin parents[from]
    BY <1>1 DEF MemInv, MemTypes, SeqsOrdered
  <1>3. Meta!Bridged(from) = {<<e[1], f[2]>> : e \in {d \in Edges : d[2] = from},
                                               f \in {d \in Edges : d[1] = from}}
    BY DEF Meta!Bridged, Edges
  <1>4. ASSUME NEW c \in CommitIds, NEW p \in CommitIds
        PROVE  <<c, p>> \in Meta!Bridged(from) <=>
                 c \in held /\ from \in parents[c] /\ p \in parents[from]
    <2>1. <<c, p>> \in Meta!Bridged(from) <=>
            \E e, f \in Edges : e[2] = from /\ f[1] = from /\ e[1] = c /\ f[2] = p
      BY <1>3
    <2>2. <<c, from>> \in Edges <=> c \in held /\ from \in parents[c]
      BY DEF Edges
    <2>3. <<from, p>> \in Edges <=> p \in parents[from]
      BY <1>1 DEF Edges
    <2>4. (\E e, f \in Edges : e[2] = from /\ f[1] = from /\ e[1] = c /\ f[2] = p)
            <=> <<c, from>> \in Edges /\ <<from, p>> \in Edges
      BY DEF Edges
    <2>5. QED
      BY <2>1, <2>2, <2>3, <2>4
  <1>5. Meta!Bridged(from) \subseteq CommitIds \X CommitIds /\ Edges \subseteq CommitIds \X CommitIds
        /\ Edges' \subseteq CommitIds \X CommitIds
    BY <1>3 DEF Edges
  <1>6. ASSUME NEW c \in CommitIds, NEW p \in CommitIds
        PROVE  <<c, p>> \in Edges' <=> /\ <<c, p>> \in Edges \cup Meta!Bridged(from)
                                       /\ c # from /\ p # from
    <2>1. <<c, p>> \in Edges' <=> c \in held' /\ p \in parents'[c]
      BY DEF Edges
    <2>2. c \in held' => (p \in parents'[c] <=>
                            IF from \in parents[c]
                            THEN p \in (parents[c] \ {from}) \cup parents[from]
                            ELSE p \in parents[c])
      BY <1>1 DEF relink
    <2>3. <<c, p>> \in Edges <=> c \in held /\ p \in parents[c]
      BY DEF Edges
    <2>4. QED
      BY <1>1, <1>2, <1>4, <2>1, <2>2, <2>3
  <1>7. QED
    BY <1>5, <1>6

LEMMA RetireMaps ==
  ASSUME MemInv, NEW from \in CommitIds, NEW into \in CommitIds, retire_commit(from, into)
  PROVE  Meta!RetireCommit(from, into)
  <1>1. /\ {from, into} \subseteq held /\ held' = held \ {from} /\ from # into
        /\ seqs[into] > seqs[from] /\ from \in ancestor_ids(into)
        /\ DOMAIN seqs = held /\ DOMAIN seqs' = held'
        /\ \A c \in held' : seqs'[c] = seqs[c]
    BY RetireInv DEF retire_commit, MemInv, MemTypes
  <1>2. Meta!CanRetire(from, into)
    <2>1. from \in Meta!Ancestors(into) /\ {from, into} \subseteq Meta!commits
      BY <1>1, SameAncestors, SameCommits
    <2>2. Sequences[from] < Sequences[into]
      BY <1>1 DEF Sequences, MemInv, MemTypes
    <2>3. QED
      BY <2>1, <2>2 DEF Meta!CanRetire, Sequences
  <1>3. Sequences' = [Sequences EXCEPT ![from] = 0]
    BY <1>1 DEF Sequences
  <1>4. /\ refs' = [n \in DOMAIN refs |->
                      IF refs[n].commit = from THEN [refs[n] EXCEPT !.commit = into] ELSE refs[n]]
        /\ UNCHANGED <<next_seq, assigned, hashed>>
    BY DEF retire_commit
  <1>5. \A n \in DOMAIN refs : refs[n] \in RefRecords
    BY DEF MemInv, MemTypes
  <1>6. \A n \in DOMAIN refs :
          /\ refs'[n].commit = IF refs[n].commit = from THEN into ELSE refs[n].commit
          /\ refs'[n].active = refs[n].active
    BY <1>4, <1>5 DEF RefRecords
  <1>7. DOMAIN refs' = DOMAIN refs
    BY <1>4
  <1>8. Targets' = [n \in RefNames |-> IF Targets[n] = from THEN into ELSE Targets[n]]
    BY <1>6, <1>7, MemAssumption DEF Targets
  <1>9. actives' = actives
    BY <1>6, <1>7 DEF actives
  <1>10. QED
    BY <1>2, <1>3, <1>4, <1>8, <1>9, RowsMove, EdgesBridged
    DEF Meta!RetireCommit, Meta!Fold, Sequences, History, Edges, Targets

PortNext == Meta!Next \/ \E c \in CommitIds : LeavesUnlinked(c)

LEMMA StepMaps == MemInv /\ [MemNext]_memVars => [PortNext]_(Meta!metaVars)
  <1> SUFFICES ASSUME MemInv, [MemNext]_memVars PROVE [PortNext]_(Meta!metaVars)
    OBVIOUS
  <1>1. ParentSets = Meta!ParentSets /\ EntrySets = Meta!EntrySets
    BY SameCommits DEF ParentSets, AtMostOne, Meta!ParentSets, Meta!AtMostOne, EntrySets, Meta!EntrySets
  <1>2. \A ps \in ParentSets : ps \in SUBSET held
    BY DEF ParentSets
  <1>3. ASSUME NEW c \in CommitIds, NEW ps \in ParentSets, NEW es \in EntrySets, apply_new(c, ps, es),
               next_seq < MaxSeq
        PROVE  Meta!Next
    <2>1. Meta!RecordNew(c, ps, es)
      BY <1>2, <1>3, ApplyNewMaps
    <2>2. next_seq + 1 <= MaxSeq
      BY <1>3, MemAssumption DEF MemInv, MemTypes
    <2>3. QED
      BY <1>1, <2>1, <2>2 DEF Meta!Next
  <1>4. ASSUME NEW c \in CommitIds, apply_again(c) PROVE PortNext
    BY <1>4, ApplyAgainMaps DEF PortNext, Meta!Next
  <1>5. ASSUME NEW c \in CommitIds, NEW ps \in ParentSets, create_commit(c, ps),
               next_seq < MaxSeq
        PROVE  Meta!Next
    <2>1. Meta!CreateCommit(c, ps)
      BY <1>2, <1>5, CreateMaps
    <2>2. next_seq + 1 <= MaxSeq
      BY <1>5, MemAssumption DEF MemInv, MemTypes
    <2>3. QED
      BY <1>1, <2>1, <2>2 DEF Meta!Next
  <1>6. ASSUME NEW c \in CommitIds, NEW k \in Coords, NEW b \in Blobs \cup {Tombstone},
               Recordable(c, k), record_chunk(c, k, b)
        PROVE  Meta!Next
    BY <1>6, RecordChunkMaps DEF Meta!Next
  <1>7. ASSUME NEW from \in CommitIds, NEW into \in CommitIds, retire_commit(from, into)
        PROVE  Meta!Next
    BY <1>7, RetireMaps DEF Meta!Next
  <1>8. ASSUME NEW n \in RefNames, NEW t \in CommitIds \cup {Unborn}, set_ref(n, t) PROVE Meta!Next
    BY <1>8, RefCallsMap DEF Meta!Next
  <1>9. ASSUME NEW n \in RefNames, delete_ref(n) \/ activate_ref(n) PROVE Meta!Next
    BY <1>9, RefCallsMap DEF Meta!Next
  <1>10. CASE UNCHANGED memVars
    BY <1>10 DEF memVars, Meta!metaVars, held, actives
  <1>11. QED
    BY <1>3, <1>4, <1>5, <1>6, <1>7, <1>8, <1>9, <1>10 DEF MemNext, PortNext

LEMMA InvCorrect == MemSpec => []MemInv
  BY InvInitially, InvStep, PTL DEF MemSpec

\* Whatever a test does to the in-memory store, a retired id recorded again
\* included, the SQLite store could have done: each call that succeeds there
\* is the same call of the port, with the same effect (core::support::MemMeta
\* against storage-sqlite); but for one, a commit recorded again after its
\* parent came back, which the fake leaves without the edge.
THEOREM ImplementsPortCorrect == MemSpec => ImplementsPort
  BY InvCorrect, InitMaps, StepMaps, PTL DEF MemSpec, ImplementsPort, PortNext

\* The two answer alike: at every commit and coordinate the scan over the
\* ancestors in memory finds the row that the recursive query finds
\* (effective_at, lookup_chunk).
THEOREM SameAnswersCorrect == MemSpec => []SameAnswers
  <1>1. ASSUME MemInv, NEW c \in CommitIds, NEW k \in Coords
        PROVE  {r.blob : r \in effective_at(c, k)} = {r.blob : r \in Meta!Effective(c, k)}
    <2>1. DOMAIN seqs = held /\ \A r \in rows : r.commit \in held /\ seqs[r.commit] \in Nat
      BY <1>1 DEF MemInv, MemTypes
    <2>2. Meta!Visible(c, k) = {p \in History : p.coord = k /\ p.commit \in ancestor_ids(c) \cup {c}}
      BY <1>1, SameAncestors DEF Meta!Visible, History
    <2> DEFINE seen == {r \in rows : r.coord = k /\ r.commit \in ancestor_ids(c) \cup {c}}
    <2>3. Meta!Visible(c, k) = {Stamped(r) : r \in seen}
      BY <2>2, HistoryIs DEF Stamped
    <2>4. \A r \in rows : Stamped(r).seq = seqs[r.commit] /\ Stamped(r).blob = r.blob
      BY DEF Stamped
    <2>5. Meta!Effective(c, k)
            = {p \in {Stamped(r) : r \in seen} : \A q \in {Stamped(r) : r \in seen} : q.seq <= p.seq}
      BY <2>3 DEF Meta!Effective
    <2>6. {p.blob : p \in Meta!Effective(c, k)}
            = {r.blob : r \in {s \in seen : \A q \in seen : seqs[q.commit] <= seqs[s.commit]}}
      BY <2>4, <2>5
    <2>7. CASE c \in held
      <3>1. \A a \in ancestor_ids(c) \cup {c} : a \in held => seqs[a] <= seqs[c]
        BY <1>1, <2>7, AncestorsOlder DEF MemInv, MemTypes
      <3>2. {r \in rows : /\ r.coord = k
                          /\ r.commit \in DOMAIN seqs \cap (ancestor_ids(c) \cup {c})
                          /\ seqs[r.commit] <= seqs[c]} = seen
        BY <2>1, <3>1
      <3>3. effective_at(c, k) = {s \in seen : \A q \in seen : seqs[q.commit] <= seqs[s.commit]}
        BY <2>1, <2>7, <3>2 DEF effective_at
      <3>4. QED
        BY <2>6, <3>3
    <2>8. CASE c \notin held
      <3>1. ancestor_ids(c) = {}
        <4>1. ClosedUp({}) /\ {} \in SUBSET CommitIds
          BY DEF ClosedUp
        <4>2. QED
          BY <2>8, <4>1 DEF ancestor_ids
      <3>2. seen = {}
        BY <2>1, <2>8, <3>1
      <3>3. effective_at(c, k) = {}
        BY <2>1, <2>8 DEF effective_at
      <3>4. QED
        BY <2>6, <3>2, <3>3
    <2>9. QED
      BY <2>7, <2>8
  <1>2. MemInv => SameAnswers
    BY <1>1 DEF SameAnswers
  <1>3. QED
    BY <1>2, InvCorrect, PTL
=============================================================================
