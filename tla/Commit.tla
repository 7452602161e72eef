------------------------------- MODULE Commit --------------------------------
(***************************************************************************)
(* Recording a world as a commit (app::commit, core::usecase::commit).     *)
(* The run reads its base by three queries, stages one blob per chunk in   *)
(* any order (its workers run in parallel), and records the delta in one   *)
(* metadata transaction.  The world does not change under it: it holds the *)
(* world lock; the store it does not lock.                                 *)
(***************************************************************************)
EXTENDS BlobStore

CONSTANT Committers   \* callers of commit

VARIABLE run   \* per caller: how far its commit is, and what it holds in memory

NoScan == [k \in {} |-> Tombstone]

Resting == [at |-> "idle", base |-> Unborn, state |-> NothingPresent,
            scope |-> {}, scan |-> NoScan, todo |-> {}]

\* What a scan of the files in scope can find: a chunk at some of the
\* coordinates.
Scans(scope) == UNION {[K -> Blobs] : K \in SUBSET scope}

Committing(w) == run[w].at # "idle"

Advance(w, r) == run' = [run EXCEPT ![w] = r]

-----------------------------------------------------------------------------
\* plan_commit: the active ref and its target ...
ReadActive(w) ==
  /\ ~ Committing(w)
  /\ \E n \in activeRefs :
       Advance(w, [Resting EXCEPT !.at = "active", !.base = target[n]])
  /\ UNCHANGED <<snapshotVars, cas>>

\* ... the commit it names: one that is gone by now counts as no base ...
LookupBase(w) ==
  /\ run[w].at = "active"
  /\ Advance(w, [run[w] EXCEPT !.at = "based",
                               !.base = IF @ \in commits THEN @ ELSE Unborn])
  /\ UNCHANGED <<snapshotVars, cas>>

\* Slip: a chunk is expected at every coordinate in scope.
ReadStateWholeScope(w) ==
  /\ run[w].at = "based"
  /\ \E scope \in SUBSET Coords : \E scan \in Scans(scope) :
       Advance(w, [run[w] EXCEPT
         !.at = "staging",
         !.state = IF run[w].base = Unborn THEN NothingPresent ELSE StateOf(run[w].base),
         !.scope = scope,
         !.scan = scan,
         !.todo = scope])
  /\ UNCHANGED <<snapshotVars, cas>>

\* ... and what it presents.  The files in scope are read after that.
ReadState(w) ==
  /\ run[w].at = "based"
  /\ \E scope \in SUBSET Coords : \E scan \in Scans(scope) :
       Advance(w, [run[w] EXCEPT
         !.at = "staging",
         !.state = IF run[w].base = Unborn THEN NothingPresent ELSE StateOf(run[w].base),
         !.scope = scope,
         !.scan = scan,
         !.todo = DOMAIN scan])
  /\ UNCHANGED <<snapshotVars, cas>>

\* A worker stores the payload of one chunk, changed or not.
StageBlob(w, k) ==
  /\ run[w].at = "staging"
  /\ k \in run[w].todo
  /\ PutBlob(run[w].scan[k])
  /\ Advance(w, [run[w] EXCEPT !.todo = @ \ {k}])
  /\ UNCHANGED snapshotVars

\* assemble: the chunks that differ from the base, and a tombstone for
\* every coordinate in scope that was present there and was not found.
Delta(r) ==
  LET found(k) == k \in DOMAIN r.scan
      changed == {k \in r.scope : r.state[k] # IF found(k) THEN {r.scan[k]} ELSE {}}
  IN  [k \in changed |-> IF found(k) THEN r.scan[k] ELSE Tombstone]

ParentsOf(r) == {r.base} \ {Unborn}

Staged(w) == run[w].at = "staging" /\ run[w].todo = {}

\* record_commit.
RecordCommit(w, c) ==
  /\ Staged(w)
  /\ Record(c, ParentsOf(run[w]), Delta(run[w]))
  /\ Advance(w, Resting)
  /\ UNCHANGED cas

\* The transaction refuses: the active ref has moved on, or the base is
\* gone.
CommitRefused(w) ==
  /\ Staged(w)
  /\ ~ (Continues(ParentsOf(run[w])) /\ ParentsOf(run[w]) \subseteq commits)
  /\ Advance(w, Resting)
  /\ UNCHANGED <<snapshotVars, cas>>

\* The process dies, or a file cannot be read: what it has put stays.
CommitDies(w) ==
  /\ Committing(w)
  /\ Advance(w, Resting)
  /\ UNCHANGED <<snapshotVars, cas>>

CommitInit == run = [w \in Committers |-> Resting]

CommitCall(w) == ReadActive(w)

CommitStep(w) ==
  \/ LookupBase(w)
  \/ ReadState(w)
  \/ \E k \in Coords : StageBlob(w, k)
  \/ \E c \in CommitIds : RecordCommit(w, c)
  \/ CommitRefused(w)
  \/ CommitDies(w)
=============================================================================
