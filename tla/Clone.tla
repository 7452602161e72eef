-------------------------------- MODULE Clone --------------------------------
(***************************************************************************)
(* Rebuilding a commit into a fresh directory (app::clone).  The call is   *)
(* a future: it checks that the target is empty, reads the plan by two     *)
(* queries, fetches the blobs of each region and queues the write of its   *)
(* file on the blocking pool, then collects the writes.  Nothing locks the *)
(* target, and a write that is queued goes on when the future is dropped.  *)
(*                                                                         *)
(* A file is the set of the blobs restored into it.  What a commit holds   *)
(* never changes (see MetaStoreProofs); a prune may retire it and a gc or  *)
(* a fault may take a blob away.                                           *)
(***************************************************************************)
EXTENDS AtomicSwap

CONSTANTS
  Clones,    \* calls of clone_to with one target, in a process each
  Commits,
  Blobs,
  Content,   \* commit -> file -> the blobs of its present chunks
  Selection  \* clone -> its scope: a set of files

ASSUME CloneAssumption ==
  /\ Swaps = Clones \X Files
  /\ Images = SUBSET Blobs
  /\ Content \in [Commits -> [Files -> SUBSET Blobs]]
  /\ Selection \in [Clones -> SUBSET Files]

VARIABLES
  stored,   \* commits the metadata knows
  cas,      \* blobs the store holds
  job,      \* per clone: how far its call is
  alone     \* history: clones that have had the target for themselves

storeVars == <<stored, cas>>
cloneVars == <<swapVars, storeVars, job, alone>>

NoCommit == NoFile

NotCalled == [at |-> "idle", commit |-> NoCommit, skip |-> FALSE,
              todo |-> {}, file |-> NoFile, fetch |-> {}, image |-> {}, awaited |-> {}]

CloneInit ==
  /\ SwapInit
  /\ stored = Commits
  /\ cas = Blobs
  /\ job = [c \in Clones |-> NotCalled]
  /\ alone = {}

StepsOf(c) == {s \in Swaps : s[1] = c}

Await(c, j) == job' = [job EXCEPT ![c] = j]

Stop(c, how) == Await(c, [NotCalled EXCEPT !.at = how])

\* The future exists; when it ends, what it has queued goes on.
Underway == {"empty", "found", "building"}

-----------------------------------------------------------------------------
(* The plan. *)

\* HostWorldTree::is_empty: no entry in the directory of a dimension, be it
\* a directory of files that a swap made there.
TargetEmpty ==
  /\ \A d \in Dirs : dirs[d] \in {"missing", "lost"}
  /\ \A f \in Files : named[f] = Missing
  /\ \A n \in Numbers : temps[n] = Missing

BeginClone(c) ==
  /\ job[c].at = "idle"
  /\ IF TargetEmpty
     THEN \E k \in Commits, skip \in BOOLEAN :
            Await(c, [NotCalled EXCEPT !.at = "empty", !.commit = k, !.skip = skip])
     ELSE Stop(c, "failed")
  /\ alone' = IF \A s \in Swaps \ StepsOf(c) : swap[s].at \in Finished
              THEN alone \cup {c} ELSE alone
  /\ UNCHANGED <<swapVars, storeVars>>

\* plan_checkout looks the commit up ...
LookupPlan(c) ==
  /\ job[c].at = "empty"
  /\ IF job[c].commit \in stored
     THEN Await(c, [job[c] EXCEPT !.at = "found"])
     ELSE Stop(c, "failed")
  /\ UNCHANGED <<swapVars, storeVars, alone>>

\* ... and visits its rows; regions out of the scope are dropped.
ReadPlan(c) ==
  LET j == job[c] IN
  /\ j.at = "found"
  /\ Await(c, [j EXCEPT !.at = "building",
                        !.todo = {f \in Selection[c] : j.commit \in stored
                                                  /\ Content[j.commit][f] # {}}])
  /\ UNCHANGED <<swapVars, storeVars, alone>>

-----------------------------------------------------------------------------
(* clone_files. *)

BeginFile(c) ==
  LET j == job[c] IN
  /\ j.at = "building"
  /\ j.file = NoFile
  /\ \E f \in j.todo :
       Await(c, [j EXCEPT !.file = f, !.fetch = Content[j.commit][f], !.image = {}])
  /\ UNCHANGED <<swapVars, storeVars, alone>>

\* fetch_or_skip
FetchBlob(c) ==
  LET j == job[c] IN
  /\ j.file # NoFile
  /\ \E b \in j.fetch :
       IF b \in cas
       THEN Await(c, [j EXCEPT !.fetch = @ \ {b}, !.image = @ \cup {b}])
       ELSE IF j.skip THEN Await(c, [j EXCEPT !.fetch = @ \ {b}])
       ELSE Stop(c, "failed")
  /\ UNCHANGED <<swapVars, storeVars, alone>>

\* Queued as soon as its input is ready.
QueueFile(c) ==
  LET j == job[c] IN
  /\ j.file # NoFile
  /\ j.fetch = {}
  /\ Ask(<<c, j.file>>, j.file, j.image)
  /\ Await(c, [j EXCEPT !.todo = @ \ {j.file}, !.file = NoFile,
                        !.awaited = @ \cup {j.file}])
  /\ alone' = alone \cap {c}
  /\ UNCHANGED storeVars

\* Slip: the outcome of a write is not looked at.
CollectFileBlindly(c) ==
  LET j == job[c] IN
  /\ j.at = "building" /\ j.file = NoFile /\ j.todo = {}
  /\ \E f \in j.awaited :
       /\ swap[<<c, f>>].at \in {"done", "failed"}
       /\ Await(c, [j EXCEPT !.awaited = @ \ {f}])
  /\ UNCHANGED <<swapVars, storeVars, alone>>

CollectFile(c) ==
  LET j == job[c] IN
  /\ j.at = "building" /\ j.file = NoFile /\ j.todo = {}
  /\ \E f \in j.awaited :
       \/ /\ swap[<<c, f>>].at = "done"
          /\ Await(c, [j EXCEPT !.awaited = @ \ {f}])
       \/ /\ swap[<<c, f>>].at = "failed"
          /\ Stop(c, "failed")
  /\ UNCHANGED <<swapVars, storeVars, alone>>

ReturnReport(c) ==
  LET j == job[c] IN
  /\ j.at = "building" /\ j.file = NoFile /\ j.todo = {} /\ j.awaited = {}
  /\ Await(c, [j EXCEPT !.at = "done"])
  /\ UNCHANGED <<swapVars, storeVars, alone>>

\* A query fails, or the caller drops the future.
LeaveClone(c) ==
  /\ job[c].at \in Underway
  /\ Stop(c, "failed")
  /\ UNCHANGED <<swapVars, storeVars, alone>>

-----------------------------------------------------------------------------
(* Faults, and what others do to the store. *)

KillClone(c) ==
  /\ job[c].at # "idle"
  /\ swap' = Killed(StepsOf(c))
  /\ IF job[c].at \in Underway THEN Stop(c, "failed") ELSE UNCHANGED job
  /\ UNCHANGED <<fileVars, temps, storeVars, alone>>

PowerLoss ==
  /\ LoseCaches
  /\ swap' = Killed(Swaps)
  /\ job' = [c \in Clones |-> IF job[c].at \in Underway
                              THEN [NotCalled EXCEPT !.at = "failed"] ELSE job[c]]
  /\ UNCHANGED <<storeVars, alone>>

RetireCommit ==
  /\ \E k \in stored : stored' = stored \ {k}
  /\ UNCHANGED <<swapVars, cas, job, alone>>

LoseBlob ==
  /\ \E b \in cas : cas' = cas \ {b}
  /\ UNCHANGED <<swapVars, stored, job, alone>>

CloneStep(c) ==
  \/ BeginClone(c)
  \/ LookupPlan(c)
  \/ ReadPlan(c)
  \/ BeginFile(c)
  \/ FetchBlob(c)
  \/ QueueFile(c)
  \/ CollectFile(c)
  \/ ReturnReport(c)
  \/ LeaveClone(c)
  \/ KillClone(c)

CloneNext ==
  \/ \E c \in Clones : CloneStep(c)
  \/ \E s \in Swaps : SwapStep(s) /\ UNCHANGED <<storeVars, job, alone>>
  \/ PowerLoss
  \/ RetireCommit
  \/ LoseBlob

CloneSpec == CloneInit /\ [][CloneNext]_cloneVars

-----------------------------------------------------------------------------
(* Properties. *)

\* What clone c promises of a file when it returns a report: every chunk of
\* its commit under the scope, but those whose blob is gone when the caller
\* let them be skipped; and no file that is not the commit's.
Restored(c, f) ==
  LET j == job[c]
      i == named[f].image
  IN IF f \notin Selection[c] \/ Content[j.commit][f] = {}
     THEN i = NoFile
     ELSE /\ i \in Images
          /\ i \subseteq Content[j.commit][f]
          /\ Content[j.commit][f] \ i \subseteq (IF j.skip THEN Blobs \ cas ELSE {})

\* A clone that returned its report, and had the target for itself, left
\* exactly the files of its commit there: `clone_to` awaits every write, and
\* every write the sync of its directory, so no power loss takes a single
\* file back.  What it can take is a whole directory that the clone had to
\* make.  The other exception: a commit retired between the two queries of
\* the plan is cloned as if it were empty.
CloneExact ==
  \A c \in alone :
    job[c].at = "done" =>
      \/ \A f \in Files :
           /\ older[f] = {} /\ named[f].synced
           /\ \/ Restored(c, f)
              \/ dirs[DirOf[f]] = "lost" /\ named[f] = Missing
      \/ /\ job[c].commit \notin stored
         /\ \A f \in Files : named[f] = Missing
=============================================================================
