------------------------------ MODULE Checkout -------------------------------
(***************************************************************************)
(* Rebuilding a world from a commit (app::checkout).  The call is a future *)
(* that reads the plan by two queries and fetches the blobs; discovery and *)
(* every file are blocking steps on another thread.  Each step holds a     *)
(* share of the world lock: a future that is dropped does not stop the     *)
(* step that it has started, nor free the world under it.                  *)
(*                                                                         *)
(* A file is the chunks in it; rebuilding is lossless here.  Writing one   *)
(* is an atomic swap.                                                      *)
(***************************************************************************)
EXTENDS BlobStore, WorldLock

CONSTANTS
  Checkouts,   \* callers of checkout
  Readers,     \* callers of operations that read the world
  Regions,     \* region files
  RegionOf,    \* coordinate -> its region
  Scopes,      \* selections: sets of regions
  Policies     \* CheckoutOptions the callers use

PolicySpace == [keepFiles : BOOLEAN, keepChunks : BOOLEAN, keepTombs : BOOLEAN,
                skip : BOOLEAN]

ASSUME CheckoutAssumption ==
  /\ Operations = Checkouts \cup Readers
  /\ Checkouts \cap Readers = {}
  /\ RegionOf \in [Coords -> Regions]
  /\ Scopes \subseteq SUBSET Regions
  /\ Policies \subseteq PolicySpace

VARIABLES
  files,   \* regions whose file exists
  live,    \* the chunk a file holds at each coordinate: a set of one or none
  job      \* per caller: how far its checkout is, what it and its step hold

worldVars == <<files, live>>
checkoutVars == <<lockVars, worldVars, job>>

In(r) == {k \in Coords : RegionOf[k] = r}

NoPlan == [k \in {} |-> Tombstone]

\* `step` is the blocking step that is queued or running.  `oldFiles` and
\* `oldLive` are history: the world when the call began.
NoJob == [at |-> "idle", commit |-> Unborn, scope |-> {}, policy |-> NoPlan,
          rows |-> NoPlan, tombs |-> {}, found |-> {}, todo |-> {},
          file |-> Absent, fetch |-> {}, image |-> NothingPresent, step |-> "none",
          oldFiles |-> {}, oldLive |-> NothingPresent]

\* An operation on the world is made of this caller's steps only.
Go(o, j) == job' = [job EXCEPT ![o] = j]

Await(o, j) == Go(o, j) /\ UNCHANGED <<lockVars, worldVars>>

\* The last share of the lock is gone.
EndCall(o) == Go(o, NoJob) /\ Unlock(o)

-----------------------------------------------------------------------------
(* The plan. *)

BeginCheckout(o) ==
  /\ job[o].at = "idle"
  /\ Lock(o, "exclusive")
  /\ \E c \in assigned, s \in Scopes, p \in Policies :
       Go(o, [NoJob EXCEPT !.at = "locked", !.commit = c, !.scope = s, !.policy = p,
                           !.oldFiles = files, !.oldLive = live])
  /\ UNCHANGED worldVars

\* plan_checkout looks the commit up ...
LookupCommit(o) ==
  /\ job[o].at = "locked"
  /\ IF job[o].commit \in commits
     THEN Await(o, [job[o] EXCEPT !.at = "found"])
     ELSE EndCall(o) /\ UNCHANGED worldVars

\* ... and visits its effective rows.  What is in scope is kept, and the
\* discovery is started.
ReadPlan(o) ==
  LET j == job[o]
      known == {k \in Coords : RegionOf[k] \in j.scope /\ Effective(j.commit, k) # {}}
      present == {k \in known : Present(j.commit, k) # {}}
  IN  /\ j.at = "found"
      /\ \E rows \in [present -> Blobs] :
           /\ \A k \in present : Present(j.commit, k) = {rows[k]}
           /\ Await(o, [j EXCEPT !.at = "stepping", !.step = "discover", !.rows = rows,
                                 !.tombs = known \ present])

-----------------------------------------------------------------------------
(* The files, one after the other in key order: any order here. *)

RowsIn(j, r) == {k \in DOMAIN j.rows : RegionOf[k] = r}

\* Neither a file nor rows.
SkipFile(o, r) ==
  /\ job[o].at = "passing" /\ r \in job[o].todo \ job[o].found
  /\ RowsIn(job[o], r) = {}
  /\ Await(o, [job[o] EXCEPT !.todo = @ \ {r}])

\* A file without rows: removed unless a policy keeps it.
StartRemoval(o, r) ==
  /\ job[o].at = "passing" /\ r \in job[o].todo \cap job[o].found
  /\ RowsIn(job[o], r) = {}
  /\ Await(o, [job[o] EXCEPT !.todo = @ \ {r}, !.at = "stepping", !.step = "remove",
                             !.file = r])

\* A file with rows is rebuilt from their blobs.
StartFetch(o, r) ==
  /\ job[o].at = "passing" /\ r \in job[o].todo
  /\ RowsIn(job[o], r) # {}
  /\ Await(o, [job[o] EXCEPT !.todo = @ \ {r}, !.at = "fetching", !.file = r,
                             !.fetch = RowsIn(job[o], r), !.image = NothingPresent])

\* One blob.  A missing one is skipped or ends the call.
FetchRow(o, k) ==
  LET j == job[o]
  IN  /\ j.at = "fetching" /\ k \in j.fetch
      /\ IF j.rows[k] \in cas
         THEN Await(o, [j EXCEPT !.fetch = @ \ {k}, !.image[k] = {j.rows[k]}])
         ELSE IF j.policy.skip
         THEN Await(o, [j EXCEPT !.fetch = @ \ {k}])
         ELSE EndCall(o) /\ UNCHANGED worldVars

StartWrite(o) ==
  /\ job[o].at = "fetching" /\ job[o].fetch = {}
  /\ Await(o, [job[o] EXCEPT !.at = "stepping", !.step = "merge"])

-----------------------------------------------------------------------------
(* The blocking steps. *)

\* Slip: the share of a dropped future's step is never given back.
StepEndsAwaited(o, j) ==
  /\ Go(o, [j EXCEPT !.step = "none", !.at = IF @ = "dropped" THEN @ ELSE "passing"])
  /\ UNCHANGED lockVars

\* A step ends.  Its share was the last one if the future is gone.
StepEnds(o, j) ==
  IF j.at = "dropped"
  THEN EndCall(o)
  ELSE Go(o, [j EXCEPT !.step = "none", !.at = "passing"]) /\ UNCHANGED lockVars

\* Slip: what is discovered is not narrowed to the scope.
DiscoverAll(o) ==
  /\ job[o].step = "discover"
  /\ LET known == {RegionOf[k] : k \in DOMAIN job[o].rows \cup job[o].tombs}
     IN  StepEnds(o, [job[o] EXCEPT !.found = files, !.todo = files \cup known])
  /\ UNCHANGED worldVars

Discover(o) ==
  /\ job[o].step = "discover"
  /\ LET found == files \cap job[o].scope
         known == {RegionOf[k] : k \in DOMAIN job[o].rows \cup job[o].tombs}
     IN  StepEnds(o, [job[o] EXCEPT !.found = found, !.todo = found \cup known])
  /\ UNCHANGED worldVars

\* A fully tombstoned file and one the commit does not know are kept by
\* different policies.
Remove(o) ==
  LET j == job[o]
      keep == IF \E k \in j.tombs : RegionOf[k] = j.file
              THEN j.policy.keepTombs ELSE j.policy.keepFiles
  IN  /\ j.step = "remove"
      /\ files' = IF keep THEN files ELSE files \ {j.file}
      /\ live' = IF keep THEN live
                 ELSE [k \in Coords |-> IF k \in In(j.file) THEN {} ELSE live[k]]
      /\ StepEnds(o, j)

Keeps(j, k) == IF k \in j.tombs THEN j.policy.keepTombs ELSE j.policy.keepChunks

\* Slip: a live chunk wins over the one restored.
MergeOver(o) ==
  LET j == job[o]
      kept(k) == k \in In(j.file) /\ live[k] # {} /\ Keeps(j, k)
  IN  /\ j.step = "merge"
      /\ Await(o, [j EXCEPT !.step = "swap",
                            !.image = [k \in Coords |-> IF kept(k) THEN live[k] ELSE @[k]]])

\* merge_live_chunks: live chunks where nothing was restored.
Merge(o) ==
  LET j == job[o]
      kept(k) == k \in In(j.file) /\ j.image[k] = {} /\ Keeps(j, k)
  IN  /\ j.step = "merge"
      /\ Await(o, [j EXCEPT !.step = "swap",
                            !.image = [k \in Coords |-> IF kept(k) THEN live[k] ELSE @[k]]])

Swap(o) ==
  LET j == job[o]
  IN  /\ j.step = "swap"
      /\ files' = files \cup {j.file}
      /\ live' = [k \in Coords |-> IF k \in In(j.file) THEN j.image[k] ELSE live[k]]
      /\ StepEnds(o, j)

-----------------------------------------------------------------------------
(* How a call ends. *)

\* Every step has been awaited: the world is released.
FinishCheckout(o) ==
  /\ job[o].at = "passing" /\ job[o].todo = {}
  /\ EndCall(o)
  /\ UNCHANGED worldVars

\* Slip: the world is released with the future.
DropFutureAndLock(o) ==
  /\ job[o].at = "stepping"
  /\ Go(o, [job[o] EXCEPT !.at = "dropped"])
  /\ Unlock(o)
  /\ UNCHANGED worldVars

\* The caller drops the future while a step is under way.
DropFuture(o) ==
  /\ job[o].at = "stepping"
  /\ Await(o, [job[o] EXCEPT !.at = "dropped"])

\* A query, a file or a step fails, the future is dropped between steps, or
\* the process dies.
Halt(o) ==
  /\ job[o].at # "idle"
  /\ EndCall(o)
  /\ UNCHANGED worldVars

\* commit, status, diff: the world is held shared from entry to return.
BeginRead(o) == Lock(o, "shared") /\ UNCHANGED <<worldVars, job>>

EndRead(o) ==
  /\ hold[o] # "none"
  /\ Unlock(o)
  /\ UNCHANGED <<worldVars, job>>

CheckoutInit ==
  /\ LockInit
  /\ files \in SUBSET Regions
  /\ live \in [Coords -> {{}} \cup {{b} : b \in Blobs}]
  /\ \A k \in Coords : live[k] # {} => RegionOf[k] \in files
  /\ job = [o \in Checkouts |-> NoJob]

\* What the runtime does once a checkout has begun.
CheckoutStep(o) ==
  \/ LookupCommit(o)
  \/ ReadPlan(o)
  \/ \E r \in Regions : SkipFile(o, r) \/ StartRemoval(o, r) \/ StartFetch(o, r)
  \/ \E k \in Coords : FetchRow(o, k)
  \/ StartWrite(o)
  \/ Discover(o)
  \/ Remove(o)
  \/ Merge(o)
  \/ Swap(o)
  \/ FinishCheckout(o)

CheckoutFault(o) == DropFuture(o) \/ Halt(o)
=============================================================================
