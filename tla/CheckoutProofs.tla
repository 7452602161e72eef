--------------------------- MODULE CheckoutProofs ----------------------------
(***************************************************************************)
(* Checkouts of one world, for every number of callers, regions and        *)
(* policies: who may touch the files (LockInv), and what each region holds *)
(* at every step of a call (JobInv).                                       *)
(*                                                                         *)
(* The argument: a checkout holds the world exclusively from its call to   *)
(* the end of its last step, so nobody else changes a file meanwhile; and  *)
(* each region is either still as it was (Untouched) or what the commit    *)
(* makes of it (Rebuilt), turned by one atomic swap or removal.            *)
(***************************************************************************)
EXTENDS CheckoutRuns, StoreProofs

-----------------------------------------------------------------------------
(* Types. *)

JobRecords ==
  [at : {"idle", "locked", "found", "passing", "fetching", "stepping", "dropped"},
   commit : CommitIds \cup {Unborn},
   scope : SUBSET Regions,
   policy : PolicySpace \cup {NoPlan},
   rows : ScanSet,
   tombs : SUBSET Coords,
   found : SUBSET Regions,
   todo : SUBSET Regions,
   file : Regions \cup {Absent},
   fetch : SUBSET Coords,
   image : [Coords -> SUBSET Blobs],
   step : {"none", "discover", "remove", "merge", "swap"},
   oldFiles : SUBSET Regions,
   oldLive : [Coords -> SUBSET Blobs]]

\* The region in hand.
InHand(j) ==
  IF j.at = "fetching" \/ j.step \in {"remove", "merge", "swap"} THEN {j.file} ELSE {}

WorldTypeOK ==
  /\ hold \in [Operations -> {"none", "unguarded", "shared", "exclusive"}]
  /\ job \in [Checkouts -> JobRecords]
  /\ files \subseteq Regions
  /\ live \in [Coords -> SUBSET Blobs]
  /\ presented \in [CommitIds -> [Coords -> SUBSET Blobs]]
  /\ \A o \in Checkouts : InHand(job[o]) \subseteq Regions

-----------------------------------------------------------------------------
(* Who may touch the files.                                               *)

LockInv ==
  /\ \A o, q \in Operations : o # q /\ hold[o] = "exclusive" => ~ Guarded(q)
  /\ \A o \in Checkouts :
       /\ Running(o) => hold[o] = "exclusive"
       /\ job[o].at \in {"stepping", "dropped"} <=> job[o].step # "none"

-----------------------------------------------------------------------------
(* What a running checkout holds, and what it has made of the files: `j`   *)
(* is its job.                                                             *)

\* The call: its commit, its options, and the world it met.
CallSound(j) ==
  /\ j.commit \in assigned
  /\ j.policy \in PolicySpace
  /\ \A k \in Coords : j.oldLive[k] # {} => RegionOf[k] \in j.oldFiles

HasPlan(j) == j.at \notin {"idle", "locked", "found"}

\* The plan is what the commit presents in scope.
PlanRead(j) ==
  /\ \A k \in Coords :
       k \in DOMAIN j.rows <=> RegionOf[k] \in j.scope /\ presented[j.commit][k] # {}
  /\ \A k \in DOMAIN j.rows : presented[j.commit][k] = {j.rows[k]}
  /\ \A k \in j.tombs : RegionOf[k] \in j.scope /\ k \notin DOMAIN j.rows

Discovered(j) == HasPlan(j) /\ j.step # "discover"

\* The regions that are still to be worked on.
Pending(j) == IF Discovered(j) THEN j.todo \cup InHand(j) ELSE Regions

Untouched(j, r) ==
  /\ r \in files <=> r \in j.oldFiles
  /\ \A k \in In(r) : live[k] = j.oldLive[k]

\* A chunk of the plan whose blob is missing and may be skipped.
Skipped(j, k) == k \in DOMAIN j.rows /\ j.policy.skip /\ j.rows[k] \notin cas

\* What a checkout makes of a coordinate, missing blobs included.
MadeOf(j, k, chunks) ==
  \/ chunks = Made(j, k)
  \/ Skipped(j, k) /\ chunks = Kept(j.policy.keepChunks, j, k)

Rebuilt(j, r) ==
  /\ \A k \in In(r) : MadeOf(j, k, live[k])
  /\ r \in files => r \in j.oldFiles \/ RowsIn(j, r) # {}

WorkSound(j) ==
  /\ Discovered(j) =>
       /\ j.found = j.oldFiles \cap j.scope
       /\ j.todo \subseteq j.scope
       /\ InHand(j) \subseteq j.scope \ j.todo
  /\ j.step = "remove" => RowsIn(j, j.file) = {} /\ j.file \in j.found
  /\ j.at = "fetching" \/ j.step \in {"merge", "swap"} => RowsIn(j, j.file) # {}

\* What has been fetched of the region in hand ...
Fetched(j) ==
  j.at = "fetching" \/ j.step = "merge" =>
    /\ j.fetch \subseteq RowsIn(j, j.file)
    /\ j.step = "merge" => j.fetch = {}
    /\ \A k \in In(j.file) :
         \/ j.image[k] = {} /\ (k \in RowsIn(j, j.file) \ j.fetch => Skipped(j, k))
         \/ k \in RowsIn(j, j.file) /\ j.image[k] = {j.rows[k]}

\* ... and what is about to be swapped in.
Merged(j) == j.step = "swap" => \A k \in In(j.file) : MadeOf(j, k, j.image[k])

\* Every region is as the call met it or as the commit makes it.
FilesSound(j) ==
  \A r \in Regions :
    IF r \in Pending(j) \/ r \notin j.scope THEN Untouched(j, r) ELSE Rebuilt(j, r)

JobSound(j) ==
  /\ CallSound(j)
  /\ HasPlan(j) => PlanRead(j)
  /\ WorkSound(j)
  /\ Fetched(j)
  /\ Merged(j)
  /\ FilesSound(j)

JobInv ==
  /\ \A k \in Coords : live[k] # {} => RegionOf[k] \in files
  /\ \A o \in Checkouts : Running(o) => JobSound(job[o])

\* A commit that is about to be read is stored and presents what it
\* presented when it was recorded.
PlansIntact ==
  \A o \in Checkouts :
    job[o].at = "found" => job[o].commit \in commits /\ Intact(job[o].commit)

\* What a checkout has planned is stored.
RowsStored ==
  \A o \in Checkouts : Running(o) =>
    \A k \in DOMAIN job[o].rows : job[o].rows[k] \in cas

AllIntact == \A c \in commits : Intact(c)

-----------------------------------------------------------------------------
(* The records.                                                           *)

LEMMA NoJobTyped == NoJob \in JobRecords /\ NoJob.at = "idle" /\ NoJob.step = "none"
  <1>1. NoPlan \in [{} -> Blobs] /\ {} \in SUBSET Coords
    BY DEF NoPlan
  <1>2. NoPlan \in ScanSet
    BY <1>1 DEF ScanSet
  <1>3. NothingPresent \in [Coords -> SUBSET Blobs]
    BY DEF NothingPresent
  <1>4. QED
    BY <1>2, <1>3 DEF NoJob, JobRecords

\* One checkout moves on.
JobMoves(o, r) ==
  /\ r \in JobRecords
  /\ job' \in [Checkouts -> JobRecords]
  /\ job'[o] = r
  /\ \A q \in Checkouts \ {o} : job'[q] = job[q]

LEMMA GoMoves ==
  ASSUME job \in [Checkouts -> JobRecords], NEW o \in Checkouts, NEW r \in JobRecords, Go(o, r)
  PROVE  JobMoves(o, r)
  BY DEF JobMoves, Go

\* What a step leaves of the call itself.
SameCall(j, r) ==
  /\ r.commit = j.commit /\ r.scope = j.scope /\ r.policy = j.policy
  /\ r.oldFiles = j.oldFiles /\ r.oldLive = j.oldLive

SamePlan(j, r) == SameCall(j, r) /\ r.rows = j.rows /\ r.tombs = j.tombs

LEMMA EndCallMoves ==
  ASSUME WorldTypeOK, NEW o \in Checkouts, EndCall(o)
  PROVE  /\ JobMoves(o, NoJob)
         /\ hold' = [hold EXCEPT ![o] = "none"]
  BY NoJobTyped, GoMoves DEF WorldTypeOK, EndCall, Unlock

LEMMA BeginCheckoutMoves ==
  ASSUME WorldTypeOK, StoreInv, NEW o \in Checkouts, BeginCheckout(o)
  PROVE  \E r : /\ JobMoves(o, r)
                /\ r.at = "locked" /\ r.step = "none" /\ r.commit \in assigned
                /\ r.policy \in PolicySpace /\ r.oldFiles = files /\ r.oldLive = live
                /\ r.rows = NoPlan
  <1>1. PICK c \in assigned, s \in Scopes, p \in Policies :
          Go(o, [NoJob EXCEPT !.at = "locked", !.commit = c, !.scope = s, !.policy = p,
                              !.oldFiles = files, !.oldLive = live])
    BY DEF BeginCheckout
  <1> DEFINE r == [NoJob EXCEPT !.at = "locked", !.commit = c, !.scope = s, !.policy = p,
                                !.oldFiles = files, !.oldLive = live]
  <1>2. /\ c \in CommitIds /\ s \in SUBSET Regions /\ p \in PolicySpace
        /\ files \in SUBSET Regions /\ live \in [Coords -> SUBSET Blobs]
    BY CheckoutAssumption DEF WorldTypeOK, StoreInv, PruneInv, IInv, TypeOK
  <1>3. r \in JobRecords
    BY <1>2, NoJobTyped DEF JobRecords
  <1>4. /\ r.at = "locked" /\ r.step = "none" /\ r.commit = c /\ r.policy = p
        /\ r.oldFiles = files /\ r.oldLive = live /\ r.rows = NoPlan
    BY DEF NoJob
  <1>5. Go(o, r)
    BY <1>1
  <1> HIDE DEF r
  <1>6. JobMoves(o, r)
    BY <1>3, <1>5, GoMoves DEF WorldTypeOK
  <1>7. QED
    BY <1>2, <1>4, <1>6

LEMMA LookupCommitMoves ==
  ASSUME WorldTypeOK, NEW o \in Checkouts, LookupCommit(o)
  PROVE  \/ EndCall(o)
         \/ \E r : /\ JobMoves(o, r) /\ SamePlan(job[o], r)
                   /\ job[o].commit \in commits
                   /\ job[o].at = "locked" /\ r.at = "found" /\ r.step = job[o].step
                   /\ UNCHANGED lockVars
  <1> DEFINE j == job[o]
             r == [j EXCEPT !.at = "found"]
  <1>1. j \in JobRecords /\ job \in [Checkouts -> JobRecords]
    BY DEF WorldTypeOK
  <1>2. r \in JobRecords
    BY <1>1 DEF JobRecords
  <1>3. SamePlan(j, r) /\ r.at = "found" /\ r.step = j.step
    BY <1>1 DEF JobRecords, SamePlan, SameCall
  <1>4. CASE j.commit \in commits
    <2>1. Go(o, r) /\ UNCHANGED lockVars /\ j.at = "locked"
      BY <1>4 DEF LookupCommit, Await
    <2> HIDE DEF r
    <2>2. JobMoves(o, r)
      BY <1>1, <1>2, <2>1, GoMoves
    <2>3. QED
      BY <1>3, <1>4, <2>1, <2>2
  <1>5. CASE j.commit \notin commits
    BY <1>5 DEF LookupCommit
  <1>6. QED
    BY <1>4, <1>5

LEMMA ReadPlanMoves ==
  ASSUME WorldTypeOK, NEW o \in Checkouts, ReadPlan(o)
  PROVE  \E r : /\ JobMoves(o, r) /\ SameCall(job[o], r)
                /\ job[o].at = "found" /\ r.at = "stepping" /\ r.step = "discover"
                /\ \A k \in Coords :
                     k \in DOMAIN r.rows <=>
                       RegionOf[k] \in job[o].scope /\ Present(job[o].commit, k) # {}
                /\ \A k \in DOMAIN r.rows : Present(job[o].commit, k) = {r.rows[k]}
                /\ \A k \in r.tombs : RegionOf[k] \in job[o].scope /\ k \notin DOMAIN r.rows
                /\ DOMAIN r.rows \subseteq Coords
                /\ UNCHANGED lockVars
  <1> DEFINE j == job[o]
             known == {k \in Coords : RegionOf[k] \in j.scope /\ Effective(j.commit, k) # {}}
             present == {k \in known : Present(j.commit, k) # {}}
  <1>1. PICK rows \in [present -> Blobs] :
          /\ \A k \in present : Present(j.commit, k) = {rows[k]}
          /\ Await(o, [j EXCEPT !.at = "stepping", !.step = "discover", !.rows = rows,
                                !.tombs = known \ present])
    BY DEF ReadPlan
  <1> DEFINE r == [j EXCEPT !.at = "stepping", !.step = "discover", !.rows = rows,
                            !.tombs = known \ present]
  <1>2. j \in JobRecords /\ job \in [Checkouts -> JobRecords] /\ j.at = "found"
    BY DEF WorldTypeOK, ReadPlan
  <1>3. \A k \in Coords : Present(j.commit, k) # {} => Effective(j.commit, k) # {}
    BY DEF Present
  <1>4. /\ present \in SUBSET Coords /\ DOMAIN rows = present
        /\ \A k \in Coords : k \in present <=>
                               RegionOf[k] \in j.scope /\ Present(j.commit, k) # {}
        /\ known \ present \in SUBSET Coords
        /\ \A k \in known \ present : RegionOf[k] \in j.scope /\ k \notin present
    BY <1>1, <1>3
  <1> HIDE DEF present, known
  <1>5. rows \in ScanSet
    BY <1>1, <1>4 DEF ScanSet
  <1>6. r \in JobRecords
    BY <1>2, <1>4, <1>5 DEF JobRecords
  <1>7. /\ SameCall(j, r) /\ r.at = "stepping" /\ r.step = "discover" /\ r.rows = rows
        /\ r.tombs = known \ present
    BY <1>2 DEF JobRecords, SameCall
  <1>8. Go(o, r) /\ UNCHANGED lockVars
    BY <1>1 DEF Await
  <1> HIDE DEF r
  <1>9. JobMoves(o, r)
    BY <1>2, <1>6, <1>8, GoMoves
  <1>10. QED
    BY <1>1, <1>2, <1>4, <1>7, <1>8, <1>9

\* Steps that change nothing but what the call holds.
LEMMA AwaitMoves ==
  ASSUME WorldTypeOK, NEW o \in Checkouts, NEW r \in JobRecords, Await(o, r)
  PROVE  JobMoves(o, r) /\ UNCHANGED <<lockVars, worldVars>>
  BY GoMoves DEF WorldTypeOK, Await

LEMMA SkipFileMoves ==
  ASSUME WorldTypeOK, NEW o \in Checkouts, NEW f \in Regions, SkipFile(o, f)
  PROVE  \E r : /\ JobMoves(o, r) /\ SamePlan(job[o], r) /\ UNCHANGED <<lockVars, worldVars>>
                /\ job[o].at = "passing" /\ f \in job[o].todo \ job[o].found
                /\ RowsIn(job[o], f) = {}
                /\ r.at = "passing" /\ r.step = job[o].step /\ r.found = job[o].found
                /\ r.todo = job[o].todo \ {f}
  <1> DEFINE j == job[o]
             r == [j EXCEPT !.todo = j.todo \ {f}]
  <1>1. j \in JobRecords
    BY DEF WorldTypeOK
  <1>2. /\ Await(o, r) /\ j.at = "passing" /\ f \in j.todo \ j.found /\ RowsIn(j, f) = {}
    BY DEF SkipFile
  <1>3. r \in JobRecords
    BY <1>1 DEF JobRecords
  <1>4. /\ SamePlan(j, r) /\ r.at = j.at /\ r.step = j.step /\ r.found = j.found
        /\ r.todo = j.todo \ {f}
    BY <1>1 DEF JobRecords, SamePlan, SameCall
  <1> HIDE DEF r
  <1>5. JobMoves(o, r) /\ UNCHANGED <<lockVars, worldVars>>
    BY <1>2, <1>3, AwaitMoves
  <1>6. QED
    BY <1>2, <1>4, <1>5

LEMMA StartRemovalMoves ==
  ASSUME WorldTypeOK, NEW o \in Checkouts, NEW f \in Regions, StartRemoval(o, f)
  PROVE  \E r : /\ JobMoves(o, r) /\ SamePlan(job[o], r) /\ UNCHANGED <<lockVars, worldVars>>
                /\ job[o].at = "passing" /\ f \in job[o].todo \cap job[o].found
                /\ RowsIn(job[o], f) = {}
                /\ r.at = "stepping" /\ r.step = "remove" /\ r.found = job[o].found
                /\ r.todo = job[o].todo \ {f} /\ r.file = f
  <1> DEFINE j == job[o]
             r == [j EXCEPT !.todo = j.todo \ {f}, !.at = "stepping", !.step = "remove",
                            !.file = f]
  <1>1. j \in JobRecords
    BY DEF WorldTypeOK
  <1>2. /\ Await(o, r) /\ j.at = "passing" /\ f \in j.todo \cap j.found /\ RowsIn(j, f) = {}
    BY DEF StartRemoval
  <1>3. r \in JobRecords
    BY <1>1 DEF JobRecords
  <1>4. /\ SamePlan(j, r) /\ r.at = "stepping" /\ r.step = "remove" /\ r.found = j.found
        /\ r.todo = j.todo \ {f} /\ r.file = f
    BY <1>1 DEF JobRecords, SamePlan, SameCall
  <1> HIDE DEF r
  <1>5. JobMoves(o, r) /\ UNCHANGED <<lockVars, worldVars>>
    BY <1>2, <1>3, AwaitMoves
  <1>6. QED
    BY <1>2, <1>4, <1>5

LEMMA StartFetchMoves ==
  ASSUME WorldTypeOK, NEW o \in Checkouts, NEW f \in Regions, StartFetch(o, f)
  PROVE  \E r : /\ JobMoves(o, r) /\ SamePlan(job[o], r) /\ UNCHANGED <<lockVars, worldVars>>
                /\ job[o].at = "passing" /\ f \in job[o].todo
                /\ RowsIn(job[o], f) # {}
                /\ r.at = "fetching" /\ r.step = job[o].step /\ r.found = job[o].found
                /\ r.todo = job[o].todo \ {f} /\ r.file = f
                /\ r.fetch = RowsIn(job[o], f) /\ r.image = NothingPresent
  <1> DEFINE j == job[o]
             r == [j EXCEPT !.todo = j.todo \ {f}, !.at = "fetching", !.file = f,
                            !.fetch = RowsIn(j, f), !.image = NothingPresent]
  <1>1. j \in JobRecords
    BY DEF WorldTypeOK
  <1>2. /\ Await(o, r) /\ j.at = "passing" /\ f \in j.todo /\ RowsIn(j, f) # {}
    BY DEF StartFetch
  <1>3. RowsIn(j, f) \in SUBSET Coords /\ NothingPresent \in [Coords -> SUBSET Blobs]
    <2>1. DOMAIN j.rows \subseteq Coords
      BY <1>1 DEF JobRecords, ScanSet
    <2>2. QED
      BY <2>1 DEF RowsIn, NothingPresent
  <1>4. r \in JobRecords
    BY <1>1, <1>3 DEF JobRecords
  <1>5. /\ SamePlan(j, r) /\ r.at = "fetching" /\ r.step = j.step /\ r.found = j.found
        /\ r.todo = j.todo \ {f} /\ r.file = f /\ r.fetch = RowsIn(j, f)
        /\ r.image = NothingPresent
    BY <1>1 DEF JobRecords, SamePlan, SameCall
  <1> HIDE DEF r
  <1>6. JobMoves(o, r) /\ UNCHANGED <<lockVars, worldVars>>
    BY <1>2, <1>4, AwaitMoves
  <1>7. QED
    BY <1>2, <1>5, <1>6

LEMMA FetchRowMoves ==
  ASSUME WorldTypeOK, StoreInv, NEW o \in Checkouts, NEW k \in Coords, FetchRow(o, k)
  PROVE  \/ EndCall(o) /\ UNCHANGED worldVars
         \/ \E r : /\ JobMoves(o, r) /\ SamePlan(job[o], r) /\ UNCHANGED <<lockVars, worldVars>>
                   /\ job[o].at = "fetching" /\ k \in job[o].fetch
                   /\ r.at = "fetching" /\ r.step = job[o].step /\ r.found = job[o].found
                   /\ r.todo = job[o].todo /\ r.file = job[o].file
                   /\ r.fetch = job[o].fetch \ {k}
                   /\ \A i \in Coords \ {k} : r.image[i] = job[o].image[i]
                   /\ \/ job[o].rows[k] \in cas /\ r.image[k] = {job[o].rows[k]}
                      \/ /\ job[o].rows[k] \notin cas /\ job[o].policy.skip
                         /\ r.image[k] = job[o].image[k]
  <1> DEFINE j == job[o]
             got == [j EXCEPT !.fetch = j.fetch \ {k}, !.image[k] = {j.rows[k]}]
             skipped == [j EXCEPT !.fetch = j.fetch \ {k}]
  <1>1. j \in JobRecords
    BY DEF WorldTypeOK
  <1>2. j.at = "fetching" /\ k \in j.fetch
    BY DEF FetchRow
  <1>3. CASE j.rows[k] \in cas /\ Await(o, got)
    <2>1. {j.rows[k]} \in SUBSET Blobs
      BY <1>3 DEF StoreInv
    <2>2. [j.image EXCEPT ![k] = {j.rows[k]}] \in [Coords -> SUBSET Blobs]
      BY <1>1, <2>1 DEF JobRecords
    <2>3. got \in JobRecords
      BY <1>1, <2>2 DEF JobRecords
    <2>4. /\ SamePlan(j, got) /\ got.at = "fetching" /\ got.step = j.step
          /\ got.found = j.found /\ got.todo = j.todo /\ got.file = j.file
          /\ got.fetch = j.fetch \ {k} /\ got.image = [j.image EXCEPT ![k] = {j.rows[k]}]
      BY <1>1, <1>2 DEF JobRecords, SamePlan, SameCall
    <2>5. j.image \in [Coords -> SUBSET Blobs]
      BY <1>1 DEF JobRecords
    <2> HIDE DEF got
    <2>6. JobMoves(o, got) /\ UNCHANGED <<lockVars, worldVars>>
      BY <1>3, <2>3, AwaitMoves
    <2>7. got.image[k] = {j.rows[k]} /\ \A i \in Coords \ {k} : got.image[i] = j.image[i]
      BY <2>4, <2>5
    <2>8. QED
      BY <1>2, <1>3, <2>4, <2>6, <2>7
  <1>4. CASE j.rows[k] \notin cas /\ j.policy.skip /\ Await(o, skipped)
    <2>1. skipped \in JobRecords
      BY <1>1 DEF JobRecords
    <2>2. /\ SamePlan(j, skipped) /\ skipped.at = "fetching" /\ skipped.step = j.step
          /\ skipped.found = j.found /\ skipped.todo = j.todo /\ skipped.file = j.file
          /\ skipped.fetch = j.fetch \ {k} /\ skipped.image = j.image
      BY <1>1, <1>2 DEF JobRecords, SamePlan, SameCall
    <2> HIDE DEF skipped
    <2>3. JobMoves(o, skipped) /\ UNCHANGED <<lockVars, worldVars>>
      BY <1>4, <2>1, AwaitMoves
    <2>4. QED
      BY <1>2, <1>4, <2>2, <2>3
  <1>5. QED
    BY <1>3, <1>4 DEF FetchRow

LEMMA StartWriteMoves ==
  ASSUME WorldTypeOK, NEW o \in Checkouts, StartWrite(o)
  PROVE  \E r : /\ JobMoves(o, r) /\ SamePlan(job[o], r) /\ UNCHANGED <<lockVars, worldVars>>
                /\ job[o].at = "fetching" /\ job[o].fetch = {}
                /\ r.at = "stepping" /\ r.step = "merge" /\ r.found = job[o].found
                /\ r.todo = job[o].todo /\ r.file = job[o].file
                /\ r.fetch = job[o].fetch /\ r.image = job[o].image
  <1> DEFINE j == job[o]
             r == [j EXCEPT !.at = "stepping", !.step = "merge"]
  <1>1. j \in JobRecords
    BY DEF WorldTypeOK
  <1>2. Await(o, r) /\ j.at = "fetching" /\ j.fetch = {}
    BY DEF StartWrite
  <1>3. r \in JobRecords
    BY <1>1 DEF JobRecords
  <1>4. /\ SamePlan(j, r) /\ r.at = "stepping" /\ r.step = "merge" /\ r.found = j.found
        /\ r.todo = j.todo /\ r.file = j.file /\ r.fetch = j.fetch /\ r.image = j.image
    BY <1>1 DEF JobRecords, SamePlan, SameCall
  <1> HIDE DEF r
  <1>5. JobMoves(o, r) /\ UNCHANGED <<lockVars, worldVars>>
    BY <1>2, <1>3, AwaitMoves
  <1>6. QED
    BY <1>2, <1>4, <1>5

LEMMA DropFutureMoves ==
  ASSUME WorldTypeOK, NEW o \in Checkouts, DropFuture(o)
  PROVE  \E r : /\ JobMoves(o, r) /\ SamePlan(job[o], r) /\ UNCHANGED <<lockVars, worldVars>>
                /\ job[o].at = "stepping"
                /\ r.at = "dropped" /\ r.step = job[o].step /\ r.found = job[o].found
                /\ r.todo = job[o].todo /\ r.file = job[o].file
                /\ r.fetch = job[o].fetch /\ r.image = job[o].image
  <1> DEFINE j == job[o]
             r == [j EXCEPT !.at = "dropped"]
  <1>1. j \in JobRecords
    BY DEF WorldTypeOK
  <1>2. Await(o, r) /\ j.at = "stepping"
    BY DEF DropFuture
  <1>3. r \in JobRecords
    BY <1>1 DEF JobRecords
  <1>4. /\ SamePlan(j, r) /\ r.at = "dropped" /\ r.step = j.step /\ r.found = j.found
        /\ r.todo = j.todo /\ r.file = j.file /\ r.fetch = j.fetch /\ r.image = j.image
    BY <1>1 DEF JobRecords, SamePlan, SameCall
  <1> HIDE DEF r
  <1>5. JobMoves(o, r) /\ UNCHANGED <<lockVars, worldVars>>
    BY <1>2, <1>3, AwaitMoves
  <1>6. QED
    BY <1>2, <1>4, <1>5

LEMMA MergeMoves ==
  ASSUME WorldTypeOK, NEW o \in Checkouts, Merge(o)
  PROVE  \E r : /\ JobMoves(o, r) /\ SamePlan(job[o], r) /\ UNCHANGED <<lockVars, worldVars>>
                /\ job[o].step = "merge"
                /\ r.at = job[o].at /\ r.step = "swap" /\ r.found = job[o].found
                /\ r.todo = job[o].todo /\ r.file = job[o].file
                /\ \A k \in In(job[o].file) :
                     r.image[k] = IF job[o].image[k] = {} /\ Keeps(job[o], k)
                                  THEN live[k] ELSE job[o].image[k]
  <1> DEFINE j == job[o]
             kept(k) == k \in In(j.file) /\ j.image[k] = {} /\ Keeps(j, k)
             image == [k \in Coords |-> IF kept(k) THEN live[k] ELSE j.image[k]]
             r == [j EXCEPT !.step = "swap", !.image = image]
  <1>1. j \in JobRecords /\ live \in [Coords -> SUBSET Blobs]
    BY DEF WorldTypeOK
  <1>2. Await(o, r) /\ j.step = "merge"
    BY DEF Merge
  <1>3. image \in [Coords -> SUBSET Blobs]
    BY <1>1 DEF JobRecords
  <1>4. \A k \in In(j.file) : image[k] = IF j.image[k] = {} /\ Keeps(j, k)
                                        THEN live[k] ELSE j.image[k]
    BY DEF In
  <1> HIDE DEF image
  <1>5. r \in JobRecords
    BY <1>1, <1>3 DEF JobRecords
  <1>6. /\ SamePlan(j, r) /\ r.at = j.at /\ r.step = "swap" /\ r.found = j.found
        /\ r.todo = j.todo /\ r.file = j.file /\ r.image = image
    BY <1>1 DEF JobRecords, SamePlan, SameCall
  <1> HIDE DEF r
  <1>7. JobMoves(o, r) /\ UNCHANGED <<lockVars, worldVars>>
    BY <1>2, <1>5, AwaitMoves
  <1>8. QED
    BY <1>2, <1>4, <1>6, <1>7

LEMMA StepEndsMoves ==
  ASSUME WorldTypeOK, NEW o \in Checkouts, NEW j \in JobRecords, StepEnds(o, j)
  PROVE  \/ EndCall(o)
         \/ \E r : /\ JobMoves(o, r) /\ SamePlan(j, r) /\ UNCHANGED lockVars
                   /\ r.at = "passing" /\ r.step = "none" /\ r.found = j.found
                   /\ r.todo = j.todo
  <1> DEFINE r == [j EXCEPT !.step = "none", !.at = "passing"]
  <1>1. r \in JobRecords
    BY DEF JobRecords
  <1>2. /\ SamePlan(j, r) /\ r.at = "passing" /\ r.step = "none" /\ r.found = j.found
        /\ r.todo = j.todo
    BY DEF JobRecords, SamePlan, SameCall
  <1>3. EndCall(o) \/ (Go(o, r) /\ UNCHANGED lockVars)
    BY DEF StepEnds
  <1> HIDE DEF r
  <1>4. QED
    BY <1>1, <1>2, <1>3, GoMoves DEF WorldTypeOK

LEMMA DiscoverMoves ==
  ASSUME WorldTypeOK, NEW o \in Checkouts, Discover(o)
  PROVE  /\ job[o].step = "discover" /\ UNCHANGED worldVars
         /\ \/ EndCall(o)
            \/ \E r : /\ JobMoves(o, r) /\ SamePlan(job[o], r) /\ UNCHANGED lockVars
                      /\ r.at = "passing" /\ r.step = "none"
                      /\ r.found = files \cap job[o].scope
                      /\ r.todo = (files \cap job[o].scope)
                                    \cup {RegionOf[k] : k \in DOMAIN job[o].rows \cup job[o].tombs}
  <1> DEFINE found == files \cap job[o].scope
             known == {RegionOf[k] : k \in DOMAIN job[o].rows \cup job[o].tombs}
             j == [job[o] EXCEPT !.found = found, !.todo = found \cup known]
  <1>1. job[o] \in JobRecords /\ files \in SUBSET Regions
    BY DEF WorldTypeOK
  <1>2. DOMAIN job[o].rows \subseteq Coords /\ job[o].tombs \subseteq Coords
    BY <1>1 DEF JobRecords, ScanSet
  <1>3. found \in SUBSET Regions /\ known \in SUBSET Regions
    BY <1>1, <1>2, CheckoutAssumption
  <1>4. StepEnds(o, j) /\ job[o].step = "discover" /\ UNCHANGED worldVars
    BY DEF Discover
  <1> HIDE DEF found, known
  <1>5. j \in JobRecords
    BY <1>1, <1>3 DEF JobRecords
  <1>6. SamePlan(job[o], j) /\ j.found = found /\ j.todo = found \cup known
    BY <1>1 DEF JobRecords, SamePlan, SameCall
  <1> HIDE DEF j
  <1>7. CASE EndCall(o)
    BY <1>4, <1>7
  <1>8. ASSUME NEW r, JobMoves(o, r), SamePlan(j, r), UNCHANGED lockVars,
               r.at = "passing", r.step = "none", r.found = j.found, r.todo = j.todo
        PROVE  SamePlan(job[o], r) /\ r.found = found /\ r.todo = found \cup known
    BY <1>6, <1>8 DEF SamePlan, SameCall
  <1>9. QED
    BY <1>4, <1>5, <1>7, <1>8, StepEndsMoves DEF found, known

LEMMA RemoveMoves ==
  ASSUME WorldTypeOK, NEW o \in Checkouts, Remove(o)
  PROVE  /\ job[o].step = "remove"
         /\ LET keep == IF \E k \in job[o].tombs : RegionOf[k] = job[o].file
                        THEN job[o].policy.keepTombs ELSE job[o].policy.keepFiles
            IN  /\ files' = IF keep THEN files ELSE files \ {job[o].file}
                /\ live' = IF keep THEN live
                           ELSE [k \in Coords |-> IF k \in In(job[o].file) THEN {} ELSE live[k]]
         /\ \/ EndCall(o)
            \/ \E r : /\ JobMoves(o, r) /\ SamePlan(job[o], r) /\ UNCHANGED lockVars
                      /\ r.at = "passing" /\ r.step = "none"
                      /\ r.found = job[o].found /\ r.todo = job[o].todo
  BY StepEndsMoves DEF Remove, WorldTypeOK

LEMMA SwapMoves ==
  ASSUME WorldTypeOK, NEW o \in Checkouts, Swap(o)
  PROVE  /\ job[o].step = "swap"
         /\ files' = files \cup {job[o].file}
         /\ live' = [k \in Coords |-> IF k \in In(job[o].file) THEN job[o].image[k] ELSE live[k]]
         /\ \/ EndCall(o)
            \/ \E r : /\ JobMoves(o, r) /\ SamePlan(job[o], r) /\ UNCHANGED lockVars
                      /\ r.at = "passing" /\ r.step = "none"
                      /\ r.found = job[o].found /\ r.todo = job[o].todo
  BY StepEndsMoves DEF Swap, WorldTypeOK

-----------------------------------------------------------------------------
(* The store under the steps of everybody.                                *)

LEMMA StoreUnderRuns ==
  ASSUME StoreInv, ShapeInv, [CheckoutRunsNext]_allVars
  PROVE  StoreInv' /\ ShapeInv' /\ Evolves
  <1>1. CASE StoreProgress
    <2>1. StoreNext
      BY <1>1 DEF StoreProgress, StoreNext
    <2>2. QED
      BY <2>1, StoreInvStep, ShapeInvStep
  <1>2. CASE LoseBlob
    <2>1. UNCHANGED <<metaVars, presented, prune, doomed, run, gc>> /\ cas' \subseteq cas
      BY <1>2 DEF LoseBlob, RemoveBlob, pruneVars, snapshotVars
    <2>2. IInv' /\ Evolves
      BY <2>1, UnchangedInv DEF StoreInv, PruneInv
    <2>3. QED
      BY <2>1, <2>2, MetaMovesInv, ShapeUnchanged DEF StoreInv
  <1>3. CASE UNCHANGED storeVars
    BY <1>3, StoreInvStep, ShapeInvStep
  <1>4. QED
    BY <1>1, <1>2, <1>3 DEF CheckoutRunsNext, CheckoutCall, CheckoutProgress, CheckoutBreaks,
                            ReaderReturns, allVars

\* Steps of the store leave the world alone, and steps on the world the
\* store.
LEMMA WhoMoves ==
  ASSUME [CheckoutRunsNext]_allVars
  PROVE  \/ UNCHANGED checkoutVars
         \/ \E o \in Checkouts : BeginCheckout(o) /\ UNCHANGED storeVars
         \/ \E o \in Checkouts : (CheckoutStep(o) \/ CheckoutFault(o)) /\ UNCHANGED storeVars
         \/ \E o \in Readers : (BeginRead(o) \/ EndRead(o)) /\ UNCHANGED storeVars
  BY DEF CheckoutRunsNext, StoreProgress, LoseBlob, CheckoutCall, CheckoutProgress, CheckoutBreaks,
         ReaderReturns, allVars

-----------------------------------------------------------------------------
(* The lock.                                                              *)

\* How a step of a checkout under way moves it.
LEMMA OwnMoves ==
  ASSUME StoreInv, WorldTypeOK, LockInv, NEW o \in Checkouts, CheckoutStep(o) \/ CheckoutFault(o)
  PROVE  /\ Running(o)
         /\ \/ EndCall(o)
            \/ \E r : /\ JobMoves(o, r) /\ UNCHANGED lockVars /\ r.at # "idle"
                      /\ r.at \in {"stepping", "dropped"} <=> r.step # "none"
                      /\ InHand(r) \subseteq Regions
  <1>1. /\ job[o].at \in {"stepping", "dropped"} <=> job[o].step # "none"
        /\ InHand(job[o]) \subseteq Regions
    BY DEF LockInv, WorldTypeOK
  <1>2. Running(o)
    BY <1>1 DEF CheckoutStep, CheckoutFault, LookupCommit, ReadPlan, SkipFile, StartRemoval,
                StartFetch, FetchRow, StartWrite, Discover, Remove, Merge, Swap, FinishCheckout,
                DropFuture, Halt, Running
  <1> DEFINE Goes == \E r : /\ JobMoves(o, r) /\ UNCHANGED lockVars /\ r.at # "idle"
                            /\ r.at \in {"stepping", "dropped"} <=> r.step # "none"
                            /\ InHand(r) \subseteq Regions
  <1> USE DEF InHand
  <1>3. ASSUME LookupCommit(o)
        PROVE  EndCall(o) \/ Goes
    BY <1>1, <1>3, LookupCommitMoves, <1>2
  <1>4. ASSUME ReadPlan(o)
        PROVE  EndCall(o) \/ Goes
    BY <1>4, <1>2, ReadPlanMoves
  <1>5. ASSUME NEW f \in Regions, SkipFile(o, f) \/ StartRemoval(o, f) \/ StartFetch(o, f)
        PROVE  EndCall(o) \/ Goes
    BY <1>1, <1>5, SkipFileMoves, StartRemovalMoves, StartFetchMoves
  <1>6. ASSUME NEW k \in Coords, FetchRow(o, k)
        PROVE  EndCall(o) \/ Goes
    BY <1>1, <1>6, FetchRowMoves
  <1>7. ASSUME StartWrite(o)
        PROVE  EndCall(o) \/ Goes
    BY <1>1, <1>7, StartWriteMoves
  <1>8. ASSUME Discover(o)
        PROVE  EndCall(o) \/ Goes
    BY <1>8, <1>2, DiscoverMoves
  <1>9. ASSUME Remove(o)
        PROVE  EndCall(o) \/ Goes
    BY <1>9, <1>2, RemoveMoves
  <1>10. ASSUME Merge(o)
        PROVE  EndCall(o) \/ Goes
    BY <1>1, <1>10, <1>2, MergeMoves
  <1>11. ASSUME Swap(o)
        PROVE  EndCall(o) \/ Goes
    BY <1>11, <1>2, SwapMoves
  <1>12. ASSUME FinishCheckout(o) \/ Halt(o)
        PROVE  EndCall(o) \/ Goes
    BY <1>12, <1>2 DEF FinishCheckout, Halt
  <1>13. ASSUME DropFuture(o)
        PROVE  EndCall(o) \/ Goes
    BY <1>1, <1>13, <1>2, DropFutureMoves
  <1> HIDE DEF Goes, InHand
  <1>14. ASSUME CheckoutStep(o)
         PROVE  EndCall(o) \/ Goes
    BY <1>14, <1>3, <1>4, <1>5, <1>6, <1>7, <1>8, <1>9, <1>10, <1>11, <1>12 DEF CheckoutStep
  <1>15. ASSUME CheckoutFault(o)
         PROVE  EndCall(o) \/ Goes
    BY <1>15, <1>12, <1>13 DEF CheckoutFault
  <1>16. QED
    BY <1>2, <1>14, <1>15 DEF Goes

\* The files it changes are regions, and they hold blobs.
LEMMA FilesTyped ==
  ASSUME WorldTypeOK, NEW o \in Checkouts, CheckoutStep(o) \/ CheckoutFault(o)
  PROVE  files' \subseteq Regions /\ live' \in [Coords -> SUBSET Blobs]
  <1>1. job[o] \in JobRecords /\ files \subseteq Regions /\ live \in [Coords -> SUBSET Blobs]
    BY DEF WorldTypeOK
  <1>2. CASE UNCHANGED worldVars
    BY <1>1, <1>2 DEF worldVars
  <1>3. CASE Remove(o)
    BY <1>1, <1>3 DEF Remove
  <1>4. CASE Swap(o)
    <2>1. job[o].file \in Regions
      BY <1>4 DEF Swap, WorldTypeOK, InHand
    <2>2. QED
      BY <1>1, <1>4, <2>1 DEF Swap, JobRecords
  <1>5. QED
    BY <1>2, <1>3, <1>4
    DEF CheckoutStep, CheckoutFault, LookupCommit, ReadPlan, SkipFile, StartRemoval, StartFetch,
        FetchRow, StartWrite, Discover, Merge, FinishCheckout, DropFuture, Halt, Await

LEMMA LockStep ==
  ASSUME StoreInv, ShapeInv, WorldTypeOK, LockInv, [CheckoutRunsNext]_allVars
  PROVE  WorldTypeOK' /\ LockInv'
  <1>1. PresentedType'
    BY StoreUnderRuns DEF ShapeInv
  <1>2. /\ Checkouts \subseteq Operations /\ Readers \subseteq Operations
        /\ \A o \in Checkouts : o \notin Readers
    BY CheckoutAssumption
  <1>3. \A o \in Operations : hold[o] \in {"none", "unguarded", "shared", "exclusive"}
    BY DEF WorldTypeOK
  <1>4. ASSUME NEW o \in Checkouts, NEW r, JobMoves(o, r),
               files' \subseteq Regions /\ live' \in [Coords -> SUBSET Blobs],
               InHand(r) \subseteq Regions,
               hold' \in [Operations -> {"none", "unguarded", "shared", "exclusive"}]
        PROVE  WorldTypeOK'
    BY <1>1, <1>4 DEF JobMoves, WorldTypeOK, PresentedType
  <1>5. ASSUME NEW o \in Operations, NEW mode \in {"shared", "exclusive"}, Lock(o, mode)
        PROVE  /\ hold' \in [Operations -> {"none", "unguarded", "shared", "exclusive"}]
               /\ \A q \in Operations \ {o} : hold'[q] = hold[q]
               /\ hold'[o] \in {mode, "unguarded"}
               /\ mode = "exclusive" => hold'[o] = "exclusive"
               /\ hold'[o] = mode => Compatible(o, mode)
               /\ hold[o] = "none"
    BY <1>5 DEF Lock, WorldTypeOK
  <1>6. ASSUME NEW o \in Operations, Unlock(o)
        PROVE  /\ hold' \in [Operations -> {"none", "unguarded", "shared", "exclusive"}]
               /\ \A q \in Operations \ {o} : hold'[q] = hold[q]
               /\ hold'[o] = "none"
    BY <1>6 DEF Unlock, WorldTypeOK
  \* The lock itself, whoever takes it or lets go.
  <1> DEFINE Excludes == \A o, q \in Operations : o # q /\ hold[o] = "exclusive" => ~ Guarded(q)
  <1>7. Excludes
    BY DEF LockInv
  <1>8. ASSUME NEW o \in Operations, NEW mode \in {"shared", "exclusive"}, Lock(o, mode)
        PROVE  Excludes'
    <2>1. \A q \in Operations \ {o} :
            hold'[o] = mode => hold[q] # "exclusive" /\ (mode = "exclusive" => hold[q] # "shared")
      BY <1>5, <1>8 DEF Compatible
    <2>2. QED
      BY <1>5, <1>7, <1>8, <2>1 DEF Guarded
  <1>9. ASSUME NEW o \in Operations, Unlock(o)
        PROVE  Excludes'
    BY <1>6, <1>7, <1>9 DEF Guarded
  <1>10. CASE UNCHANGED checkoutVars
    BY <1>1, <1>10 DEF checkoutVars, lockVars, worldVars, WorldTypeOK, LockInv, PresentedType, Guarded,
                       Running
  <1>11. ASSUME NEW o \in Checkouts, BeginCheckout(o)
         PROVE  WorldTypeOK' /\ LockInv'
    <2>1. PICK r : /\ JobMoves(o, r) /\ r.at = "locked" /\ r.step = "none"
      BY <1>11, BeginCheckoutMoves
    <2>2. InHand(r) = {} /\ UNCHANGED worldVars /\ Lock(o, "exclusive")
      BY <1>11, <2>1 DEF InHand, BeginCheckout
    <2>3. WorldTypeOK'
      BY <1>2, <1>4, <1>5, <2>1, <2>2 DEF worldVars, WorldTypeOK
    <2>4. \A q \in Checkouts : /\ Running(q)' => hold'[q] = "exclusive"
                               /\ job'[q].at \in {"stepping", "dropped"} <=> job'[q].step # "none"
      BY <1>2, <1>5, <2>1, <2>2 DEF JobMoves, LockInv, Running
    <2>5. Excludes'
      BY <1>2, <1>8, <2>2
    <2>6. QED
      BY <2>3, <2>4, <2>5 DEF LockInv
  <1>12. ASSUME NEW o \in Checkouts, CheckoutStep(o) \/ CheckoutFault(o)
         PROVE  WorldTypeOK' /\ LockInv'
    <2>1. files' \subseteq Regions /\ live' \in [Coords -> SUBSET Blobs]
      BY <1>12, FilesTyped
    <2>2. CASE EndCall(o)
      <3>1. JobMoves(o, NoJob) /\ Unlock(o)
        BY <2>2, EndCallMoves DEF EndCall
      <3>2. NoJob.at = "idle" /\ NoJob.step = "none" /\ InHand(NoJob) \subseteq Regions
        BY NoJobTyped DEF InHand
      <3>3. WorldTypeOK'
        BY <1>2, <1>4, <1>6, <2>1, <3>1, <3>2
      <3>4. \A q \in Checkouts : /\ Running(q)' => hold'[q] = "exclusive"
                                 /\ job'[q].at \in {"stepping", "dropped"} <=> job'[q].step # "none"
        BY <1>2, <1>6, <3>1, <3>2 DEF JobMoves, LockInv, Running
      <3>5. QED
        BY <1>2, <1>9, <3>1, <3>3, <3>4 DEF LockInv
    <2>3. ASSUME NEW r, JobMoves(o, r), UNCHANGED lockVars,
                 r.at \in {"stepping", "dropped"} <=> r.step # "none",
                 InHand(r) \subseteq Regions
          PROVE  WorldTypeOK' /\ LockInv'
      <3>1. hold' = hold /\ hold \in [Operations -> {"none", "unguarded", "shared", "exclusive"}]
        BY <2>3 DEF lockVars, WorldTypeOK
      <3>2. WorldTypeOK'
        BY <1>4, <2>1, <2>3, <3>1
      <3>3. Running(o)
        BY <1>12, OwnMoves
      <3>4. \A q \in Checkouts : /\ Running(q)' => hold'[q] = "exclusive"
                                 /\ job'[q].at \in {"stepping", "dropped"} <=> job'[q].step # "none"
        BY <2>3, <3>1, <3>3 DEF JobMoves, LockInv, Running
      <3>5. QED
        BY <1>7, <3>1, <3>2, <3>4 DEF LockInv, Guarded
    <2>4. QED
      BY <1>12, <2>2, <2>3, OwnMoves
  <1>13. ASSUME NEW o \in Readers, BeginRead(o) \/ EndRead(o)
         PROVE  WorldTypeOK' /\ LockInv'
    <2>1. UNCHANGED <<worldVars, job>> /\ (Lock(o, "shared") \/ Unlock(o))
      BY <1>13 DEF BeginRead, EndRead
    <2>2. /\ hold' \in [Operations -> {"none", "unguarded", "shared", "exclusive"}]
          /\ \A q \in Operations \ {o} : hold'[q] = hold[q]
      BY <1>2, <1>5, <1>6, <2>1
    <2>3. WorldTypeOK'
      BY <1>1, <2>1, <2>2 DEF worldVars, WorldTypeOK, PresentedType
    <2>4. \A q \in Checkouts : /\ Running(q)' => hold'[q] = "exclusive"
                               /\ job'[q].at \in {"stepping", "dropped"} <=> job'[q].step # "none"
      BY <1>2, <2>1, <2>2 DEF LockInv, Running
    <2>5. QED
      BY <1>2, <1>8, <1>9, <2>1, <2>3, <2>4 DEF LockInv
  <1>14. QED
    BY <1>10, <1>11, <1>12, <1>13, WhoMoves

\* What holds of the store and of the world's lock at any time.
HeldInv == StoreInv /\ ShapeInv /\ WorldTypeOK /\ LockInv

LEMMA HeldInvInit == CheckoutRunsInit => HeldInv
  <1> SUFFICES ASSUME CheckoutRunsInit PROVE HeldInv
    OBVIOUS
  <1>1. StoreInv /\ ShapeInv
    BY StoreInvInit, ShapeInvInit DEF CheckoutRunsInit, StoreInit
  <1>2. /\ job \in [Checkouts -> JobRecords]
        /\ \A o \in Checkouts : job[o] = NoJob
    BY NoJobTyped DEF CheckoutRunsInit, CheckoutInit
  <1>3. files \subseteq Regions /\ live \in [Coords -> SUBSET Blobs]
    BY DEF CheckoutRunsInit, CheckoutInit
  <1>4. /\ hold \in [Operations -> {"none", "unguarded", "shared", "exclusive"}]
        /\ \A o \in Operations : hold[o] = "none"
    BY DEF CheckoutRunsInit, CheckoutInit, LockInit
  <1>5. WorldTypeOK
    BY <1>1, <1>2, <1>3, <1>4, NoJobTyped DEF WorldTypeOK, ShapeInv, PresentedType, InHand
  <1>6. LockInv
    BY <1>2, <1>4, NoJobTyped DEF LockInv, Running
  <1>7. QED
    BY <1>1, <1>5, <1>6 DEF HeldInv

LEMMA HeldInvStep == HeldInv /\ [CheckoutRunsNext]_allVars => HeldInv' /\ Evolves
  BY StoreUnderRuns, LockStep DEF HeldInv

LEMMA HeldInvCorrect == CheckoutRunsSpec => []HeldInv
  <1>1. HeldInv /\ [CheckoutRunsNext]_allVars => HeldInv'
    BY HeldInvStep
  <1>2. QED
    BY HeldInvInit, <1>1, PTL DEF CheckoutRunsSpec

\* While an operation holds the world, nobody else changes a file of it:
\* every step of a checkout, the ones it leaves behind when its future is
\* dropped too, runs under a share of the exclusive lock
\* (HoldersUndisturbed; the Arc<WorldGuard> that app::checkout clones).
THEOREM HoldersUndisturbedCorrect == CheckoutRunsSpec => HoldersUndisturbed
  <1> DEFINE Undisturbed ==
        \A o \in Operations : Guarded(o) /\ worldVars' # worldVars =>
          /\ hold[o] = "exclusive"
          /\ \A q \in Operations \ {o} : ~ Guarded(q)
  <1>1. HeldInv /\ [CheckoutRunsNext]_allVars => [Undisturbed]_allVars
    <2>1. ASSUME HeldInv, [CheckoutRunsNext]_allVars, NEW o \in Operations, Guarded(o),
                 worldVars' # worldVars
          PROVE  /\ hold[o] = "exclusive"
                 /\ \A q \in Operations \ {o} : ~ Guarded(q)
      <3>1. PICK c \in Checkouts : CheckoutStep(c) \/ CheckoutFault(c)
        BY <2>1, WhoMoves DEF BeginCheckout, BeginRead, EndRead, checkoutVars
      <3>2. Running(c)
        BY <2>1, <3>1, OwnMoves DEF HeldInv
      <3>3. hold[c] = "exclusive" /\ c \in Operations
        BY <2>1, <3>2, CheckoutAssumption DEF HeldInv, LockInv
      <3>4. QED
        BY <2>1, <3>3 DEF HeldInv, LockInv
    <2>2. QED
      BY <2>1
  <1>2. QED
    BY <1>1, HeldInvCorrect, PTL DEF CheckoutRunsSpec, HoldersUndisturbed

-----------------------------------------------------------------------------
(* What a checkout makes of a region.                                     *)

LEMMA InRegion ==
  \A r : \A k : k \in In(r) <=> k \in Coords /\ RegionOf[k] = r
  BY DEF In

\* A region without rows is kept or emptied whole ...
LEMMA NoRowsMade ==
  ASSUME NEW j \in JobRecords, PlanRead(j), NEW r \in j.scope, RowsIn(j, r) = {}, NEW k \in In(r)
  PROVE  Made(j, k) = Kept(IF \E i \in j.tombs : RegionOf[i] = r THEN j.policy.keepTombs
                           ELSE j.policy.keepFiles, j, k)
  <1>1. k \in Coords /\ RegionOf[k] = r
    BY DEF In
  <1>2. \A i \in In(r) : presented[j.commit][i] = {}
    BY DEF In, RowsIn, PlanRead
  <1>3. (\E i \in In(r) : i \in j.tombs) <=> (\E i \in j.tombs : RegionOf[i] = r)
    <2>1. j.tombs \subseteq Coords
      BY DEF JobRecords
    <2>2. QED
      BY <2>1 DEF In
  <1>4. QED
    BY <1>1, <1>2, <1>3 DEF Made

\* ... and one with rows is its rows, and what the policies keep between
\* them.
LEMMA RowsMade ==
  ASSUME NEW j \in JobRecords, PlanRead(j), NEW r \in j.scope, RowsIn(j, r) # {}, NEW k \in In(r)
  PROVE  Made(j, k) = IF k \in DOMAIN j.rows THEN {j.rows[k]} ELSE Kept(Keeps(j, k), j, k)
  <1>1. k \in Coords /\ RegionOf[k] = r
    BY DEF In
  <1>2. DOMAIN j.rows \subseteq Coords
    BY DEF JobRecords, ScanSet
  <1>3. PICK i \in DOMAIN j.rows : RegionOf[i] = r
    BY DEF RowsIn
  <1>4. i \in In(r) /\ presented[j.commit][i] # {}
    BY <1>2, <1>3 DEF In, PlanRead
  <1>5. /\ k \in DOMAIN j.rows => presented[j.commit][k] = {j.rows[k]}
        /\ k \notin DOMAIN j.rows => presented[j.commit][k] = {}
    BY <1>1 DEF PlanRead
  <1>6. QED
    BY <1>1, <1>4, <1>5 DEF Made

\* A region with neither a file nor rows is as the commit makes it.
LEMMA NothingToMake ==
  ASSUME NEW j \in JobRecords, CallSound(j), PlanRead(j), NEW r \in j.scope, RowsIn(j, r) = {},
         r \notin j.oldFiles, Untouched(j, r)
  PROVE  Rebuilt(j, r)
  <1>1. ASSUME NEW k \in In(r)
        PROVE  live[k] = Made(j, k)
    <2>1. j.oldLive[k] = {} /\ live[k] = j.oldLive[k]
      BY DEF In, CallSound, Untouched
    <2>2. QED
      BY <2>1, NoRowsMade DEF Kept
  <1>2. QED
    BY <1>1 DEF Rebuilt, MadeOf, Untouched

-----------------------------------------------------------------------------
(* What stays as it is.                                                   *)

\* A job with the same plan makes the same of the files.
LEMMA SamePlanSame ==
  ASSUME NEW j, NEW r, SamePlan(j, r)
  PROVE  /\ \A k : Made(r, k) = Made(j, k)
         /\ \A k : Skipped(r, k) <=> Skipped(j, k)
         /\ \A k, chunks : MadeOf(r, k, chunks) <=> MadeOf(j, k, chunks)
         /\ \A f : RowsIn(r, f) = RowsIn(j, f)
         /\ \A f : Untouched(r, f) <=> Untouched(j, f)
         /\ \A f : Rebuilt(r, f) <=> Rebuilt(j, f)
         /\ CallSound(r) <=> CallSound(j)
         /\ PlanRead(r) <=> PlanRead(j)
  <1> USE DEF SamePlan, SameCall
  <1>1. \A k : Made(r, k) = Made(j, k)
    BY DEF Made, Kept, Keeps
  <1>2. \A k : Skipped(r, k) <=> Skipped(j, k)
    BY DEF Skipped
  <1>3. \A k, chunks : MadeOf(r, k, chunks) <=> MadeOf(j, k, chunks)
    BY <1>1, <1>2 DEF MadeOf, Kept
  <1>4. \A f : RowsIn(r, f) = RowsIn(j, f)
    BY DEF RowsIn
  <1>5. \A f : Rebuilt(r, f) <=> Rebuilt(j, f)
    BY <1>3, <1>4 DEF Rebuilt
  <1>6. QED
    BY <1>1, <1>2, <1>3, <1>4, <1>5 DEF Untouched, CallSound, PlanRead

\* Whoever moves, what the commit makes of a coordinate is the same, as
\* long as no blob that was missing comes back.
LEMMA MadeStays ==
  ASSUME NEW j, presented'[j.commit] = presented[j.commit],
         \A k \in DOMAIN j.rows : j.rows[k] \notin cas => j.rows[k] \notin cas'
  PROVE  /\ \A k : Made(j, k)' = Made(j, k)
         /\ \A k : Skipped(j, k) => Skipped(j, k)'
         /\ \A k, chunks : MadeOf(j, k, chunks) => MadeOf(j, k, chunks)'
         /\ PlanRead(j) => PlanRead(j)'
  <1>1. \A k : Made(j, k)' = Made(j, k)
    BY DEF Made, Kept, Keeps
  <1>2. \A k : Skipped(j, k) => Skipped(j, k)'
    BY DEF Skipped
  <1>3. \A k, chunks : MadeOf(j, k, chunks) => MadeOf(j, k, chunks)'
    BY <1>1, <1>2 DEF MadeOf, Kept
  <1>4. PlanRead(j) => PlanRead(j)'
    BY DEF PlanRead
  <1>5. QED
    BY <1>1, <1>2, <1>3, <1>4

LEMMA JobStays ==
  ASSUME NEW j, JobSound(j), UNCHANGED worldVars, assigned \subseteq assigned',
         presented'[j.commit] = presented[j.commit],
         \A k \in DOMAIN j.rows : j.rows[k] \notin cas => j.rows[k] \notin cas'
  PROVE  JobSound(j)'
  <1>1. /\ \A k : Made(j, k)' = Made(j, k)
        /\ \A k : Skipped(j, k) => Skipped(j, k)'
        /\ \A k, chunks : MadeOf(j, k, chunks) => MadeOf(j, k, chunks)'
        /\ PlanRead(j) => PlanRead(j)'
    BY MadeStays
  <1>2. files' = files /\ live' = live
    BY DEF worldVars
  <1>3. CallSound(j)' /\ (HasPlan(j) => PlanRead(j))'
    BY <1>1 DEF JobSound, CallSound, HasPlan
  <1>4. WorkSound(j)' /\ Fetched(j)' /\ Merged(j)'
    BY <1>1 DEF JobSound, WorkSound, Fetched, Merged, HasPlan, Discovered, InHand, RowsIn, In
  <1>5. FilesSound(j)'
    <2>1. \A r : Untouched(j, r) => Untouched(j, r)'
      BY <1>2 DEF Untouched, In
    <2>2. \A r : Rebuilt(j, r) => Rebuilt(j, r)'
      BY <1>1, <1>2 DEF Rebuilt, In, RowsIn
    <2>3. QED
      BY <2>1, <2>2 DEF JobSound, FilesSound, Pending, Discovered, HasPlan, InHand
  <1>6. QED
    BY <1>3, <1>4, <1>5 DEF JobSound

-----------------------------------------------------------------------------
(* The job moves on: steps that touch neither the store nor the files.    *)

LEMMA BeginSound ==
  ASSUME NEW r \in JobRecords, r.at = "locked", r.step = "none", r.commit \in assigned,
         r.policy \in PolicySpace, r.oldFiles = files, r.oldLive = live,
         \A k \in Coords : live[k] # {} => RegionOf[k] \in files
  PROVE  JobSound(r)
  BY DEF JobSound, CallSound, HasPlan, WorkSound, Fetched, Merged, FilesSound, Pending, Discovered,
         Untouched

LEMMA LookupSound ==
  ASSUME NEW j \in JobRecords, NEW r \in JobRecords, JobSound(j), SamePlan(j, r),
         j.at = "locked", r.at = "found", j.step = "none", r.step = j.step
  PROVE  JobSound(r)
  <1>1. CallSound(r) /\ \A f : Untouched(r, f) <=> Untouched(j, f)
    BY SamePlanSame DEF JobSound
  <1>2. QED
    BY <1>1 DEF JobSound, HasPlan, WorkSound, Fetched, Merged, FilesSound, Pending, Discovered

LEMMA ReadPlanSound ==
  ASSUME NEW j \in JobRecords, NEW r \in JobRecords, JobSound(j), SameCall(j, r),
         j.at = "found", r.at = "stepping", r.step = "discover",
         Intact(j.commit),
         \A k \in Coords :
           k \in DOMAIN r.rows <=> RegionOf[k] \in j.scope /\ Present(j.commit, k) # {},
         \A k \in DOMAIN r.rows : Present(j.commit, k) = {r.rows[k]},
         \A k \in r.tombs : RegionOf[k] \in j.scope /\ k \notin DOMAIN r.rows,
         DOMAIN r.rows \subseteq Coords
  PROVE  JobSound(r)
  <1>1. \A k \in Coords : presented[j.commit][k] = Present(j.commit, k)
    BY DEF Intact, StateOf
  <1>2. PlanRead(r)
    BY <1>1 DEF PlanRead, SameCall
  <1>3. CallSound(r) /\ \A f : Untouched(r, f) <=> Untouched(j, f)
    BY DEF SameCall, JobSound, CallSound, Untouched
  <1>4. QED
    BY <1>2, <1>3 DEF JobSound, HasPlan, WorkSound, Fetched, Merged, FilesSound, Pending, Discovered

LEMMA DiscoverSound ==
  ASSUME NEW j \in JobRecords, NEW r \in JobRecords, JobSound(j), SamePlan(j, r),
         HasPlan(j), j.step = "discover", files \subseteq Regions,
         r.at = "passing", r.step = "none",
         r.found = files \cap j.scope,
         r.todo = (files \cap j.scope)
                    \cup {RegionOf[k] : k \in DOMAIN j.rows \cup j.tombs}
  PROVE  JobSound(r)
  <1>1. \A f \in Regions : Untouched(j, f)
    BY DEF JobSound, FilesSound, Pending, Discovered
  <1>2. CallSound(j) /\ PlanRead(j) /\ CallSound(r) /\ PlanRead(r)
    BY SamePlanSame DEF JobSound
  <1>3. j.oldFiles \subseteq Regions /\ j.scope \subseteq Regions
        /\ DOMAIN j.rows \subseteq Coords /\ j.tombs \subseteq Coords
    BY DEF JobRecords, ScanSet
  <1>4. r.found = j.oldFiles \cap j.scope
    BY <1>1, <1>3 DEF Untouched
  <1>5. r.todo \subseteq j.scope
    BY <1>2, <1>3 DEF PlanRead
  <1>6. r.scope = j.scope /\ r.oldFiles = j.oldFiles
    BY DEF SamePlan, SameCall
  <1>7. WorkSound(r) /\ Fetched(r) /\ Merged(r)
    BY <1>4, <1>5, <1>6 DEF WorkSound, Fetched, Merged, InHand
  <1>8. ASSUME NEW f \in j.scope \ r.todo
        PROVE  Rebuilt(j, f)
    <2>1. f \notin j.oldFiles
      BY <1>1, <1>3, <1>8 DEF Untouched
    <2>2. RowsIn(j, f) = {}
      BY <1>3, <1>8 DEF RowsIn
    <2>3. QED
      BY <1>1, <1>2, <1>3, <1>8, <2>1, <2>2, NothingToMake
  <1>9. FilesSound(r)
    <2>1. Pending(r) = r.todo
      BY DEF Pending, Discovered, HasPlan, InHand
    <2>2. QED
      BY <1>1, <1>6, <1>8, <2>1, SamePlanSame DEF FilesSound
  <1>10. QED
    BY <1>2, <1>7, <1>9 DEF JobSound

\* A job that has discovered the files goes on without touching them: it is
\* enough to look at the region in hand.
LEMMA GoesOnSound ==
  ASSUME NEW j \in JobRecords, NEW r \in JobRecords, JobSound(j), SamePlan(j, r),
         Discovered(j), Discovered(r), r.found = j.found,
         r.todo \subseteq j.todo, InHand(r) \cap r.todo = {},
         InHand(r) \subseteq j.todo \cup InHand(j),
         \A f \in Regions : f \in Pending(j) \ Pending(r) => Rebuilt(j, f)
  PROVE  /\ CallSound(r) /\ PlanRead(r) /\ FilesSound(r)
         /\ r.found = r.oldFiles \cap r.scope
         /\ r.todo \subseteq r.scope
         /\ InHand(r) \subseteq r.scope \ r.todo
  <1>1. CallSound(r) /\ PlanRead(r)
    BY SamePlanSame DEF JobSound, Discovered
  <1>2. Pending(r) \subseteq Pending(j)
    BY DEF Pending
  <1>3. /\ \A f : Untouched(r, f) <=> Untouched(j, f)
        /\ \A f : Rebuilt(r, f) <=> Rebuilt(j, f)
        /\ r.scope = j.scope /\ r.oldFiles = j.oldFiles
    BY SamePlanSame DEF SamePlan, SameCall
  <1>4. FilesSound(j) /\ WorkSound(j)
    BY DEF JobSound
  <1>5. FilesSound(r)
    BY <1>2, <1>3, <1>4 DEF FilesSound
  <1>6. QED
    BY <1>1, <1>3, <1>4, <1>5 DEF WorkSound

LEMMA SkipFileSound ==
  ASSUME NEW j \in JobRecords, NEW r \in JobRecords, JobSound(j), SamePlan(j, r),
         NEW f \in Regions, j.at = "passing", j.step = "none", f \in j.todo \ j.found,
         RowsIn(j, f) = {}, r.at = "passing", r.step = j.step, r.found = j.found,
         r.todo = j.todo \ {f}
  PROVE  JobSound(r)
  <1>1. Discovered(j) /\ Discovered(r) /\ InHand(j) = {} /\ InHand(r) = {}
    BY DEF Discovered, HasPlan, InHand
  <1>2. Pending(j) = j.todo /\ Pending(r) = r.todo
    BY <1>1 DEF Pending
  <1>3. f \in j.scope /\ f \notin j.oldFiles /\ Untouched(j, f)
    BY <1>1, <1>2 DEF JobSound, WorkSound, FilesSound
  <1>4. Rebuilt(j, f)
    BY <1>1, <1>3, NothingToMake DEF JobSound, Discovered
  <1>5. /\ CallSound(r) /\ PlanRead(r) /\ FilesSound(r)
        /\ r.found = r.oldFiles \cap r.scope
        /\ r.todo \subseteq r.scope
        /\ InHand(r) \subseteq r.scope \ r.todo
    BY <1>1, <1>2, <1>4, GoesOnSound
  <1>6. QED
    BY <1>5 DEF JobSound, WorkSound, Fetched, Merged

LEMMA StartRemovalSound ==
  ASSUME NEW j \in JobRecords, NEW r \in JobRecords, JobSound(j), SamePlan(j, r),
         NEW f \in Regions, j.at = "passing", j.step = "none", f \in j.todo \cap j.found,
         RowsIn(j, f) = {}, r.at = "stepping", r.step = "remove", r.found = j.found,
         r.todo = j.todo \ {f}, r.file = f
  PROVE  JobSound(r)
  <1>1. Discovered(j) /\ Discovered(r) /\ InHand(j) = {} /\ InHand(r) = {f}
    BY DEF Discovered, HasPlan, InHand
  <1>2. Pending(j) = j.todo /\ Pending(r) = j.todo
    BY <1>1 DEF Pending
  <1>3. /\ CallSound(r) /\ PlanRead(r) /\ FilesSound(r)
        /\ r.found = r.oldFiles \cap r.scope
        /\ r.todo \subseteq r.scope
        /\ InHand(r) \subseteq r.scope \ r.todo
    BY <1>1, <1>2, GoesOnSound
  <1>4. RowsIn(r, f) = {}
    BY SamePlanSame
  <1>5. QED
    BY <1>3, <1>4 DEF JobSound, WorkSound, Fetched, Merged

LEMMA StartFetchSound ==
  ASSUME NEW j \in JobRecords, NEW r \in JobRecords, JobSound(j), SamePlan(j, r),
         NEW f \in Regions, j.at = "passing", j.step = "none", f \in j.todo,
         RowsIn(j, f) # {}, r.at = "fetching", r.step = j.step, r.found = j.found,
         r.todo = j.todo \ {f}, r.file = f, r.fetch = RowsIn(j, f), r.image = NothingPresent
  PROVE  JobSound(r)
  <1>1. Discovered(j) /\ Discovered(r) /\ InHand(j) = {} /\ InHand(r) = {f}
    BY DEF Discovered, HasPlan, InHand
  <1>2. Pending(j) = j.todo /\ Pending(r) = j.todo
    BY <1>1 DEF Pending
  <1>3. /\ CallSound(r) /\ PlanRead(r) /\ FilesSound(r)
        /\ r.found = r.oldFiles \cap r.scope
        /\ r.todo \subseteq r.scope
        /\ InHand(r) \subseteq r.scope \ r.todo
    BY <1>1, <1>2, GoesOnSound
  <1>4. RowsIn(r, f) = RowsIn(j, f)
    BY SamePlanSame
  <1>5. \A k \in In(f) : r.image[k] = {}
    BY DEF In, NothingPresent
  <1>6. QED
    BY <1>3, <1>4, <1>5 DEF JobSound, WorkSound, Fetched, Merged

LEMMA FetchRowSound ==
  ASSUME NEW j \in JobRecords, NEW r \in JobRecords, JobSound(j), SamePlan(j, r),
         NEW k \in Coords, j.at = "fetching", j.step = "none", k \in j.fetch,
         r.at = "fetching", r.step = j.step, r.found = j.found, r.todo = j.todo,
         r.file = j.file, r.fetch = j.fetch \ {k},
         \A i \in Coords \ {k} : r.image[i] = j.image[i],
         \/ j.rows[k] \in cas /\ r.image[k] = {j.rows[k]}
         \/ j.rows[k] \notin cas /\ j.policy.skip /\ r.image[k] = j.image[k]
  PROVE  JobSound(r)
  <1>1. Discovered(j) /\ Discovered(r) /\ InHand(j) = {j.file} /\ InHand(r) = {j.file}
    BY DEF Discovered, HasPlan, InHand
  <1>2. Pending(j) = Pending(r)
    BY <1>1 DEF Pending
  <1>3. InHand(j) \cap j.todo = {}
    BY <1>1 DEF JobSound, WorkSound
  <1>4. /\ CallSound(r) /\ PlanRead(r) /\ FilesSound(r)
        /\ r.found = r.oldFiles \cap r.scope
        /\ r.todo \subseteq r.scope
        /\ InHand(r) \subseteq r.scope \ r.todo
    BY <1>1, <1>2, <1>3, GoesOnSound
  <1>5. /\ RowsIn(r, j.file) = RowsIn(j, j.file)
        /\ \A i : Skipped(r, i) <=> Skipped(j, i)
        /\ r.rows = j.rows
    BY SamePlanSame DEF SamePlan
  <1>6. RowsIn(j, j.file) # {} /\ Fetched(j)
    BY DEF JobSound, WorkSound
  <1>7. k \in RowsIn(j, j.file) /\ k \in DOMAIN j.rows
    BY <1>6 DEF Fetched, RowsIn
  <1>8. ASSUME NEW i \in In(j.file)
        PROVE  \/ r.image[i] = {} /\ (i \in RowsIn(r, j.file) \ r.fetch => Skipped(r, i))
               \/ i \in RowsIn(r, j.file) /\ r.image[i] = {r.rows[i]}
    <2>1. \/ j.image[i] = {} /\ (i \in RowsIn(j, j.file) \ j.fetch => Skipped(j, i))
          \/ i \in RowsIn(j, j.file) /\ j.image[i] = {j.rows[i]}
      BY <1>6 DEF Fetched
    <2>2. CASE i = k
      BY <1>5, <1>7, <2>1, <2>2 DEF Skipped
    <2>3. CASE i # k
      BY <1>5, <2>1, <2>3 DEF In
    <2>4. QED
      BY <2>2, <2>3
  <1>9. Fetched(r)
    BY <1>5, <1>6, <1>8 DEF Fetched
  <1>10. QED
    BY <1>4, <1>5, <1>6, <1>9 DEF JobSound, WorkSound, Merged

LEMMA StartWriteSound ==
  ASSUME NEW j \in JobRecords, NEW r \in JobRecords, JobSound(j), SamePlan(j, r),
         j.at = "fetching", j.step = "none", j.fetch = {},
         r.at = "stepping", r.step = "merge", r.found = j.found, r.todo = j.todo,
         r.file = j.file, r.fetch = j.fetch, r.image = j.image
  PROVE  JobSound(r)
  <1>1. Discovered(j) /\ Discovered(r) /\ InHand(j) = {j.file} /\ InHand(r) = {j.file}
    BY DEF Discovered, HasPlan, InHand
  <1>2. Pending(j) = Pending(r)
    BY <1>1 DEF Pending
  <1>3. InHand(j) \cap j.todo = {}
    BY <1>1 DEF JobSound, WorkSound
  <1>4. /\ CallSound(r) /\ PlanRead(r) /\ FilesSound(r)
        /\ r.found = r.oldFiles \cap r.scope
        /\ r.todo \subseteq r.scope
        /\ InHand(r) \subseteq r.scope \ r.todo
    BY <1>1, <1>2, <1>3, GoesOnSound
  <1>5. /\ RowsIn(r, j.file) = RowsIn(j, j.file)
        /\ \A i : Skipped(r, i) <=> Skipped(j, i)
        /\ r.rows = j.rows
    BY SamePlanSame DEF SamePlan
  <1>6. RowsIn(j, j.file) # {} /\ Fetched(j)
    BY DEF JobSound, WorkSound
  <1>7. Fetched(r)
    BY <1>5, <1>6 DEF Fetched
  <1>8. QED
    BY <1>4, <1>5, <1>6, <1>7 DEF JobSound, WorkSound, Merged

LEMMA DropFutureSound ==
  ASSUME NEW j \in JobRecords, NEW r \in JobRecords, JobSound(j), SamePlan(j, r),
         j.at = "stepping", r.at = "dropped", r.step = j.step, r.found = j.found,
         r.todo = j.todo, r.file = j.file, r.fetch = j.fetch, r.image = j.image
  PROVE  JobSound(r)
  <1>1. /\ Discovered(r) <=> Discovered(j)
        /\ InHand(r) = InHand(j) /\ HasPlan(j) /\ HasPlan(r)
        /\ Pending(r) = Pending(j)
    BY DEF Discovered, HasPlan, InHand, Pending
  <1>2. /\ CallSound(r) /\ PlanRead(r)
        /\ \A f : RowsIn(r, f) = RowsIn(j, f)
        /\ \A i : Skipped(r, i) <=> Skipped(j, i)
        /\ \A k, chunks : MadeOf(r, k, chunks) <=> MadeOf(j, k, chunks)
        /\ \A f : Untouched(r, f) <=> Untouched(j, f)
        /\ \A f : Rebuilt(r, f) <=> Rebuilt(j, f)
    BY <1>1, SamePlanSame DEF JobSound
  <1>3. r.rows = j.rows /\ r.scope = j.scope /\ r.oldFiles = j.oldFiles
    BY DEF SamePlan, SameCall
  <1>4. WorkSound(r)
    BY <1>1, <1>2, <1>3 DEF JobSound, WorkSound
  <1>5. Fetched(r) /\ Merged(r)
    BY <1>2, <1>3 DEF JobSound, Fetched, Merged
  <1>6. FilesSound(r)
    BY <1>1, <1>2, <1>3 DEF JobSound, FilesSound
  <1>7. QED
    BY <1>1, <1>2, <1>4, <1>5, <1>6 DEF JobSound

LEMMA MergeSound ==
  ASSUME NEW j \in JobRecords, NEW r \in JobRecords, JobSound(j), SamePlan(j, r),
         HasPlan(j), j.at # "fetching", j.step = "merge", InHand(j) \subseteq Regions,
         r.at = j.at, r.step = "swap", r.found = j.found, r.todo = j.todo, r.file = j.file,
         \A k \in In(j.file) :
           r.image[k] = IF j.image[k] = {} /\ Keeps(j, k) THEN live[k] ELSE j.image[k]
  PROVE  JobSound(r)
  <1>1. Discovered(j) /\ Discovered(r) /\ InHand(j) = {j.file} /\ InHand(r) = {j.file}
    BY DEF Discovered, HasPlan, InHand
  <1>2. Pending(j) = Pending(r)
    BY <1>1 DEF Pending
  <1>3. InHand(j) \subseteq j.scope \ j.todo
    BY <1>1 DEF JobSound, WorkSound
  <1>4. /\ CallSound(r) /\ PlanRead(r) /\ FilesSound(r)
        /\ r.found = r.oldFiles \cap r.scope
        /\ r.todo \subseteq r.scope
        /\ InHand(r) \subseteq r.scope \ r.todo
    BY <1>1, <1>2, <1>3, GoesOnSound
  <1>5. /\ RowsIn(r, j.file) = RowsIn(j, j.file)
        /\ \A k, chunks : MadeOf(r, k, chunks) <=> MadeOf(j, k, chunks)
    BY SamePlanSame
  <1>6. /\ RowsIn(j, j.file) # {} /\ Fetched(j) /\ j.file \in j.scope
        /\ PlanRead(j) /\ Untouched(j, j.file)
    BY <1>1, <1>3 DEF JobSound, WorkSound, FilesSound, Pending
  <1>7. ASSUME NEW k \in In(j.file)
        PROVE  MadeOf(j, k, r.image[k])
    <2>1. live[k] = j.oldLive[k]
      BY <1>6 DEF Untouched
    <2>2. Made(j, k) = IF k \in DOMAIN j.rows THEN {j.rows[k]} ELSE Kept(Keeps(j, k), j, k)
      BY <1>6, RowsMade
    <2>3. k \in RowsIn(j, j.file) <=> k \in DOMAIN j.rows
      BY DEF RowsIn, In
    <2>4. CASE k \in RowsIn(j, j.file) /\ j.image[k] = {j.rows[k]}
      BY <2>2, <2>3, <2>4 DEF MadeOf
    <2>5. CASE j.image[k] = {} /\ k \notin RowsIn(j, j.file)
      BY <2>1, <2>2, <2>3, <2>5 DEF MadeOf, Kept
    <2>6. CASE j.image[k] = {} /\ k \in RowsIn(j, j.file) /\ Skipped(j, k)
      <3>1. k \notin j.tombs
        BY <1>6, <2>3, <2>6 DEF PlanRead
      <3>2. QED
        BY <2>1, <2>6, <3>1 DEF MadeOf, Kept, Keeps
    <2>7. QED
      BY <1>6, <2>4, <2>5, <2>6 DEF Fetched
  <1>8. Merged(r)
    BY <1>5, <1>7 DEF Merged
  <1>9. QED
    BY <1>4, <1>5, <1>6, <1>8 DEF JobSound, WorkSound, Fetched

-----------------------------------------------------------------------------
(* The job moves on: the region in hand is turned.                        *)

LEMMA RegionTurned ==
  ASSUME NEW j \in JobRecords, NEW r \in JobRecords, JobSound(j), SamePlan(j, r),
         Discovered(j), NEW f \in Regions, InHand(j) = {f},
         r.at = "passing", r.step = "none", r.found = j.found, r.todo = j.todo,
         UNCHANGED <<presented, cas, assigned>>,
         \A k \in Coords : RegionOf[k] # f => live'[k] = live[k],
         \A g \in Regions \ {f} : g \in files' <=> g \in files,
         Rebuilt(r, f)'
  PROVE  JobSound(r)'
  <1>1. /\ Discovered(r) /\ InHand(r) = {} /\ HasPlan(r) /\ Pending(r) = j.todo
        /\ Pending(j) = j.todo \cup {f}
    BY DEF Discovered, HasPlan, InHand, Pending
  <1>2. /\ CallSound(r) /\ PlanRead(r)
        /\ \A g : Untouched(r, g) <=> Untouched(j, g)
        /\ \A g : Rebuilt(r, g) <=> Rebuilt(j, g)
    BY SamePlanSame DEF JobSound, Discovered
  <1>3. r.scope = j.scope /\ r.oldFiles = j.oldFiles
    BY DEF SamePlan, SameCall
  <1>4. \A k, chunks : MadeOf(r, k, chunks) => MadeOf(r, k, chunks)'
    BY MadeStays
  <1>5. CallSound(r)' /\ PlanRead(r)'
    BY <1>2, MadeStays DEF CallSound
  <1>6. /\ j.found = j.oldFiles \cap j.scope
        /\ j.todo \subseteq j.scope /\ f \in j.scope \ j.todo
    BY DEF JobSound, WorkSound
  <1>7. WorkSound(r)' /\ Fetched(r)' /\ Merged(r)'
    BY <1>3, <1>6 DEF WorkSound, Fetched, Merged, InHand
  <1>8. ASSUME NEW g \in Regions \ {f}
        PROVE  /\ Untouched(j, g) => Untouched(r, g)'
               /\ Rebuilt(j, g) => Rebuilt(r, g)'
    <2>1. (\A k \in In(g) : live'[k] = live[k]) /\ (g \in files' <=> g \in files)
      BY DEF In
    <2>2. Untouched(r, g) => Untouched(r, g)'
      BY <2>1 DEF Untouched, In
    <2>3. Rebuilt(r, g) => Rebuilt(r, g)'
      BY <1>4, <2>1 DEF Rebuilt, In, RowsIn
    <2>4. QED
      BY <1>2, <2>2, <2>3
  <1>9. ASSUME NEW g \in Regions
        PROVE  IF g \in j.todo \/ g \notin r.scope THEN Untouched(r, g)' ELSE Rebuilt(r, g)'
    <2>1. CASE g = f
      BY <1>3, <1>6, <2>1
    <2>2. CASE g # f
      <3>1. IF g \in Pending(j) \/ g \notin j.scope THEN Untouched(j, g) ELSE Rebuilt(j, g)
        BY DEF JobSound, FilesSound
      <3>2. QED
        BY <1>1, <1>3, <1>8, <2>2, <3>1
    <2>3. QED
      BY <2>1, <2>2
  <1>10. FilesSound(r)'
    BY <1>1, <1>9 DEF FilesSound, Pending, Discovered, HasPlan, InHand
  <1>11. QED
    BY <1>5, <1>7, <1>10 DEF JobSound

LEMMA SwapSound ==
  ASSUME NEW j \in JobRecords, NEW r \in JobRecords, JobSound(j), SamePlan(j, r),
         HasPlan(j), j.step = "swap", InHand(j) \subseteq Regions,
         r.at = "passing", r.step = "none", r.found = j.found, r.todo = j.todo,
         UNCHANGED <<presented, cas, assigned>>,
         files' = files \cup {j.file},
         live' = [k \in Coords |-> IF k \in In(j.file) THEN j.image[k] ELSE live[k]]
  PROVE  JobSound(r)'
  <1>1. Discovered(j) /\ InHand(j) = {j.file} /\ j.file \in Regions
    BY DEF Discovered, InHand
  <1>2. RowsIn(j, j.file) # {} /\ RowsIn(r, j.file) = RowsIn(j, j.file)
    BY SamePlanSame DEF JobSound, WorkSound
  <1>3. ASSUME NEW k \in In(j.file)
        PROVE  MadeOf(r, k, live[k])'
    <2>1. live'[k] = j.image[k]
      BY DEF In
    <2>2. MadeOf(r, k, j.image[k])
      BY SamePlanSame DEF JobSound, Merged
    <2>3. \A chunks : MadeOf(r, k, chunks) => MadeOf(r, k, chunks)'
      BY MadeStays
    <2>4. (\A chunks : MadeOf(r, k, chunks) => MadeOf(r, k, chunks)')
            => (MadeOf(r, k, j.image[k]) => MadeOf(r, k, live[k])')
      BY <2>1, MadeStays DEF MadeOf, Skipped
    <2>5. QED
      BY <2>2, <2>3, <2>4
  <1>4. Rebuilt(r, j.file)'
    BY <1>2, <1>3 DEF Rebuilt, In, RowsIn
  <1>5. QED
    BY <1>1, <1>4, RegionTurned DEF In

LEMMA RemoveSound ==
  ASSUME NEW j \in JobRecords, NEW r \in JobRecords, JobSound(j), SamePlan(j, r),
         HasPlan(j), j.step = "remove", InHand(j) \subseteq Regions,
         r.at = "passing", r.step = "none", r.found = j.found, r.todo = j.todo,
         UNCHANGED <<presented, cas, assigned>>,
         NEW keep, keep = IF \E k \in j.tombs : RegionOf[k] = j.file
                          THEN j.policy.keepTombs ELSE j.policy.keepFiles,
         files' = IF keep THEN files ELSE files \ {j.file},
         live' = IF keep THEN live
                 ELSE [k \in Coords |-> IF k \in In(j.file) THEN {} ELSE live[k]]
  PROVE  JobSound(r)'
  <1>1. Discovered(j) /\ InHand(j) = {j.file} /\ j.file \in Regions
    BY DEF Discovered, InHand
  <1>2. /\ RowsIn(j, j.file) = {} /\ j.file \in j.oldFiles /\ j.file \in j.scope
        /\ PlanRead(j) /\ Untouched(j, j.file)
    BY <1>1 DEF JobSound, WorkSound, FilesSound, Pending
  <1>3. r.oldFiles = j.oldFiles
    BY DEF SamePlan, SameCall
  <1>4. ASSUME NEW k \in In(j.file)
        PROVE  live'[k] = Made(r, k)'
    <2>1. k \in Coords
      BY DEF In
    <2>2. Made(j, k) = Kept(keep, j, k)
      BY <1>2, NoRowsMade
    <2>3. live[k] = j.oldLive[k]
      BY <1>2 DEF Untouched
    <2>4. live'[k] = Kept(keep, j, k)
      BY <2>1, <2>3 DEF Kept
    <2>5. Made(r, k)' = Made(j, k)
      BY SamePlanSame, MadeStays
    <2>6. QED
      BY <2>2, <2>4, <2>5
  <1>5. Rebuilt(r, j.file)'
    BY <1>2, <1>3, <1>4 DEF Rebuilt, MadeOf, In
  <1>6. QED
    BY <1>1, <1>5, RegionTurned DEF In

-----------------------------------------------------------------------------
(* Every step keeps what the running checkouts hold sound.                *)

\* A commit that is known keeps what it presented when it was recorded.
LEMMA PresentedStays ==
  ASSUME HeldInv, [CheckoutRunsNext]_allVars, NEW c \in assigned
  PROVE  presented'[c] = presented[c]
  <1>1. CASE UNCHANGED presented
    BY <1>1
  <1>2. ASSUME NEW w \in Committers, CommitProgress(w)
        PROVE  presented'[c] = presented[c]
    <2>1. CASE UNCHANGED snapshotVars
      BY <2>1 DEF snapshotVars
    <2>2. ASSUME NEW d \in CommitIds, RecordCommit(w, d)
          PROVE  presented'[c] = presented[c]
      <3>1. d \notin assigned /\ presented' = [presented EXCEPT ![d] = StateOf(d)']
        BY <2>2 DEF RecordCommit, Record, RecordNew, InsertCommit
      <3>2. QED
        BY <3>1 DEF HeldInv, WorldTypeOK
    <2>3. QED
      BY <1>2, <2>1, <2>2, CommitReads DEF CommitProgress
  <1>3. ASSUME NEW g \in Collectors, GcProgress(g)
        PROVE  UNCHANGED presented
    BY <1>3, GcProgressInv DEF HeldInv, snapshotVars
  <1>4. ASSUME NEW p \in Pruners, PruneProgress(p)
        PROVE  UNCHANGED presented
    BY <1>4 DEF PruneProgress, PruneCall, PruneStep, Select, StartApply, ListCommits, Plan,
                LoadAncestry, CheckRetire, FoldStep, Finish, Abandon, GiveUp, snapshotVars
  <1>5. ASSUME UNCHANGED storeVars
        PROVE  UNCHANGED presented
    BY <1>5 DEF storeVars, pruneVars, snapshotVars
  <1>6. LoseBlob => UNCHANGED presented
    BY DEF LoseBlob, pruneVars, snapshotVars
  <1>7. StoreProgress => presented'[c] = presented[c]
    BY <1>1, <1>2, <1>3, <1>4 DEF StoreProgress, RefProgress
  <1>8. CASE UNCHANGED storeVars \/ StoreProgress \/ LoseBlob
    BY <1>1, <1>5, <1>6, <1>7, <1>8
  <1>9. QED
    BY <1>8 DEF CheckoutRunsNext, CheckoutCall, CheckoutProgress, CheckoutBreaks, ReaderReturns,
                allVars

\* The steps of a checkout, one by one.
LEMMA OwnStepSound ==
  ASSUME HeldInv, PlansIntact, NEW o \in Checkouts, Running(o), JobSound(job[o]),
         CheckoutStep(o) \/ CheckoutFault(o), UNCHANGED storeVars
  PROVE  Running(o)' => JobSound(job[o])'
  <1> DEFINE j == job[o]
  <1>1. /\ StoreInv /\ WorldTypeOK /\ LockInv
        /\ j \in JobRecords /\ InHand(j) \subseteq Regions /\ files \subseteq Regions
        /\ j.at \in {"stepping", "dropped"} <=> j.step # "none"
    BY DEF HeldInv, WorldTypeOK, LockInv
  <1>2. UNCHANGED <<presented, cas, assigned>>
    BY DEF storeVars, pruneVars, snapshotVars, metaVars
  <1>3. ASSUME NEW r \in JobRecords, JobMoves(o, r), JobSound(r), UNCHANGED worldVars
        PROVE  Running(o)' => JobSound(job[o])'
    <2>1. JobSound(r)'
      BY <1>2, <1>3, JobStays
    <2>2. job'[o] = r
      BY <1>3 DEF JobMoves
    <2>3. QED
      BY <2>1, <2>2
  <1>4. ASSUME NEW r, JobMoves(o, r), JobSound(r)'
        PROVE  Running(o)' => JobSound(job[o])'
    <2>1. job'[o] = r
      BY <1>4 DEF JobMoves
    <2>2. QED
      BY <1>4, <2>1
  <1>5. ASSUME EndCall(o)
        PROVE  Running(o)' => JobSound(job[o])'
    BY <1>1, <1>5, EndCallMoves, NoJobTyped DEF JobMoves, Running
  <1>6. \A r : JobMoves(o, r) => r \in JobRecords
    BY DEF JobMoves
  <1> HIDE DEF j
  <1>7. ASSUME LookupCommit(o), ~ EndCall(o)
        PROVE  Running(o)' => JobSound(job[o])'
    <2>1. UNCHANGED worldVars
      BY <1>7 DEF LookupCommit, Await
    <2>2. QED
      BY <1>1, <1>3, <1>6, <1>7, <2>1, LookupCommitMoves, LookupSound DEF j
  <1>8. ASSUME ReadPlan(o)
        PROVE  Running(o)' => JobSound(job[o])'
    <2>1. UNCHANGED worldVars
      BY <1>8 DEF ReadPlan, Await
    <2>2. j.at = "found" /\ Intact(j.commit)
      BY <1>8 DEF ReadPlan, PlansIntact, j
    <2>3. QED
      BY <1>1, <1>3, <1>6, <1>8, <2>1, <2>2, ReadPlanMoves, ReadPlanSound DEF j
  <1>9. ASSUME NEW f \in Regions, SkipFile(o, f)
        PROVE  Running(o)' => JobSound(job[o])'
    BY <1>1, <1>3, <1>6, <1>9, SkipFileMoves, SkipFileSound DEF j
  <1>10. ASSUME NEW f \in Regions, StartRemoval(o, f)
         PROVE  Running(o)' => JobSound(job[o])'
    BY <1>1, <1>3, <1>6, <1>10, StartRemovalMoves, StartRemovalSound DEF j
  <1>11. ASSUME NEW f \in Regions, StartFetch(o, f)
         PROVE  Running(o)' => JobSound(job[o])'
    BY <1>1, <1>3, <1>6, <1>11, StartFetchMoves, StartFetchSound DEF j
  <1>12. ASSUME NEW k \in Coords, FetchRow(o, k), ~ EndCall(o)
         PROVE  Running(o)' => JobSound(job[o])'
    BY <1>1, <1>3, <1>6, <1>12, FetchRowMoves, FetchRowSound DEF j
  <1>13. ASSUME StartWrite(o)
         PROVE  Running(o)' => JobSound(job[o])'
    BY <1>1, <1>3, <1>6, <1>13, StartWriteMoves, StartWriteSound DEF j
  <1>14. ASSUME j.step # "none"
         PROVE  HasPlan(j) /\ j.at # "fetching"
    BY <1>1, <1>14 DEF HasPlan
  <1>15. ASSUME Discover(o), ~ EndCall(o)
         PROVE  Running(o)' => JobSound(job[o])'
    <2>1. j.step = "discover" /\ UNCHANGED worldVars
      BY <1>1, <1>15, DiscoverMoves DEF j
    <2>2. QED
      BY <1>1, <1>3, <1>6, <1>14, <1>15, <2>1, DiscoverMoves, DiscoverSound DEF j
  <1>16. ASSUME Remove(o), ~ EndCall(o)
         PROVE  Running(o)' => JobSound(job[o])'
    BY <1>1, <1>2, <1>4, <1>6, <1>14, <1>16, RemoveMoves, RemoveSound DEF j
  <1>17. ASSUME Merge(o)
         PROVE  Running(o)' => JobSound(job[o])'
    BY <1>1, <1>3, <1>6, <1>14, <1>17, MergeMoves, MergeSound DEF j
  <1>18. ASSUME Swap(o), ~ EndCall(o)
         PROVE  Running(o)' => JobSound(job[o])'
    BY <1>1, <1>2, <1>4, <1>6, <1>14, <1>18, SwapMoves, SwapSound DEF j
  <1>19. ASSUME DropFuture(o)
         PROVE  Running(o)' => JobSound(job[o])'
    BY <1>1, <1>3, <1>6, <1>19, DropFutureMoves, DropFutureSound DEF j
  <1>20. ASSUME CheckoutStep(o), ~ EndCall(o)
         PROVE  Running(o)' => JobSound(job[o])'
    BY <1>20, <1>7, <1>8, <1>9, <1>10, <1>11, <1>12, <1>13, <1>15, <1>16, <1>17, <1>18
    DEF CheckoutStep, FinishCheckout
  <1>21. ASSUME CheckoutFault(o), ~ EndCall(o)
         PROVE  Running(o)' => JobSound(job[o])'
    BY <1>21, <1>19 DEF CheckoutFault, Halt
  <1>22. QED
    BY <1>5, <1>20, <1>21

\* No blob comes back that a running checkout may have missed.
NoneComesBack ==
  \A o \in Checkouts : Running(o) =>
    \A k \in DOMAIN job[o].rows : job[o].rows[k] \notin cas => job[o].rows[k] \notin cas'

LEMMA JobInvStep ==
  ASSUME HeldInv, PlansIntact, JobInv, [CheckoutRunsNext]_allVars, NoneComesBack
  PROVE  JobInv'
  <1>1. StoreInv /\ WorldTypeOK /\ LockInv /\ Evolves
    BY HeldInvStep DEF HeldInv
  <1>2. \A c \in assigned : c \in assigned' /\ presented'[c] = presented[c]
    BY <1>1, PresentedStays DEF Evolves
  \* A checkout that nobody disturbs.
  <1>3. ASSUME NEW o \in Checkouts, UNCHANGED worldVars, job'[o] = job[o], Running(o)
        PROVE  JobSound(job[o])'
    <2>1. JobSound(job[o]) /\ job[o].commit \in assigned
      BY <1>3 DEF JobInv, JobSound, CallSound
    <2>2. \A k \in DOMAIN job[o].rows : job[o].rows[k] \notin cas => job[o].rows[k] \notin cas'
      BY <1>3 DEF NoneComesBack
    <2>3. ASSUME NEW j, j = job[o]
          PROVE  JobSound(j)'
      BY <1>2, <1>3, <2>1, <2>2, <2>3, JobStays
    <2>4. QED
      BY <1>3, <2>3
  <1>4. \A k \in Coords : live[k] # {} => RegionOf[k] \in files
    BY DEF JobInv
  <1>5. CASE UNCHANGED checkoutVars
    BY <1>3, <1>4, <1>5 DEF JobInv, checkoutVars, worldVars, Running
  <1>6. ASSUME NEW o \in Checkouts, BeginCheckout(o), UNCHANGED storeVars
        PROVE  JobInv'
    <2>1. PICK r : /\ JobMoves(o, r)
                   /\ r.at = "locked" /\ r.step = "none" /\ r.commit \in assigned
                   /\ r.policy \in PolicySpace /\ r.oldFiles = files /\ r.oldLive = live
      BY <1>1, <1>6, BeginCheckoutMoves
    <2>2. UNCHANGED worldVars
      BY <1>6 DEF BeginCheckout
    <2>3. JobSound(r)
      BY <1>4, <2>1, BeginSound DEF JobMoves
    <2>4. cas' = cas
      BY <1>6 DEF storeVars
    <2>5. JobSound(r)'
      BY <1>2, <2>1, <2>2, <2>3, <2>4, JobStays
    <2>6. \A q \in Checkouts : Running(q)' => JobSound(job[q])'
      BY <1>3, <2>1, <2>2, <2>5 DEF JobMoves, Running
    <2>7. QED
      BY <1>4, <2>2, <2>6 DEF JobInv, worldVars
  <1>7. ASSUME NEW o \in Checkouts, CheckoutStep(o) \/ CheckoutFault(o), UNCHANGED storeVars
        PROVE  JobInv'
    <2>1. Running(o)
      BY <1>1, <1>7, OwnMoves
    <2>2. Running(o)' => JobSound(job[o])'
      BY <1>7, <2>1, OwnStepSound DEF JobInv
    <2>3. \A q \in Checkouts \ {o} : ~ Running(q) /\ job'[q] = job[q]
      <3>1. \A q \in Checkouts \ {o} : ~ Running(q)
        <4>1. hold[o] = "exclusive"
          BY <1>1, <2>1 DEF LockInv
        <4>2. QED
          BY <1>1, <4>1, CheckoutAssumption DEF LockInv, Guarded
      <3>2. \A q \in Checkouts \ {o} : job'[q] = job[q]
        BY <1>1, <1>7, OwnMoves, EndCallMoves DEF JobMoves
      <3>3. QED
        BY <3>1, <3>2
    <2>4. \A q \in Checkouts : Running(q)' => JobSound(job[q])'
      BY <2>2, <2>3 DEF Running
    <2>5. \A k \in Coords : live'[k] # {} => RegionOf[k] \in files'
      <3>1. CASE UNCHANGED worldVars
        BY <1>4, <3>1 DEF worldVars
      <3>2. CASE Remove(o)
        BY <1>4, <3>2 DEF Remove, In
      <3>3. CASE Swap(o)
        BY <1>4, <3>3 DEF Swap, In
      <3>4. QED
        BY <1>7, <3>1, <3>2, <3>3
        DEF CheckoutStep, CheckoutFault, LookupCommit, ReadPlan, SkipFile, StartRemoval, StartFetch,
            FetchRow, StartWrite, Discover, Merge, FinishCheckout, DropFuture, Halt, Await
    <2>6. QED
      BY <2>4, <2>5 DEF JobInv
  <1>8. ASSUME NEW o \in Readers, BeginRead(o) \/ EndRead(o)
        PROVE  JobInv'
    BY <1>3, <1>4, <1>8 DEF BeginRead, EndRead, JobInv, worldVars, Running
  <1>9. QED
    BY <1>5, <1>6, <1>7, <1>8, WhoMoves

LEMMA JobInvInit == CheckoutRunsInit => JobInv
  BY NoJobTyped DEF CheckoutRunsInit, CheckoutInit, JobInv, Running

\* Between the call and its end each file is as it was or as the commit
\* makes it.
LEMMA SoundFiles == JobInv => FilesOldOrNew
  <1> SUFFICES ASSUME JobInv, NEW o \in Checkouts, Running(o), NEW r \in Regions
               PROVE  \/ \A k \in In(r) : live[k] = job[o].oldLive[k]
                      \/ \A k \in In(r) : live[k] = Made(job[o], k) \/ LeftOut(job[o], k)
    BY DEF FilesOldOrNew
  <1>1. JobSound(job[o])
    BY DEF JobInv
  <1>2. CASE Untouched(job[o], r)
    BY <1>2 DEF Untouched
  <1>3. CASE Rebuilt(job[o], r) /\ HasPlan(job[o])
    <2>1. ASSUME NEW k \in In(r), Skipped(job[o], k),
                 live[k] = Kept(job[o].policy.keepChunks, job[o], k)
          PROVE  LeftOut(job[o], k)
      <3>1. presented[job[o].commit][k] = {job[o].rows[k]}
        BY <1>1, <1>3, <2>1 DEF JobSound, PlanRead, Skipped
      <3>2. QED
        BY <2>1, <3>1 DEF LeftOut, Skipped
    <2>2. QED
      BY <1>3, <2>1 DEF Rebuilt, MadeOf
  <1>4. QED
    BY <1>1, <1>2, <1>3 DEF JobSound, FilesSound, Pending, Discovered

-----------------------------------------------------------------------------
(* A file is old or new at any time.                                      *)

LEMMA CasShrinks ==
  ASSUME {"commit", "checkout"} \notin Overlap, NEW o \in Checkouts, Running(o),
         [CheckoutRunsNext]_allVars
  PROVE  cas' \subseteq cas
  <1>1. ~ Beside("commit")
    BY DEF Beside
  <1>2. ASSUME NEW g \in Collectors, GcProgress(g)
        PROVE  cas' \subseteq cas
    BY <1>2 DEF GcProgress, GcCall, GcStep, GcPlan, GcApply, GcVisit, GcScanBlobs, GcRemove,
                GcFinish, GcDies, RemoveBlob
  <1>3. CASE StoreProgress
    BY <1>1, <1>2, <1>3 DEF StoreProgress, PruneProgress, RefProgress
  <1>4. CASE LoseBlob
    BY <1>4 DEF LoseBlob, RemoveBlob
  <1>5. CASE UNCHANGED storeVars
    BY <1>5 DEF storeVars
  <1>6. QED
    BY <1>3, <1>4, <1>5 DEF CheckoutRunsNext, CheckoutCall, CheckoutProgress, CheckoutBreaks,
                            ReaderReturns, allVars

\* Whenever a checkout stops, crashes or is dropped, each file is as the
\* call met it or as its commit makes it (FilesOldOrNew), with any number
\* of callers, lost blobs, collections and prunes beside it, as long as the
\* commit still presents its state when the rows are read and nobody
\* commits meanwhile: a blob that comes back would be a chunk that the
\* checkout has skipped already.
THEOREM FilesOldOrNewCorrect ==
  ASSUME {"commit", "checkout"} \notin Overlap
  PROVE  CheckoutRunsSpec /\ []PlansIntact => []FilesOldOrNew
  <1>1. HeldInv /\ PlansIntact /\ JobInv /\ [CheckoutRunsNext]_allVars => JobInv'
    <2> SUFFICES ASSUME HeldInv, PlansIntact, JobInv, [CheckoutRunsNext]_allVars
                 PROVE  JobInv'
      OBVIOUS
    <2>1. NoneComesBack
      BY CasShrinks DEF NoneComesBack
    <2>2. QED
      BY <2>1, JobInvStep
  <1>2. QED
    BY <1>1, JobInvInit, SoundFiles, HeldInvCorrect, PTL DEF CheckoutRunsSpec

-----------------------------------------------------------------------------
(* Where nobody prunes, plans are always intact.                          *)

FoundStored == \A o \in Checkouts : job[o].at = "found" => job[o].commit \in commits

\* Without retirements commits stay, and present what they presented.
LEMMA CommitsStay ==
  ASSUME Pruners = {}, HeldInv, AllIntact, [CheckoutRunsNext]_allVars
  PROVE  AllIntact' /\ commits \subseteq commits'
  <1>1. IInv /\ IInv' /\ presented \in [CommitIds -> [Coords -> SUBSET Blobs]]
    BY HeldInvStep DEF HeldInv, StoreInv, PruneInv, WorldTypeOK
  <1>2. CASE UNCHANGED snapshotVars
    <2>1. commits' = commits /\ \A c : StateOf(c)' = StateOf(c)
      BY <1>2, SameMeta, UnchangedState DEF snapshotVars, metaVars
    <2>2. QED
      BY <1>2, <2>1 DEF AllIntact, Intact, snapshotVars
  <1>3. ASSUME NEW w \in Committers, NEW c \in CommitIds, RecordCommit(w, c)
        PROVE  AllIntact' /\ commits \subseteq commits'
    <2>1. /\ ParentsOf(run[w]) \in ParentSets /\ Delta(run[w]) \in EntrySets
          /\ Record(c, ParentsOf(run[w]), Delta(run[w]))
      BY <1>1, <1>3, RecordCommitRecords DEF HeldInv, StoreInv, PruneInv, RecordCommit
    <2>2. /\ \A d \in commits : StateOf(d)' = StateOf(d) /\ presented'[d] = presented[d]
          /\ Intact(c)'
      BY <1>1, <2>1, RecordIntact
    <2>3. commits' = commits \cup {c}
      BY <1>1, <2>1, RecordNewEvolves DEF Record
    <2>4. \A d \in commits : Intact(d)'
      BY <2>2 DEF AllIntact, Intact
    <2>5. QED
      BY <2>2, <2>3, <2>4 DEF AllIntact
  <1>4. CASE RefProgress
    <2>1. RefCall /\ UNCHANGED presented
      BY <1>4 DEF RefProgress
    <2>2. UNCHANGED <<seq, commitParents, chunkHistory>>
      BY <2>1 DEF RefCall, SetRef, DeleteRef, ActivateRef
    <2>3. commits' = commits /\ \A c : StateOf(c)' = StateOf(c)
      BY <2>2, UnchangedState DEF commits
    <2>4. QED
      BY <2>1, <2>3 DEF AllIntact, Intact
  <1>5. ASSUME NEW w \in Committers, CommitProgress(w)
        PROVE  AllIntact' /\ commits \subseteq commits'
    BY <1>2, <1>3, <1>5, CommitReads DEF CommitProgress
  <1>6. ASSUME NEW g \in Collectors, GcProgress(g)
        PROVE  UNCHANGED snapshotVars
    BY <1>6, GcProgressInv DEF HeldInv
  <1>7. CASE LoseBlob \/ UNCHANGED storeVars
    BY <1>2, <1>7 DEF LoseBlob, storeVars, pruneVars
  <1>8. CASE StoreProgress
    BY <1>2, <1>4, <1>5, <1>6, <1>8 DEF StoreProgress
  <1>9. QED
    BY <1>7, <1>8 DEF CheckoutRunsNext, CheckoutCall, CheckoutProgress, CheckoutBreaks,
                      ReaderReturns, allVars

\* A checkout keeps its plan, and looks up its commit before it reads it.
LEMMA OwnPlan ==
  ASSUME StoreInv, WorldTypeOK, LockInv, NEW o \in Checkouts, CheckoutStep(o) \/ CheckoutFault(o)
  PROVE  \/ EndCall(o)
         \/ ReadPlan(o)
         \/ \E r : /\ JobMoves(o, r) /\ SamePlan(job[o], r)
                   /\ r.at = "found" => job[o].commit \in commits
  <1> DEFINE Goes == \E r : /\ JobMoves(o, r) /\ SamePlan(job[o], r)
                            /\ r.at = "found" => job[o].commit \in commits
  <1>1. job[o].at \in {"stepping", "dropped"} <=> job[o].step # "none"
    BY DEF LockInv
  <1>2. ASSUME LookupCommit(o) PROVE EndCall(o) \/ Goes
    BY <1>2, LookupCommitMoves
  <1>3. ASSUME NEW f \in Regions, SkipFile(o, f) \/ StartRemoval(o, f) \/ StartFetch(o, f)
        PROVE  EndCall(o) \/ Goes
    BY <1>3, SkipFileMoves, StartRemovalMoves, StartFetchMoves
  <1>4. ASSUME NEW k \in Coords, FetchRow(o, k) PROVE EndCall(o) \/ Goes
    BY <1>4, FetchRowMoves
  <1>5. ASSUME StartWrite(o) PROVE EndCall(o) \/ Goes
    BY <1>5, StartWriteMoves
  <1>6. ASSUME Discover(o) PROVE EndCall(o) \/ Goes
    BY <1>6, DiscoverMoves
  <1>7. ASSUME Remove(o) PROVE EndCall(o) \/ Goes
    BY <1>7, RemoveMoves
  <1>8. ASSUME Merge(o) PROVE EndCall(o) \/ Goes
    BY <1>1, <1>8, MergeMoves
  <1>9. ASSUME Swap(o) PROVE EndCall(o) \/ Goes
    BY <1>9, SwapMoves
  <1>10. ASSUME DropFuture(o) PROVE EndCall(o) \/ Goes
    BY <1>10, DropFutureMoves
  <1> HIDE DEF Goes
  <1>11. ASSUME CheckoutStep(o) PROVE EndCall(o) \/ ReadPlan(o) \/ Goes
    BY <1>11, <1>2, <1>3, <1>4, <1>5, <1>6, <1>7, <1>8, <1>9 DEF CheckoutStep, FinishCheckout
  <1>12. ASSUME CheckoutFault(o) PROVE EndCall(o) \/ ReadPlan(o) \/ Goes
    BY <1>12, <1>10 DEF CheckoutFault, Halt
  <1>13. QED
    BY <1>11, <1>12 DEF Goes

\* A commit that was found stays as long as no commit goes under a checkout.
LEMMA FoundStoredStep ==
  ASSUME HeldInv, FoundStored, [CheckoutRunsNext]_allVars,
         \A o \in Checkouts : Running(o) => commits \subseteq commits'
  PROVE  FoundStored'
  <1>1. StoreInv /\ WorldTypeOK /\ LockInv
    BY DEF HeldInv
  <1>2. \A q \in Checkouts : job[q].at = "found" => job[q].commit \in commits'
    BY DEF FoundStored, Running
  <1>3. ASSUME NEW o \in Checkouts, NEW r, JobMoves(o, r), r.at = "found" => r.commit \in commits'
        PROVE  FoundStored'
    BY <1>2, <1>3 DEF FoundStored, JobMoves
  <1>4. CASE UNCHANGED job
    BY <1>2, <1>4 DEF FoundStored
  <1>5. ASSUME NEW o \in Checkouts, BeginCheckout(o)
        PROVE  FoundStored'
    BY <1>1, <1>3, <1>5, BeginCheckoutMoves
  <1>6. ASSUME NEW o \in Checkouts, CheckoutStep(o) \/ CheckoutFault(o)
        PROVE  FoundStored'
    <2>1. CASE EndCall(o)
      BY <1>1, <1>3, <2>1, EndCallMoves, NoJobTyped
    <2>2. CASE ReadPlan(o)
      BY <1>1, <1>3, <2>2, ReadPlanMoves
    <2>3. CASE ~ EndCall(o) /\ ~ ReadPlan(o)
      <3>1. PICK r : /\ JobMoves(o, r) /\ SamePlan(job[o], r)
                     /\ r.at = "found" => job[o].commit \in commits
        BY <1>1, <1>6, <2>3, OwnPlan
      <3>2. r.commit = job[o].commit
        BY <3>1 DEF SamePlan, SameCall
      <3>3. commits \subseteq commits'
        BY <1>1, <1>6, OwnMoves
      <3>4. QED
        BY <1>3, <3>1, <3>2, <3>3
    <2>4. QED
      BY <2>1, <2>2, <2>3
  <1>7. ASSUME NEW o \in Readers, BeginRead(o) \/ EndRead(o)
        PROVE  UNCHANGED job
    BY <1>7 DEF BeginRead, EndRead
  <1>8. QED
    BY <1>4, <1>5, <1>6, <1>7, WhoMoves DEF checkoutVars

LEMMA FoundStoredInit == CheckoutRunsInit => FoundStored
  BY NoJobTyped DEF CheckoutRunsInit, CheckoutInit, FoundStored

\* Where nobody prunes, a commit is still there and presents what it did
\* when its rows are read, whatever is committed, collected and lost.  (A
\* prune that takes the commit in between empties the plan.)
THEOREM PlansIntactCorrect ==
  ASSUME Pruners = {}
  PROVE  CheckoutRunsSpec => []PlansIntact
  <1>1. CheckoutRunsInit => AllIntact
    <2>1. CheckoutRunsInit => commits = {}
      BY DEF CheckoutRunsInit, StoreInit, PruneInit, SnapshotsInit, Init, commits
    <2>2. QED
      BY <2>1 DEF AllIntact
  <1>2. /\ HeldInv /\ AllIntact /\ [CheckoutRunsNext]_allVars => AllIntact'
        /\ HeldInv /\ AllIntact /\ FoundStored /\ [CheckoutRunsNext]_allVars => FoundStored'
    BY CommitsStay, FoundStoredStep
  <1>3. AllIntact /\ FoundStored => PlansIntact
    BY DEF AllIntact, FoundStored, PlansIntact
  <1>4. QED
    BY <1>1, <1>2, <1>3, FoundStoredInit, HeldInvCorrect, PTL DEF CheckoutRunsSpec

-----------------------------------------------------------------------------
(* Where prunes do run, but not beside a checkout.                         *)

LEMMA StoreOrNothing ==
  ASSUME StoreInv, OutOfTheWay, [CheckoutRunsNext]_allVars
  PROVE  /\ [StoreNext]_storeVars \/ UNCHANGED <<run, gc, pruneVars>>
         /\ [PruneNext]_pruneVars
  <1>1. [StoreNext]_storeVars \/ UNCHANGED <<run, gc, pruneVars>>
    BY DEF CheckoutRunsNext, StoreProgress, StoreNext, LoseBlob, CheckoutCall, CheckoutProgress,
           CheckoutBreaks, ReaderReturns, allVars, storeVars
  <1>2. QED
    BY <1>1, PruneMaps

LEMMA BasesStayUnderRuns ==
  ASSUME {"commit", "prune"} \notin Overlap, StoreInv, BasesStay, OutOfTheWay,
         [CheckoutRunsNext]_allVars
  PROVE  BasesStay' /\ OutOfTheWay'
  <1>1. CASE [StoreNext]_storeVars
    BY <1>1, BasesStayStep, OutOfTheWayStep
  <1>2. CASE UNCHANGED <<run, gc, pruneVars>>
    <2>1. commits' = commits /\ run' = run /\ prune' = prune
      BY <1>2 DEF pruneVars, snapshotVars, metaVars, commits
    <2>2. QED
      BY <2>1 DEF BasesStay, OutOfTheWay, Committing, Free, InCall, Applying
  <1>3. QED
    BY <1>1, <1>2, StoreOrNothing

\* The calls, the steps and the crashes of checkouts, the operations that
\* read a world and the loss of blobs are nothing to prunes.
THEOREM CheckoutsImplementPrune ==
  ASSUME {"commit", "prune"} \notin Overlap
  PROVE  CheckoutRunsSpec => PruneSpec
  <1>1. CheckoutRunsInit => PruneInit /\ BasesStay /\ OutOfTheWay
    <2>1. CheckoutRunsInit => StoreInit /\ PruneInit
      BY DEF CheckoutRunsInit, StoreInit
    <2>2. StoreInit => OutOfTheWay
      BY DEF StoreInit, CommitInit, OutOfTheWay, Committing, Resting
    <2>3. QED
      BY <2>1, <2>2, BaseInvInit
  <1>2. HeldInv /\ BasesStay /\ OutOfTheWay /\ [CheckoutRunsNext]_allVars => BasesStay' /\ OutOfTheWay'
    BY BasesStayUnderRuns DEF HeldInv
  <1>3. HeldInv /\ OutOfTheWay /\ [CheckoutRunsNext]_allVars => [PruneNext]_pruneVars
    BY StoreOrNothing DEF HeldInv
  <1>4. QED
    BY <1>1, <1>2, <1>3, HeldInvCorrect, PTL DEF CheckoutRunsSpec, PruneSpec

\* No commit goes under a checkout that no prune runs beside.
LEMMA CommitsStayBeside ==
  ASSUME {"prune", "checkout"} \notin Overlap, HeldInv, [CheckoutRunsNext]_allVars,
         NEW o \in Checkouts, Running(o)
  PROVE  commits \subseteq commits'
  <1>1. ~ Beside("prune")
    BY DEF Beside
  <1>2. IInv
    BY DEF HeldInv, StoreInv, PruneInv
  <1>3. CASE UNCHANGED snapshotVars
    BY <1>3 DEF snapshotVars, metaVars, commits
  <1>4. ASSUME NEW w \in Committers, NEW c \in CommitIds, RecordCommit(w, c)
        PROVE  commits \subseteq commits'
    <2>1. /\ ParentsOf(run[w]) \in ParentSets /\ Delta(run[w]) \in EntrySets
          /\ Record(c, ParentsOf(run[w]), Delta(run[w]))
      BY <1>2, <1>4, RecordCommitRecords DEF HeldInv, StoreInv, PruneInv, RecordCommit
    <2>2. commits' = commits \cup {c}
      BY <1>2, <2>1, RecordNewEvolves DEF Record
    <2>3. QED
      BY <2>2
  <1>5. CASE RefProgress
    BY <1>5 DEF RefProgress, RefCall, SetRef, DeleteRef, ActivateRef, commits
  <1>6. ASSUME NEW w \in Committers, CommitProgress(w)
        PROVE  commits \subseteq commits'
    BY <1>3, <1>4, <1>6, CommitReads DEF CommitProgress
  <1>7. ASSUME NEW g \in Collectors, GcProgress(g)
        PROVE  UNCHANGED snapshotVars
    BY <1>7, GcProgressInv DEF HeldInv
  <1>8. CASE LoseBlob \/ UNCHANGED storeVars
    BY <1>3, <1>8 DEF LoseBlob, storeVars, pruneVars
  <1>9. CASE StoreProgress
    BY <1>1, <1>3, <1>5, <1>6, <1>7, <1>9 DEF StoreProgress
  <1>10. QED
    BY <1>8, <1>9 DEF CheckoutRunsNext, CheckoutCall, CheckoutProgress, CheckoutBreaks,
                      ReaderReturns, allVars

\* What is left to ask of a caller: no commit that a prune which crashed or
\* was refused had set out to delete is checked out.
ChosenKept == \A o \in Checkouts : job[o].at = "found" => job[o].commit \notin doomed

\* A checkout reads its plan from a commit that is there and presents what
\* it did when it was recorded, however often the store has been pruned,
\* if no prune runs beside it.  With it FilesOldOrNewCorrect and
\* CheckoutExactCorrect hold of stores that are pruned.
THEOREM PlansIntactBesidePrunes ==
  ASSUME ~ Merges, Alone, ~ StalePlans,
         {"commit", "prune"} \notin Overlap, {"prune", "checkout"} \notin Overlap
  PROVE  CheckoutRunsSpec /\ []ChosenKept => []PlansIntact
  <1>1. HeldInv /\ FoundStored /\ [CheckoutRunsNext]_allVars => FoundStored'
    BY CommitsStayBeside, FoundStoredStep
  <1>2. SnapshotsIntact /\ FoundStored /\ ChosenKept => PlansIntact
    BY DEF SnapshotsIntact, FoundStored, ChosenKept, PlansIntact
  <1>3. CheckoutRunsSpec => PruneSpec
    BY CheckoutsImplementPrune
  <1>4. PruneSpec => []SnapshotsIntact
    BY SnapshotsIntactCorrect
  <1>5. QED
    BY <1>1, <1>2, <1>3, <1>4, FoundStoredInit, HeldInvCorrect, PTL DEF CheckoutRunsSpec

-----------------------------------------------------------------------------
(* A checkout that ends well is exact.                                    *)

ExactInv == KeepInv /\ RowsStored

LEMMA CasGrows ==
  ASSUME {"gc", "checkout"} \notin Overlap, ~ Damage, NEW o \in Checkouts, Running(o),
         [CheckoutRunsNext]_allVars
  PROVE  cas \subseteq cas'
  <1>1. ~ Beside("gc") /\ ~ LoseBlob
    BY DEF Beside, LoseBlob
  <1>2. ASSUME NEW w \in Committers, CommitProgress(w)
        PROVE  cas \subseteq cas'
    BY <1>2 DEF CommitProgress, CommitCall, CommitStep, ReadActive, LookupBase, ReadState, StageBlob,
                PutBlob, RecordCommit, CommitRefused, CommitDies
  <1>3. CASE StoreProgress
    BY <1>1, <1>2, <1>3 DEF StoreProgress, PruneProgress, RefProgress
  <1>4. CASE UNCHANGED storeVars
    BY <1>4 DEF storeVars
  <1>5. QED
    BY <1>1, <1>3, <1>4 DEF CheckoutRunsNext, CheckoutCall, CheckoutProgress, CheckoutBreaks,
                            ReaderReturns, allVars

LEMMA RowsStoredStep ==
  ASSUME {"gc", "checkout"} \notin Overlap, ~ Damage, HeldInv, NoDangling, RowsStored,
         [CheckoutRunsNext]_allVars
  PROVE  RowsStored'
  <1>1. StoreInv /\ WorldTypeOK /\ LockInv
    BY DEF HeldInv
  <1>2. \A o \in Checkouts : Running(o) => \A k \in DOMAIN job[o].rows : job[o].rows[k] \in cas'
    BY CasGrows DEF RowsStored
  <1>3. ASSUME NEW o \in Checkouts, NEW r, JobMoves(o, r),
               r.at # "idle" => \A k \in DOMAIN r.rows : r.rows[k] \in cas'
        PROVE  RowsStored'
    BY <1>2, <1>3 DEF RowsStored, JobMoves, Running
  <1>4. CASE UNCHANGED job
    BY <1>2, <1>4 DEF RowsStored, Running
  <1>5. ASSUME NEW o \in Checkouts, BeginCheckout(o)
        PROVE  RowsStored'
    <2>1. PICK r : JobMoves(o, r) /\ r.rows = NoPlan
      BY <1>1, <1>5, BeginCheckoutMoves
    <2>2. DOMAIN r.rows = {}
      BY <2>1 DEF NoPlan
    <2>3. QED
      BY <1>3, <2>1, <2>2
  <1>6. ASSUME NEW o \in Checkouts, CheckoutStep(o) \/ CheckoutFault(o), UNCHANGED storeVars
        PROVE  RowsStored'
    <2>1. Running(o)
      BY <1>1, <1>6, OwnMoves
    <2>2. CASE EndCall(o)
      BY <1>1, <1>3, <2>2, EndCallMoves, NoJobTyped
    <2>3. CASE ReadPlan(o)
      <3>1. PICK r : /\ JobMoves(o, r) /\ DOMAIN r.rows \subseteq Coords
                     /\ \A k \in DOMAIN r.rows : Present(job[o].commit, k) = {r.rows[k]}
        BY <1>1, <2>3, ReadPlanMoves
      <3>2. \A k \in DOMAIN r.rows : r.rows[k] \in cas
        BY <3>1, PresentReferenced DEF NoDangling
      <3>3. cas' = cas
        BY <1>6 DEF storeVars
      <3>4. QED
        BY <1>3, <3>1, <3>2, <3>3
    <2>4. CASE ~ EndCall(o) /\ ~ ReadPlan(o)
      <3>1. PICK r : JobMoves(o, r) /\ SamePlan(job[o], r)
        BY <1>1, <1>6, <2>4, OwnPlan
      <3>2. r.rows = job[o].rows
        BY <3>1 DEF SamePlan
      <3>3. QED
        BY <1>2, <1>3, <2>1, <3>1, <3>2
    <2>5. QED
      BY <2>2, <2>3, <2>4
  <1>7. ASSUME NEW o \in Readers, BeginRead(o) \/ EndRead(o)
        PROVE  UNCHANGED job
    BY <1>7 DEF BeginRead, EndRead
  <1>8. QED
    BY <1>4, <1>5, <1>6, <1>7, WhoMoves DEF checkoutVars

LEMMA ExactInvStep ==
  ASSUME {"commit", "gc"} \notin Overlap, {"gc", "checkout"} \notin Overlap, ~ Damage,
         HeldInv, ExactInv, [CheckoutRunsNext]_allVars
  PROVE  ExactInv'
  <1>1. [StoreNext]_storeVars
    BY DEF CheckoutRunsNext, StoreProgress, StoreNext, LoseBlob, CheckoutCall, CheckoutProgress,
           CheckoutBreaks, ReaderReturns, allVars
  <1>2. KeepInv'
    BY <1>1, KeepInvStep DEF HeldInv, ExactInv
  <1>3. RowsStored'
    BY RowsStoredStep DEF ExactInv, KeepInv
  <1>4. QED
    BY <1>2, <1>3 DEF ExactInv

\* When the last region is done every region is as the commit makes it.
LEMMA FinishExact ==
  ASSUME HeldInv, JobInv, RowsStored, NEW o \in Checkouts, FinishCheckout(o)
  PROVE  /\ \A k \in Coords : live[k] = Made(job[o], k)
         /\ \A r \in files \ job[o].oldFiles : \E k \in In(r) : live[k] # {}
  <1> DEFINE j == job[o]
  <1>1. /\ j.at = "passing" /\ j.todo = {} /\ j.step = "none" /\ j \in JobRecords
        /\ files \subseteq Regions
    BY DEF FinishCheckout, HeldInv, LockInv, WorldTypeOK
  <1>2. JobSound(j) /\ \A k \in DOMAIN j.rows : j.rows[k] \in cas
    BY <1>1 DEF JobInv, RowsStored, Running
  <1> HIDE DEF j
  <1>3. Pending(j) = {} /\ PlanRead(j)
    BY <1>1, <1>2 DEF Pending, Discovered, HasPlan, InHand, JobSound
  <1>4. ASSUME NEW r \in Regions
        PROVE  /\ r \notin j.scope => Untouched(j, r)
               /\ r \in j.scope => /\ \A k \in In(r) : live[k] = Made(j, k)
                                   /\ r \in files => r \in j.oldFiles \/ RowsIn(j, r) # {}
    BY <1>2, <1>3 DEF JobSound, FilesSound, Rebuilt, MadeOf, Skipped
  <1>5. ASSUME NEW k \in Coords
        PROVE  live[k] = Made(j, k)
    <2>1. RegionOf[k] \in Regions /\ k \in In(RegionOf[k])
      BY CheckoutAssumption DEF In
    <2>2. CASE RegionOf[k] \in j.scope
      BY <1>4, <2>1, <2>2
    <2>3. CASE RegionOf[k] \notin j.scope
      <3>1. live[k] = j.oldLive[k]
        BY <1>4, <2>1, <2>3 DEF Untouched
      <3>2. QED
        BY <2>3, <3>1 DEF Made
    <2>4. QED
      BY <2>2, <2>3
  <1>6. ASSUME NEW r \in files \ j.oldFiles
        PROVE  \E k \in In(r) : live[k] # {}
    <2>1. r \in Regions /\ r \in j.scope
      BY <1>1, <1>4 DEF Untouched
    <2>2. PICK k \in DOMAIN j.rows : RegionOf[k] = r
      BY <1>4, <2>1 DEF RowsIn
    <2>3. k \in In(r)
      BY <1>1, <2>2 DEF In, JobRecords, ScanSet
    <2>4. Made(j, k) = {j.rows[k]}
      <3>1. RowsIn(j, r) # {}
        BY <2>2 DEF RowsIn
      <3>2. QED
        BY <1>1, <1>3, <2>1, <2>2, <2>3, <3>1, RowsMade
    <2>5. QED
      BY <1>4, <2>1, <2>3, <2>4
  <1>7. QED
    BY <1>5, <1>6 DEF j

\* A checkout that ends well has made the world of its commit, chunk for
\* chunk, whatever was on disk and whatever the policies keep
\* (CheckoutExact), as long as its rows were read intact, no blob is lost
\* to corruption or to a collection beside a commit, and no collection runs
\* beside the checkout.
THEOREM CheckoutExactCorrect ==
  ASSUME {"commit", "gc"} \notin Overlap, {"gc", "checkout"} \notin Overlap, ~ Damage
  PROVE  CheckoutRunsSpec /\ []PlansIntact => CheckoutExact
  <1> DEFINE Exact ==
        \A o \in Checkouts :
          FinishCheckout(o) =>
            /\ \A k \in Coords : live[k] = Made(job[o], k)
            /\ \A r \in files \ job[o].oldFiles : \E k \in In(r) : live[k] # {}
  <1>1. CheckoutRunsInit => ExactInv
    BY KeepInvInit, NoJobTyped DEF CheckoutRunsInit, CheckoutInit, ExactInv, RowsStored, Running
  <1>2. HeldInv /\ ExactInv /\ [CheckoutRunsNext]_allVars => ExactInv'
    BY ExactInvStep
  <1>3. HeldInv /\ PlansIntact /\ ExactInv /\ JobInv /\ [CheckoutRunsNext]_allVars
          => JobInv'
    <2> SUFFICES ASSUME HeldInv, PlansIntact, ExactInv, JobInv, [CheckoutRunsNext]_allVars
                 PROVE  JobInv'
      OBVIOUS
    <2>1. NoneComesBack
      BY DEF NoneComesBack, ExactInv, RowsStored
    <2>2. QED
      BY <2>1, JobInvStep
  <1>4. HeldInv /\ JobInv /\ ExactInv /\ [CheckoutRunsNext]_allVars => [Exact]_allVars
    <2>1. ASSUME HeldInv, JobInv, ExactInv
          PROVE  Exact
      BY <2>1, FinishExact DEF ExactInv
    <2> HIDE DEF Exact
    <2>2. QED
      BY <2>1
  <1>5. QED
    BY <1>1, <1>2, <1>3, <1>4, JobInvInit, HeldInvCorrect, PTL
    DEF CheckoutRunsSpec, CheckoutExact

-----------------------------------------------------------------------------
(* Both, over a store that is pruned.                                      *)

\* The commits, retirements and crashed prunes of the past do not show: a
\* checkout that no prune and no commit runs beside leaves each file as it
\* was or as its commit makes it (FilesOldOrNew).
THEOREM PrunedFilesOldOrNew ==
  ASSUME ~ Merges, Alone, ~ StalePlans, {"commit", "prune"} \notin Overlap,
         {"prune", "checkout"} \notin Overlap, {"commit", "checkout"} \notin Overlap
  PROVE  CheckoutRunsSpec /\ []ChosenKept => []FilesOldOrNew
  <1>1. CheckoutRunsSpec /\ []ChosenKept => []PlansIntact
    BY PlansIntactBesidePrunes
  <1>2. CheckoutRunsSpec /\ []PlansIntact => []FilesOldOrNew
    BY FilesOldOrNewCorrect
  <1>3. QED
    BY <1>1, <1>2, PTL

\* And it makes exactly the world that was recorded (CheckoutExact), also
\* from a commit whose ancestors have been pruned away.
THEOREM PrunedCheckoutExact ==
  ASSUME ~ Merges, Alone, ~ StalePlans, ~ Damage, {"commit", "prune"} \notin Overlap,
         {"prune", "checkout"} \notin Overlap, {"commit", "gc"} \notin Overlap,
         {"gc", "checkout"} \notin Overlap
  PROVE  CheckoutRunsSpec /\ []ChosenKept => CheckoutExact
  <1>1. CheckoutRunsSpec /\ []ChosenKept => []PlansIntact
    BY PlansIntactBesidePrunes
  <1>2. CheckoutRunsSpec /\ []PlansIntact => CheckoutExact
    BY CheckoutExactCorrect
  <1>3. QED
    BY <1>1, <1>2, PTL
=============================================================================
