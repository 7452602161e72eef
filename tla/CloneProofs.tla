----------------------------- MODULE CloneProofs -----------------------------
(***************************************************************************)
(* Region files are replaced whole, for any number of clones, files and    *)
(* numbers of temporary files: the atomic swap, as clone uses it,          *)
(* implements WholeFiles.  And a clone that had its target for itself      *)
(* leaves exactly the files of its commit, but for the directories that it *)
(* made and a power loss took: its invariant follows each file from the    *)
(* plan to the sync of its directory (SoloInv).                            *)
(***************************************************************************)
EXTENDS Clone, TLAPS

Holding == {"created", "written", "synced"}

Phases == Holding \cup Finished \cup {"asked", "placed", "renamed"}

Entries == [image : Images \cup {NoFile, Torn}, synced : BOOLEAN]

WholeEntries == [image : Images \cup {NoFile}, synced : {TRUE}]

SwapRecords == [at : Phases, file : Files \cup {NoFile},
                image : Images \cup {NoFile}, temp : Numbers \cup {NoFile}]

SwapTypes ==
  /\ named \in [Files -> WholeEntries]
  /\ older \in [Files -> SUBSET WholeEntries]
  /\ temps \in [Numbers -> Entries]
  /\ swap \in [Swaps -> SwapRecords]

\* A call under way has a target and an image, and from its first step to
\* the rename a temporary file, which is as far as the call is.
Progress(s) ==
  LET w == swap[s] IN
  /\ w.at \notin Holding \cup {"renamed"} => w.temp = NoFile
  /\ w.at \in {"asked", "placed", "renamed"} \cup Holding =>
       w.file \in Files /\ w.image \in Images
  /\ w.at \in Holding => w.temp \in Numbers /\ temps[w.temp] # Missing
  /\ w.at \in {"written", "synced"} => temps[w.temp].image = w.image
  /\ w.at = "synced" => temps[w.temp].synced

\* No two calls write one temporary file.
OwnTemps ==
  \A s, t \in Swaps :
    s # t /\ swap[s].at \in Holding /\ swap[t].at \in Holding => swap[s].temp # swap[t].temp

SwapInv ==
  /\ SwapTypes
  /\ \A s \in Swaps : Progress(s)
  /\ OwnTemps

\* A call has its directory from the moment it was made, and a directory
\* that is not there holds nothing.
DirInv ==
  /\ dirs \in [Dirs -> {"missing", "made", "durable", "lost"}]
  /\ \A s \in Swaps :
       swap[s].at \in {"placed", "renamed"} \cup Holding =>
         dirs[DirOf[swap[s].file]] \notin {"missing", "lost"}
  /\ \A f \in Files :
       dirs[DirOf[f]] \in {"missing", "lost"} => named[f] = Missing /\ older[f] = {}

JobRecords == [at : Underway \cup {"idle", "done", "failed"},
               commit : Commits \cup {NoCommit}, skip : BOOLEAN,
               todo : SUBSET Files, file : Files \cup {NoFile},
               fetch : SUBSET Blobs, image : SUBSET Blobs,
               awaited : SUBSET Files]

\* What a clone is about to ask a swap to write.
JobTypes ==
  /\ job \in [Clones -> JobRecords]
  /\ \A c \in Clones : job[c].at \in Underway => job[c].commit \in Commits

CloneInv == SwapInv /\ DirInv /\ JobTypes
-----------------------------------------------------------------------------
(* Preservation of SwapInv: one lemma per system call. *)

LEMMA InvInitially == CloneInit => CloneInv
  <1> SUFFICES ASSUME CloneInit PROVE CloneInv
    OBVIOUS
  <1>1. SwapTypes
    BY DEF CloneInit, SwapInit, SwapTypes, WholeEntries, Entries, Missing, Entry, Waiting,
           SwapRecords, Phases, Finished
  <1>2. \A s \in Swaps : swap[s].at = "idle" /\ swap[s].temp = NoFile
    BY DEF CloneInit, SwapInit, Waiting
  <1>3. (\A s \in Swaps : Progress(s)) /\ OwnTemps
    BY <1>2 DEF Progress, OwnTemps, Holding
  <1>4. JobTypes
    BY DEF CloneInit, JobTypes, JobRecords, NotCalled, NoCommit, Underway
  <1>5. DirInv
    BY <1>2, SwapAssumption DEF CloneInit, SwapInit, DirInv, Holding
  <1>6. QED
    BY <1>1, <1>3, <1>4, <1>5 DEF CloneInv, SwapInv

\* A step of one call, which leaves the temporary files of the others alone.
LEMMA OneMoves ==
  ASSUME SwapInv, NEW s \in Swaps, SwapTypes', Progress(s)',
         \A t \in Swaps \ {s} :
           /\ swap'[t] = swap[t]
           /\ swap[t].at \in Holding =>
                temps'[swap[t].temp] = temps[swap[t].temp] /\ swap[t].temp # swap'[s].temp
  PROVE  SwapInv'
  <1>1. ASSUME NEW t \in Swaps PROVE Progress(t)'
    BY DEF SwapInv, Progress, Holding
  <1>2. OwnTemps'
    BY DEF SwapInv, OwnTemps
  <1>3. QED
    BY <1>1, <1>2 DEF SwapInv

LEMMA AskPreserves ==
  ASSUME SwapInv, NEW s \in Swaps, NEW f \in Files, NEW i \in Images, Ask(s, f, i)
  PROVE  SwapInv'
  <1>1. /\ swap' \in [Swaps -> SwapRecords]
        /\ swap'[s] = [swap[s] EXCEPT !.at = "asked", !.file = f, !.image = i]
        /\ \A t \in Swaps \ {s} : swap'[t] = swap[t]
    BY DEF SwapInv, Ask, SwapTypes, SwapRecords, Phases
  <1>2. SwapTypes'
    BY <1>1 DEF SwapInv, SwapTypes, Ask, fileVars
  <1>3. Progress(s)'
    BY <1>1, SwapAssumption DEF SwapInv, SwapTypes, SwapRecords, Progress, Ask, Holding
  <1>4. QED
    BY <1>1, <1>2, <1>3, OneMoves, SwapAssumption DEF SwapInv, SwapTypes, SwapRecords, Progress, Ask, Holding

LEMMA PlacePreserves ==
  ASSUME SwapInv, NEW s \in Swaps, MakeDir(s)
  PROVE  SwapInv'
  <1>1. swap' = [swap EXCEPT ![s] = [swap[s] EXCEPT !.at = "placed"]]
    BY DEF MakeDir, GoTo
  <1>2. [swap[s] EXCEPT !.at = "placed"] \in SwapRecords
    BY DEF SwapInv, SwapTypes, SwapRecords, Phases
  <1>3. /\ swap' \in [Swaps -> SwapRecords]
        /\ swap'[s] = [swap[s] EXCEPT !.at = "placed"]
        /\ \A t \in Swaps \ {s} : swap'[t] = swap[t]
    BY <1>1, <1>2 DEF SwapInv, SwapTypes
  <1>4. SwapTypes'
    BY <1>3 DEF SwapInv, SwapTypes, MakeDir
  <1>5. Progress(s)'
    BY <1>3 DEF SwapInv, SwapTypes, SwapRecords, Progress, MakeDir, Holding
  <1>6. swap[s].temp = NoFile /\ swap'[s].temp = NoFile
    BY <1>3 DEF SwapInv, SwapTypes, SwapRecords, Progress, MakeDir, Holding
  <1>7. \A t \in Swaps : swap[t].at \in Holding => swap[t].temp \in Numbers
    BY DEF SwapInv, Progress
  <1>8. temps' = temps /\ NoFile \notin Numbers
    BY SwapAssumption DEF MakeDir
  <1>9. QED
    BY <1>3, <1>4, <1>5, <1>6, <1>7, <1>8, OneMoves

LEMMA CreatePreserves ==
  ASSUME SwapInv, NEW s \in Swaps, CreateTemp(s)
  PROVE  SwapInv'
  <1>1. PICK n \in Numbers :
          /\ temps[n] = Missing
          /\ temps' = [temps EXCEPT ![n] = Entry(Torn, FALSE)]
          /\ swap' = [swap EXCEPT ![s] = [@ EXCEPT !.at = "created", !.temp = n]]
    BY DEF CreateTemp
  <1>2. /\ swap' \in [Swaps -> SwapRecords]
        /\ swap'[s] = [swap[s] EXCEPT !.at = "created", !.temp = n]
        /\ \A t \in Swaps \ {s} : swap'[t] = swap[t]
    BY <1>1 DEF SwapInv, SwapTypes, SwapRecords, Phases, Holding
  <1>3. temps' \in [Numbers -> Entries] /\ temps'[n] = Entry(Torn, FALSE)
    BY <1>1 DEF SwapInv, SwapTypes, Entries, Entry
  <1>4. SwapTypes'
    BY <1>2, <1>3 DEF SwapInv, SwapTypes, CreateTemp, SwapRecords, fileVars
  <1>5. Progress(s)'
    BY <1>2, <1>3 DEF SwapInv, SwapTypes, SwapRecords, Progress, CreateTemp, Holding, Missing, Entry
  <1>6. \A t \in Swaps : swap[t].at \in Holding => swap[t].temp # n /\ swap[t].temp \in Numbers
    BY <1>1 DEF SwapInv, Progress
  <1>7. QED
    BY <1>1, <1>2, <1>4, <1>5, <1>6, OneMoves DEF SwapInv, SwapTypes, SwapRecords

\* Writing and syncing leave the call with its temporary file.
LEMMA FillPreserves ==
  ASSUME SwapInv, NEW s \in Swaps, WriteTemp(s) \/ SyncTemp(s)
  PROVE  SwapInv'
  <1> DEFINE n == swap[s].temp
  <1>1. swap[s].at \in Holding /\ n \in Numbers /\ swap[s].image \in Images
    BY DEF SwapInv, Progress, WriteTemp, SyncTemp, Holding
  <1> HIDE DEF n
  <1>2. /\ swap' \in [Swaps -> SwapRecords]
        /\ \E p \in {"written", "synced"} : swap'[s] = [swap[s] EXCEPT !.at = p]
        /\ \A t \in Swaps \ {s} : swap'[t] = swap[t]
    <2>1. PICK p \in {"written", "synced"} : GoTo(s, p)
      BY DEF WriteTemp, SyncTemp
    <2>2. swap' = [swap EXCEPT ![s] = [swap[s] EXCEPT !.at = p]]
      BY <2>1 DEF GoTo
    <2>3. [swap[s] EXCEPT !.at = p] \in SwapRecords
      BY DEF SwapInv, SwapTypes, SwapRecords, Phases, Holding
    <2>4. QED
      BY <2>2, <2>3 DEF SwapInv, SwapTypes
  <1>3. /\ temps' \in [Numbers -> Entries]
        /\ \A m \in Numbers \ {n} : temps'[m] = temps[m]
    <2>1. PICK e \in Entries : temps' = [temps EXCEPT ![n] = e]
      BY <1>1 DEF SwapInv, SwapTypes, Entries, Entry, WriteTemp, SyncTemp, n
    <2>2. QED
      BY <2>1 DEF SwapInv, SwapTypes
  <1>4. /\ temps'[n].image = swap[s].image
        /\ SyncTemp(s) => temps'[n].synced
    BY <1>1 DEF SwapInv, SwapTypes, Entries, Entry, Progress, WriteTemp, SyncTemp, n
  <1>5. SwapTypes'
    BY <1>2, <1>3 DEF SwapInv, SwapTypes, WriteTemp, SyncTemp, SwapRecords, fileVars
  <1>6. swap'[s].at = "synced" => SyncTemp(s)
    BY DEF SwapInv, SwapTypes, SwapRecords, WriteTemp, SyncTemp, GoTo
  <1>7. Progress(s)'
    BY <1>1, <1>2, <1>4, <1>6, SwapAssumption
    DEF SwapInv, SwapTypes, SwapRecords, Progress, Holding, Missing, Entry, n
  <1>8. \A t \in Swaps \ {s} :
          swap[t].at \in Holding => swap[t].temp # n /\ swap[t].temp \in Numbers
    BY <1>1 DEF SwapInv, Progress, OwnTemps, n
  <1>9. swap'[s].temp = n
    BY <1>2 DEF SwapInv, SwapTypes, SwapRecords, n
  <1>10. QED
    BY <1>2, <1>3, <1>5, <1>7, <1>8, <1>9, OneMoves

\* What a rename installs is the image of its call, synced.
LEMMA RenameInstalls ==
  ASSUME SwapInv, NEW s \in Swaps, Rename(s)
  PROVE  /\ swap[s].file \in Files /\ swap[s].image \in Images /\ swap[s].temp \in Numbers
         /\ temps[swap[s].temp] = Entry(swap[s].image, TRUE)
  <1>1. /\ swap[s].file \in Files /\ swap[s].image \in Images /\ swap[s].temp \in Numbers
        /\ temps[swap[s].temp].image = swap[s].image /\ temps[swap[s].temp].synced
    BY DEF SwapInv, Progress, Rename, Holding
  <1>2. temps[swap[s].temp] \in Entries
    BY <1>1 DEF SwapInv, SwapTypes
  <1>3. QED
    BY <1>1, <1>2 DEF Entries, Entry

LEMMA RenamePreserves ==
  ASSUME SwapInv, NEW s \in Swaps, Rename(s)
  PROVE  SwapInv'
  <1> DEFINE f == swap[s].file
             n == swap[s].temp
             e == Entry(swap[s].image, TRUE)
  <1>1. f \in Files /\ n \in Numbers /\ temps[n] = e /\ e \in WholeEntries
    BY RenameInstalls DEF WholeEntries, Entry
  <1>2. /\ named' = [named EXCEPT ![f] = e]
        /\ older' = [older EXCEPT ![f] = older[f] \cup {named[f]}]
        /\ temps' = [temps EXCEPT ![n] = Missing]
        /\ swap' = [swap EXCEPT ![s] = [swap[s] EXCEPT !.at = "renamed"]]
    BY <1>1 DEF Rename, GoTo
  <1>3. /\ swap' \in [Swaps -> SwapRecords]
        /\ swap'[s] = [swap[s] EXCEPT !.at = "renamed"]
        /\ \A t \in Swaps \ {s} : swap'[t] = swap[t]
    BY <1>2 DEF SwapInv, SwapTypes, SwapRecords, Phases
  <1>4. named' \in [Files -> WholeEntries] /\ older' \in [Files -> SUBSET WholeEntries]
    BY <1>1, <1>2 DEF SwapInv, SwapTypes
  <1>5. temps' \in [Numbers -> Entries]
    BY <1>2 DEF SwapInv, SwapTypes, Entries, Missing, Entry
  <1>6. SwapTypes'
    BY <1>3, <1>4, <1>5 DEF SwapTypes, SwapRecords, WholeEntries, Entries
  <1>7. Progress(s)'
    <2>1. swap[s] \in SwapRecords
      BY DEF SwapInv, SwapTypes
    <2>2. /\ swap'[s].at = "renamed" /\ swap'[s].file = swap[s].file
          /\ swap'[s].image = swap[s].image
      BY <1>3, <2>1 DEF SwapRecords
    <2>3. QED
      BY <2>2, RenameInstalls DEF Progress, Holding
  <1>8. \A t \in Swaps \ {s} :
          swap[t].at \in Holding => swap[t].temp # n /\ swap[t].temp \in Numbers
    BY DEF SwapInv, Progress, OwnTemps, Rename, Holding
  <1>9. swap'[s].temp = n
    BY <1>3 DEF SwapInv, SwapTypes, SwapRecords
  <1>10. QED
    BY <1>2, <1>3, <1>6, <1>7, <1>8, <1>9, OneMoves DEF SwapInv, SwapTypes

\* A call that ends gives its record up.
LEMMA EndsIn ==
  ASSUME SwapInv, NEW s \in Swaps, NEW how \in {"done", "failed"}, End(s, how)
  PROVE  /\ swap' \in [Swaps -> SwapRecords]
         /\ swap'[s].at = how /\ swap'[s].temp = NoFile
         /\ \A t \in Swaps \ {s} : swap'[t] = swap[t]
  <1>1. [Waiting EXCEPT !.at = how] \in SwapRecords
    BY DEF Waiting, SwapRecords, Phases, Finished
  <1>2. swap' = [swap EXCEPT ![s] = [Waiting EXCEPT !.at = how]]
    BY DEF End
  <1>3. QED
    BY <1>1, <1>2 DEF SwapInv, SwapTypes, Waiting

LEMMA SyncDirPreserves ==
  ASSUME SwapInv, NEW s \in Swaps, SyncDir(s)
  PROVE  SwapInv'
  <1>1. /\ swap' \in [Swaps -> SwapRecords]
        /\ swap'[s].at = "done" /\ swap'[s].temp = NoFile
        /\ \A t \in Swaps \ {s} : swap'[t] = swap[t]
    BY EndsIn DEF SyncDir
  <1>2. SwapTypes'
    BY <1>1 DEF SwapInv, SwapTypes, SyncDir, SwapRecords, WholeEntries, Entries
  <1>3. Progress(s)'
    BY <1>1 DEF Progress, Holding
  <1>4. QED
    BY <1>1, <1>2, <1>3, OneMoves, SwapAssumption DEF SwapInv, Progress, SyncDir

LEMMA FailPreserves ==
  ASSUME SwapInv, NEW s \in Swaps, FailSwap(s)
  PROVE  SwapInv'
  <1>1. /\ swap' \in [Swaps -> SwapRecords]
        /\ swap'[s].at = "failed" /\ swap'[s].temp = NoFile
        /\ \A t \in Swaps \ {s} : swap'[t] = swap[t]
    BY EndsIn DEF FailSwap
  <1>2. temps' \in [Numbers -> Entries]
    BY DEF SwapInv, SwapTypes, FailSwap, Entries, Missing, Entry
  <1>3. SwapTypes'
    BY <1>1, <1>2 DEF SwapInv, SwapTypes, FailSwap, SwapRecords, WholeEntries, Entries, fileVars
  <1>4. Progress(s)'
    BY <1>1 DEF Progress, Holding
  <1>5. \A t \in Swaps \ {s} :
          swap[t].at \in Holding => swap[t].temp \in Numbers /\ swap[t].temp # NoFile
                                    /\ temps'[swap[t].temp] = temps[swap[t].temp]
    <2>1. \A t \in Swaps : swap[t].at \in Holding => swap[t].temp \in Numbers
      BY DEF SwapInv, Progress
    <2>2. swap[s].at = "renamed" \/ swap[s].at \in Holding \/ swap[s].temp = NoFile
      BY DEF SwapInv, Progress
    <2>3. QED
      BY <2>1, <2>2, SwapAssumption DEF SwapInv, SwapTypes, OwnTemps, FailSwap, Holding
  <1>6. QED
    BY <1>1, <1>3, <1>4, <1>5, OneMoves

\* A kill leaves the temporary files of its calls to nobody.
LEMMA KillPreserves ==
  ASSUME SwapInv, NEW S \in SUBSET Swaps, swap' = Killed(S),
         UNCHANGED <<named, older, temps>>
  PROVE  SwapInv'
  <1>1. /\ swap' \in [Swaps -> SwapRecords]
        /\ \A t \in Swaps : \/ swap'[t] = swap[t]
                            \/ swap'[t].at = "killed" /\ swap'[t].temp = NoFile
    BY DEF SwapInv, SwapTypes, Killed, Waiting, SwapRecords, Phases, Finished
  <1>2. SwapTypes'
    BY <1>1 DEF SwapInv, SwapTypes, SwapRecords, WholeEntries, Entries
  <1>3. ASSUME NEW t \in Swaps PROVE Progress(t)'
    BY <1>1 DEF SwapInv, Progress, Holding
  <1>4. OwnTemps'
    BY <1>1 DEF SwapInv, OwnTemps, Holding
  <1>5. QED
    BY <1>2, <1>3, <1>4 DEF SwapInv

\* Nothing that has a name is torn by a power loss: it was synced before.
LEMMA NamedSurvive ==
  ASSUME SwapTypes, NEW f \in Files, NEW e \in older[f] \cup {named[f]}
  PROVE  e \in WholeEntries /\ Survives(e) = e
  <1>1. e \in WholeEntries
    BY DEF SwapTypes
  <1>2. e.synced = TRUE
    BY <1>1 DEF WholeEntries
  <1>3. QED
    BY <1>1, <1>2 DEF Survives

LEMMA LossPreserves ==
  ASSUME SwapInv, LoseCaches, swap' = Killed(Swaps)
  PROVE  SwapInv'
  <1>1. \A t \in Swaps : swap'[t].at \in Finished
    BY DEF SwapInv, SwapTypes, Killed, Waiting, SwapRecords, Phases, Finished
  <1>2. swap' \in [Swaps -> SwapRecords]
    BY DEF SwapInv, SwapTypes, Killed, Waiting, SwapRecords, Phases, Finished
  <1>3. \A t \in Swaps : swap'[t].temp = NoFile
    BY DEF SwapInv, SwapTypes, Progress, Killed, Waiting, Holding, Finished
  <1>4. named' \in [Files -> WholeEntries]
    <2>1. ASSUME NEW D, NEW f \in Files, NEW e \in Leftovers(f, D) PROVE e \in WholeEntries
      <3>1. Missing \in WholeEntries
        BY DEF Missing, Entry, WholeEntries
      <3>2. \A g \in older[f] \cup {named[f]} : Survives(g) \in WholeEntries
        BY NamedSurvive DEF SwapInv
      <3>3. QED
        BY <2>1, <3>1, <3>2 DEF Leftovers
    <2>2. PICK D : /\ named' \in [Files -> UNION {Leftovers(f, D) : f \in Files}]
                   /\ \A f \in Files : named'[f] \in Leftovers(f, D)
      BY DEF LoseCaches
    <2>3. QED
      BY <2>1, <2>2
  <1>5. older' \in [Files -> SUBSET WholeEntries] /\ temps' \in [Numbers -> Entries]
    <2>1. \A n \in Numbers : Missing \in Entries /\ Survives(temps[n]) \in Entries
      BY DEF SwapInv, SwapTypes, Survives, Missing, Entry, Entries
    <2>2. /\ temps' \in [Numbers -> {Missing} \cup {Survives(temps[n]) : n \in Numbers}]
          /\ older' = [f \in Files |-> {}]
      BY DEF LoseCaches
    <2>3. QED
      BY <2>1, <2>2
  <1>6. SwapTypes'
    BY <1>2, <1>4, <1>5 DEF SwapTypes, SwapRecords, WholeEntries, Entries
  <1>7. (\A t \in Swaps : Progress(t)') /\ OwnTemps'
    BY <1>1, <1>3 DEF Progress, OwnTemps, Holding, Finished
  <1>8. QED
    BY <1>6, <1>7 DEF SwapInv

-----------------------------------------------------------------------------
(* Preservation of CloneInv: a clone asks for what has its types. *)

\* One call goes on, or ends.
LEMMA JobMoves ==
  ASSUME JobTypes, NEW c \in Clones, NEW j \in JobRecords, Await(c, j),
         j.at \in Underway => j.commit \in Commits
  PROVE  JobTypes'
  <1>1. job' = [job EXCEPT ![c] = j]
    BY DEF Await
  <1>2. job \in [Clones -> JobRecords]
    BY DEF JobTypes, JobRecords
  <1>3. job' \in [Clones -> JobRecords]
    BY <1>1, <1>2
  <1>4. \A d \in Clones : job'[d].at \in Underway => job'[d].commit \in Commits
    BY <1>1, <1>2 DEF JobTypes
  <1>5. QED
    BY <1>3, <1>4 DEF JobTypes, JobRecords

LEMMA JobStops ==
  ASSUME JobTypes, NEW c \in Clones, NEW how \in {"done", "failed"}, Stop(c, how)
  PROVE  JobTypes'
  <1> DEFINE j == [NotCalled EXCEPT !.at = how]
  <1>1. j \in JobRecords /\ j.at = how
    BY DEF JobRecords, NotCalled, NoCommit
  <1>2. Await(c, j)
    BY DEF Stop
  <1> HIDE DEF j
  <1>3. QED
    BY <1>1, <1>2, JobMoves DEF Underway

LEMMA JobStays ==
  ASSUME JobTypes, UNCHANGED job
  PROVE  JobTypes'
  BY DEF JobTypes

LEMMA PlanTyped ==
  ASSUME JobTypes, NEW c \in Clones, BeginClone(c) \/ LookupPlan(c) \/ ReadPlan(c)
  PROVE  JobTypes'
  <1>1. job[c] \in JobRecords /\ (job[c].at \in Underway => job[c].commit \in Commits)
    BY DEF JobTypes, JobRecords
  <1>2. CASE BeginClone(c)
    <2>1. CASE ~ TargetEmpty
      BY <1>2, <2>1, JobStops DEF BeginClone
    <2>2. CASE TargetEmpty
      <3>1. PICK k \in Commits, skip \in BOOLEAN :
              Await(c, [NotCalled EXCEPT !.at = "empty", !.commit = k, !.skip = skip])
        BY <1>2, <2>2 DEF BeginClone
      <3>2. /\ [NotCalled EXCEPT !.at = "empty", !.commit = k, !.skip = skip] \in JobRecords
            /\ [NotCalled EXCEPT !.at = "empty", !.commit = k, !.skip = skip].commit = k
        BY DEF JobRecords, NotCalled, NoCommit, Underway
      <3>3. QED
        BY <3>1, <3>2, JobMoves
    <2>3. QED
      BY <2>1, <2>2
  <1>3. CASE LookupPlan(c)
    <2>1. [job[c] EXCEPT !.at = "found"] \in JobRecords
      BY <1>1 DEF JobRecords, Underway
    <2>2. [job[c] EXCEPT !.at = "found"].commit = job[c].commit
      BY <1>1 DEF JobRecords
    <2>3. job[c].commit \in Commits
      BY <1>1, <1>3 DEF LookupPlan, Underway
    <2>4. QED
      BY <1>3, <2>1, <2>2, <2>3, JobMoves, JobStops DEF LookupPlan
  <1>4. CASE ReadPlan(c)
    <2> DEFINE T == {f \in Selection[c] : /\ job[c].commit \in stored
                                          /\ Content[job[c].commit][f] # {}}
               j == [job[c] EXCEPT !.at = "building", !.todo = T]
    <2>1. T \subseteq Files
      BY CloneAssumption
    <2>2. Await(c, j)
      BY <1>4 DEF ReadPlan
    <2> HIDE DEF T
    <2>3. j \in JobRecords /\ j.commit = job[c].commit
      BY <1>1, <2>1 DEF JobRecords, Underway
    <2>4. job[c].commit \in Commits
      BY <1>1, <1>4 DEF ReadPlan, Underway
    <2> HIDE DEF j
    <2>5. QED
      BY <2>2, <2>3, <2>4, JobMoves
  <1>5. QED
    BY <1>2, <1>3, <1>4

LEMMA FilesTyped ==
  ASSUME JobTypes, NEW c \in Clones,
         BeginFile(c) \/ FetchBlob(c) \/ QueueFile(c) \/ CollectFile(c)
  PROVE  JobTypes'
  <1>1. job[c] \in JobRecords /\ (job[c].at \in Underway => job[c].commit \in Commits)
    BY DEF JobTypes, JobRecords
  <1>2. CASE BeginFile(c)
    <2>1. PICK f \in job[c].todo :
            Await(c, [job[c] EXCEPT !.file = f, !.fetch = Content[job[c].commit][f],
                                    !.image = {}])
      BY <1>2 DEF BeginFile
    <2>2. f \in Files /\ job[c].commit \in Commits
      BY <1>1, <1>2 DEF BeginFile, JobRecords, Underway
    <2>3. Content[job[c].commit][f] \subseteq Blobs
      BY <2>2, CloneAssumption
    <2> DEFINE j == [job[c] EXCEPT !.file = f, !.fetch = Content[job[c].commit][f],
                                   !.image = {}]
    <2>4. j \in JobRecords /\ j.commit = job[c].commit
      BY <1>1, <2>2, <2>3 DEF JobRecords
    <2> HIDE DEF j
    <2>5. Await(c, j)
      BY <2>1 DEF j
    <2>6. QED
      BY <2>2, <2>4, <2>5, JobMoves
  <1>3. CASE FetchBlob(c)
    <2>1. PICK b \in job[c].fetch :
            \/ Await(c, [job[c] EXCEPT !.fetch = @ \ {b}, !.image = @ \cup {b}])
            \/ Await(c, [job[c] EXCEPT !.fetch = @ \ {b}])
            \/ Stop(c, "failed")
      BY <1>3 DEF FetchBlob
    <2> DEFINE j == [job[c] EXCEPT !.fetch = @ \ {b}, !.image = @ \cup {b}]
               i == [job[c] EXCEPT !.fetch = @ \ {b}]
    <2>2. /\ j \in JobRecords /\ j.commit = job[c].commit /\ j.at = job[c].at
          /\ i \in JobRecords /\ i.commit = job[c].commit /\ i.at = job[c].at
      BY <1>1 DEF JobRecords
    <2>3. Await(c, j) \/ Await(c, i) \/ Stop(c, "failed")
      BY <2>1
    <2> HIDE DEF i, j
    <2>4. QED
      BY <1>1, <2>2, <2>3, JobMoves, JobStops
  <1>4. CASE QueueFile(c)
    <2> DEFINE j == [job[c] EXCEPT !.todo = @ \ {job[c].file}, !.file = NoFile,
                                   !.awaited = @ \cup {job[c].file}]
    <2>1. job[c].file \in Files
      BY <1>1, <1>4 DEF QueueFile, JobRecords
    <2>2. j \in JobRecords /\ j.commit = job[c].commit /\ j.at = job[c].at
      BY <1>1, <2>1 DEF JobRecords
    <2>3. Await(c, j)
      BY <1>4 DEF QueueFile
    <2> HIDE DEF j
    <2>4. QED
      BY <1>1, <2>2, <2>3, JobMoves
  <1>5. CASE CollectFile(c)
    <2>1. PICK f \in job[c].awaited :
            Await(c, [job[c] EXCEPT !.awaited = @ \ {f}]) \/ Stop(c, "failed")
      BY <1>5 DEF CollectFile
    <2> DEFINE j == [job[c] EXCEPT !.awaited = @ \ {f}]
    <2>2. j \in JobRecords /\ j.commit = job[c].commit /\ j.at = job[c].at
      BY <1>1 DEF JobRecords
    <2>3. Await(c, j) \/ Stop(c, "failed")
      BY <2>1
    <2> HIDE DEF j
    <2>4. QED
      BY <1>1, <2>2, <2>3, JobMoves, JobStops
  <1>6. QED
    BY <1>2, <1>3, <1>4, <1>5

LEMMA EndsTyped ==
  ASSUME JobTypes, NEW c \in Clones, ReturnReport(c) \/ LeaveClone(c) \/ KillClone(c)
  PROVE  JobTypes'
  <1>1. CASE ReturnReport(c)
    <2> DEFINE j == [job[c] EXCEPT !.at = "done"]
    <2>1. j \in JobRecords /\ j.at = "done"
      BY DEF JobTypes, JobRecords
    <2>2. Await(c, j)
      BY <1>1 DEF ReturnReport
    <2> HIDE DEF j
    <2>3. QED
      BY <2>1, <2>2, JobMoves DEF Underway
  <1>2. QED
    BY <1>1, JobStops, JobStays DEF LeaveClone, KillClone

LEMMA LossTyped ==
  ASSUME JobTypes, PowerLoss
  PROVE  JobTypes'
  <1>1. [NotCalled EXCEPT !.at = "failed"] \in JobRecords
        /\ [NotCalled EXCEPT !.at = "failed"].at = "failed"
    BY DEF JobRecords, NotCalled, NoCommit
  <1>2. job' = [c \in Clones |-> IF job[c].at \in Underway
                                 THEN [NotCalled EXCEPT !.at = "failed"] ELSE job[c]]
    BY DEF PowerLoss
  <1>3. job \in [Clones -> JobRecords]
    BY DEF JobTypes, JobRecords
  <1>4. job' \in [Clones -> JobRecords]
    BY <1>1, <1>2, <1>3
  <1>5. \A c \in Clones : job'[c].at \notin Underway
    BY <1>1, <1>2 DEF Underway
  <1>6. QED
    BY <1>4, <1>5 DEF JobTypes, JobRecords

LEMMA SwapStepPreserves ==
  ASSUME SwapInv, NEW s \in Swaps, SwapStep(s)
  PROVE  SwapInv'
  BY PlacePreserves, CreatePreserves, FillPreserves, RenamePreserves, SyncDirPreserves, FailPreserves
  DEF SwapStep

\* Nothing is written, removed or asked for.
LEMMA SwapsStay ==
  ASSUME SwapInv, UNCHANGED swapVars
  PROVE  SwapInv'
  BY DEF SwapInv, SwapTypes, Progress, OwnTemps, swapVars, fileVars, SwapRecords, WholeEntries,
         Entries

LEMMA CloneStepPreserves ==
  ASSUME CloneInv, NEW c \in Clones, CloneStep(c)
  PROVE  SwapInv' /\ JobTypes'
  <1>1. JobTypes'
    BY PlanTyped, FilesTyped, EndsTyped DEF CloneInv, CloneStep
  <1>2. CASE QueueFile(c)
    <2>1. job[c].file \in Files /\ job[c].image \in Images /\ <<c, job[c].file>> \in Swaps
      BY <1>2, CloneAssumption DEF CloneInv, JobTypes, JobRecords, QueueFile
    <2>2. QED
      BY <1>1, <1>2, <2>1, AskPreserves DEF CloneInv, QueueFile
  <1>3. CASE KillClone(c)
    <2>1. StepsOf(c) \in SUBSET Swaps
      BY DEF StepsOf
    <2>2. QED
      BY <1>1, <1>3, <2>1, KillPreserves DEF CloneInv, KillClone, fileVars
  <1>4. CASE UNCHANGED swapVars
    BY <1>1, <1>4, SwapsStay DEF CloneInv
  <1>5. QED
    BY <1>2, <1>3, <1>4
    DEF CloneStep, BeginClone, LookupPlan, ReadPlan, BeginFile, FetchBlob, CollectFile,
        ReturnReport, LeaveClone

-----------------------------------------------------------------------------
(* Preservation of DirInv: nobody takes a directory away but a power loss. *)

Placed == {"placed", "renamed"} \cup Holding

\* Nothing on the disk changes, and no call reaches its directory.
LEMMA DirsKept ==
  ASSUME DirInv, UNCHANGED fileVars,
         \A s \in Swaps : swap'[s].at \in Placed =>
           swap[s].at \in Placed /\ swap'[s].file = swap[s].file
  PROVE  DirInv'
  BY DEF DirInv, fileVars, Placed

LEMMA MakeDirKeeps ==
  ASSUME SwapInv, DirInv, NEW s \in Swaps, MakeDir(s)
  PROVE  DirInv'
  <1> DEFINE d == DirOf[swap[s].file]
  <1>1. d \in Dirs
    BY SwapAssumption DEF SwapInv, Progress, MakeDir
  <1>2. dirs' = [dirs EXCEPT ![d] = IF dirs[d] \in {"missing", "lost"} THEN "made" ELSE dirs[d]]
    BY DEF MakeDir
  <1>3. /\ dirs' \in [Dirs -> {"missing", "made", "durable", "lost"}]
        /\ dirs'[d] \notin {"missing", "lost"}
        /\ \A e \in Dirs \ {d} : dirs'[e] = dirs[e]
    BY <1>1, <1>2 DEF DirInv
  <1>4. /\ swap'[s].at = "placed" /\ swap'[s].file = swap[s].file
        /\ \A t \in Swaps \ {s} : swap'[t] = swap[t]
    BY DEF SwapInv, SwapTypes, SwapRecords, MakeDir, GoTo
  <1>5. \A t \in Swaps : swap[t].at \in Placed => DirOf[swap[t].file] \in Dirs
    BY SwapAssumption DEF SwapInv, Progress, Placed
  <1> HIDE DEF d
  <1>6. ASSUME NEW t \in Swaps, swap'[t].at \in Placed
        PROVE  dirs'[DirOf[swap'[t].file]] \notin {"missing", "lost"}
    <2>1. CASE t = s
      BY <1>3, <1>4, <2>1 DEF d
    <2>2. CASE t # s
      BY <1>3, <1>4, <1>5, <1>6, <2>2 DEF DirInv, Placed
    <2>3. QED
      BY <2>1, <2>2
  <1>7. ASSUME NEW f \in Files, dirs'[DirOf[f]] \in {"missing", "lost"}
        PROVE  dirs[DirOf[f]] \in {"missing", "lost"}
    BY <1>3, <1>7, SwapAssumption
  <1>8. UNCHANGED <<named, older>>
    BY DEF MakeDir
  <1>9. QED
    BY <1>3, <1>6, <1>7, <1>8 DEF DirInv, Placed

LEMMA SwapStepKeeps ==
  ASSUME SwapInv, DirInv, NEW s \in Swaps, SwapStep(s)
  PROVE  DirInv'
  <1>1. CASE MakeDir(s)
    BY <1>1, MakeDirKeeps
  <1>2. CASE CreateTemp(s) \/ WriteTemp(s) \/ SyncTemp(s) \/ FailSwap(s)
    <2>1. UNCHANGED fileVars
      BY <1>2 DEF CreateTemp, WriteTemp, SyncTemp, FailSwap
    <2>2. \A t \in Swaps \ {s} : swap'[t] = swap[t]
      BY <1>2 DEF SwapInv, SwapTypes, CreateTemp, WriteTemp, SyncTemp, FailSwap, GoTo, End
    <2>3. swap'[s].at \in Placed => swap[s].at \in Placed /\ swap'[s].file = swap[s].file
      <3>1. swap[s] \in SwapRecords /\ swap \in [Swaps -> SwapRecords]
        BY DEF SwapInv, SwapTypes
      <3>2. CASE CreateTemp(s)
        BY <3>1, <3>2 DEF CreateTemp, SwapRecords, Placed
      <3>3. CASE WriteTemp(s) \/ SyncTemp(s)
        BY <3>1, <3>3 DEF WriteTemp, SyncTemp, GoTo, SwapRecords, Placed, Holding
      <3>4. CASE FailSwap(s)
        BY <3>1, <3>4 DEF FailSwap, End, Waiting, Placed, Holding
      <3>5. QED
        BY <1>2, <3>2, <3>3, <3>4
    <2>4. QED
      BY <2>1, <2>2, <2>3, DirsKept
  <1>3. CASE Rename(s)
    <2> DEFINE f == swap[s].file
    <2>1. f \in Files /\ dirs[DirOf[f]] \notin {"missing", "lost"}
      BY <1>3, RenameInstalls DEF DirInv, Rename, Holding
    <2>2. dirs' = dirs /\ \A g \in Files \ {f} : named'[g] = named[g] /\ older'[g] = older[g]
      BY <1>3 DEF SwapInv, SwapTypes, Rename
    <2>3. /\ swap[s].at \in Placed /\ swap'[s].file = swap[s].file
          /\ \A t \in Swaps \ {s} : swap'[t] = swap[t]
      BY <1>3 DEF SwapInv, SwapTypes, SwapRecords, Rename, GoTo, Placed, Holding
    <2> HIDE DEF f
    <2>4. QED
      BY <2>1, <2>2, <2>3 DEF DirInv, Placed
  <1>4. CASE SyncDir(s)
    <2>1. /\ UNCHANGED <<dirs, named>>
          /\ \A f \in Files : older'[f] = older[f] \/ older'[f] = {}
      BY <1>4 DEF SyncDir
    <2>2. /\ swap'[s].at = "done"
          /\ \A t \in Swaps \ {s} : swap'[t] = swap[t]
      BY <1>4, EndsIn DEF SyncDir
    <2>3. QED
      BY <2>1, <2>2 DEF DirInv, Holding
  <1>5. QED
    BY <1>1, <1>2, <1>3, <1>4 DEF SwapStep

LEMMA LossKeeps ==
  ASSUME SwapInv, DirInv, PowerLoss
  PROVE  DirInv'
  <1>1. PICK D \in SUBSET {d \in Dirs : dirs[d] = "made"} :
          /\ dirs' = [d \in Dirs |-> IF d \in D THEN "lost"
                                     ELSE IF dirs[d] = "made" THEN "durable" ELSE dirs[d]]
          /\ \A f \in Files : named'[f] \in Leftovers(f, D)
          /\ older' = [f \in Files |-> {}]
    BY DEF PowerLoss, LoseCaches
  <1>2. dirs' \in [Dirs -> {"missing", "made", "durable", "lost"}]
    BY <1>1 DEF DirInv
  <1>3. \A s \in Swaps : swap'[s].at \in Finished
    BY DEF PowerLoss, Killed, Waiting, Finished
  <1>4. ASSUME NEW f \in Files, dirs'[DirOf[f]] \in {"missing", "lost"}
        PROVE  named'[f] = Missing /\ older'[f] = {}
    <2>1. DirOf[f] \in Dirs
      BY SwapAssumption
    <2>2. CASE DirOf[f] \in D
      BY <1>1, <2>2 DEF Leftovers
    <2>3. CASE DirOf[f] \notin D
      <3>1. dirs[DirOf[f]] \in {"missing", "lost"}
        BY <1>1, <1>4, <2>1, <2>3
      <3>2. older[f] \cup {named[f]} = {Missing}
        BY <3>1 DEF DirInv
      <3>3. Survives(Missing) = Missing
        BY DEF Survives, Missing, Entry
      <3>4. QED
        BY <1>1, <2>3, <3>2, <3>3 DEF Leftovers
    <2>4. QED
      BY <2>2, <2>3
  <1>5. QED
    BY <1>2, <1>3, <1>4 DEF DirInv, Finished, Holding

LEMMA CloneStepKeeps ==
  ASSUME CloneInv, NEW c \in Clones, CloneStep(c)
  PROVE  DirInv'
  <1>1. CASE QueueFile(c)
    <2>1. Ask(<<c, job[c].file>>, job[c].file, job[c].image)
      BY <1>1 DEF QueueFile
    <2>2. \A t \in Swaps : swap'[t] = swap[t] \/ swap'[t].at = "asked"
      BY <2>1 DEF CloneInv, SwapInv, SwapTypes, SwapRecords, Ask
    <2>3. QED
      BY <2>1, <2>2, DirsKept DEF CloneInv, Ask, Placed, Holding
  <1>2. CASE KillClone(c)
    <2>1. \A t \in Swaps : swap'[t] = swap[t] \/ swap'[t].at = "killed"
      BY <1>2 DEF KillClone, Killed, Waiting
    <2>2. QED
      BY <1>2, <2>1, DirsKept DEF CloneInv, KillClone, Placed, Holding
  <1>3. CASE UNCHANGED swapVars
    BY <1>3, DirsKept DEF CloneInv, swapVars
  <1>4. QED
    BY <1>1, <1>2, <1>3
    DEF CloneStep, BeginClone, LookupPlan, ReadPlan, BeginFile, FetchBlob, CollectFile,
        ReturnReport, LeaveClone

LEMMA InvStep == CloneInv /\ [CloneNext]_cloneVars => CloneInv'
  <1> SUFFICES ASSUME CloneInv, [CloneNext]_cloneVars PROVE CloneInv'
    OBVIOUS
  <1>1. ASSUME NEW c \in Clones, CloneStep(c) PROVE CloneInv'
    BY <1>1, CloneStepPreserves, CloneStepKeeps DEF CloneInv
  <1>2. ASSUME NEW s \in Swaps, SwapStep(s), UNCHANGED job PROVE CloneInv'
    BY <1>2, SwapStepPreserves, SwapStepKeeps, JobStays DEF CloneInv
  <1>3. CASE PowerLoss
    BY <1>3, LossPreserves, LossKeeps, LossTyped DEF CloneInv, PowerLoss
  <1>4. CASE UNCHANGED <<swapVars, job>>
    BY <1>4, SwapsStay, DirsKept, JobStays DEF CloneInv, swapVars
  <1>5. QED
    BY <1>1, <1>2, <1>3, <1>4 DEF CloneNext, cloneVars, RetireCommit, LoseBlob

-----------------------------------------------------------------------------
(* The refinement: a rename replaces, a sync of the directory settles, a    *)
(* power loss is one, and every other step stutters.                        *)

\* What a power loss may leave of a file: an image it has had since its
\* directory was synced, or nothing when it may take that directory.
Had(f) == {Survives(e).image : e \in older[f] \cup {named[f]}}

Dropped(f) == IF dirs[DirOf[f]] = "made" THEN {NoFile} ELSE {}

LEMMA HadNow ==
  ASSUME SwapTypes, NEW f \in Files
  PROVE  named[f].image \in Had(f)
  BY NamedSurvive DEF Had

LEMMA HadNothing ==
  ASSUME NEW f \in Files, named[f] = Missing, older[f] = {}
  PROVE  Had(f) = {NoFile}
  <1>1. Survives(Missing).image = NoFile
    BY DEF Survives, Missing, Entry
  <1>2. QED
    BY <1>1 DEF Had

LEMMA InitMaps == CloneInit => Whole!Init
  <1> SUFFICES ASSUME CloneInit PROVE Whole!Init
    OBVIOUS
  <1>1. \A f \in Files : named[f] = Missing /\ older[f] = {} /\ dirs[DirOf[f]] = "missing"
    BY SwapAssumption DEF CloneInit, SwapInit
  <1>2. \A f \in Files : Had(f) = {NoFile} /\ Dropped(f) = {}
    BY <1>1, HadNothing DEF Dropped
  <1>3. \A f \in Files : named[f].image = NoFile /\ Had(f) \cup Dropped(f) = {NoFile}
    BY <1>1, <1>2 DEF Missing, Entry
  <1>4. QED
    BY <1>3 DEF Whole!Init, Had, Dropped

\* Making a directory opens to a power loss what it holds, which is nothing.
LEMMA MakeDirMaps ==
  ASSUME CloneInv, NEW s \in Swaps, MakeDir(s)
  PROVE  UNCHANGED Whole!vars
  <1> DEFINE d == DirOf[swap[s].file]
  <1>1. UNCHANGED <<named, older>>
    BY DEF MakeDir
  <1>2. \A f \in Files : Had(f)' = Had(f)
    BY <1>1 DEF Had
  <1>3. dirs' = [dirs EXCEPT ![d] = IF dirs[d] \in {"missing", "lost"} THEN "made" ELSE dirs[d]]
    BY DEF MakeDir
  <1>4. \A f \in Files : DirOf[f] \in Dirs
    BY SwapAssumption
  <1> HIDE DEF d
  <1>5. ASSUME NEW f \in Files PROVE (Had(f) \cup Dropped(f))' = Had(f) \cup Dropped(f)
    <2>1. CASE DirOf[f] = d /\ dirs[d] \in {"missing", "lost"}
      <3>1. Had(f) = {NoFile}
        BY <2>1, HadNothing DEF CloneInv, DirInv
      <3>2. Dropped(f) = {}
        BY <2>1 DEF Dropped
      <3>3. Dropped(f)' \subseteq {NoFile}
        BY DEF Dropped
      <3>4. QED
        BY <1>2, <3>1, <3>2, <3>3
    <2>2. CASE ~ (DirOf[f] = d /\ dirs[d] \in {"missing", "lost"})
      <3>1. dirs'[DirOf[f]] = dirs[DirOf[f]]
        BY <1>3, <1>4, <2>2 DEF CloneInv, DirInv
      <3>2. QED
        BY <1>2, <3>1 DEF Dropped
    <2>3. QED
      BY <2>1, <2>2
  <1>6. [f \in Files |-> Had(f) \cup Dropped(f)]' = [f \in Files |-> Had(f) \cup Dropped(f)]
    BY <1>5
  <1>7. [f \in Files |-> named[f].image]' = [f \in Files |-> named[f].image]
    BY <1>1
  <1>8. QED
    BY <1>6, <1>7 DEF Whole!vars, Had, Dropped

LEMMA RenameMaps ==
  ASSUME SwapInv, SwapInv', NEW s \in Swaps, Rename(s)
  PROVE  Whole!Replace(swap[s].file, swap[s].image)
  <1>1. PICK f \in Files, i \in Images : f = swap[s].file /\ i = swap[s].image
    BY RenameInstalls
  <1>2. named' = [named EXCEPT ![f] = Entry(i, TRUE)]
    BY <1>1, RenameInstalls DEF Rename
  <1>3. older' = [older EXCEPT ![f] = older[f] \cup {named[f]}] /\ dirs' = dirs
    BY <1>1 DEF Rename
  <1>4. named \in [Files -> WholeEntries] /\ older \in [Files -> SUBSET WholeEntries]
    BY DEF SwapInv, SwapTypes
  <1>5. [g \in Files |-> named'[g].image]
          = [[g \in Files |-> named[g].image] EXCEPT ![f] = i]
    BY <1>1, <1>2, <1>4 DEF Entry
  <1>6. \A g \in Files : /\ g # f => older'[g] = older[g] /\ named'[g] = named[g]
                         /\ older'[f] \cup {named'[f]}
                              = (older[f] \cup {named[f]}) \cup {Entry(i, TRUE)}
    BY <1>1, <1>2, <1>3, <1>4
  <1>7. Survives(Entry(i, TRUE)).image = i
    BY DEF Survives, Entry
  <1>8. Had(f)' = Had(f) \cup {i}
    <2> DEFINE S == older[f] \cup {named[f]}
    <2>1. older'[f] \cup {named'[f]} = S \cup {Entry(i, TRUE)}
      BY <1>1, <1>6
    <2>2. Had(f)' = {Survives(e).image : e \in older'[f] \cup {named'[f]}}
      BY DEF Had
    <2>3. Had(f) = {Survives(e).image : e \in S}
      BY DEF Had
    <2> HIDE DEF S
    <2>4. {Survives(e).image : e \in S \cup {Entry(i, TRUE)}} = {Survives(e).image : e \in S} \cup {i}
      BY <1>7
    <2>5. QED
      BY <2>1, <2>2, <2>3, <2>4
  <1>9. \A g \in Files : g # f => Had(g)' = Had(g)
    BY <1>6 DEF Had
  <1>10. \A g \in Files : Dropped(g)' = Dropped(g)
    BY <1>3 DEF Dropped
  <1>11. [g \in Files |-> (Had(g) \cup Dropped(g))']
          = [[g \in Files |-> Had(g) \cup Dropped(g)] EXCEPT ![f] = @ \cup {i}]
    <2>1. (Had(f) \cup Dropped(f))' = (Had(f) \cup Dropped(f)) \cup {i}
      BY <1>8, <1>10
    <2>2. \A g \in Files : g # f => (Had(g) \cup Dropped(g))' = Had(g) \cup Dropped(g)
      BY <1>9, <1>10
    <2>3. QED
      BY <2>1, <2>2
  <1>12. QED
    BY <1>1, <1>5, <1>11 DEF Whole!Replace, Had, Dropped

LEMMA SyncDirMaps ==
  ASSUME SwapInv, NEW s \in Swaps, SyncDir(s)
  PROVE  Whole!Settle
  <1>1. /\ UNCHANGED <<dirs, named>>
        /\ \A f \in Files : older'[f] = older[f] \/ older'[f] = {}
    BY DEF SyncDir
  <1>2. \A f \in Files : Survives(named[f]) = named[f]
    BY NamedSurvive DEF SwapInv
  <1>3. \A f \in Files : named[f].image \in Had(f)' /\ Had(f)' \subseteq Had(f)
    BY <1>1, <1>2 DEF Had
  <1>4. \A f \in Files : Dropped(f)' = Dropped(f)
    BY <1>1 DEF Dropped
  <1>5. \A f \in Files : /\ named[f].image \in (Had(f) \cup Dropped(f))'
                         /\ (Had(f) \cup Dropped(f))' \subseteq Had(f) \cup Dropped(f)
    BY <1>3, <1>4
  <1>6. [f \in Files |-> named[f].image]' = [f \in Files |-> named[f].image]
    BY <1>1
  <1>7. QED
    BY <1>5, <1>6 DEF Whole!Settle, Had, Dropped

LEMMA PowerLossMaps ==
  ASSUME SwapInv, DirInv, SwapInv', LoseCaches
  PROVE  Whole!PowerLoss
  <1> DEFINE F == [f \in Files |-> named'[f].image]
             K == [f \in Files |-> Had(f) \cup Dropped(f)]
  <1>1. PICK D \in SUBSET {d \in Dirs : dirs[d] = "made"} :
          /\ dirs' = [d \in Dirs |-> IF d \in D THEN "lost"
                                     ELSE IF dirs[d] = "made" THEN "durable" ELSE dirs[d]]
          /\ \A f \in Files : named'[f] \in Leftovers(f, D)
          /\ older' = [f \in Files |-> {}]
    BY DEF LoseCaches
  <1>2. \A f \in Files : F[f] \in K[f]
    <2>1. ASSUME NEW f \in Files PROVE named'[f].image \in Had(f) \cup Dropped(f)
      <3>1. CASE DirOf[f] \in D
        <4>1. named'[f] = Missing /\ dirs[DirOf[f]] = "made"
          BY <1>1, <3>1 DEF Leftovers
        <4>2. named'[f].image = NoFile
          BY <4>1 DEF Missing, Entry
        <4>3. QED
          BY <4>1, <4>2 DEF Dropped
      <3>2. CASE DirOf[f] \notin D
        BY <1>1, <3>2 DEF Leftovers, Had
      <3>3. QED
        BY <3>1, <3>2
    <2>2. QED
      BY <2>1
  <1>3. F \in [Files -> UNION {K[f] : f \in Files}]
    BY <1>2
  <1>4. \A f \in Files : older'[f] = {} /\ named'[f] \in WholeEntries
    BY <1>1 DEF SwapInv, SwapTypes
  <1>5. \A f \in Files : Survives(named'[f]) = named'[f]
    <2>1. \A f \in Files : named'[f].synced = TRUE
      BY <1>4 DEF WholeEntries
    <2>2. QED
      BY <2>1 DEF Survives
  <1>6. \A f \in Files : Had(f)' = {F[f]}
    BY <1>4, <1>5 DEF Had
  <1>7. \A f \in Files : Dropped(f)' = {}
    <2>1. \A f \in Files : DirOf[f] \in Dirs
      BY SwapAssumption
    <2>2. \A f \in Files : dirs'[DirOf[f]] # "made"
      BY <1>1, <2>1
    <2>3. QED
      BY <2>2 DEF Dropped
  <1>8. [f \in Files |-> (Had(f) \cup Dropped(f))'] = [f \in Files |-> {F[f]}]
    BY <1>6, <1>7
  <1>9. QED
    BY <1>2, <1>3, <1>8 DEF Whole!PowerLoss, Had, Dropped

LEMMA StepMaps == CloneInv /\ CloneInv' /\ [CloneNext]_cloneVars => [Whole!Next]_(Whole!vars)
  <1> SUFFICES ASSUME CloneInv, CloneInv', [CloneNext]_cloneVars
               PROVE  [Whole!Next]_(Whole!vars)
    OBVIOUS
  <1>1. CASE UNCHANGED fileVars
    BY <1>1 DEF Whole!vars, fileVars
  <1>2. ASSUME NEW s \in Swaps, Rename(s) PROVE Whole!Next
    <2> DEFINE f == swap[s].file
               i == swap[s].image
    <2>1. f \in Files /\ i \in Images /\ Whole!Replace(f, i)
      BY <1>2, RenameMaps, RenameInstalls DEF CloneInv
    <2> HIDE DEF f, i
    <2>2. \E g \in Files, j \in Images : Whole!Replace(g, j)
      BY <2>1 DEF Whole!Replace
    <2>3. QED
      BY <2>2 DEF Whole!Next
  <1>3. ASSUME NEW s \in Swaps, SyncDir(s) PROVE Whole!Next
    BY <1>3, SyncDirMaps DEF CloneInv, Whole!Next
  <1>4. CASE PowerLoss
    BY <1>4, PowerLossMaps DEF CloneInv, PowerLoss, Whole!Next
  <1>5. ASSUME NEW s \in Swaps, SwapStep(s) PROVE [Whole!Next]_(Whole!vars)
    BY <1>1, <1>2, <1>3, <1>5, MakeDirMaps DEF SwapStep, CreateTemp, WriteTemp, SyncTemp, FailSwap
  <1>6. ASSUME NEW c \in Clones, CloneStep(c) PROVE UNCHANGED fileVars
    BY <1>6
    DEF CloneStep, BeginClone, LookupPlan, ReadPlan, BeginFile, FetchBlob, QueueFile, Ask,
        CollectFile, ReturnReport, LeaveClone, KillClone, swapVars
  <1>7. QED
    BY <1>1, <1>4, <1>5, <1>6 DEF CloneNext, cloneVars, swapVars, RetireCommit, LoseBlob

\* A region file changes from one whole image to another only, and a power
\* loss leaves one of the whole images it has had since its directory was
\* synced, or takes it away with a directory that was made: `atomic_swap`,
\* called by any number of clones whose processes may be killed, implements
\* WholeFiles.
THEOREM SwapsAreWholeCorrect == CloneSpec => SwapsAreWhole
  <1>1. CloneSpec => []CloneInv
    BY InvInitially, InvStep, PTL DEF CloneSpec
  <1>2. QED
    BY <1>1, InitMaps, StepMaps, PTL DEF CloneSpec, SwapsAreWhole, Whole!Spec
-----------------------------------------------------------------------------
(* What a clone leaves that has the target for itself.                    *)

\* Image i is what call j may leave of file f: the chunks of its commit, but
\* those it was let to skip, whose blobs do not come back.
Good(j, f, i) ==
  /\ i \in Images
  /\ i \subseteq Content[j.commit][f]
  /\ Content[j.commit][f] \ i \subseteq (IF j.skip THEN Blobs \ cas ELSE {})

\* One file of call j of clone c.  What is asked for is awaited until it is
\* done, and a done file has nothing older behind it; after the report its
\* directory may be lost.
FileSound(c, j, f) ==
  LET w == swap[<<c, f>>] IN
  /\ w.at \in {"idle", "asked", "placed"} \cup Holding => named[f] = Missing
  /\ w.at \in {"asked", "placed", "renamed"} \cup Holding => w.file = f /\ Good(j, f, w.image)
  /\ w.at \in {"renamed", "done"} =>
       \/ Good(j, f, named[f].image)
       \/ w.at = "done" /\ j.at = "done" /\ dirs[DirOf[f]] = "lost" /\ named[f] = Missing
  /\ w.at = "done" => older[f] = {}
  /\ w.at \notin {"idle", "done"} => f \in j.awaited
  /\ w.at # "killed"

\* The files of the plan, and those whose swap has been asked for.
Planned(c, j) == {f \in Selection[c] : Content[j.commit][f] # {}}

Queued(c) == {f \in Files : swap[<<c, f>>].at # "idle"}

\* Every file of the plan is to do or queued, never both; a commit that was
\* gone when its rows were read has none.
PlanFollowed(c, j) ==
  \/ /\ j.todo \cup Queued(c) = Planned(c, j)
     /\ j.todo \cap Queued(c) = {}
  \/ /\ j.todo = {} /\ Queued(c) = {}
     /\ j.commit \notin stored

CallFollowed(c, j) ==
  /\ j.commit \in Commits
  /\ j.at \in {"empty", "found"} => j.todo = {} /\ Queued(c) = {}
  /\ j.at \in {"building", "done"} => PlanFollowed(c, j)
  /\ j.at = "done" => j.todo = {} /\ j.awaited = {}
  /\ j.at # "building" => j.file = NoFile
  /\ j.file # NoFile =>
       /\ j.file \in j.todo
       /\ Good(j, j.file, j.image \cup j.fetch)

\* Nobody else writes, and the call is followed file by file.
OthersRest(c) == \A s \in Swaps \ StepsOf(c) : swap[s].at \in Finished

Solo(c) ==
  c \in alone /\ job[c].at \in Underway \cup {"done"} =>
    /\ OthersRest(c)
    /\ CallFollowed(c, job[c])
    /\ \A f \in Files : FileSound(c, job[c], f)

\* A clone that was not called has asked for nothing.
Fresh(c) ==
  job[c].at = "idle" => /\ c \notin alone /\ job[c].file = NoFile
                        /\ \A s \in StepsOf(c) : swap[s].at = "idle"

\* A file that is missing has never been there since the last power loss.
NeverNamed == \A f \in Files : named[f] = Missing => older[f] = {}

SoloInv ==
  /\ CloneInv
  /\ NeverNamed
  /\ alone \subseteq Clones
  /\ \A c \in Clones : Fresh(c) /\ Solo(c)

LEMMA SwapsOf ==
  ASSUME NEW c \in Clones
  PROVE  /\ \A f \in Files : <<c, f>> \in Swaps /\ <<c, f>> \in StepsOf(c)
         /\ \A s \in StepsOf(c) : \E f \in Files : s = <<c, f>>
         /\ \A d \in Clones, f \in Files : d # c => <<d, f>> \in Swaps \ StepsOf(c)
  BY CloneAssumption DEF StepsOf

LEMMA SoloInitially == CloneInit => SoloInv
  <1> SUFFICES ASSUME CloneInit PROVE SoloInv
    OBVIOUS
  <1>1. alone = {} /\ \A f \in Files : older[f] = {}
    BY DEF CloneInit, SwapInit
  <1>2. \A s \in Swaps : swap[s].at = "idle"
    BY DEF CloneInit, SwapInit, Waiting
  <1>3. \A c \in Clones : job[c].file = NoFile
    BY DEF CloneInit, NotCalled
  <1>4. QED
    BY <1>1, <1>2, <1>3, InvInitially DEF SoloInv, NeverNamed, Fresh, Solo, StepsOf

-----------------------------------------------------------------------------
(* What others do, and what a call does to its own record.                *)

\* A step in which neither call c nor a swap of it moves, and nobody queues.
LEMMA SoloStays ==
  ASSUME NEW c \in Clones, Solo(c), job'[c] = job[c], UNCHANGED fileVars,
         \A s \in StepsOf(c) : swap'[s] = swap[s],
         \A s \in Swaps \ StepsOf(c) : swap[s].at \in Finished => swap'[s].at \in Finished,
         stored' \subseteq stored, cas' \subseteq cas, c \in alone' => c \in alone
  PROVE  Solo(c)'
  <1> SUFFICES ASSUME c \in alone, job[c].at \in Underway \cup {"done"}
               PROVE  OthersRest(c)' /\ CallFollowed(c, job[c])' /\ \A f \in Files : FileSound(c, job[c], f)'
    BY DEF Solo
  <1>1. OthersRest(c) /\ CallFollowed(c, job[c]) /\ \A f \in Files : FileSound(c, job[c], f)
    BY DEF Solo
  <1>2. OthersRest(c)'
    BY <1>1 DEF OthersRest, StepsOf
  <1>3. \A f \in Files : swap'[<<c, f>>] = swap[<<c, f>>]
    BY SwapsOf
  <1>4. Queued(c)' = Queued(c)
    BY <1>3 DEF Queued
  <1>5. CallFollowed(c, job[c])'
    BY <1>1, <1>4 DEF CallFollowed, PlanFollowed, Planned, Good
  <1>6. ASSUME NEW f \in Files PROVE FileSound(c, job[c], f)'
    <2>1. FileSound(c, job[c], f)
      BY <1>1
    <2>2. QED
      BY <1>3, <2>1 DEF FileSound, Good, fileVars
  <1>7. QED
    BY <1>2, <1>5, <1>6

\* Call c goes on with record k, and nothing else happens.
LEMMA SoloMoves ==
  ASSUME CloneInv, NEW c \in Clones, NEW k \in JobRecords, Await(c, k),
         UNCHANGED <<swapVars, storeVars>>,
         c \in alone' /\ k.at \in Underway \cup {"done"} =>
           OthersRest(c) /\ CallFollowed(c, k) /\ \A f \in Files : FileSound(c, k, f)
  PROVE  Solo(c)'
  <1>1. job'[c] = k
    BY DEF CloneInv, JobTypes, Await
  <1>2. (OthersRest(c) => OthersRest(c)') /\ (CallFollowed(c, k) => CallFollowed(c, k)')
    BY DEF OthersRest, StepsOf, CallFollowed, PlanFollowed, Planned, Queued, Good, swapVars, storeVars
  <1>3. \A f \in Files : FileSound(c, k, f) => FileSound(c, k, f)'
    BY DEF FileSound, Good, swapVars, fileVars, storeVars
  <1>4. (CallFollowed(c, k) <=> CallFollowed(c, job[c]))'
        /\ \A f \in Files : (FileSound(c, k, f) <=> FileSound(c, job[c], f))'
    BY <1>1
  <1> HIDE DEF CallFollowed, FileSound, OthersRest
  <1>5. QED
    BY <1>1, <1>2, <1>3, <1>4 DEF Solo

LEMMA SoloStops ==
  ASSUME CloneInv, NEW c \in Clones, Stop(c, "failed")
  PROVE  Solo(c)'
  <1>1. job'[c].at = "failed"
    BY DEF CloneInv, JobTypes, Stop, Await, NotCalled
  <1>2. QED
    BY <1>1 DEF Solo, Underway

-----------------------------------------------------------------------------
(* The steps of call c: the plan. *)

LEMMA BeginSolo ==
  ASSUME SoloInv, NEW c \in Clones, BeginClone(c)
  PROVE  Solo(c)'
  <1>1. CASE ~ TargetEmpty
    BY <1>1, SoloStops DEF SoloInv, BeginClone
  <1>2. CASE TargetEmpty
    <2>1. PICK k \in Commits, skip \in BOOLEAN :
            Await(c, [NotCalled EXCEPT !.at = "empty", !.commit = k, !.skip = skip])
      BY <1>2 DEF BeginClone
    <2> DEFINE r == [NotCalled EXCEPT !.at = "empty", !.commit = k, !.skip = skip]
    <2>2. r \in JobRecords
      BY DEF JobRecords, NotCalled, NoCommit, Underway
    <2>3. r.at = "empty" /\ r.commit = k /\ r.todo = {} /\ r.file = NoFile
      BY DEF NotCalled
    <2>4. c \notin alone /\ \A s \in StepsOf(c) : swap[s].at = "idle"
      BY DEF SoloInv, Fresh, BeginClone
    <2>5. c \in alone' => OthersRest(c)
      BY <2>4 DEF BeginClone, OthersRest
    <2>6. \A f \in Files : swap[<<c, f>>].at = "idle" /\ named[f] = Missing
      BY <1>2, <2>4, SwapsOf DEF TargetEmpty
    <2>7. Await(c, r)
      BY <2>1
    <2> HIDE DEF r
    <2>8. CallFollowed(c, r)
      BY <2>3, <2>6 DEF CallFollowed, Queued
    <2>9. \A f \in Files : FileSound(c, r, f)
      BY <2>6 DEF FileSound, Holding
    <2>10. QED
      BY <2>2, <2>5, <2>7, <2>8, <2>9, SoloMoves DEF SoloInv, BeginClone
  <1>3. QED
    BY <1>1, <1>2

\* A call that goes on from a sound record needs to look only at the record.
LEMMA SoloGoes ==
  ASSUME SoloInv, NEW c \in Clones, NEW k \in JobRecords, Await(c, k),
         UNCHANGED <<swapVars, storeVars, alone>>,
         job[c].at \in Underway, job[c].commit = k.commit, job[c].skip = k.skip,
         c \in alone =>
           /\ CallFollowed(c, k)
           /\ \A f \in Files : swap[<<c, f>>].at \notin {"idle", "done"} => f \in k.awaited
  PROVE  Solo(c)'
  <1>1. Solo(c) /\ CloneInv
    BY DEF SoloInv
  <1>2. ASSUME c \in alone, NEW f \in Files PROVE FileSound(c, k, f)
    <2>1. FileSound(c, job[c], f) /\ job[c].at # "done"
      BY <1>1, <1>2 DEF Solo, Underway
    <2>2. QED
      BY <1>2, <2>1 DEF FileSound, Good
  <1>3. c \in alone => OthersRest(c)
    BY <1>1 DEF Solo
  <1>4. QED
    BY <1>1, <1>2, <1>3, SoloMoves

\* What is known of the record and of the files when call c is underway.
LEMMA SoloKnows ==
  ASSUME SoloInv, NEW c \in Clones, c \in alone, job[c].at \in Underway
  PROVE  /\ job[c] \in JobRecords /\ OthersRest(c) /\ CallFollowed(c, job[c])
         /\ \A f \in Files : FileSound(c, job[c], f)
         /\ \A f \in Files : swap[<<c, f>>].at \notin {"idle", "done"} => f \in job[c].awaited
  <1>1. job[c] \in JobRecords
    BY DEF SoloInv, CloneInv, JobTypes
  <1>2. OthersRest(c) /\ CallFollowed(c, job[c]) /\ \A f \in Files : FileSound(c, job[c], f)
    BY DEF SoloInv, Solo
  <1>3. QED
    BY <1>1, <1>2 DEF FileSound

LEMMA PlanSolo ==
  ASSUME SoloInv, NEW c \in Clones, LookupPlan(c) \/ ReadPlan(c)
  PROVE  Solo(c)'
  <1>1. job[c] \in JobRecords /\ job[c].at \in {"empty", "found"} /\ CloneInv
    BY DEF SoloInv, CloneInv, JobTypes, LookupPlan, ReadPlan
  <1>2. job[c].at \in Underway
    BY <1>1 DEF Underway
  <1>3. CASE LookupPlan(c)
    <2> DEFINE k == [job[c] EXCEPT !.at = "found"]
    <2>1. /\ k \in JobRecords /\ k.at = "found" /\ k.commit = job[c].commit
          /\ k.skip = job[c].skip /\ k.todo = job[c].todo /\ k.file = job[c].file
          /\ k.awaited = job[c].awaited
      BY <1>1 DEF JobRecords, Underway
    <2>2. Await(c, k) \/ Stop(c, "failed")
      BY <1>3 DEF LookupPlan
    <2> HIDE DEF k
    <2>3. c \in alone => CallFollowed(c, k)
      BY <1>1, <1>2, <2>1, SoloKnows DEF CallFollowed
    <2>4. QED
      BY <1>1, <1>2, <1>3, <2>1, <2>2, <2>3, SoloKnows, SoloGoes, SoloStops DEF LookupPlan
  <1>4. CASE ReadPlan(c)
    <2> DEFINE T == {f \in Selection[c] : /\ job[c].commit \in stored
                                          /\ Content[job[c].commit][f] # {}}
               k == [job[c] EXCEPT !.at = "building", !.todo = T]
    <2>1. T \subseteq Files
      BY CloneAssumption
    <2>2. Await(c, k)
      BY <1>4 DEF ReadPlan
    <2>3. (job[c].commit \in stored => T = Planned(c, job[c]))
          /\ (job[c].commit \notin stored => T = {})
      BY DEF Planned
    <2> HIDE DEF T
    <2>4. /\ k \in JobRecords /\ k.at = "building" /\ k.commit = job[c].commit
          /\ k.skip = job[c].skip /\ k.todo = T /\ k.file = job[c].file
          /\ k.awaited = job[c].awaited
      BY <1>1, <2>1 DEF JobRecords, Underway
    <2> HIDE DEF k
    <2>5. Planned(c, k) = Planned(c, job[c])
      BY <2>4 DEF Planned
    <2>6. c \in alone => /\ job[c].commit \in Commits /\ job[c].file = NoFile
                         /\ Queued(c) = {}
      BY <1>1, <1>2, SoloKnows DEF CallFollowed
    <2>7. c \in alone => CallFollowed(c, k)
      BY <2>3, <2>4, <2>5, <2>6 DEF CallFollowed, PlanFollowed
    <2>8. QED
      BY <1>2, <1>4, <2>2, <2>4, <2>7, SoloKnows, SoloGoes DEF ReadPlan
  <1>5. QED
    BY <1>3, <1>4

-----------------------------------------------------------------------------
(* The files. *)

LEMMA BeginFileSolo ==
  ASSUME SoloInv, NEW c \in Clones, BeginFile(c)
  PROVE  Solo(c)'
  <1>1. job[c] \in JobRecords /\ job[c].at \in Underway /\ job[c].at = "building"
    BY DEF SoloInv, CloneInv, JobTypes, BeginFile, Underway
  <1>2. PICK f \in job[c].todo :
          Await(c, [job[c] EXCEPT !.file = f, !.fetch = Content[job[c].commit][f], !.image = {}])
    BY DEF BeginFile
  <1> DEFINE k == [job[c] EXCEPT !.file = f, !.fetch = Content[job[c].commit][f], !.image = {}]
  <1>3. f \in Files /\ job[c].commit \in Commits
    BY <1>1 DEF JobRecords, SoloInv, CloneInv, JobTypes
  <1>4. Content[job[c].commit][f] \subseteq Blobs
    BY <1>3, CloneAssumption
  <1>5. /\ k \in JobRecords /\ k.at = "building" /\ k.commit = job[c].commit
        /\ k.skip = job[c].skip /\ k.todo = job[c].todo /\ k.file = f
        /\ k.fetch = Content[k.commit][f] /\ k.image = {} /\ k.awaited = job[c].awaited
    BY <1>1, <1>3, <1>4 DEF JobRecords
  <1>6. Await(c, k)
    BY <1>2
  <1> HIDE DEF k
  <1>7. Good(k, f, k.image \cup k.fetch)
    BY <1>4, <1>5, CloneAssumption DEF Good
  <1>8. c \in alone => CallFollowed(c, k)
    <2>1. ASSUME c \in alone PROVE CallFollowed(c, job[c])
      BY <1>1, <2>1, SoloKnows
    <2>2. QED
      BY <1>1, <1>5, <1>7, <2>1 DEF CallFollowed, PlanFollowed, Planned
  <1>9. QED
    BY <1>1, <1>5, <1>6, <1>8, SoloKnows, SoloGoes DEF BeginFile

LEMMA FetchSolo ==
  ASSUME SoloInv, NEW c \in Clones, FetchBlob(c)
  PROVE  Solo(c)'
  <1>1. job[c] \in JobRecords /\ CloneInv
    BY DEF SoloInv, CloneInv, JobTypes
  <1>2. PICK b \in job[c].fetch :
          IF b \in cas
          THEN Await(c, [job[c] EXCEPT !.fetch = @ \ {b}, !.image = @ \cup {b}])
          ELSE IF job[c].skip THEN Await(c, [job[c] EXCEPT !.fetch = @ \ {b}])
          ELSE Stop(c, "failed")
    BY DEF FetchBlob
  <1> DEFINE k == [job[c] EXCEPT !.fetch = job[c].fetch \ {b}, !.image = job[c].image \cup {b}]
             l == [job[c] EXCEPT !.fetch = job[c].fetch \ {b}]
  <1>3. /\ k \in JobRecords /\ k.at = job[c].at /\ k.commit = job[c].commit
        /\ k.skip = job[c].skip /\ k.todo = job[c].todo /\ k.file = job[c].file
        /\ k.awaited = job[c].awaited
        /\ k.fetch = job[c].fetch \ {b} /\ k.image = job[c].image \cup {b}
    BY <1>1 DEF JobRecords
  <1>4. /\ l \in JobRecords /\ l.at = job[c].at /\ l.commit = job[c].commit
        /\ l.skip = job[c].skip /\ l.todo = job[c].todo /\ l.file = job[c].file
        /\ l.awaited = job[c].awaited
        /\ l.fetch = job[c].fetch \ {b} /\ l.image = job[c].image
    BY <1>1 DEF JobRecords
  <1>5. \/ b \in cas /\ Await(c, k)
        \/ b \notin cas /\ job[c].skip /\ Await(c, l)
        \/ Stop(c, "failed")
    BY <1>2
  <1> HIDE DEF k, l
  <1>6. CASE Stop(c, "failed")
    BY <1>1, <1>6, SoloStops
  <1>7. ASSUME job[c].at \notin Underway, NEW m \in JobRecords, Await(c, m), m.at = job[c].at,
               m.awaited = job[c].awaited, m.todo = job[c].todo, m.file = job[c].file,
               m.commit = job[c].commit, m.skip = job[c].skip
        PROVE  Solo(c)'
    <2>1. c \in alone /\ job[c].at = "done" => FALSE
      BY SwapAssumption DEF SoloInv, Solo, CallFollowed, FetchBlob
    <2>2. QED
      BY <1>1, <1>7, <2>1, SoloMoves DEF FetchBlob, storeVars
  <1>8. ASSUME job[c].at \in Underway, b \in cas, Await(c, k) PROVE Solo(c)'
    <2>1. k.image \cup k.fetch = job[c].image \cup job[c].fetch
      BY <1>3
    <2>2. c \in alone => CallFollowed(c, job[c])
      BY <1>8, SoloKnows
    <2>3. c \in alone => CallFollowed(c, k)
      BY <1>3, <2>1, <2>2 DEF CallFollowed, PlanFollowed, Planned, Good
    <2>4. QED
      BY <1>3, <1>8, <2>3, SoloKnows, SoloGoes DEF FetchBlob
  <1>9. ASSUME job[c].at \in Underway, b \notin cas, job[c].skip, Await(c, l) PROVE Solo(c)'
    <2>1. c \in alone => CallFollowed(c, job[c])
      BY <1>9, SoloKnows
    <2>2. c \in alone => Good(l, l.file, l.image \cup l.fetch)
      <3>1. ASSUME c \in alone PROVE Good(job[c], job[c].file, job[c].image \cup job[c].fetch)
        BY <2>1, <3>1 DEF CallFollowed, FetchBlob
      <3>2. b \in Blobs /\ job[c].image \subseteq Blobs /\ job[c].fetch \subseteq Blobs
        BY <1>1 DEF JobRecords
      <3>3. QED
        BY <1>4, <1>9, <3>1, <3>2, CloneAssumption DEF Good
    <2>3. c \in alone => CallFollowed(c, l)
      BY <1>4, <2>1, <2>2 DEF CallFollowed, PlanFollowed, Planned
    <2>4. QED
      BY <1>4, <1>9, <2>3, SoloKnows, SoloGoes DEF FetchBlob
  <1>10. QED
    BY <1>3, <1>4, <1>5, <1>6, <1>7, <1>8, <1>9

LEMMA QueueSolo ==
  ASSUME SoloInv, NEW c \in Clones, QueueFile(c)
  PROVE  Solo(c)'
  <1>1. job[c] \in JobRecords /\ job \in [Clones -> JobRecords]
    BY DEF SoloInv, CloneInv, JobTypes
  <1>2. PICK f \in Files : f = job[c].file
    BY <1>1 DEF JobRecords, QueueFile
  <1>3. PICK k \in JobRecords :
          /\ k = [job[c] EXCEPT !.todo = @ \ {f}, !.file = NoFile, !.awaited = @ \cup {f}]
          /\ k.at = job[c].at /\ k.commit = job[c].commit /\ k.skip = job[c].skip
          /\ k.todo = job[c].todo \ {f} /\ k.file = NoFile
          /\ k.awaited = job[c].awaited \cup {f} /\ k.image = job[c].image
    <2> DEFINE r == [job[c] EXCEPT !.todo = @ \ {f}, !.file = NoFile, !.awaited = @ \cup {f}]
    <2>1. /\ r \in JobRecords /\ r.at = job[c].at /\ r.commit = job[c].commit
          /\ r.skip = job[c].skip /\ r.todo = job[c].todo \ {f} /\ r.file = NoFile
          /\ r.awaited = job[c].awaited \cup {f} /\ r.image = job[c].image
      BY <1>1 DEF JobRecords
    <2>2. QED
      BY <2>1
  <1> DEFINE s == <<c, f>>
  <1>4. s \in Swaps
    BY CloneAssumption
  <1>5. job'[c] = k
    BY <1>1, <1>2, <1>3 DEF QueueFile, Await
  <1>6. /\ swap[s].at = "idle" /\ swap'[s].at = "asked"
        /\ swap'[s].file = f /\ swap'[s].image = job[c].image
        /\ \A t \in Swaps \ {s} : swap'[t] = swap[t]
    BY <1>2, <1>4 DEF SoloInv, CloneInv, SwapInv, SwapTypes, SwapRecords, QueueFile, Ask
  <1>7. UNCHANGED <<dirs, named, older, storeVars>>
    BY DEF QueueFile, Ask, fileVars
  <1>8. f # NoFile /\ job[c].fetch = {}
    BY <1>2 DEF QueueFile
  <1> SUFFICES ASSUME c \in alone, job[c].at \in Underway \cup {"done"} PROVE Solo(c)'
    BY <1>3, <1>5 DEF Solo, QueueFile
  <1>9. OthersRest(c) /\ CallFollowed(c, job[c]) /\ \A g \in Files : FileSound(c, job[c], g)
    BY DEF SoloInv, Solo
  <1>10. /\ job[c].at = "building" /\ f \in job[c].todo
        /\ Good(job[c], f, job[c].image \cup job[c].fetch)
    BY <1>2, <1>8, <1>9 DEF CallFollowed
  <1>11. Good(job[c], f, job[c].image)
    <2>1. job[c].image \cup job[c].fetch = job[c].image
      BY <1>8
    <2>2. QED
      BY <1>10, <2>1
  <1>12. OthersRest(c)'
    BY <1>2, <1>6, <1>9, SwapsOf DEF OthersRest, StepsOf
  <1>13. Queued(c)' = Queued(c) \cup {f}
    BY <1>2, <1>6, SwapsOf DEF Queued
  <1>14. PlanFollowed(c, job[c])
    BY <1>9, <1>10 DEF CallFollowed
  <1>15. Planned(c, k)' = Planned(c, job[c])
    BY <1>3, <1>5 DEF Planned
  <1>16. PlanFollowed(c, k)'
    BY <1>3, <1>7, <1>10, <1>13, <1>14, <1>15 DEF PlanFollowed, storeVars
  <1>17. CallFollowed(c, k)'
    BY <1>3, <1>9, <1>10, <1>16 DEF CallFollowed
  <1>18. ASSUME NEW g \in Files PROVE FileSound(c, k, g)'
    <2>1. FileSound(c, job[c], g)
      BY <1>9
    <2>2. CASE g = f
      <3>1. named[f] = Missing
        BY <1>6, <2>1, <2>2 DEF FileSound
      <3>2. Good(k, f, k.image)'
        BY <1>3, <1>7, <1>11 DEF Good, storeVars
      <3>3. QED
        BY <1>3, <1>6, <1>7, <2>2, <3>1, <3>2 DEF FileSound, Holding
    <2>3. CASE g # f
      <3>1. swap'[<<c, g>>] = swap[<<c, g>>]
        BY <1>6, <2>3, SwapsOf
      <3>2. QED
        BY <1>3, <1>7, <2>1, <3>1 DEF FileSound, Good, storeVars
    <2>4. QED
      BY <2>2, <2>3
  <1>19. CallFollowed(c, job[c])' /\ \A g \in Files : FileSound(c, job[c], g)'
    BY <1>5, <1>17, <1>18
  <1>20. QED
    BY <1>12, <1>19 DEF Solo

LEMMA CollectSolo ==
  ASSUME SoloInv, NEW c \in Clones, CollectFile(c)
  PROVE  Solo(c)'
  <1>1. job[c] \in JobRecords /\ job[c].at = "building" /\ job[c].at \in Underway /\ CloneInv
    BY DEF SoloInv, CloneInv, JobTypes, CollectFile, Underway
  <1>2. PICK f \in job[c].awaited :
          \/ /\ swap[<<c, f>>].at = "done"
             /\ Await(c, [job[c] EXCEPT !.awaited = @ \ {f}])
          \/ Stop(c, "failed")
    BY DEF CollectFile
  <1> DEFINE k == [job[c] EXCEPT !.awaited = job[c].awaited \ {f}]
  <1>3. /\ k \in JobRecords /\ k.at = "building" /\ k.commit = job[c].commit
        /\ k.skip = job[c].skip /\ k.todo = job[c].todo /\ k.file = job[c].file
        /\ k.awaited = job[c].awaited \ {f} /\ k.image = job[c].image /\ k.fetch = job[c].fetch
    BY <1>1 DEF JobRecords
  <1>4. (swap[<<c, f>>].at = "done" /\ Await(c, k)) \/ Stop(c, "failed")
    BY <1>2
  <1> HIDE DEF k
  <1>5. ASSUME swap[<<c, f>>].at = "done", Await(c, k) PROVE Solo(c)'
    <2>1. c \in alone => CallFollowed(c, job[c])
      BY <1>1, SoloKnows
    <2>2. c \in alone => CallFollowed(c, k)
      BY <1>1, <1>3, <2>1 DEF CallFollowed, PlanFollowed, Planned, Good
    <2>3. ASSUME c \in alone, NEW g \in Files, swap[<<c, g>>].at \notin {"idle", "done"}
          PROVE  g \in k.awaited
      BY <1>1, <1>3, <1>5, <2>3, SoloKnows
    <2>4. QED
      BY <1>1, <1>3, <1>5, <2>2, <2>3, SoloGoes DEF CollectFile
  <1>6. QED
    BY <1>1, <1>4, <1>5, SoloStops

LEMMA ReturnSolo ==
  ASSUME SoloInv, NEW c \in Clones, ReturnReport(c)
  PROVE  Solo(c)'
  <1>1. job[c] \in JobRecords /\ job[c].at = "building" /\ job[c].at \in Underway
    BY DEF SoloInv, CloneInv, JobTypes, ReturnReport, Underway
  <1> DEFINE k == [job[c] EXCEPT !.at = "done"]
  <1>2. /\ k \in JobRecords /\ k.at = "done" /\ k.commit = job[c].commit
        /\ k.skip = job[c].skip /\ k.todo = job[c].todo /\ k.file = job[c].file
        /\ k.awaited = job[c].awaited
    BY <1>1 DEF JobRecords
  <1>3. Await(c, k)
    BY DEF ReturnReport
  <1> HIDE DEF k
  <1>4. c \in alone => CallFollowed(c, job[c])
    BY <1>1, SoloKnows
  <1>5. c \in alone => CallFollowed(c, k)
    BY <1>1, <1>2, <1>4 DEF CallFollowed, PlanFollowed, Planned, ReturnReport
  <1>6. QED
    BY <1>1, <1>2, <1>3, <1>5, SoloKnows, SoloGoes DEF ReturnReport

LEMMA OwnStepSolo ==
  ASSUME SoloInv, NEW c \in Clones, CloneStep(c)
  PROVE  Solo(c)'
  <1>1. CASE LeaveClone(c)
    BY <1>1, SoloStops DEF SoloInv, LeaveClone
  <1>2. CASE KillClone(c)
    <2>1. CASE job[c].at \in Underway
      BY <1>2, <2>1, SoloStops DEF SoloInv, KillClone
    <2>2. CASE job[c].at \notin Underway
      <3>1. UNCHANGED job
        BY <1>2, <2>2 DEF KillClone
      <3>2. SUFFICES ASSUME c \in alone, job[c].at = "done" PROVE Solo(c)'
        BY <1>2, <2>2, <3>1 DEF Solo, KillClone
      <3>3. CallFollowed(c, job[c]) /\ (\A f \in Files : FileSound(c, job[c], f))
        BY <3>2 DEF SoloInv, Solo
      <3>4. \A f \in Files : swap[<<c, f>>].at \in Finished
        BY <3>2, <3>3 DEF CallFollowed, FileSound, Finished
      <3>5. \A s \in StepsOf(c) : swap'[s] = swap[s]
        BY <1>2, <3>4, SwapsOf DEF KillClone, Killed, StepsOf
      <3>6. \A s \in Swaps \ StepsOf(c) : swap'[s] = swap[s]
        BY <1>2 DEF KillClone, Killed
      <3>7. QED
        BY <1>2, <3>1, <3>5, <3>6, SoloStays DEF SoloInv, KillClone, storeVars
    <2>3. QED
      BY <2>1, <2>2
  <1>3. QED
    BY <1>1, <1>2, BeginSolo, PlanSolo, BeginFileSolo, FetchSolo, QueueSolo, CollectSolo, ReturnSolo
    DEF CloneStep

\* A step of another clone: it may queue only by taking the target away.
LEMMA OtherStepSolo ==
  ASSUME SoloInv, NEW c \in Clones, NEW d \in Clones \ {c}, CloneStep(d)
  PROVE  Solo(c)'
  <1>1. job'[c] = job[c]
    BY DEF SoloInv, CloneInv, JobTypes, CloneStep, BeginClone, LookupPlan, ReadPlan, BeginFile, FetchBlob,
           QueueFile, CollectFile, ReturnReport, LeaveClone, KillClone, Stop, Await
  <1>2. CASE QueueFile(d)
    BY <1>2 DEF Solo, QueueFile
  <1>3. CASE KillClone(d)
    <2>1. \A s \in StepsOf(c) : s \in Swaps /\ s \notin StepsOf(d)
      BY DEF StepsOf
    <2>2. \A s \in StepsOf(c) : swap'[s] = swap[s]
      BY <1>3, <2>1 DEF KillClone, Killed
    <2>3. \A s \in Swaps : swap[s].at \in Finished => swap'[s].at \in Finished
      BY <1>3 DEF KillClone, Killed
    <2>4. QED
      BY <1>1, <1>3, <2>2, <2>3, SoloStays DEF SoloInv, KillClone, storeVars
  <1>4. CASE UNCHANGED <<swapVars, storeVars>> /\ (c \in alone' => c \in alone)
    BY <1>1, <1>4, SoloStays DEF SoloInv, swapVars, storeVars
  <1>5. QED
    BY <1>2, <1>3, <1>4
    DEF CloneStep, BeginClone, LookupPlan, ReadPlan, BeginFile, FetchBlob, CollectFile,
        ReturnReport, LeaveClone

-----------------------------------------------------------------------------
(* The steps of its swaps, and the faults.                                *)

\* A step of swap <<c, f>>: it is under way, for file f, and awaited.
LEMMA SwapOfSolo ==
  ASSUME SoloInv, NEW c \in Clones, NEW f \in Files, SwapStep(<<c, f>>),
         UNCHANGED <<storeVars, job, alone>>
  PROVE  Solo(c)'
  <1> DEFINE s == <<c, f>>
  <1>1. /\ s \in Swaps /\ s \in StepsOf(c) /\ SwapInv
        /\ swap \in [Swaps -> SwapRecords] /\ swap[s] \in SwapRecords
    BY CloneAssumption DEF StepsOf, SoloInv, CloneInv, SwapInv, SwapTypes
  <1>2. swap[s].at \in {"asked", "placed", "renamed"} \cup Holding
    <2>1. swap[s].at \in Phases /\ swap[s].at \notin Finished
      BY <1>1 DEF SwapStep, MakeDir, CreateTemp, WriteTemp, SyncTemp, Rename, SyncDir, FailSwap, Finished,
                  SwapRecords
    <2>2. QED
      BY <2>1 DEF Phases
  <1> SUFFICES ASSUME c \in alone, job[c].at \in Underway \cup {"done"} PROVE Solo(c)'
    BY DEF Solo
  <1>3. OthersRest(c) /\ CallFollowed(c, job[c]) /\ \A g \in Files : FileSound(c, job[c], g)
    BY DEF SoloInv, Solo
  <1>4. /\ FileSound(c, job[c], f) /\ f \in job[c].awaited /\ job[c].at # "done"
        /\ swap[s].file = f /\ Good(job[c], f, swap[s].image)
    BY <1>2, <1>3 DEF FileSound, CallFollowed, Holding
  <1>5. \A t \in Swaps \ {s} : swap'[t] = swap[t]
    BY <1>1 DEF SwapStep, MakeDir, CreateTemp, WriteTemp, SyncTemp, Rename, SyncDir, FailSwap, GoTo, End
  <1>6. /\ swap'[s].at \in {"placed", "created", "written", "synced", "renamed", "done", "failed"}
        /\ swap'[s].at \notin {"done", "failed"} =>
             swap'[s].file = swap[s].file /\ swap'[s].image = swap[s].image
    <2>1. CASE CreateTemp(s)
      BY <1>1, <2>1 DEF CreateTemp, SwapRecords
    <2>2. ASSUME NEW p \in {"placed", "written", "synced", "renamed"}, GoTo(s, p)
          PROVE  /\ swap'[s].at = p
                 /\ swap'[s].file = swap[s].file /\ swap'[s].image = swap[s].image
      BY <1>1, <2>2 DEF GoTo, SwapRecords
    <2>3. CASE MakeDir(s) \/ WriteTemp(s) \/ SyncTemp(s) \/ Rename(s)
      BY <2>2, <2>3 DEF MakeDir, WriteTemp, SyncTemp, Rename
    <2>4. CASE SyncDir(s) \/ FailSwap(s)
      BY <1>1, <2>4 DEF SyncDir, FailSwap, End, Waiting
    <2>5. QED
      BY <2>1, <2>3, <2>4 DEF SwapStep
  <1>7. OthersRest(c)'
    BY <1>1, <1>3, <1>5 DEF OthersRest, StepsOf
  <1>8. \A g \in Files : g # f => swap'[<<c, g>>] = swap[<<c, g>>]
    BY <1>5, SwapsOf
  <1>9. Queued(c)' = Queued(c)
    BY <1>2, <1>6, <1>8 DEF Queued, Holding
  <1>10. CallFollowed(c, job[c])'
    BY <1>3, <1>9 DEF CallFollowed, PlanFollowed, Planned, Good, storeVars
  <1>11. Rename(s) => /\ named' = [named EXCEPT ![f] = Entry(swap[s].image, TRUE)]
                      /\ older' = [older EXCEPT ![f] = older[f] \cup {named[f]}]
    BY <1>1, <1>4, RenameInstalls DEF Rename
  <1>12. /\ named \in [Files -> WholeEntries] /\ older \in [Files -> SUBSET WholeEntries]
    BY <1>1 DEF SwapInv, SwapTypes
  <1>13. \/ UNCHANGED named /\ \A g \in Files : older'[g] = older[g] \/ older'[g] = {}
         \/ Rename(s)
    BY DEF SwapStep, MakeDir, CreateTemp, WriteTemp, SyncTemp, SyncDir, FailSwap, fileVars
  <1>14. \A g \in Files : g # f => /\ named'[g] = named[g]
                                   /\ older[g] = {} => older'[g] = {}
    BY <1>11, <1>12, <1>13
  <1>15. ASSUME NEW g \in Files, g # f PROVE FileSound(c, job[c], g)'
    BY <1>3, <1>4, <1>8, <1>14, <1>15 DEF FileSound, Good, storeVars
  <1>16. FileSound(c, job[c], f)'
    <2>1. swap'[s].at = "renamed" => Rename(s)
      <3>1. \A p \in {"placed", "written", "synced"} : GoTo(s, p) => swap'[s].at # "renamed"
        BY <1>1 DEF GoTo, SwapRecords
      <3>2. CreateTemp(s) \/ SyncDir(s) \/ FailSwap(s) => swap'[s].at # "renamed"
        BY <1>1 DEF CreateTemp, SyncDir, FailSwap, End, SwapRecords, Waiting
      <3>3. QED
        BY <3>1, <3>2 DEF SwapStep, MakeDir, WriteTemp, SyncTemp
    <2>2. swap'[s].at = "done" => SyncDir(s)
      <3>1. \A p \in {"placed", "written", "synced", "renamed"} :
              GoTo(s, p) => swap'[s].at # "done"
        BY <1>1 DEF GoTo, SwapRecords
      <3>2. CreateTemp(s) \/ FailSwap(s) => swap'[s].at # "done"
        BY <1>1 DEF CreateTemp, FailSwap, End, SwapRecords, Waiting
      <3>3. QED
        BY <3>1, <3>2 DEF SwapStep, MakeDir, WriteTemp, SyncTemp, Rename
    <2>3. CASE swap'[s].at \in {"placed"} \cup Holding
      <3>1. ~ Rename(s) /\ ~ SyncDir(s) /\ ~ FailSwap(s)
        <4>1. GoTo(s, "renamed") => swap'[s].at = "renamed"
          BY <1>1 DEF GoTo, SwapRecords
        <4>2. \A how \in {"done", "failed"} : End(s, how) => swap'[s].at = how
          BY <1>1 DEF End, Waiting
        <4>3. QED
          BY <2>3, <4>1, <4>2 DEF Rename, SyncDir, FailSwap, Holding
      <3>2. swap[s].at # "renamed" /\ UNCHANGED <<named, older>>
        BY <3>1 DEF SwapStep, MakeDir, CreateTemp, WriteTemp, SyncTemp, fileVars
      <3>3. QED
        BY <1>2, <1>4, <1>6, <2>3, <3>2 DEF FileSound, Holding, Good, storeVars
    <2>4. CASE swap'[s].at = "renamed"
      <3>1. named'[f].image = swap[s].image
        BY <1>11, <1>12, <2>1, <2>4 DEF Entry
      <3>2. QED
        BY <1>4, <1>6, <2>4, <3>1 DEF FileSound, Holding, Good, storeVars
    <2>5. CASE swap'[s].at = "done"
      <3>1. swap[s].at = "renamed" /\ UNCHANGED named /\ older'[f] = {}
        BY <1>4, <2>2, <2>5 DEF SyncDir
      <3>2. QED
        BY <1>4, <2>5, <3>1 DEF FileSound, Holding, Good, storeVars
    <2>6. CASE swap'[s].at = "failed"
      BY <1>4, <2>6 DEF FileSound, Holding
    <2>7. QED
      BY <1>6, <2>3, <2>4, <2>5, <2>6 DEF Holding
  <1>17. QED
    BY <1>7, <1>10, <1>15, <1>16 DEF Solo

LEMMA SwapStepSolo ==
  ASSUME SoloInv, NEW c \in Clones, NEW s \in Swaps, SwapStep(s),
         UNCHANGED <<storeVars, job, alone>>
  PROVE  Solo(c)'
  <1>1. CASE s \in StepsOf(c)
    BY <1>1, SwapsOf, SwapOfSolo
  <1>2. CASE s \notin StepsOf(c)
    <2>1. swap[s].at \notin Finished
      BY DEF SwapStep, MakeDir, CreateTemp, WriteTemp, SyncTemp, Rename, SyncDir, FailSwap, Finished
    <2>2. QED
      BY <1>2, <2>1 DEF SoloInv, Solo, OthersRest
  <1>3. QED
    BY <1>1, <1>2

LEMMA LossSolo ==
  ASSUME SoloInv, NEW c \in Clones, PowerLoss
  PROVE  Solo(c)'
  <1>1. job'[c] = IF job[c].at \in Underway THEN [NotCalled EXCEPT !.at = "failed"] ELSE job[c]
    BY DEF PowerLoss
  <1>2. CASE job[c].at \in Underway
    BY <1>1, <1>2 DEF Solo, Underway, NotCalled
  <1>3. CASE job[c].at \notin Underway
    <2>1. job'[c] = job[c] /\ UNCHANGED <<storeVars, alone>>
      BY <1>1, <1>3 DEF PowerLoss
    <2> SUFFICES ASSUME c \in alone, job[c].at = "done" PROVE Solo(c)'
      BY <1>3, <2>1 DEF Solo
    <2>2. /\ OthersRest(c) /\ CallFollowed(c, job[c])
          /\ \A f \in Files : FileSound(c, job[c], f)
      BY DEF SoloInv, Solo
    <2>3. \A f \in Files : swap[<<c, f>>].at \in {"idle", "done"}
      BY <2>2 DEF CallFollowed, FileSound
    <2>4. \A s \in Swaps : swap[s].at \in Finished
      BY <2>2, <2>3, SwapsOf DEF OthersRest, Finished
    <2>5. \A s \in Swaps : swap'[s] = swap[s]
      BY <2>4 DEF PowerLoss, Killed
    <2>6. \A f \in Files : older[f] = {} /\ older'[f] = {}
      <3>1. \A f \in Files : older[f] = {}
        BY <2>2, <2>3 DEF FileSound, SoloInv, NeverNamed
      <3>2. older' = [f \in Files |-> {}]
        BY DEF PowerLoss, LoseCaches
      <3>3. QED
        BY <3>1, <3>2
    <2>7. PICK D \in SUBSET {d \in Dirs : dirs[d] = "made"} :
            /\ dirs' = [d \in Dirs |-> IF d \in D THEN "lost"
                                       ELSE IF dirs[d] = "made" THEN "durable" ELSE dirs[d]]
            /\ \A f \in Files : named'[f] \in Leftovers(f, D)
      BY DEF PowerLoss, LoseCaches
    <2>8. ASSUME NEW f \in Files
          PROVE  \/ named'[f] = named[f] /\ (dirs[DirOf[f]] = "lost" => dirs'[DirOf[f]] = "lost")
                 \/ named'[f] = Missing /\ dirs'[DirOf[f]] = "lost"
      <3>1. DirOf[f] \in Dirs
        BY SwapAssumption
      <3>2. CASE DirOf[f] \in D
        BY <2>7, <3>1, <3>2 DEF Leftovers
      <3>3. CASE DirOf[f] \notin D
        <4>1. named'[f] = named[f]
          BY <2>6, <2>7, <3>3, NamedSurvive DEF Leftovers, SoloInv, CloneInv, SwapInv
        <4>2. dirs[DirOf[f]] = "lost" => dirs'[DirOf[f]] = "lost"
          BY <2>7, <3>1, <3>3
        <4>3. QED
          BY <4>1, <4>2
      <3>4. QED
        BY <3>2, <3>3
    <2>9. ASSUME NEW f \in Files PROVE FileSound(c, job[c], f)'
      <3>1. FileSound(c, job[c], f) /\ swap'[<<c, f>>] = swap[<<c, f>>] /\ older'[f] = {}
        BY <2>2, <2>5, <2>6, SwapsOf
      <3>2. swap[<<c, f>>].at \in {"idle", "done"}
        BY <2>3
      <3>3. QED
        BY <2>1, <2>8, <3>1, <3>2 DEF FileSound, Good, Holding, storeVars
    <2>10. Queued(c)' = Queued(c)
      BY <2>5, SwapsOf DEF Queued
    <2>11. CallFollowed(c, job[c])' /\ OthersRest(c)'
      BY <2>1, <2>2, <2>5, <2>10 DEF CallFollowed, PlanFollowed, Planned, Good, OthersRest, StepsOf,
                                     storeVars
    <2>12. QED
      BY <2>9, <2>11 DEF Solo
  <1>4. QED
    BY <1>2, <1>3

LEMMA SoloStep ==
  ASSUME SoloInv, NEW c \in Clones, [CloneNext]_cloneVars
  PROVE  Solo(c)'
  <1>1. ASSUME NEW d \in Clones, CloneStep(d) PROVE Solo(c)'
    BY <1>1, OwnStepSolo, OtherStepSolo
  <1>2. ASSUME NEW s \in Swaps, SwapStep(s), UNCHANGED <<storeVars, job, alone>> PROVE Solo(c)'
    BY <1>2, SwapStepSolo
  <1>3. CASE PowerLoss
    BY <1>3, LossSolo
  <1>4. CASE RetireCommit \/ LoseBlob \/ UNCHANGED cloneVars
    <2>1. /\ UNCHANGED <<swapVars, job, alone>>
          /\ stored' \subseteq stored /\ cas' \subseteq cas
      BY <1>4 DEF RetireCommit, LoseBlob, cloneVars, storeVars
    <2>2. QED
      BY <2>1, SoloStays DEF SoloInv, swapVars
  <1>5. QED
    BY <1>1, <1>2, <1>3, <1>4 DEF CloneNext

LEMMA NeverNamedStep ==
  ASSUME SoloInv, [CloneNext]_cloneVars
  PROVE  NeverNamed'
  <1>1. NeverNamed /\ SwapInv
    BY DEF SoloInv, CloneInv
  <1>2. CASE UNCHANGED named /\ \A f \in Files : older'[f] = older[f] \/ older'[f] = {}
    BY <1>1, <1>2 DEF NeverNamed
  <1>3. ASSUME NEW s \in Swaps, Rename(s) PROVE NeverNamed'
    <2> DEFINE g == swap[s].file
    <2>1. /\ g \in Files /\ swap[s].image \in Images
          /\ named' = [named EXCEPT ![g] = Entry(swap[s].image, TRUE)]
      BY <1>1, <1>3, RenameInstalls DEF Rename
    <2>2. named \in [Files -> WholeEntries] /\ older \in [Files -> SUBSET WholeEntries]
      BY <1>1 DEF SwapInv, SwapTypes
    <2>3. older' = [older EXCEPT ![g] = older[g] \cup {named[g]}]
      BY <1>3 DEF Rename
    <2> HIDE DEF g
    <2>4. named'[g] # Missing
      BY <2>1, <2>2, SwapAssumption DEF Missing, Entry
    <2>5. QED
      BY <1>1, <2>1, <2>2, <2>3, <2>4 DEF NeverNamed
  <1>4. CASE PowerLoss
    BY <1>4 DEF PowerLoss, LoseCaches, NeverNamed
  <1>5. ASSUME NEW s \in Swaps, SwapStep(s) PROVE NeverNamed'
    BY <1>2, <1>3, <1>5 DEF SwapStep, MakeDir, CreateTemp, WriteTemp, SyncTemp, SyncDir, FailSwap,
                                 fileVars
  <1>6. ASSUME NEW c \in Clones, CloneStep(c) PROVE UNCHANGED <<named, older>>
    BY <1>6
    DEF CloneStep, BeginClone, LookupPlan, ReadPlan, BeginFile, FetchBlob, QueueFile, Ask,
        CollectFile, ReturnReport, LeaveClone, KillClone, swapVars, fileVars
  <1>7. QED
    BY <1>2, <1>4, <1>5, <1>6 DEF CloneNext, cloneVars, swapVars, fileVars, RetireCommit,
                                     LoseBlob

\* A call that was made is made for good.
LEMMA StaysCalled ==
  ASSUME SoloInv, NEW c \in Clones, [CloneNext]_cloneVars, job[c].at # "idle"
  PROVE  job'[c].at # "idle"
  <1>1. job \in [Clones -> JobRecords]
    BY DEF SoloInv, CloneInv, JobTypes
  <1>2. ASSUME NEW k, k.at # "idle", Await(c, k) PROVE job'[c].at # "idle"
    BY <1>1, <1>2 DEF Await
  <1>3. ASSUME NEW how \in {"failed"}, Stop(c, how) PROVE job'[c].at # "idle"
    BY <1>1, <1>3 DEF Stop, Await, NotCalled
  <1>4. ASSUME CloneStep(c) PROVE job'[c].at # "idle"
    <2>1. CASE BeginClone(c) \/ LookupPlan(c) \/ ReadPlan(c)
      BY <1>1, <1>3, <2>1 DEF BeginClone, LookupPlan, ReadPlan, Await, NotCalled, JobRecords
    <2>2. CASE BeginFile(c) \/ QueueFile(c)
      BY <1>1, <2>2 DEF BeginFile, QueueFile, Await, JobRecords
    <2>3. CASE FetchBlob(c)
      BY <1>1, <1>3, <2>3 DEF FetchBlob, Await, JobRecords
    <2>4. CASE CollectFile(c)
      BY <1>1, <1>3, <2>4 DEF CollectFile, Await, JobRecords
    <2>5. CASE ReturnReport(c) \/ LeaveClone(c) \/ KillClone(c)
      BY <1>1, <1>3, <2>5 DEF ReturnReport, LeaveClone, KillClone, Await, JobRecords
    <2>6. QED
      BY <1>4, <2>1, <2>2, <2>3, <2>4, <2>5 DEF CloneStep
  <1>5. ASSUME NEW d \in Clones \ {c}, CloneStep(d) PROVE job'[c] = job[c]
    BY <1>1, <1>5
    DEF CloneStep, BeginClone, LookupPlan, ReadPlan, BeginFile, FetchBlob, QueueFile,
        CollectFile, ReturnReport, LeaveClone, KillClone, Stop, Await
  <1>6. CASE PowerLoss
    BY <1>6 DEF PowerLoss, NotCalled
  <1>7. CASE UNCHANGED job
    BY <1>7
  <1>8. QED
    BY <1>4, <1>5, <1>6, <1>7 DEF CloneNext, RetireCommit, LoseBlob, cloneVars

LEMMA FreshStep ==
  ASSUME SoloInv, NEW c \in Clones, [CloneNext]_cloneVars
  PROVE  Fresh(c)'
  <1> SUFFICES ASSUME job'[c].at = "idle" PROVE Fresh(c)'
    BY DEF Fresh
  <1>1. /\ job[c].at = "idle" /\ c \notin alone /\ job[c].file = NoFile
        /\ \A s \in StepsOf(c) : swap[s].at = "idle"
    BY StaysCalled DEF SoloInv, Fresh
  <1>2. job \in [Clones -> JobRecords]
    BY DEF SoloInv, CloneInv, JobTypes
  <1>3. ASSUME UNCHANGED <<job, alone>>, \A s \in StepsOf(c) : swap'[s] = swap[s] PROVE Fresh(c)'
    BY <1>1, <1>3 DEF Fresh, StepsOf
  <1>4. ASSUME CloneStep(c) PROVE FALSE
    <2>1. CASE BeginClone(c)
      BY <1>2, <2>1 DEF BeginClone, Stop, Await, NotCalled
    <2>2. QED
      BY <1>1, <1>4, <2>1
      DEF CloneStep, LookupPlan, ReadPlan, BeginFile, FetchBlob, QueueFile, CollectFile,
          ReturnReport, LeaveClone, KillClone, Underway
  <1>5. ASSUME NEW d \in Clones \ {c}, CloneStep(d) PROVE Fresh(c)'
    <2>1. job'[c] = job[c]
      BY <1>2, <1>5
      DEF CloneStep, BeginClone, LookupPlan, ReadPlan, BeginFile, FetchBlob, QueueFile,
          CollectFile, ReturnReport, LeaveClone, KillClone, Stop, Await
    <2>2. c \notin alone'
      BY <1>1, <1>5
      DEF CloneStep, BeginClone, LookupPlan, ReadPlan, BeginFile, FetchBlob, QueueFile,
          CollectFile, ReturnReport, LeaveClone, KillClone
    <2>3. \A s \in StepsOf(c) : s \in Swaps /\ s \notin StepsOf(d)
      BY DEF StepsOf
    <2>4. \A s \in StepsOf(c) : swap'[s].at = "idle"
      <3>1. CASE QueueFile(d)
        <4>1. swap' \in [Swaps -> SwapRecords] /\ swap \in [Swaps -> SwapRecords]
          BY InvStep DEF SoloInv, CloneInv, SwapInv, SwapTypes, SwapRecords
        <4>2. \A s \in StepsOf(c) : s # <<d, job[d].file>>
          BY DEF StepsOf
        <4>3. QED
          BY <1>1, <2>3, <3>1, <4>1, <4>2 DEF QueueFile, Ask
      <3>2. CASE KillClone(d)
        BY <1>1, <2>3, <3>2 DEF KillClone, Killed
      <3>3. CASE UNCHANGED swap
        BY <1>1, <3>3
      <3>4. QED
        BY <1>5, <3>1, <3>2, <3>3
        DEF CloneStep, BeginClone, LookupPlan, ReadPlan, BeginFile, FetchBlob, CollectFile,
            ReturnReport, LeaveClone, swapVars
    <2>5. QED
      BY <1>1, <2>1, <2>2, <2>4 DEF Fresh, StepsOf
  <1>6. ASSUME NEW s \in Swaps, SwapStep(s), UNCHANGED <<job, alone>> PROVE Fresh(c)'
    <2>1. s \notin StepsOf(c)
      BY <1>1, <1>6 DEF SwapStep, MakeDir, CreateTemp, WriteTemp, SyncTemp, Rename, SyncDir, FailSwap, Finished
    <2>2. \A t \in Swaps \ {s} : swap'[t] = swap[t]
      BY <1>6 DEF SwapStep, MakeDir, CreateTemp, WriteTemp, SyncTemp, Rename, SyncDir, FailSwap, GoTo, End,
                  SoloInv, CloneInv, SwapInv, SwapTypes
    <2>3. QED
      BY <1>3, <1>6, <2>1, <2>2 DEF StepsOf
  <1>7. CASE PowerLoss
    <2>1. job'[c] = job[c] /\ alone' = alone
      BY <1>1, <1>7 DEF PowerLoss, Underway
    <2>2. \A s \in StepsOf(c) : swap'[s] = swap[s]
      BY <1>1, <1>7 DEF PowerLoss, Killed, Finished, StepsOf
    <2>3. QED
      BY <1>1, <2>1, <2>2 DEF Fresh, StepsOf
  <1>8. QED
    BY <1>3, <1>4, <1>5, <1>6, <1>7
    DEF CloneNext, cloneVars, swapVars, RetireCommit, LoseBlob

LEMMA SoloInvStep == SoloInv /\ [CloneNext]_cloneVars => SoloInv'
  <1> SUFFICES ASSUME SoloInv, [CloneNext]_cloneVars PROVE SoloInv'
    OBVIOUS
  <1>1. alone' \subseteq Clones
    BY DEF SoloInv, CloneNext, CloneStep, BeginClone, LookupPlan, ReadPlan, BeginFile, FetchBlob,
           QueueFile, CollectFile, ReturnReport, LeaveClone, KillClone, PowerLoss, RetireCommit,
           LoseBlob, cloneVars
  <1>2. CloneInv'
    BY InvStep DEF SoloInv
  <1>3. QED
    BY <1>1, <1>2, NeverNamedStep, FreshStep, SoloStep DEF SoloInv

LEMMA SoloExact ==
  ASSUME SoloInv, NEW c \in alone, job[c].at = "done"
  PROVE  \/ \A f \in Files :
              /\ older[f] = {} /\ named[f].synced
              /\ Restored(c, f) \/ (dirs[DirOf[f]] = "lost" /\ named[f] = Missing)
         \/ /\ job[c].commit \notin stored
            /\ \A f \in Files : named[f] = Missing
  <1>1. c \in Clones /\ CallFollowed(c, job[c]) /\ \A f \in Files : FileSound(c, job[c], f)
    BY DEF SoloInv, Solo
  <1>2. PlanFollowed(c, job[c]) /\ job[c].todo = {}
    BY <1>1 DEF CallFollowed
  <1>3. \A f \in Files : /\ f \notin Queued(c) => swap[<<c, f>>].at = "idle"
                         /\ f \in Queued(c) => swap[<<c, f>>].at = "done"
    BY <1>1 DEF CallFollowed, FileSound, Queued
  <1>4. \A f \in Files : f \notin Queued(c) => named[f] = Missing /\ older[f] = {}
    BY <1>1, <1>3 DEF FileSound, SoloInv, NeverNamed
  <1>5. \A f \in Files : f \in Queued(c) =>
          /\ \/ Good(job[c], f, named[f].image)
             \/ dirs[DirOf[f]] = "lost" /\ named[f] = Missing
          /\ older[f] = {} /\ named[f].synced
    <2>1. \A f \in Files : named[f].synced
      BY DEF SoloInv, CloneInv, SwapInv, SwapTypes, WholeEntries
    <2>2. QED
      BY <1>1, <1>3, <2>1 DEF FileSound
  <1>6. CASE Queued(c) = {} /\ job[c].commit \notin stored
    BY <1>4, <1>6
  <1>7. CASE Queued(c) = Planned(c, job[c])
    <2>1. ASSUME NEW f \in Files, f \notin Queued(c) PROVE Restored(c, f) /\ named[f].synced
      BY <1>4, <1>7, <2>1 DEF Restored, Planned, Missing, Entry
    <2>2. ASSUME NEW f \in Queued(c), Good(job[c], f, named[f].image) PROVE Restored(c, f)
      BY <1>7, <2>2 DEF Restored, Good, Planned
    <2>3. Queued(c) \subseteq Files
      BY DEF Queued
    <2>4. QED
      BY <1>4, <1>5, <2>1, <2>2, <2>3
  <1>8. QED
    BY <1>2, <1>6, <1>7 DEF PlanFollowed

\* A clone that returned its report, and had the target for itself, left
\* the files of its commit there and nothing else, synced, and a power loss
\* takes them with a directory that the clone made or not at all
\* (CloneExact): for any number of clones, files, directories and temporary
\* numbers, whatever fails, is killed or loses power, and whatever is
\* retired or lost meanwhile.
THEOREM CloneExactCorrect == CloneSpec => []CloneExact
  <1>1. CloneSpec => []SoloInv
    BY SoloInitially, SoloInvStep, PTL DEF CloneSpec
  <1>2. SoloInv => CloneExact
    BY SoloExact DEF CloneExact
  <1>3. QED
    BY <1>1, <1>2, PTL

=============================================================================
