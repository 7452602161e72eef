----------------------------- MODULE AtomicSwap ------------------------------
(***************************************************************************)
(* Writing a region file (world::swap, the write of a RegionFile): the     *)
(* missing directories are made, the image goes into a temporary file of   *)
(* its own beside the target, which is synced and then renamed over it;    *)
(* the directory is synced last, as the program built for unix does.       *)
(*                                                                         *)
(* Temporary files have numbered names.  The process may be killed between *)
(* two system calls; a power loss tears what was not synced and may undo   *)
(* the renames since the directory was.  It may also take a directory that *)
(* a swap made, with all its files, however often it was synced: nobody    *)
(* syncs the one above it.  A directory here stands for those of its path  *)
(* that were missing.  Carrying the permissions over is left out.          *)
(***************************************************************************)
EXTENDS Naturals, FiniteSets

CONSTANTS
  Swaps,     \* calls of atomic_swap, each made once
  Numbers,   \* numbers of temporary files
  Files, Images, NoFile,
  Dirs,      \* the directories of the files
  DirOf,     \* file -> directory
  Torn       \* stands for what is no whole image

ASSUME SwapAssumption ==
  /\ Torn \notin Images \cup {NoFile}
  /\ NoFile \notin Images \cup Files \cup Numbers
  /\ DirOf \in [Files -> Dirs]

VARIABLES
  dirs,    \* per directory: missing, made since, durable, or lost since
  named,   \* what each file is now: its image and whether it was synced
  older,   \* what a power loss may leave in its place
  temps,   \* the same of the temporary files
  swap     \* per call: how far it is, its target, image and number

fileVars == <<dirs, named, older>>
swapVars == <<fileVars, temps, swap>>

Entry(i, s) == [image |-> i, synced |-> s]

Missing == Entry(NoFile, TRUE)

Waiting == [at |-> "idle", file |-> NoFile, image |-> NoFile, temp |-> NoFile]

Finished == {"idle", "done", "failed", "killed"}

SwapInit ==
  /\ dirs = [d \in Dirs |-> "missing"]
  /\ named = [f \in Files |-> Missing]
  /\ older = [f \in Files |-> {}]
  /\ temps = [n \in Numbers |-> Missing]
  /\ swap = [s \in Swaps |-> Waiting]

GoTo(s, phase) == swap' = [swap EXCEPT ![s].at = phase]

End(s, how) == swap' = [swap EXCEPT ![s] = [Waiting EXCEPT !.at = how]]

\* A RegionFile is asked to take an image.
Ask(s, f, i) ==
  /\ swap[s].at = "idle"
  /\ swap' = [swap EXCEPT ![s] = [@ EXCEPT !.at = "asked", !.file = f, !.image = i]]
  /\ UNCHANGED <<fileVars, temps>>

\* create_dir_all of the directory of the target.
MakeDir(s) ==
  /\ swap[s].at = "asked"
  /\ dirs' = [dirs EXCEPT ![DirOf[swap[s].file]] =
                            IF @ \in {"missing", "lost"} THEN "made" ELSE @]
  /\ GoTo(s, "placed")
  /\ UNCHANGED <<named, older, temps>>

\* create_new refuses a name that is taken: the loop tries the next number.
CreateTemp(s) ==
  /\ swap[s].at = "placed"
  /\ \E n \in Numbers :
       /\ temps[n] = Missing
       /\ temps' = [temps EXCEPT ![n] = Entry(Torn, FALSE)]
       /\ swap' = [swap EXCEPT ![s] = [@ EXCEPT !.at = "created", !.temp = n]]
  /\ UNCHANGED fileVars

WriteTemp(s) ==
  /\ swap[s].at = "created"
  /\ temps' = [temps EXCEPT ![swap[s].temp] = Entry(swap[s].image, FALSE)]
  /\ GoTo(s, "written")
  /\ UNCHANGED fileVars

\* Slip: the image is not synced before the rename.
SyncTempSkipped(s) ==
  /\ swap[s].at = "written"
  /\ GoTo(s, "synced")
  /\ UNCHANGED <<fileVars, temps>>

SyncTemp(s) ==
  /\ swap[s].at = "written"
  /\ temps' = [temps EXCEPT ![swap[s].temp].synced = TRUE]
  /\ GoTo(s, "synced")
  /\ UNCHANGED fileVars

\* The rename disarms the guard of the temporary file.
Rename(s) ==
  LET f == swap[s].file IN
  /\ swap[s].at = "synced"
  /\ named' = [named EXCEPT ![f] = temps[swap[s].temp]]
  /\ older' = [older EXCEPT ![f] = @ \cup {named[f]}]
  /\ temps' = [temps EXCEPT ![swap[s].temp] = Missing]
  /\ GoTo(s, "renamed")
  /\ UNCHANGED dirs

\* The directory of the target is synced; the one it was made in is not.
SyncDir(s) ==
  /\ swap[s].at = "renamed"
  /\ older' = [f \in Files |-> IF DirOf[f] = DirOf[swap[s].file] THEN {} ELSE older[f]]
  /\ End(s, "done")
  /\ UNCHANGED <<dirs, named, temps>>

\* A system call fails.  Until the rename the guard removes the temporary
\* file; after it the file has been replaced although the call fails.
FailSwap(s) ==
  /\ swap[s].at \notin Finished
  /\ temps' = [n \in Numbers |-> IF n = swap[s].temp /\ swap[s].at # "renamed"
                                 THEN Missing ELSE temps[n]]
  /\ End(s, "failed")
  /\ UNCHANGED fileVars

\* What is left of an entry that was not synced is torn.
Survives(e) == IF e.synced THEN e ELSE Entry(Torn, TRUE)

\* What a power loss that takes the directories D may leave of a file.
Leftovers(f, D) ==
  IF DirOf[f] \in D THEN {Missing} ELSE {Survives(e) : e \in older[f] \cup {named[f]}}

LoseCaches ==
  \E D \in SUBSET {d \in Dirs : dirs[d] = "made"} :
    /\ dirs' = [d \in Dirs |-> IF d \in D THEN "lost"
                               ELSE IF dirs[d] = "made" THEN "durable" ELSE dirs[d]]
    /\ named' \in [Files -> UNION {Leftovers(f, D) : f \in Files}]
    /\ \A f \in Files : named'[f] \in Leftovers(f, D)
    /\ older' = [f \in Files |-> {}]
    /\ temps' \in [Numbers -> {Missing} \cup {Survives(temps[n]) : n \in Numbers}]
    /\ \A n \in Numbers : temps'[n] \in {Missing, Survives(temps[n])}

\* The calls S stop where they are; the temporary files stay behind.
Killed(S) == [s \in Swaps |-> IF s \in S /\ swap[s].at \notin Finished
                              THEN [Waiting EXCEPT !.at = "killed"] ELSE swap[s]]

SwapStep(s) ==
  \/ MakeDir(s)
  \/ CreateTemp(s)
  \/ WriteTemp(s)
  \/ SyncTemp(s)
  \/ Rename(s)
  \/ SyncDir(s)
  \/ FailSwap(s)

-----------------------------------------------------------------------------
(* The promise. *)

Whole == INSTANCE WholeFiles WITH
  files <- [f \in Files |-> named[f].image],
  kept <- [f \in Files |-> {Survives(e).image : e \in older[f] \cup {named[f]}}
                             \cup (IF dirs[DirOf[f]] = "made" THEN {NoFile} ELSE {})]

\* However the swaps of several callers, failures, kills and power losses
\* interleave, a file changes from one whole image to another only, and no
\* power loss leaves a torn one, but an image the file has had or no file:
\* `atomic_swap` implements WholeFiles.
SwapsAreWhole == Whole!Spec
=============================================================================
