----------------------------- MODULE WholeFiles ------------------------------
(***************************************************************************)
(* What the readers of a world are promised about its region files: a      *)
(* file is replaced whole, and a power loss leaves every file as one of    *)
(* the whole images that it has had and are not settled, never a torn     *)
(* one.  AtomicSwap implements it.                                         *)
(***************************************************************************)
CONSTANTS
  Files,    \* region files
  Images,   \* whole file images
  NoFile    \* stands for a file that does not exist

VARIABLES
  files,   \* what a reader finds in each file
  kept     \* the images of each file that a power loss may leave

vars == <<files, kept>>

Init ==
  /\ files = [f \in Files |-> NoFile]
  /\ kept = [f \in Files |-> {NoFile}]

Replace(f, i) ==
  /\ files' = [files EXCEPT ![f] = i]
  /\ kept' = [kept EXCEPT ![f] = @ \cup {i}]

\* Some of what a power loss might have left of the files no longer is.
Settle ==
  /\ UNCHANGED files
  /\ DOMAIN kept' = Files
  /\ \A f \in Files : files[f] \in kept'[f] /\ kept'[f] \subseteq kept[f]

PowerLoss ==
  /\ files' \in [Files -> UNION {kept[f] : f \in Files}]
  /\ \A f \in Files : files'[f] \in kept[f]
  /\ kept' = [f \in Files |-> {files'[f]}]

Next ==
  \/ Settle
  \/ \E f \in Files, i \in Images : Replace(f, i)
  \/ PowerLoss

Spec == Init /\ [][Next]_vars
=============================================================================
