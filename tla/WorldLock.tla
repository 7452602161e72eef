------------------------------ MODULE WorldLock ------------------------------
(***************************************************************************)
(* The lock of one world folder (world::HostWorldLock): an OS file lock on *)
(* .sekai.lock, taken at entry of every operation on the world and never   *)
(* waited for.  The file is created on first use and never deleted.        *)
(***************************************************************************)
CONSTANTS
  Operations,   \* callers of operations on the world
  Creators      \* those whose user may create a file in the world folder

ASSUME CreatorsAssumption == Creators \subseteq Operations

VARIABLES
  hold,       \* how each caller holds the world
  lockFile    \* does .sekai.lock exist?

lockVars == <<hold, lockFile>>

LockInit ==
  /\ hold = [o \in Operations |-> "none"]
  /\ lockFile \in BOOLEAN

\* Shared locks go together; an exclusive lock goes with nothing.
Compatible(o, mode) ==
  \A q \in Operations \ {o} :
     hold[q] \in IF mode = "shared" THEN {"none", "unguarded", "shared"}
                                    ELSE {"none", "unguarded"}

\* acquire, when it does not fail: a reader that finds no lock file and may
\* not create one runs unguarded, a writer never does.
Lock(o, mode) ==
  /\ hold[o] = "none"
  /\ \/ /\ lockFile \/ o \in Creators
        /\ Compatible(o, mode)
        /\ hold' = [hold EXCEPT ![o] = mode]
        /\ lockFile' = TRUE
     \/ /\ ~ lockFile /\ o \notin Creators
        /\ mode = "shared"
        /\ hold' = [hold EXCEPT ![o] = "unguarded"]
        /\ UNCHANGED lockFile

Unlock(o) ==
  /\ hold' = [hold EXCEPT ![o] = "none"]
  /\ UNCHANGED lockFile

Guarded(o) == hold[o] \in {"shared", "exclusive"}
=============================================================================
