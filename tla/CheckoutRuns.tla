---------------------------- MODULE CheckoutRuns -----------------------------
(***************************************************************************)
(* Checkouts of one world and readers of it, over a store that commits,    *)
(* collections, prunes and ref calls share.  The world is excluded by its  *)
(* lock; from the store a checkout is excluded by nothing: `Overlap` says  *)
(* which calls on the store an instance lets run beside a checkout.  The   *)
(* Minecraft server is outside: nobody else writes the world's files.      *)
(***************************************************************************)
EXTENDS StoreRuns, Checkout

CONSTANT Damage   \* may the blob database lose a blob?

ASSUME CheckoutRunsAssumption ==
  /\ Operations \cap (Committers \cup Collectors \cup Pruners) = {}
  /\ Damage \in BOOLEAN

allVars == <<storeVars, checkoutVars>>

Running(o) == job[o].at # "idle"

Beside(kind) == \A o \in Checkouts : Running(o) => {kind, "checkout"} \in Overlap

CheckoutRunsInit == StoreInit /\ CheckoutInit

StoreProgress ==
  /\ \/ Beside("commit") /\ \E w \in Committers : CommitProgress(w)
     \/ Beside("gc") /\ \E g \in Collectors : GcProgress(g)
     \/ Beside("prune") /\ \E p \in Pruners : PruneProgress(p)
     \/ Beside("ref") /\ RefProgress
  /\ UNCHANGED checkoutVars

\* Corruption from outside, which on_missing_blob provides for.
LoseBlob ==
  /\ Damage
  /\ \E b \in cas : RemoveBlob(b)
  /\ UNCHANGED <<pruneVars, run, gc, checkoutVars>>

CheckoutProgress(o) == CheckoutStep(o) /\ UNCHANGED storeVars

CheckoutCall(o) == MayCall("checkout", {}) /\ BeginCheckout(o) /\ UNCHANGED storeVars

CheckoutBreaks(o) == CheckoutFault(o) /\ UNCHANGED storeVars

ReaderReturns(o) == EndRead(o) /\ UNCHANGED storeVars

CheckoutRunsNext ==
  \/ StoreProgress
  \/ LoseBlob
  \/ \E o \in Checkouts : CheckoutCall(o) \/ CheckoutProgress(o) \/ CheckoutBreaks(o)
  \/ \E o \in Readers : (BeginRead(o) /\ UNCHANGED storeVars) \/ ReaderReturns(o)

CheckoutRunsSpec == CheckoutRunsInit /\ [][CheckoutRunsNext]_allVars

\* The runtime polls a future that can go on, its pool runs the steps that
\* are queued, and an operation that reads returns.
FairCheckoutRunsSpec ==
  /\ CheckoutRunsSpec
  /\ \A o \in Checkouts : WF_allVars(CheckoutProgress(o))
  /\ \A o \in Readers : WF_allVars(ReaderReturns(o))

-----------------------------------------------------------------------------
(* Properties. *)

CheckoutTypeOK ==
  /\ hold \in [Operations -> {"none", "unguarded", "shared", "exclusive"}]
  /\ files \subseteq Regions
  /\ \A k \in Coords : live[k] # {} => RegionOf[k] \in files
  /\ \A o \in Checkouts :
       /\ job[o].at \in {"idle", "locked", "found", "passing", "fetching", "stepping", "dropped"}
       /\ job[o].step \in {"none", "discover", "remove", "merge", "swap"}
       /\ job[o].at \in {"stepping", "dropped"} <=> job[o].step # "none"
       /\ {RegionOf[k] : k \in DOMAIN job[o].rows \cup job[o].tombs} \subseteq job[o].scope

\* While an operation holds the world, no other changes a file of it: not
\* even the step of a checkout whose future is gone.  (An operation that
\* runs unguarded in a read-only world has opted out.)
HoldersUndisturbed ==
  [][\A o \in Operations : Guarded(o) /\ worldVars' # worldVars =>
       /\ hold[o] = "exclusive"
       /\ \A q \in Operations \ {o} : ~ Guarded(q)]_allVars

\* What a checkout makes of a coordinate: in scope the chunk the commit
\* presents, and otherwise nothing, or what a policy keeps.
Kept(flag, j, k) == IF flag THEN j.oldLive[k] ELSE {}

Made(j, k) ==
  LET r == RegionOf[k]
      rebuilt == \E i \in In(r) : presented[j.commit][i] # {}
      tombstoned == \E i \in In(r) : i \in j.tombs
  IN  IF r \notin j.scope THEN j.oldLive[k]
      ELSE IF presented[j.commit][k] # {} THEN presented[j.commit][k]
      ELSE IF rebuilt THEN Kept(Keeps(j, k), j, k)
      ELSE Kept(IF tombstoned THEN j.policy.keepTombs ELSE j.policy.keepFiles, j, k)

\* A checkout that ends well has made the world of its commit, chunk for
\* chunk, whatever was on disk; it leaves no new file without a chunk.
CheckoutExact ==
  [][\A o \in Checkouts :
       FinishCheckout(o) =>
         /\ \A k \in Coords : live[k] = Made(job[o], k)
         /\ \A r \in files \ job[o].oldFiles : \E k \in In(r) : live[k] # {}]_allVars

\* A missing blob that the policy skips leaves its chunk to the policy for
\* chunks the commit does not have (no commit beside the checkout puts the
\* blob again).
LeftOut(j, k) ==
  /\ j.policy.skip /\ live[k] = Kept(j.policy.keepChunks, j, k)
  /\ presented[j.commit][k] # {} /\ presented[j.commit][k] \cap cas = {}

\* At any moment of a call, after the future is dropped and after a crash,
\* a file is as it was when the call began or as the commit makes it, but
\* for chunks skipped; outside the scope it is as it was.
FilesOldOrNew ==
  \A o \in Checkouts : Running(o) =>
    \A r \in Regions :
      \/ \A k \in In(r) : live[k] = job[o].oldLive[k]
      \/ \A k \in In(r) : live[k] = Made(job[o], k) \/ LeftOut(job[o], k)

\* The world is not locked for good: whoever holds it lets go, with its
\* future dropped, failing or finishing.
WorldReleased == \A o \in Operations : Guarded(o) ~> ~ Guarded(o)

=============================================================================
