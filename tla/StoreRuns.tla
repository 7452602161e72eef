----------------------------- MODULE StoreRuns -------------------------------
(***************************************************************************)
(* Commits, collections, prunes and ref calls over one store.              *)
(*                                                                         *)
(* Nothing in the code keeps two of them from running at the same time, in *)
(* one process or in several: the world lock covers commits of one world   *)
(* only, and is shared between them.  `Overlap` names the kinds of calls   *)
(* that do overlap in an instance: a caller's discipline, not the code's.  *)
(***************************************************************************)
EXTENDS Prune, Commit, Gc

CONSTANT Overlap   \* sets {a, b} of kinds of calls that may overlap

Kinds == {"commit", "gc", "prune", "ref", "checkout"}

ASSUME OverlapAssumption == \A o \in Overlap : o \subseteq Kinds

\* A caller makes calls of one kind.
ASSUME CallersAssumption ==
  /\ Committers \cap Collectors = {}
  /\ Committers \cap Pruners = {}
  /\ Collectors \cap Pruners = {}

storeVars == <<pruneVars, run, gc, cas>>

\* May a call of this kind begin, made by one of `me`?
MayCall(kind, me) ==
  /\ Free(Pruners \ me)
  /\ \A w \in Committers \ me : Committing(w) => {kind, "commit"} \in Overlap
  /\ \A g \in Collectors \ me : Collecting(g) => {kind, "gc"} \in Overlap
  /\ \A p \in Pruners \ me : InCall(p) => {kind, "prune"} \in Overlap

StoreInit == PruneInit /\ CommitInit /\ GcInit /\ cas = {}

CommitProgress(w) ==
  /\ (MayCall("commit", {w}) /\ CommitCall(w)) \/ CommitStep(w)
  /\ UNCHANGED <<prune, doomed, gc>>

GcProgress(g) ==
  /\ (MayCall("gc", {g}) /\ GcCall(g)) \/ GcStep(g)
  /\ UNCHANGED <<prune, doomed, run>>

PruneProgress(p) ==
  /\ (MayCall("prune", {p}) /\ PruneCall(p)) \/ PruneStep(p)
  /\ UNCHANGED <<run, gc, cas>>

RefProgress ==
  /\ MayCall("ref", {})
  /\ RefCall
  /\ UNCHANGED <<presented, prune, doomed, run, gc, cas>>

StoreNext ==
  \/ \E w \in Committers : CommitProgress(w)
  \/ \E g \in Collectors : GcProgress(g)
  \/ \E p \in Pruners : PruneProgress(p)
  \/ RefProgress

StoreSpec == StoreInit /\ [][StoreNext]_storeVars

-----------------------------------------------------------------------------
(* Properties. *)

StoreTypeOK ==
  /\ PruneTypeOK
  /\ cas \subseteq Blobs
  /\ \A w \in Committers :
       /\ run[w].at \in {"idle", "active", "based", "staging"}
       /\ run[w].base \in CommitIds \cup {Unborn}
       /\ run[w].todo \subseteq DOMAIN run[w].scan
       /\ DOMAIN run[w].scan \subseteq run[w].scope
  /\ \A g \in Collectors :
       /\ gc[g].at \in {"idle", "visiting", "planned", "removing"}
       /\ gc[g].plan \subseteq Blobs

\* Every blob a delta row names is stored: a crash or a collection leaves
\* orphans at worst, never a commit that cannot be checked out.  Blobs are
\* put before the row is recorded and removed only when two scans found no
\* row for them.
NoDangling == Referenced \subseteq cas

\* A commit records what its scan found: in scope the chunks of the files,
\* elsewhere what its base presents; its base is the commit the active ref
\* named when the transaction ran, so no other commit is lost from the
\* history of the ref.
RecordedExactly ==
  [][\A w \in Committers, c \in CommitIds :
       RecordCommit(w, c) =>
         LET r == run[w]
         IN  /\ StateOf(c)' = [k \in Coords |->
                                 IF k \in DOMAIN r.scan THEN {r.scan[k]}
                                 ELSE IF k \in r.scope \/ r.base = Unborn THEN {}
                                 ELSE StateOf(r.base)[k]]
             /\ \A n \in activeRefs : target[n] \in CommitIds => target[n] \in Ancestors(c)']_storeVars

\* A collection that ends has removed every blob that was garbage when its
\* plan and its apply began, but for those that rows name again.
CollectionComplete ==
  [][\A g \in Collectors : GcFinish(g) => gc[g].garbage \cap cas \subseteq Referenced]_storeVars
=============================================================================
