-------------------------------- MODULE Prune --------------------------------
(***************************************************************************)
(* Commit pruning (app::prune, core::usecase::prune) over the metadata     *)
(* store: select what to retain, plan, and retire everything else commit   *)
(* by commit.  Every query and every transaction is a step of its own, so  *)
(* other processes that share the database file may run between any two.   *)
(*                                                                         *)
(* A plan is a value handed back to the caller: it may be applied at once  *)
(* (prune) or later (prune_plan, prune_apply), or never.                   *)
(***************************************************************************)
EXTENDS Snapshots

CONSTANTS
  Pruners,     \* callers of prune
  Alone,       \* no other call is made while a prune call runs
  StalePlans   \* other calls may be made between prune_plan and prune_apply

ASSUME PruneAssumption == {Alone, StalePlans} \subseteq BOOLEAN

VARIABLES
  prune,   \* per caller: how far its prune is, and what it holds in memory
  doomed   \* history: commits that an apply has set out to delete

pruneVars == <<snapshotVars, prune, doomed>>

-----------------------------------------------------------------------------
(* What a prune reads: `rows` is the listing of the commits and `edges`    *)
(* the parent links.  visit_commits fetches them by two queries.           *)

\* Ancestors over links read earlier; a commit is not an ancestor of itself.
LinkedAncestors(edges, c) ==
  LET closed == {S \in SUBSET CommitIds :
                   /\ \A e \in edges : e[1] = c => e[2] \in S
                   /\ \A e \in edges : e[1] \in S => e[2] \in S}
  IN  {a \in CommitIds : \A S \in closed : a \in S}

\* The retained commits that continue a commit, and the fold target among
\* them: the one that every other of them continues.
Continuing(edges, keep, c) == {r \in keep : c \in LinkedAncestors(edges, r)}

\* Slip: any retained commit that continues the deleted one is a target.
AnyContinuing(edges, keep, c) == Continuing(edges, keep, c)

FoldTargets(edges, keep, c) ==
  LET continuing == Continuing(edges, keep, c)
  IN  {t \in continuing :
         \A r \in continuing : r = t \/ t \in LinkedAncestors(edges, r)}

\* keep_last and before select the newest commits from some point on.
Suffixes(rows) ==
  {{c \in DOMAIN rows : rows[c] >= s} : s \in {rows[c] : c \in DOMAIN rows} \cup {nextSeq}}

Idle == [at |-> "idle", keep |-> {}, rows |-> NoRows, delete |-> {},
         todo |-> {}, listed |-> {}, edges |-> {}, from |-> Absent, into |-> Absent]

\* A plan in the caller's hands: prune[p] without what an apply holds.
Planned(r) == [Idle EXCEPT !.at = "planned", !.keep = r.keep, !.rows = r.rows,
                           !.delete = r.delete]

Applying(p) == prune[p].at \in {"starting", "applying", "checked"}

InCall(p) == Applying(p) \/ prune[p].at \in {"selected", "listed"}

Goto(p, r) == prune' = [prune EXCEPT ![p] = r]

\* A refusal or an error ends the call; the caller of prune_apply still
\* has the plan.
GiveUp(p) ==
  /\ Goto(p, IF StalePlans /\ Applying(p) THEN Planned(prune[p]) ELSE Idle)
  /\ UNCHANGED <<snapshotVars, doomed>>

\* Links as visit_commits hands them out: those of the commits it listed.
LinksOf(ids) == {e \in commitParents : e[1] \in ids}

-----------------------------------------------------------------------------
(* Planning. *)

\* list_commits and select_retained.
Select(p) ==
  /\ prune[p].at = "idle"
  /\ \E keep \in Suffixes(CommitRows) :
       Goto(p, [Idle EXCEPT !.at = "selected", !.keep = keep])
  /\ UNCHANGED <<snapshotVars, doomed>>

\* prune_plan lists the commits again ...
ListCommits(p) ==
  /\ prune[p].at = "selected"
  /\ Goto(p, [prune[p] EXCEPT !.at = "listed", !.rows = CommitRows])
  /\ UNCHANGED <<snapshotVars, doomed>>

\* Slip: a deletion without a fold target is not refused.
PlanWithoutTargets(p) ==
  LET rows == prune[p].rows
      keep == prune[p].keep
  IN  /\ prune[p].at = "listed"
      /\ IF (keep # {} \/ DOMAIN rows = {}) /\ keep \subseteq DOMAIN rows
         THEN Goto(p, [prune[p] EXCEPT !.at = "planned", !.delete = DOMAIN rows \ keep])
              /\ UNCHANGED <<snapshotVars, doomed>>
         ELSE GiveUp(p)

\* ... and their links, and refuses a selection that keeps nothing or a
\* commit that is gone, and a deletion without a fold target.
Plan(p) ==
  LET rows == prune[p].rows
      keep == prune[p].keep
      gone == DOMAIN rows \ keep
      sound == /\ keep # {} \/ DOMAIN rows = {}
               /\ keep \subseteq DOMAIN rows
               /\ \A c \in gone : FoldTargets(LinksOf(DOMAIN rows), keep, c) # {}
  IN  /\ prune[p].at = "listed"
      /\ IF sound
         THEN Goto(p, [prune[p] EXCEPT !.at = "planned", !.delete = gone])
              /\ UNCHANGED <<snapshotVars, doomed>>
         ELSE GiveUp(p)

-----------------------------------------------------------------------------
(* Applying. *)

\* Slip: commits that refs name are spared.
StartApplySparingRefs(p) ==
  /\ prune[p].at = "planned"
  /\ Goto(p, [prune[p] EXCEPT !.at = "starting", !.listed = commits,
                              !.todo = {c \in prune[p].delete :
                                          \A n \in RefNames : target[n] # c}])
  /\ doomed' = doomed \cup prune[p].delete
  /\ UNCHANGED snapshotVars

\* prune_apply lists the commits once more; the order of the deletions
\* stays the plan's.
StartApply(p) ==
  /\ prune[p].at = "planned"
  /\ Goto(p, [prune[p] EXCEPT !.at = "starting", !.todo = prune[p].delete,
                              !.listed = commits])
  /\ doomed' = doomed \cup prune[p].delete
  /\ UNCHANGED snapshotVars

\* The links, from which every fold target of the run is computed.
LoadAncestry(p) ==
  /\ prune[p].at = "starting"
  /\ Goto(p, [prune[p] EXCEPT !.at = "applying", !.listed = {},
                              !.edges = LinksOf(prune[p].listed)])
  /\ UNCHANGED <<snapshotVars, doomed>>

\* The next deletion, oldest first.
Oldest(p) == {c \in prune[p].todo :
                \A d \in prune[p].todo : prune[p].rows[c] <= prune[p].rows[d]}

\* fold_target, then the checks retire_commit makes before its transaction.
CheckRetire(p) ==
  /\ prune[p].at = "applying"
  /\ \E from \in Oldest(p) :
       \/ \E into \in FoldTargets(prune[p].edges, prune[p].keep, from) :
            IF CanRetire(from, into)
            THEN Goto(p, [prune[p] EXCEPT !.at = "checked", !.from = from, !.into = into])
                 /\ UNCHANGED <<snapshotVars, doomed>>
            ELSE GiveUp(p)
       \/ FoldTargets(prune[p].edges, prune[p].keep, from) = {} /\ GiveUp(p)

\* The transaction.  A commit retired meanwhile leaves nothing to do; a
\* target retired meanwhile violates a foreign key as soon as a row or a
\* ref would move onto it.
FoldStep(p) ==
  LET from == prune[p].from
      into == prune[p].into
      dangling == /\ into \notin commits
                  /\ \/ RowsOf(from) # {}
                     \/ \E n \in RefNames : target[n] = from
  IN  /\ prune[p].at = "checked"
      /\ IF dangling
         THEN GiveUp(p)
         ELSE /\ Fold(from, into)
              /\ Goto(p, [prune[p] EXCEPT !.at = "applying", !.todo = @ \ {from},
                                          !.from = Absent, !.into = Absent])
              /\ UNCHANGED <<presented, doomed>>

Finish(p) ==
  /\ prune[p].at = "applying"
  /\ prune[p].todo = {}
  /\ Goto(p, Idle)
  /\ UNCHANGED <<snapshotVars, doomed>>

\* The caller drops a plan, or the process dies: its memory is gone, what
\* it has committed stays.
Abandon(p) ==
  /\ prune[p].at # "idle"
  /\ Goto(p, Idle)
  /\ UNCHANGED <<snapshotVars, doomed>>

-----------------------------------------------------------------------------
(* Calls of other users of the store. *)

\* Nothing stands in the way of a call while others hold what they hold.
Free(others) ==
  \A q \in others : /\ Alone => ~ InCall(q)
                    /\ StalePlans \/ prune[q].at # "planned"

PruneInit ==
  /\ SnapshotsInit
  /\ prune = [p \in Pruners |-> Idle]
  /\ doomed = {}

\* A call begins ...
PruneCall(p) == Select(p) \/ StartApply(p)

\* ... and goes on.
PruneStep(p) ==
  \/ ListCommits(p)
  \/ Plan(p)
  \/ LoadAncestry(p)
  \/ CheckRetire(p)
  \/ FoldStep(p)
  \/ Finish(p)
  \/ Abandon(p)

RecordStep ==
  /\ \E c \in CommitIds, ps \in ParentSets, es \in EntrySets : Record(c, ps, es)
  /\ UNCHANGED <<prune, doomed>>

RefStep == RefCall /\ UNCHANGED <<presented, prune, doomed>>

PruneNext ==
  \/ \E p \in Pruners : Free(Pruners \ {p}) /\ PruneCall(p)
  \/ \E p \in Pruners : PruneStep(p)
  \/ Free(Pruners) /\ RecordStep
  \/ Free(Pruners) /\ RefStep

PruneSpec == PruneInit /\ [][PruneNext]_pruneVars

-----------------------------------------------------------------------------
(* Properties. *)

PruneTypeOK ==
  /\ TypeOK
  /\ PresentedType
  /\ doomed \subseteq CommitIds
  /\ \A p \in Pruners :
       /\ prune[p].at \in {"idle", "selected", "listed", "planned", "starting",
                           "applying", "checked"}
       /\ prune[p].todo \subseteq prune[p].delete
       /\ prune[p].delete \subseteq DOMAIN prune[p].rows

\* Pruning changes no snapshot: every stored commit that no apply has set
\* out to delete presents what it presented when it was recorded, in the
\* middle of a run, after a crash and after any number of runs.
SnapshotsIntact == \A c \in commits \ doomed : Intact(c)

\* The weaker promise that survives stale plans and concurrent prunes: a
\* fold never changes the state of a commit that its own plan retains,
\* whatever has been recorded or retired since the plan was made.
RetainedStable ==
  [][\A p \in Pruners :
       FoldStep(p) => \A c \in prune[p].keep \cap commits \cap commits' :
                        StateOf(c)' = StateOf(c)]_pruneVars

\* A plan whose check passed can be carried out to the end: folding the
\* first deletions never takes the target, or the descent from it, away
\* from the later ones.  prune_apply computes the targets from links it
\* read before the first fold.
PlanCarriesThrough ==
  [][\A p \in Pruners :
       CheckRetire(p) \/ FoldStep(p) => prune'[p].at # "idle"]_pruneVars

\* A run that ends leaves exactly what its plan retains.
FinishLeavesKept ==
  [][\A p \in Pruners : Finish(p) => commits = prune[p].keep]_pruneVars

-----------------------------------------------------------------------------
(* The commits as their users see them. *)

Users == INSTANCE SnapshotStore WITH
  stored <- commits,
  promised <- commits \ doomed,
  lineage <- [c \in commits |-> Ancestors(c)],
  snapshots <- [c \in commits \ doomed |-> presented[c]]

\* The delta rows, the links and the sequences are a store of immutable
\* snapshots: recording, pruning, crashing between two retirements and
\* moving refs do nothing that a user of such a store could not expect.
\* Every commit that no apply set out to delete keeps its state and its
\* ancestors among those left, refs of a retired commit move to one that
\* continues it, and a new commit is its entries over its parent.  (Its
\* state is what it presented when it was recorded; that readers are still
\* given that is SnapshotsIntact.)
KeepsPromise == Users!Spec
=============================================================================
