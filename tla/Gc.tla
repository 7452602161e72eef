--------------------------------- MODULE Gc ----------------------------------
(***************************************************************************)
(* Garbage collection of blobs (app::gc, core::usecase::gc).  A scan lists *)
(* the commits, visits each one's effective rows and then the blobs: every *)
(* query is a step.  gc_plan scans once; gc_apply scans again and removes, *)
(* blob by blob, what both scans found orphaned.  Nothing locks the store. *)
(***************************************************************************)
EXTENDS BlobStore

CONSTANT Collectors   \* callers of gc

VARIABLE gc   \* per caller: how far its collection is, and what it holds

NoGc == [at |-> "idle", again |-> FALSE, todo |-> NoRows, seen |-> {},
         plan |-> {}, garbage |-> {}]

\* A plan may rest in the caller's hands between gc_plan and gc_apply.
Collecting(g) == gc[g].at \in {"visiting", "removing"}

Continue(g, r) == gc' = [gc EXCEPT ![g] = r]

-----------------------------------------------------------------------------
\* gc_plan lists the commits.  `garbage` is a history field: the blobs no
\* row names at this point.
GcPlan(g) ==
  /\ gc[g].at = "idle"
  /\ Continue(g, [NoGc EXCEPT !.at = "visiting", !.todo = CommitRows,
                              !.garbage = cas \ Referenced])
  /\ UNCHANGED <<snapshotVars, cas>>

\* gc_apply lists them again.
GcApply(g) ==
  /\ gc[g].at = "planned"
  /\ Continue(g, [gc[g] EXCEPT !.at = "visiting", !.again = TRUE, !.todo = CommitRows,
                               !.garbage = @ \ Referenced])
  /\ UNCHANGED <<snapshotVars, cas>>

\* Slip: a commit that was retired since ends the scan.
GcVisitUntilGone(g) ==
  LET rows == gc[g].todo
  IN  /\ gc[g].at = "visiting"
      /\ \E c \in DOMAIN rows :
           /\ \A d \in DOMAIN rows : rows[c] <= rows[d]
           /\ Continue(g, [gc[g] EXCEPT
                !.todo = [d \in {x \in DOMAIN rows \ {c} : c \in commits} |-> rows[d]],
                !.seen = @ \cup UNION {Present(c, k) : k \in Coords}])
      /\ UNCHANGED <<snapshotVars, cas>>

\* The effective rows of the next commit listed.  A commit retired since
\* has none left.
GcVisit(g) ==
  LET rows == gc[g].todo
  IN  /\ gc[g].at = "visiting"
      /\ \E c \in DOMAIN rows :
           /\ \A d \in DOMAIN rows : rows[c] <= rows[d]
           /\ Continue(g, [gc[g] EXCEPT
                !.todo = [d \in DOMAIN rows \ {c} |-> rows[d]],
                !.seen = @ \cup UNION {Present(c, k) : k \in Coords}])
      /\ UNCHANGED <<snapshotVars, cas>>

\* The blobs, once every commit listed has been visited.
GcScanBlobs(g) ==
  /\ gc[g].at = "visiting"
  /\ gc[g].todo = NoRows
  /\ LET orphans == cas \ gc[g].seen
     IN  Continue(g, IF gc[g].again
                     THEN [gc[g] EXCEPT !.at = "removing", !.plan = @ \cap orphans, !.seen = {}]
                     ELSE [gc[g] EXCEPT !.at = "planned", !.plan = orphans, !.seen = {}])
  /\ UNCHANGED <<snapshotVars, cas>>

\* Slip: the removal stops after the first blob.
GcRemoveFirst(g, b) ==
  /\ gc[g].at = "removing"
  /\ b \in gc[g].plan
  /\ RemoveBlob(b)
  /\ Continue(g, [gc[g] EXCEPT !.plan = {}])
  /\ UNCHANGED snapshotVars

GcRemove(g, b) ==
  /\ gc[g].at = "removing"
  /\ b \in gc[g].plan
  /\ RemoveBlob(b)
  /\ Continue(g, [gc[g] EXCEPT !.plan = @ \ {b}])
  /\ UNCHANGED snapshotVars

GcFinish(g) ==
  /\ gc[g].at = "removing"
  /\ gc[g].plan = {}
  /\ Continue(g, NoGc)
  /\ UNCHANGED <<snapshotVars, cas>>

\* The plan is dropped, or the process dies: what it has removed is gone.
GcDies(g) ==
  /\ gc[g].at # "idle"
  /\ Continue(g, NoGc)
  /\ UNCHANGED <<snapshotVars, cas>>

GcInit == gc = [g \in Collectors |-> NoGc]

GcCall(g) == GcPlan(g) \/ GcApply(g)

GcStep(g) ==
  \/ GcVisit(g)
  \/ GcScanBlobs(g)
  \/ \E b \in Blobs : GcRemove(g, b)
  \/ GcFinish(g)
  \/ GcDies(g)
=============================================================================
