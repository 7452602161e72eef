# Sekai in TLA+

Sekai is a version store for Minecraft worlds. A *commit* records the chunks of
a world as deltas over a parent; a *checkout* writes a recorded state back into
region files, a *clone* into an empty directory; *prune* folds old commits away;
*gc* removes blobs that nothing names. The metadata (commits, edges, delta rows,
refs, named scopes) and the blobs live in two SQLite databases that any number
of processes may open. There is no store lock: the design argues from
immutability, transactions and the order of writes (`ARCHITECTURE.md`,
`docs/adr/0022`). This project states what that argument has to deliver, checks
it over every interleaving of small instances, and proves its safety for stores,
worlds and numbers of callers of any size. Around it stand the parts that a commit and a
checkout rest on: the swap that replaces a file, the region format, the identity
of a chunk, the selections and the layouts of a world.

Sections: 1 the system, 2 the modules, 3 the runs, 4 the proofs, 5 where code
and documentation disagree, 6 what is left out, 7 the plan.

## 1. The system

| component | state | operations | who touches it |
|---|---|---|---|
| Metadata history (`storage-sqlite/src/meta.rs`, port in `core/src/port/meta.rs`) | tables `commits` (id, local sequence), `commit_parents`, `chunk_history` (delta rows and tombstones) | record a delta, create a commit, record a chunk, retire a commit into a successor; queries for state, listing, links | everything below; each call is one transaction, except that `retire_commit` makes its checks before its transaction |
| Refs (same file) | table `refs`: name, commit or unborn, one active | set, delete, activate; a recording moves the active ref, a retirement moves refs that name the retired commit | commit, prune, the command line |
| Named scopes (same file, `app/src/scopes.rs`) | tables `scopes`, `scope_areas` | `create_scope`: a look-up, then `set_scope` in a transaction; delete | the command line |
| Store opening (`storage-sqlite/src/sqlite.rs`) | two files, their `user_version`, journal mode and write lock | init, open | every process, first of all |
| Test store (`core/src/support.rs`) | the same history in vectors and maps | the same port | the tests of the use cases |
| Blob store (`storage-sqlite/src/blob.rs`) | set of blobs by hash, in a second database | put (idempotent, durable on return), remove, fetch, visit | commit puts, gc removes, checkout and clone fetch |
| Commit (`app/src/commit.rs`, `core/src/usecase/commit.rs`) | in memory: base, the state it presents, staged chunks | three queries, a put per chunk, one recording transaction | metadata, blobs, world lock |
| Gc (`app/src/gc.rs`, `core/src/usecase/gc.rs`) | in memory: a plan of orphans | plan, rest, scan again, remove blob by blob | metadata (reads), blobs |
| Prune (`app/src/prune.rs`, `core/src/usecase/prune.rs`) | in memory: a plan (retained, deletions in order) and links read once | select, plan, rest, apply commit by commit | metadata |
| Checkout (`app/src/checkout.rs`, `core/src/usecase/checkout.rs`) | region files; in memory: plan, the file under way | two queries, a blocking discovery step, per file: fetches and a blocking step | metadata, blobs, world lock, files |
| Clone (`app/src/clone.rs`) | a fresh directory; in memory: plan, queued writes | emptiness check, two queries, fetches, writes on the blocking pool that are awaited at the end | metadata, blobs, files; no lock |
| Log and diff (`core/src/usecase/graph.rs`, `app/src/diff.rs`) | in memory: a frontier, the coordinates, two sides | a query per record or side | metadata (reads) |
| World lock (`world/src/lock.rs`, `world/src/tree/hostworld/lock.rs`) | an OS lock on `.sekai.lock` | shared or exclusive, never waited for; unguarded when a reader may not create the file | every operation on a world |
| create_ref (`app/src/refs.rs`) | - | target resolved, two look-ups and a write | refs |
| Atomic swap (`world/src/swap.rs`) | a temporary file, its target and their directory | make the directory, create, write, sync, rename, sync the directory | checkout, clone |
| World layout (`world/src/tree/hostworld`) | directories | detect, list, derive | commit, checkout, clone, diff |
| Region format (`anvil/src/{region,reader,writer,codec}.rs`) | an image of sectors; four codecs | stage, assemble, walk, look up, decompress | commit, checkout, clone, diff |
| Chunk identity (`anvil/src/nbt`) | - | the key of a chunk payload | commit, diff |
| Scope algebra (`util/src/scope.rs`, flags in `cli/src/cli.rs`) | - | pure functions on selections | commit, status, checkout, clone, diff |

What makes it hard:

* **Interleaving without a store lock.** A commit puts blobs long before the row
  that names them; a gc looks at rows commit by commit while a prune moves rows
  between commits; a plan of either may rest while the store changes; two queries
  of one call see two states of the store.
* **Deltas.** What a commit presents depends on rows of its ancestors, ordered by
  a sequence that a retirement rewrites. A wrong row dropped, kept or re-stamped
  changes commits far from the one being retired.
* **Crashes.** A process may die between any two calls: after some blobs and
  before the row, after some retirements, between two files.
* **Dropped futures.** A checkout's blocking step goes on after the future that
  started it is gone, and the world must stay locked for exactly that long.
* **Racing processes.** Two of them create the store, a ref, a scope or a clone at
  once; each looks first and writes later.
* **Boundaries.** Region coordinates at the edge of `i32`, runs of sectors at the
  last one a table can address, output at the cap of a codec.

What makes each component correct is stated with its properties in section 3;
`PROJECT.json` lists the hazards with the line at which each one bites.

## 2. The modules

```
MetaStore ─┬─ Snapshots ─┬─ Prune ────────────┐
           │             ├─ BlobStore ─ Commit ├─ StoreRuns ─┐
           │             │      └───── Gc ────┘              ├─ CheckoutRuns
           │             │      └───── Checkout ── WorldLock ┘
           ├─ Queries
           ├─ StoreOpen ─┐
           └─ Refs ──────┼─ Sessions
               Scopes ───┘
MemMeta  ······> MetaStore          (refinement)
Prune    ······> SnapshotStore      (refinement)
AtomicSwap ─ Clone
   ············> WholeFiles         (refinement)
ChunkFrames ─ ChunkKeys ──┐
Coordinates ─ RegionFormat ┼─ Formats
            └ Selections ──┤
              WorldLayout ─┘

MetaStoreProofs ─┬─ StoreProofs ─ CheckoutProofs
                 ├─ QueriesProofs
                 └─ SessionsProofs
MemMetaProofs, CloneProofs, FormatsProofs
```

Each line is an `EXTENDS` (a module of proofs also extends the module it is named
after, StoreProofs extends StoreRuns, and FormatsProofs extends RegionFormat,
Selections and WorldLayout), each dotted arrow an `INSTANCE ... WITH` whose
specification is a PROPERTY of the module it leaves. Actions of the lower modules
are whole port calls or system calls; the upper modules put program counters
around them.

**MetaStore** is the metadata database. One action is one successful port call;
a call that fails rolls back and stutters. `seq[c]` is the local sequence of a
stored commit and 0 for others, `commitParents` the edges, `chunkHistory` the
rows, `target` and `activeRefs` the refs. A commit id is a hash over parents,
time and entries: an opaque value, with history variables `assigned` and
`hashed` for the ids ever recorded and the parents that went into them. A commit
can be recorded again. While it is stored (`RecordAgain`, `CreateAgain`) only its
edges are inserted, `OR IGNORE`, and the active ref moves. When it was retired it
goes in as a new one, with a sequence of its own; a commit that named it as a
parent and is then recorded again gets back an edge to what is now a later
sequence (`Relinks`). The entries of an id are not remembered: a retired id may come
back with others, which is more than the hash allows. `Fold` is the transaction of
`retire_commit`: rows the successor's history supersedes are dropped, the
others move and take the successor's sequence, refs follow, edges are bridged,
the commit goes. `CanRetire` are its checks. `Visible`, `Effective` and
`Present` are the reads: the newest row by sequence among the ancestors.

**MemMeta** is the in-memory store on which all use cases of `core` are tested:
parents inside the commits, rows without sequences, scans instead of queries. Its
refinement mapping rebuilds the tables; `ImplementsPort` says that whatever is
done to it could have been done to the SQLite store, with the same effect, but for
one step that it names (`LeavesUnlinked`): the fake keeps the parents of a commit it
holds, where SQLite inserts an edge to a parent that was retired and came back.

**Queries** are the readers: `commit_ancestors` and `commit_history` walk level by
level, a query for each record and each set of edges; `list_commits` reads the
commits and then all edges; `diff` lists the coordinates of two commits and reads
each side. Between two queries any call of the application may come: its commits are
new ones (`NoneBack`). `known` and `steady` are
history: the ancestors at the start, and whether what happened meanwhile is of
the kind `HistoryStable` speaks of. With `NoReader` the port is called by itself, and
any id may come back.

**StoreOpen, Refs, Scopes, Sessions** are processes that race over names.
`StoreOpen` follows `connect_sqlite` through both databases: connect and create
the file, switch it to WAL or replay the log of one that died, for which a
connection needs the file to itself, read the version, `BEGIN IMMEDIATE` (or its
busy timeout), read it again, create the schema or leave, pass the gate. A
connect that finds the file taken fails at once; the loop of `connect_pool`
sleeps and tries again until its deadline (`ConnectBusy`, `WakeUp`). Both files
may be there before, empty, current or of another version. An opening has five
ends: open, `refused` (another schema version), `missing` (a plain open without
a store), `busy` (a deadline passed) and the death of its process. `Refs` and
`Scopes` are `create_ref` and `create_scope` with their look-ups and the port
call as separate steps. `Sessions` lets processes open, work and die.

**Snapshots** adds the history variable `presented`: what each commit presented
when it was recorded. All properties about snapshots compare with it. Its `Record` is
a commit of the application, which puts the time of the clock into the id: one that
was never recorded before.

**Prune** runs `select_retained`, `prune_plan`, `prune_apply`, one query or
transaction per step. A plan is a value in `prune[p]`; `doomed` (history)
collects what an apply has set out to delete. `Abandon` is the process dying or
the plan being dropped, at any point. The constants `Alone` and `StalePlans`
say whether others call the store during a call, and whether plans rest.

**SnapshotStore** is what all this is for, stated without it: commits that are
stored, those of them that are still promised, the state of each promised commit,
the lineage, the refs. `Record` puts a commit over what the active ref names,
`Withdraw` is the start of an apply, after which nothing is promised of the states
of its deletions, `Forget` takes one of them out of the lineage and hands its refs to
a commit that continues it. There are no deltas, links, sequences or plans in it. Of
an unpromised base a new commit may inherit anything. `KeepsPromise` in `Prune` is its
specification under the mapping that reads `stored` off the sequences, `promised` off
`doomed`, `lineage` off the least closed sets of links and `snapshots` off
`presented`; that readers are still given `presented` is `SnapshotsIntact`, in the
same run.

**BlobStore, Commit, Gc** are the second database and its two writers. `Commit`
reads the active ref, the base and its state by three queries, then finds a
*scan* (any content of any scope), puts blobs in any order and records the
delta if the active ref still is where the plan left it. `Gc` scans commit by
commit, oldest first, twice, and removes what both scans found orphaned.

**StoreRuns** composes the three. `Overlap` names the pairs of kinds of calls
that may overlap in an instance: the code forbids none, so every restriction is
a caller's discipline, and section 5 says what happens without it.

**WorldLock, Checkout, CheckoutRuns** are one world: its lock, the files as sets
of chunks (`files`, `live`), the checkout future (`job[o].at`) and its blocking
step (`job[o].step`). The step holds a share of the lock: `DropFuture` leaves
the step running and the world held, `StepEnds` gives up the last share.
`LoseBlob` is damage from outside, which `on_missing_blob` provides for.

**AtomicSwap, WholeFiles, Clone** are what checkout takes for one step. A swap is
`create_dir_all`, `create_new`, `write_all`, `sync_all`, `rename` and the sync of the
directory, over directories in which names, contents and syncs are kept apart:
`older[f]` is what a power loss may bring back, an entry that was not synced is torn by
it. `dirs` says of a directory whether it is missing, made by a swap, durable, or
lost: nobody syncs the directory above one that was made, so until the file system has
written it by itself a power loss may take it, with all its files, synced or not
(`LoseCaches`). A directory stands for the part of a path that was missing. Calls
fail, are killed with their process, and share the numbers of temporary files.
`WholeFiles` is the promise to readers. `Clone` runs `clone_to` over it: its
future, and the writes it queues, which go on when the future is dropped.

**RegionFormat** is the builder (`stage_chunk`, `remove_chunk`, `image`) and the
reader (`chunk_at` of the walk, `chunk_payload` by coordinates) over images cell by
cell, with small sectors and small limits. **ChunkFrames** is `decompress_into`:
what each codec accepts around a body. **ChunkKeys** is `chunk_key`: decode as
modern, else as legacy, else refuse, and what the normalised views leave out.
**Coordinates** and **Selections** are `Rect`, `Area`, `Scope` and what the flags
`--in`, `--region` and `--kind` add up to, over integers of `IntWidth` bits with
the clamping and saturation of the code. **WorldLayout** is `detect`,
`HostWorldTree` and its four layouts over paths. **Formats** puts the four side by
side: their inputs are built step by step, so that any sequence of edits, flags or
staged chunks up to a bound is met.

**\*Proofs**: section 4. **MC\*** modules only
add symmetry sets and the finite values of function-valued constants.

Operators introduced by "Slip:" are variants of the operator below them with a
plausible mistake: each property is re-checked with a slip in place of the
original and must then fail. They are part of no specification.

## 3. The runs

All runs explore the whole state space of their instance. Symmetry is over
commit ids, blobs and callers of one kind, which no definition tells apart; the
runs with a liveness property use none.

| run | instance | distinct states | shows |
|---|---|---|---|
| `metastore` | 3 commits, merges and retired ids recorded again, 4 recordings, 2 refs, 1 coordinate; or one reader between the calls | 260 thousand | `TypeOK`, `RefsResolve`, `OneActiveRef`, `Acyclic`, `OrderKept`, `RowsKeyed`, `FoldKeepsAncestry`, `HistoryStable`, `RecordResolves`, `WalkExact`, `WalkWithin`, `ListedParents`, `DiffExact` |
| `memory` | the test store: 3 commits, merges and retired ids recorded again, 4 recordings, 2 refs, 2 blobs | 37 thousand | `ImplementsPort` (refinement), `SameAnswers` |
| `sessions` | 2 processes, two databases each missing, empty, current or of another version, 1 retry, 2 refs, 1 scope name with 2 areas, 2 clock readings | 544 thousand | `RefusedForCause`, `OpenComplete`, `InitMaterializes`, `OpeningEnds`, `ScopesWhole`, `CreationKept` |
| `prune_alone` | 4 commits, 1 pruner, plans applied at once, crashes anywhere | 414 thousand | `SnapshotsIntact`, `PlanCarriesThrough`, `FinishLeavesKept`, `KeepsPromise` (refinement) |
| `prune_shared` | 3 commits, 2 pruners, everything interleaves, plans rest; a view leaves out `presented` and `doomed`, which no step (and not this property) reads | 970 thousand | `RetainedStable` |
| `store_shared` | 3 commits, a committer, a collector, a pruner; gc, prune and ref calls overlap | 675 thousand | `StoreTypeOK`, `NoDangling`, `CollectionComplete` |
| `store_commits` | 2 commits of 2 chunks by 2 committers that overlap each other and ref calls | 2.0 million | `RecordedExactly` |
| `checkout_alone` | 2 commits, a region of 2 chunks in every state, all 8 keep-policies, crashes and dropped futures | 938 thousand | `CheckoutExact` |
| `checkout_world` | 2 regions, 2 checkouts, 2 readers (one may not create the lock file), missing blobs aborted, or skipped with and without `keepChunks` | 105 thousand | `HoldersUndisturbed`, `FilesOldOrNew`, `WorldReleased` |
| `files` | 2 clones into one target, 2 files in 2 directories to be made, 2 temporary numbers, failures, kills, power losses, a retirement, lost blobs | 880 thousand | `CloneExact`, `SwapsAreWhole` (refinement) |
| `formats` | sectors of 4 cells, 2 sectors a chunk, 6 addressable; 3-bit integers; 2 edits of a chunk, 2 flags; every layout with 2 custom dimensions | 893 thousand | `RegionSound`, `KeyExact`, `SelectionExact`, `Reopens` |
| `store_gc_commit` | 2 commits; a collection overlaps a commit | | violates `NoDangling`: section 5 |

In words:

* *Metadata.* Refs name stored commits and exactly one is active. The graph has
  no cycle, also where edges that a retirement bridged meet edges that a
  repeated recording brings back. Edges point back in the order of the sequences
  (`ParentsOlder`), until a retired commit is recorded again and then a child
  that it left behind: `OrderKept` says that nothing else breaks it. Rows belong
  to stored commits and carry their sequence; a retirement never collides two. A
  retirement takes one commit out of every ancestor set and changes nothing else
  about reachability: `prune_apply`, which computes all targets before the first
  retirement, relies on that. In a history without merges and in order, nothing
  but an edge that comes back (and `record_chunk`, on purpose) changes what a
  stored commit presents (`HistoryStable`); a new commit presents its entries
  over its parent (`RecordResolves`).
* *Readers.* A walk that ends while the history it set out on is still stored has
  reported each commit of it once, nearest first, although other commits came and
  went meanwhile; one whose history was cut reports nothing from elsewhere. A
  listing names no parent that it does not list, though the edges are read after
  the commits. A diff of two commits that are still there at its end is what one
  instant would have shown.
* *The test store.* Each call that succeeds on it is a step of `MetaStore`, or
  leaves out an edge that came back; its
  scan finds the row that the recursive query finds. What the tests of `core`
  show thus holds of the SQLite store, as far as calls that succeed go and a child is
  not recorded again after its parent was retired and recorded again.
* *Opening and naming.* Processes that create one store at once are not refused for
  each other's schema: a refusal is over another version. Who
  opens it sees both databases complete, also after a creator died half way; only
  `init` makes files; every opening ends, be it with `busy`. A forced or racing
  `create_scope` leaves every scope with its own areas and its creation time.
* *Prune.* Commits outside the deletions present what they presented when
  recorded, in the middle of a run and after a crash; a plan that passed its
  check never gets stuck half way; it leaves what it retains. All of it, recordings
  and ref calls between the prunes included, implements `SnapshotStore`: no refs and
  no history are lost with a commit, and no retirement shows but by the commit that
  is gone. With stale plans
  and concurrent pruners a weaker promise remains: a fold never changes a commit
  that its own plan retains.
* *Store.* No row ever names a blob that is not stored, although a gc reads
  while a prune moves rows. A commit that is recorded records what its scan
  found and continues the commit that the active ref names at that moment; of
  two commits planned on one head one is refused. A finished gc has left no
  garbage of the time it was planned and applied.
* *Checkout.* A call that ends well has made, chunk for chunk, what the table of
  policies says, whatever was on disk. Meanwhile each file is old or new, but for
  chunks whose blob is missing and skipped. Nobody
  changes a file while another guarded operation holds the world, dropped
  futures included, and the world is not held for good.
* *Files.* Whatever fails, dies or loses power, a region file is one of the whole
  images it was given, or is gone with a directory that was made for it: `atomic_swap`
  implements `WholeFiles`. A clone that returned
  its report and had the target for itself left exactly the files of its commit.
  A power loss right after takes no single one of them back, but perhaps a whole
  directory that the clone made.
* *Formats.* What the builder writes, both look-ups of the reader give back, up to
  the last addressable sector, and a file that was cut off is reported. A chunk
  keeps its key through what a server rewrites by itself, under every codec, and
  changes it for anything else; a payload that was cut or altered never gets the
  key of other content. A scope is what the flags name, at both ends of the
  integers too; a region is opened if and only if a chunk of it is selected. A
  world that a server or a clone laid out is read as it was laid out.

**Bounds.** Three commits are the least with a retired commit, a target and a
sibling or a third generation; four (in `prune_alone`) add a retirement whose
target is not adjacent next to a surviving branch. One coordinate suffices where
rows of different coordinates do not meet in any definition (MetaStore, Prune,
Gc); commits and checkouts, where scopes, partial staging and policies mix
coordinates, have two. Two blobs tell "the same" from "another" chunk; where
only presence matters there is one; in `metastore` tombstones and the absence of
a row stand beside the one blob. Two refs meet in `metastore`, `memory` and
`sessions`: one can be created, moved, activated and deleted under the other.
`MaxSeq` bounds the sequences handed out, and so the recordings: where it is 4,
three commits can be recorded and one of them a second time after its
retirement, the least with an edge that comes back. In the other runs, whose
commits are the application's, ids are used up and `MaxSeq` only bounds the port
calls of a `Next` that they do not take. Beside a reader of `metastore` refs
other than those in `ReaderRefs` rest, which no reader looks at. Two processes
race over a database, which has one write lock; with a third nothing new could
hold it. `MaxRetries` = 1 lets a connect fail, sleep, try again and end either
way; the deadline itself is any number of turns up to it. Two temporary numbers
let a clone meet one left by a killed process and take the next. In `formats`
`SectorLen`, `MaxSectors`, `MaxOffset`, `MaxOut` and `IntWidth` are small so
that the inputs reach every limit and go beyond it; `MaxEdits` = 2 lets a change
and its reverse, or a change of both spellings of a member, meet; `MaxFlags` = 2
is the least with a union. `MaxScopeId` bounds the ids handed out, `Together` =
FALSE keeps refs and scopes, which share no table, from being created in one
behaviour.

**Deadlock** is checked in every run but two: a clone is called once per caller
(`files`), and the computations of `formats` end with their inputs.

**Fairness** is assumed in two specifications. `FairCheckoutRunsSpec`, for
`WorldReleased`: weak fairness of each checkout's own steps (the async runtime
polls a future that can go on and its blocking pool runs the closures that are
queued) and of the return of an operation that reads. `FairSessionsSpec`, for
`OpeningEnds`: weak fairness of each opener's next step, which is always
enabled: one that sleeps between two connects wakes up, one past the deadline of
`connect_pool` reports it (`storage-sqlite/src/meta.rs:57-69`), and one that
waits for the write lock has a busy timeout (sqlx's default, of five seconds as
well, 38-40). Nothing is assumed about callers beginning calls, dropping
futures, failing or dying. Every other property is a safety property of a
specification without fairness.

## 4. The proofs

Every theorem holds for every set of commits, coordinates, blobs, refs, names,
regions, files and callers. What is assumed of the constants is named and
checked by every run of the module, and is about identity only: the special
values (`Unborn`, `Absent`, `Tombstone`, `NoFile`, `Torn`, `Nobody`) are not
among the ordinary ones, `Main` is a ref, a caller makes calls of one kind
(`CallersAssumption`), every file is in a directory (`SwapAssumption`), who
checks out is not who reads and every coordinate lies in a region
(`CheckoutAssumption`), a session creates refs and scopes in its own name
(`SessionsAssumption`). Of sizes it is assumed that the chunks along a region
divide the range of the integers (`CoordinateAssumption`; 32 and 2^31 in the
code) and that a sector has room for a table of entries (`RegionAssumption`). Of
names it is assumed (`LayoutAssumption`) that each has a word, that no world
folder is called like `dimensions`, `DIM-1` or `DIM1`, which detection skips,
and that the world folder of somebody else is not one of those a server is
given; of datapack dimensions that they are finitely many and not of the trio;
and that there is a region. Whatever is a caller's discipline and not a fact
about the code is a hypothesis of the theorem that needs it: no merges, no id
that comes back, no two prunes at a time, a pair of kinds that is not in
`Overlap`. The runs have instances with each of these, and section 5 has the
behaviours without.

**MetaStoreProofs.** First what holds of the port whatever is recorded, retired and
recorded again: `TypeCorrect`, `RefsResolveCorrect`, `OneActiveRefCorrect`,
`RowsKeyedCorrect` (`RowsBelong` and `PrimaryKey`) and `FoldKeepsAncestryCorrect`. The
inductive invariant is `PortInv`, the conjunction of these with `SeqUnique` (sequences
are distinct and below the counter) and `EdgesStored`. No conjunct survives alone. A
retirement re-stamps rows with the sequence of the successor, which keeps
`RowsBelong` only as sequences belong to commits one to one. It moves a row onto its
successor, which keeps `PrimaryKey` only as the successor's own row at that
coordinate makes the moving one superseded: the checks of `retire_commit` compare the
sequences, and the row carries its commit's.

`AcyclicCorrect` cannot argue from the sequences, which no longer order the
history once an edge came back. It is argued from an order in which ids were
first recorded: `Ranked` says that there is a numbering of the ids in which an
id's parents, those hashed into it and those that an edge gives it, come before
it; an id keeps its number when it comes back, since it covers the same parents,
and a bridge joins numbers that were already in order. `OrderKeptCorrect` says
which step can break the order of the sequences (`RelinkOnly`).
`ParentsOlderCorrect` has the hypothesis `[][NoneBack]`: no retired id is
recorded again. Its invariant `IInv` adds to `PortInv` `ParentsOlder` and
`HashedEdges` (a stored commit has an edge to each stored parent it was hashed
with), so that a repeated recording finds its edges in place. It is what the
modules of the application stand on. Ancestors are defined as the least closed
set, so reachability is argued by exhibiting closed sets (`AncestorsWithin`),
without induction.

Its last part is about what commits present. `HistoryStableCorrect`: while no
commit has two parents and sequences order the history, no port call changes
what a stored commit presents, recordings of retired ids and sound retirements
included, but one that brings an edge back. Without merges the ancestors of a
commit are a chain (`Chain`), and a row of a descendant is either older than the
retired row or newer than the successor unless it supersedes it (`FoldGap`): so
re-stamping passes no row that decides. `StaysLinear`: a history without merges
stays one under bridging and repeated recordings, as long as no retired id comes
back. `RecordResolvesCorrect`: a new commit presents its entries over its
parent, merges or not below it. `StepStable` says the same of one step, for the
modules below.

**StoreProofs**, first of prunes. A prune reads, rests, and writes by what it
read. `Evolves` is what any step may do meanwhile: ids never come back, and a
commit that stays keeps its sequence and its ancestors among those that stay.
`PlanSound` is what a prune remembers that is still true under that: the listing
was closed under parents, a link it has read joins a commit to an ancestor as
long as both are there, and what was checked outside the transaction
(`CheckHolds`) still makes the fold a sound one, or one with nothing to move. So
`PruneInvCorrect` and, without merges, `RetainedStableCorrect` hold for any
number of pruners and any stale plan. For a prune that has the store for itself
(`Alone`, no stale plans) `LoneInv` adds that its plan is the store's state step
by step (`PlanCurrent`): the commits are what is kept and what is left to do,
and each of them has a target by the links read before the first retirement.
That gives `SnapshotsIntactCorrect`, `PlanCarriesThroughCorrect` and
`FinishLeavesKeptCorrect`.

Then of the store as a whole. `StoreInvCorrect` and `StoreTypeOKCorrect` need no
hypothesis on overlaps. The others name the overlap that breaks them and no
other:
* `NoDanglingCorrect`, without a commit beside a collection. `KeepInv`: a scan
  goes by sequence and a retirement moves rows to a later commit, so every row
  names a blob that was seen or belongs to a commit still to be visited
  (`RowsSeen`, `ScanAhead`); prunes and ref calls may interleave as they like.
* `CollectionCompleteCorrect`, moreover without a second collection. `SweepInv`:
  what was garbage at the start stays unnamed, and is in the plan of each phase.
* `RecordedExactlyCorrect`, without a prune beside a commit. `BaseRead`: what a
  commit has read of its base is what the base presents, other commits included.

Last, the refinements. `KeepsPromiseCorrect`: prunes over single port calls implement
`SnapshotStore`, under the hypotheses of `SnapshotsIntactCorrect`. The invariant is
`UserInv`: `LoneInv`, and that only ids once recorded are doomed. A recording maps to
`Record`, as the recorded commit presents its entries over its parent
(`NewCommitPresents`) and a parent that is promised is intact; it has at most one
blob to present at a coordinate (`OneBlobPresent`). `StartApply` maps to `Withdraw`. A
retirement maps to `Forget` (`FoldMaps`): its checks have been made earlier, and
`LoneInv` is what says that they still hold, so that the transaction does take the
commit out of the lineage (`FoldAncestors`). Every other step is a stutter.
`StoreImplementsPrune`: the whole store implements the prunes over single port calls,
if no commit overlaps a prune. A commit that reads, stages and records step by step
maps to one recording, and it finds no prune in its way (`OutOfTheWay`), of which a
prune that dies is the only one that can step at all. So what is proved of `PruneSpec`
holds of the store with all its users: `StoreRetainedStableCorrect`, and
`StoreKeepsPromiseCorrect` for the rest. TLC agrees on instances with two committers
and a pruner.

**CheckoutProofs.** `HoldersUndisturbedCorrect` has no hypothesis. `LockInv` ties
the lock to the job: a running checkout holds the world exclusively, and is
running as long as its future or its step is, so a step left behind by a dropped
future has the world. `JobInv` says for each region whether it is still as the call
met it (`Untouched`: not in scope, or pending) or what the commit and the policy
make of it (`Rebuilt`), turned by one swap or removal; what was fetched and merged
for the region in hand is what that swap will install. From it follow
`FilesOldOrNewCorrect`, if no commit runs beside a checkout (a blob that comes back
would belong to a chunk already skipped), and `CheckoutExactCorrect`, if moreover
no blob is lost (`~ Damage`, and neither a commit nor a checkout beside a
collection): the planned blobs are stored (`RowsStored`). Both assume that the rows
are read intact, `[]PlansIntact`, which is what a prune between the two queries of
the plan breaks; `PlansIntactCorrect` proves it for a store that nobody prunes.

For a store that is pruned between checkouts it is `PlansIntactBesidePrunes`. To
prunes, checkouts and their crashes are nothing (`CheckoutsImplementPrune`), so
snapshots stay intact; and a commit that a checkout has found stays as long as no
prune runs beside it (`CommitsStayBeside`, `FoundStored`). One hypothesis is left,
`[]ChosenKept`: no commit is checked out that an interrupted prune had set out to
delete and that is still there, since part of what it inherited may be folded past it
(section 5). `PrunedFilesOldOrNew` and `PrunedCheckoutExact` put these together: the
checkout of a commit whose ancestors were pruned away makes exactly the world that
was recorded.

**CloneProofs.** `SwapsAreWholeCorrect`: the swap, as clones call it, implements
`WholeFiles`. The mapping reads `files` off `named` and `kept` off what a power
loss may leave of `named`, `older` and `dirs`; a rename maps to `Replace`, the
sync of the directory to `Settle`, a power loss to itself, every other step to a
stutter. The argument is that nothing that ever had a name is torn by a power
loss (`NamedSurvive`), because what a rename installs was synced and is the
image of its own call (`RenameInstalls`). For that the invariant `CloneInv`
follows each call's temporary file through its steps (`Progress`) and says that
no two calls share one (`OwnTemps`), which `create_new` gives: a number is free
only if no file has it, and a call between creation and rename keeps its file
there. The last conjunct, `JobTypes`, is there because a swap is asked for by a
clone: what it asks for must be a file and an image. `DirInv` says that a call
past `create_dir_all` has its directory, and that a directory that is missing or
lost holds nothing, so that what is made anew hides no old file.
`CloneExactCorrect` adds `SoloInv`: of a clone that has the target for itself,
each file is still missing, or queued, or named with the image the plan gives
it, and once its call has ended, synced or lost with its directory; nobody
else's call is under way, and a file that is missing was never there since the
last power loss (`NeverNamed`).

**MemMetaProofs.** `ImplementsPortCorrect` is the refinement of `MetaStore` by
the test store, initial states and steps. The tables are rebuilt from the fake,
so the work is in two places. Ancestors are least closed sets on both sides,
over edges here and over parent lists there: the two sets of closed sets are the
same, hence so are their intersections. And a retirement computes what is
superseded by a scan of rows that carry no sequence, where the database compares
the sequences in the rows: `MemInv` (sequences are positive, below the counter,
and rise along the parents, which in the fake no edge that comes back can break)
makes them agree. A repeated recording maps to `RecordAgain` if it finds its
edges in place, else to `LeavesUnlinked`. `SameAnswersCorrect` is the same of
the reads.

**SessionsProofs.** A database goes from no schema to the current one once and
never back, and only the holder of its write lock takes it there. So a version
that was read other than as fresh is still that version, and one that was read as
fresh under the lock is fresh until its reader creates the schema (`OpenInv`); a turn
of `connect_pool` learns nothing and changes neither version nor tables (`ConnectInv`,
`RetryInv`).
`TablesInv` is `IInv` from then on. `ScopesInv` adds to `ScopesWhole` that ids are
below the counter. From these follow `RefusedForCauseCorrect`,
`OpenCompleteCorrect`, `InitMaterializesCorrect`, `ScopesWholeCorrect` and
`CreationKeptCorrect`.

**QueriesProofs.** Between two queries of a reader anything may be recorded and
retired. Three facts bound it: the application records no id twice (`NoneBack`), so
what is gone stays gone;
a retirement gives the children of a commit its parents, so no edge leads out of a
set of commits that none led out of (`SealedHistory`); without merges a commit
keeps what it presents (`StepStable`). `WalkSound` follows a walk: it is inside the
history it set out on, has taken each commit once, and, while all of that history
is stored, has ahead of it the parents of all it took. For the order it carries a
distance for each commit it has met (`Layers`): what was taken is within the current
level, what is ahead beyond the level one step further, so a step that meets new
commits extends the distances and changes none. When nothing is ahead they are the
distances of the whole history (`Distances`), without an induction. `ListSound` and
`DiffSound` are the same for the other two operations. The results are
`WalkWithinCorrect`, `WalkExactCorrect`, `ListedParentsCorrect` and
`DiffExactCorrect`.

**FormatsProofs** is about arithmetic and names, at every size. The
specifications are `SelectionSpec`, `RegionSpec` and `LayoutSpec`, the parts of
`Formats` it speaks of (`Formats` itself reaches a recursive operator).
`SelectionExactCorrect`: division rounding down is characterised by bounds
(`DivisionUnique`), and as the chunks of a region divide the range of the
integers, each region is representable as a whole or not at all
(`RegionLimits`): so clamping a rectangle of regions loses none that holds a
chunk (`Clamped`, `RectRegions`), and what the flags name comes down to what one
area names. `RegionSoundCorrect`: the run of a chunk starts behind the sectors
of the slots below it, a cardinality, so runs neither overlap each other nor the
header (`RunsApart`) and each cell belongs to one chunk (`Placed`). `RegionInv`
says of a file that it is the assembled one, or the assembled one up to where it
was cut, or at least well-shaped; what a look-up of a slot finds then depends
only on where the file ends (`SlotReads`).

The other part is `ReopensCorrect`, of `LayoutSpec` and every set of bases, datapack
dimensions and regions. `LayoutInv` says what is below a root: the files of one world
at the places its layout gives the dimensions, and perhaps the one beside it. From it
follows, layout by layout, which directories with region files there are
(`InVanilla`, `InVanilla26`, `InBukkit`, `InBukkit26`), and two arguments meet: of the
bases that are tried only that of the world can hold one, and it is tried, alone or
first, if it is clear which is meant (`BaseStandsOut`, `BaseFound`); and the tree
built of what is detected has the dimensions of the world at their places and no
other with files (`TreeFits`). Both rest on names joined of words: `<base>_nether`
and `<base>_the_end` are told apart from bases and from each other by lengths and
ends (`SplitNames`), and the folder of a datapack dimension is neither, unless the
dimension is `the:end` (`CustomFolder`): that it is not is the one hypothesis, and
without it the theorem is false (section 5).

**Only model-checked:**
* `KeyExact`: decompression is a recursive operator, and what it computes for every
  input an induction over data, which the proof system does not reach.
* `WorldReleased` and `OpeningEnds`: liveness under fairness.
* What the hypotheses above exclude, which is false (section 5) or not known for
  every instance.

`ParentsOlder`, `HashedEdges`, `SessionsTypeOK`, `CheckoutTypeOK`, `PruneTypeOK` and
`MemTypeOK` are stated in their modules and are in no run: the first two are proved
under `NoneBack` as parts of `IInv`, the others say no more than the types.

## 5. Where code and documentation disagree

One run shows a disagreement, by the shortest behaviour TLC finds.

* `store_gc_commit`: `gc_plan` is documented to refuse while a commit runs
  (`app/src/gc.rs:36-37`, and a run marker in `ARCHITECTURE.md:397-402`). There
  is no marker: a gc overlapping a commit removes a blob that was put and not
  yet named, and the commit dangles.

Three more need other constants than the runs have.

* With four commits, one coordinate, a committer, a pruner and `{"commit",
  "prune"}` in `Overlap`, `RecordedExactly` of `store_commits` fails: a commit
  computes its delta from the state of its base, and a prune may change that state
  (the base itself being about to go) before the delta is recorded, so that an
  inherited row is lost. "The store needs no lock" (`app/src/commit.rs:188-189`)
  does not hold.
* With a pruner and `{"prune", "checkout"}` in `Overlap`, `CheckoutExact` of
  `checkout_alone` fails: a commit that is retired between the two queries of
  `plan_checkout` (`core/src/usecase/checkout.rs:71`) leaves an empty plan, and
  the checkout removes region files and reports success; `docs/adr/0022` (53-55)
  lets a rollback and a prune run at once. A clone of such a commit is an empty
  directory and succeeds too: the exception in `CloneExact`.
* "Writing a partial world would be worse than writing none"
  (`app/src/checkout.rs:55-56`): a missing blob under a later region aborts a
  checkout that has already rewritten earlier ones (line 283). `checkout_world`
  explores it, and claims of a call that was aborted only that every file is old or new.

Others are visible with the same modules:

* *Prune.* A plan is said to stay applicable after commits (`app/src/prune.rs:59-60`).
  With `StalePlans = TRUE` in `prune_alone`, if the active ref is moved to a commit
  the plan deletes and a commit is recorded there, applying the plan changes the
  new commit (`SnapshotsIntact` fails; `RetainedStable` is what remains).
* *Interrupted prune.* A process that dies between two retirements of one apply
  (`core/src/usecase/prune.rs:216-230`) leaves deletions that are still listed and
  can be checked out, but whose inherited rows may have been folded into a later
  commit: a checkout of one succeeds and writes a world without them. No text says
  otherwise; it is why `SnapshotsIntact` speaks of `commits \ doomed` and why
  `PrunedCheckoutExact` has the hypothesis `[]ChosenKept`.
* *Merges*, which the port records and the application does not. With
  `Merges = TRUE` in `prune_alone` a retirement re-stamps a row above a tombstone
  of another branch and the merge presents the chunk again, against
  `core/src/port/meta.rs:145-146`. This is why `HistoryStable` has the hypothesis
  `Linear`.
* *Unborn.* A commit planned before the active ref was moved to unborn continues
  the old history (`RecordCommit`, `storage-sqlite/src/meta.rs:811-817`), though the
  next commit should start a new root (`core/src/port/meta.rs:157-158`).
* *Log.* A commit that is retired while the history is walked ends the walk with an
  error, or cuts off the commits behind it (`core/src/usecase/graph.rs:84-85`): hence
  the hypothesis of `WalkExact` and the weaker `WalkWithin`.
* *Listing.* `visit_commits` reads commits and edges by two queries and asserts in
  debug builds that every edge is of a commit it has seen
  (`storage-sqlite/src/meta.rs:646-650`). A commit recorded between the two breaks
  the assertion, although nothing is corrupt.
* *Checkout policies.* With `skip` and `keepChunks` together a chunk whose blob
  is missing is not left out of the rebuilt file (`app/src/checkout.rs:59`): the
  live one stays (`LeftOut`). A region that is fully tombstoned is removed with
  the chunks in it that the commit does not know, whatever
  `keep_post_commit_chunks` says (83-84 against 253-271): `Made` follows the
  code.
* *Names.* Two callers may create one ref name without force, and the second moves
  the first's ref, although a mutation is said to read and write inside one
  transaction and an existing name to fail (`app/src/refs.rs:8-9`, 22-23). The look-up
  and `set_ref` are two transactions; `Refs` has them as two steps, and no property
  says that the ref stays. The same race lets
  `create_scope` replace a scope nobody asked to replace; the record it returns may
  then carry a later creation time than the stored one.
* *Repeated recordings.* "The invariant holds for a single store", says the comment on
  `RETIRE_SUPERSEDED_SQL` of the order of sequences and graph
  (`storage-sqlite/src/meta.rs:413-418`). By the calls of the port it need not: retire a
  commit, record the same content again, then that of its child, and the child has a
  parent of a later sequence (`OrderKept`). What the child presents may change with it,
  as rows of the parent are now newer than its own, and a later retirement may drop or
  keep the wrong rows. The application does not get there unless its clock is set back:
  each commit has the time of its recording in its id.
* *Opening, timed out.* "Concurrent first initializations all succeed"
  (`storage-sqlite/src/sqlite.rs:13-15`) up to two timeouts of five seconds each: an
  opener that meets others for that long ends with an error (`busy`).
* *Directories.* `atomic_swap` makes missing directories (`world/src/swap.rs:33`) and
  syncs only the one the file is in (89-93), on unix only. So a clone or a checkout that
  reported success may lose a whole new region directory to a power loss; elsewhere
  than on unix also the last renames, which the model does not follow.
* *Opening.* `open` completes a store of which only a part was created, although only
  `init` is said to materialize one (`app/src/instance.rs:138-140`); files it does
  not make. The URL `sqlite://<dir>` of line 136 is nothing this function parses.
* *Test store.* `record_chunk` takes rows of unknown commits and a second row of one
  key, which the database refuses: `ImplementsPort` is stated of the calls that the
  database accepts. And it keeps the parents of a commit it holds, where the database
  inserts an edge to one that came back (`core/src/support.rs:166-176` against
  `storage-sqlite/src/meta.rs:499-506`): the step `LeavesUnlinked`; of
  `create_commit`, which then changes nothing, it is a stutter.
* *Clone.* The output must be empty (`book/en/src/commands/clone.md:13`), but only
  the directories of the chosen layout are looked at, once, and never locked: two
  clones into one directory both succeed and mix. Writes that are queued outlive a
  future that is dropped.
* *Layouts.* A Bukkit clone without an overworld, or of the overworld alone, and
  without a `server.properties`, is opened again as an empty legacy world or as
  nothing: hence `Clear` in `Reopens`. The folder of a datapack dimension
  `the:end` is called like the End's and is not found (`bukkit.rs:69`): hence the
  hypothesis of `ReopensCorrect`.
* *Chunk keys.* The `DataVersion` of `Level` never reaches the key of a legacy chunk,
  although `anvil/src/nbt/chunk/legacy.rs:85` says so: the view takes the one
  of the root. A chunk with both spellings of `Status` has no key.
* *Codecs.* Zlib and LZ4 bodies may have anything after their end, a gzip body must
  end exactly at its footer; an uncompressed body is checked only by what decodes it.
* *Flags.* `DIM:` with nothing behind it is the whole dimension, and a `--region`
  beyond the edge of the world is clamped to the chunks that exist.

## 6. What is left out

*Assumed.* An id covers its parents for good (hashing); in `Snapshots` and what is
built on it, and beside the readers of `Queries`, the clock does not make a retired
commit be recorded a second time; the game server is stopped
during a checkout; one root per world. SQLite transactions are atomic and serial,
and a blob is intact or missing. In `Checkout` a swap is one step, which
`WholeFiles` is the reason for: a reader sees the file before or after it.

*Abstracted.* Names, hashes and times are values that can only be compared,
times in `Scopes` also ordered; error texts and reports are left out; a
coordinate of a chunk is its place in a small square. The permissions that
`atomic_swap` carries over, the checkpoint of the log when a last connection
closes (during which a connect is `busy` as it is during a switch), and paths
that cannot be read or are not Unicode, are left out.

*Not modelled, by reason.*

* The comparison of a commit with a world (`diff_chunks_against_world`, `status`):
  one listing and a read pass under the lock, the reads being those of `Queries` and
  `WorldLock`.
* Sums over rows without steps (`commit_stats`, gc statistics), the resolution of
  abbreviated ids, the parsing of arguments and the wording of reports.
* The layout of block states and biomes inside a section: a conversion of bytes with
  no choice in it. `ChunkKeys` tells apart only what is normalised.
* The scopes of the test store and the test doubles of the blob store, which tests
  alone use.
* `Fingerprints` and observation: nothing outside their own tests calls them.

## 7. The plan

1. (done) `MetaStore`, its theorems and its readers (`Queries`), and the test store
   as a refinement (`MemMeta`).
2. (done) `Prune`, `Commit`, `Gc` over it, composed in `StoreRuns`.
3. (done) `WorldLock`, `Checkout`, composed with the store in `CheckoutRuns`.
4. (done) `StoreOpen`, `Refs`, `Scopes`, composed in `Sessions`, with liveness.
5. (done) `AtomicSwap`, the promise `WholeFiles` and its proof, `Clone`.
6. (done) `RegionFormat`, `ChunkFrames`, `ChunkKeys`, `Selections`, `WorldLayout`.
7. (done) Theorems for every safety property of the metadata, prunes, the store,
   checkouts, clones, opening and naming, readers and the test store.
8. (done) Theorems for the selections, the region file and the layouts.
9. (done) `SnapshotStore`, the abstract specification of the store, implemented by
   `Prune` and by `StoreRuns`, and with it checkouts of stores that are pruned.
