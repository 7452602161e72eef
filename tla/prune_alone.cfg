CONSTANTS
  CommitIds = {c1, c2, c3, c4}
  Coords = {k1}
  Blobs = {b1}
  RefNames = {main}
  Main = main
  Unborn = Unborn
  Absent = Absent
  Tombstone = Tombstone
  Merges = FALSE
  MaxSeq = 2
  Pruners = {p1}
  Alone = TRUE
  StalePlans = FALSE
SPECIFICATION PruneSpec
SYMMETRY Symmetry
INVARIANTS SnapshotsIntact
PROPERTIES PlanCarriesThrough FinishLeavesKept KeepsPromise
