CONSTANTS
  CommitIds = {c1, c2, c3}
  Coords = {k1}
  Blobs = {b1}
  RefNames = {main}
  Main = main
  Unborn = Unborn
  Absent = Absent
  Tombstone = Tombstone
  Merges = FALSE
  MaxSeq = 2
  Pruners = {p1, p2}
  Alone = FALSE
  StalePlans = TRUE
SPECIFICATION PruneSpec
SYMMETRY Symmetry
VIEW WithoutHistory
PROPERTIES RetainedStable
