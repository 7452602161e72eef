CONSTANTS
  CommitIds = {c1, c2}
  Coords = {k1}
  Blobs = {b1}
  RefNames = {main}
  Main = main
  Unborn = Unborn
  Absent = Absent
  Tombstone = Tombstone
  Merges = FALSE
  MaxSeq = 2
  Pruners = {}
  Alone = FALSE
  StalePlans = FALSE
  Committers = {w1}
  Collectors = {g1}
  Overlap = {{"gc", "commit"}}
SPECIFICATION StoreSpec
SYMMETRY Symmetry
INVARIANTS NoDangling
