CONSTANTS
  CommitIds = {c1, c2, c3}
  Coords = {k1}
  Blobs = {b1, b2}
  RefNames = {main}
  Main = main
  Unborn = Unborn
  Absent = Absent
  Tombstone = Tombstone
  Merges = FALSE
  MaxSeq = 2
  Pruners = {p1}
  Alone = FALSE
  StalePlans = FALSE
  Committers = {w1}
  Collectors = {g1}
  Overlap = {{"commit"}, {"commit", "ref"}, {"gc", "prune"}, {"gc", "ref"}, {"prune", "ref"}}
SPECIFICATION StoreSpec
SYMMETRY Symmetry
INVARIANTS StoreTypeOK NoDangling
PROPERTIES CollectionComplete
