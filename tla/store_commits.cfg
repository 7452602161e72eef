CONSTANTS
  CommitIds = {c1, c2}
  Coords = {k1, k2}
  Blobs = {b1, b2}
  RefNames = {main}
  Main = main
  Unborn = Unborn
  Absent = Absent
  Tombstone = Tombstone
  Merges = FALSE
  MaxSeq = 2
  Pruners = {}
  Alone = FALSE
  StalePlans = FALSE
  Committers = {w1, w2}
  Collectors = {}
  Overlap = {{"commit"}, {"commit", "ref"}}
SPECIFICATION StoreSpec
SYMMETRY Symmetry
PROPERTIES RecordedExactly
