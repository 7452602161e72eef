CONSTANTS
  CommitIds = {c1, c2, c3}
  Coords = {k1}
  Blobs = {b1, b2}
  RefNames = {main, side}
  Main = main
  Unborn = Unborn
  Absent = Absent
  Tombstone = Tombstone
  Merges = TRUE
  MaxSeq = 4
SPECIFICATION MemSpec
SYMMETRY Symmetry
INVARIANTS SameAnswers
PROPERTIES ImplementsPort
