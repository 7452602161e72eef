CONSTANTS
  CommitIds = {c1, c2, c3}
  Coords = {k1}
  Blobs = {b1}
  RefNames = {main, side}
  Main = main
  Unborn = Unborn
  Absent = Absent
  Tombstone = Tombstone
  Merges = TRUE
  MaxSeq = 4
  ReaderRefs = {main}
SPECIFICATION QueriesSpec
SYMMETRY Symmetry
INVARIANTS TypeOK RefsResolve OneActiveRef Acyclic RowsKeyed
INVARIANTS WalkExact WalkWithin ListedParents DiffExact
PROPERTIES OrderKept FoldKeepsAncestry HistoryStable RecordResolves
