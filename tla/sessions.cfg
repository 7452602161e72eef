CONSTANTS
  CommitIds = {c1}
  Coords = {}
  Blobs = {}
  RefNames = {main, side}
  Main = main
  Unborn = Unborn
  Absent = Absent
  Tombstone = Tombstone
  Merges = FALSE
  MaxSeq = 2
  Sessions = {p1, p2}
  Creating = {p1, p2}
  Defining = {p1, p2}
  Nobody = Nobody
  OldStores = TRUE
  MaxRetries = 1
  ScopeNames = {s1}
  Areas = {a1, a2}
  Times = {t1, t2}
  MaxScopeId = 2
  Together = FALSE
SPECIFICATION FairSessionsSpec
INVARIANTS RefusedForCause OpenComplete ScopesWhole
PROPERTIES CreationKept InitMaterializes OpeningEnds
