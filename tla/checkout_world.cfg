CONSTANTS
  CommitIds = {c1}
  Coords = {k1, k3}
  Blobs = {b1}
  RefNames = {main}
  Main = main
  Unborn = Unborn
  Absent = Absent
  Tombstone = Tombstone
  Merges = FALSE
  MaxSeq = 2
  Pruners = {}
  Alone = FALSE
  StalePlans = FALSE
  Committers = {w1}
  Collectors = {}
  Overlap = {}
  Operations = {o1, o2, q1, q2}
  Creators = {o1, o2, q1}
  Checkouts = {o1, o2}
  Readers = {q1, q2}
  Regions = {r1, r2}
  RegionOf <- TwoRegions
  Scopes <- AllScopes
  Policies <- Tolerant
  Damage = TRUE
  k1 = k1
  k2 = k2
  k3 = k3
  r1 = r1
  r2 = r2
SPECIFICATION FairCheckoutRunsSpec
INVARIANTS FilesOldOrNew
PROPERTIES HoldersUndisturbed WorldReleased
