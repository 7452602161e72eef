CONSTANTS
  CommitIds = {c1, c2}
  Coords = {k1, k2}
  Blobs = {b1, b2}
  RefNames = {main}
  Main = main
  Unborn = Unborn
  Absent = Absent
  Tombstone = Tombstone
  Merges = FALSE
  MaxSeq = 2
  Pruners = {}
  Alone = FALSE
  StalePlans = FALSE
  Committers = {w1}
  Collectors = {}
  Overlap = {}
  Operations = {o1}
  Creators = {o1}
  Checkouts = {o1}
  Readers = {}
  Regions = {r1}
  RegionOf <- TwoChunks
  Scopes <- Whole
  Policies <- Keeping
  Damage = FALSE
  k1 = k1
  k2 = k2
  k3 = k3
  r1 = r1
  r2 = r2
SPECIFICATION CheckoutRunsSpec
SYMMETRY Symmetry
PROPERTIES CheckoutExact
