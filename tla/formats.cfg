CONSTANTS
  SectorLen = 4
  RowWidth = 2
  MaxSectors = 2
  MaxOffset = 6
  IntWidth = 3
  MaxOut = 7
  BaseBlock = 2
  MaxEdits = 2
  TypeBytes = {0, 1, 2, 3, 4, 5, 127, 128}
  Headers <- MCHeaders
  Locs <- MCLocs
  Payloads <- MCPayloads
  BadEntries <- MCBadEntries
  BadLengths = {0, 5, 9}
  Dims = {ow, ne}
  Kinds = {region, poi}
  region = region
  poi = poi
  Corners <- MCCorners
  RegionSpecs <- MCRegionSpecs
  KindFlags <- MCKindFlags
  MaxFlags = 2
  Words <- MCWords
  Bases <- MCBases
  Custom <- MCCustom
  Other <- MCOther
  RegionIds = {r1, r2}
SPECIFICATION FormatsSpec
SYMMETRY Symmetry
CHECK_DEADLOCK FALSE
INVARIANTS RegionSound KeyExact SelectionExact Reopens
