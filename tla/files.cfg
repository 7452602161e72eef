CONSTANTS
  Clones = {p1, p2}
  Commits = {k1}
  Files = {f1, f2}
  Blobs = {b1, b2}
  Numbers = {n1, n2}
  Dirs = {d1, d2}
  NoFile = NoFile
  Torn = Torn
  p1 = p1
  f1 = f1
  f2 = f2
  b1 = b1
  b2 = b2
  d1 = d1
  d2 = d2
  DirOf <- MCDirOf
  Swaps <- MCSwaps
  Images <- MCImages
  Content <- MCContent
  Selection <- MCSelection
SPECIFICATION CloneSpec
SYMMETRY Symmetry
CHECK_DEADLOCK FALSE
INVARIANTS CloneExact
PROPERTIES SwapsAreWhole
