SPECIFICATION Spec
CONSTANTS
  p1 = p1  p2 = p2
  s1 = s1  s2 = s2  b1 = b1
  None = None
  Load = {p1, p2}
  Source = {s1, s2}
  Build = {b1}
  BuildOf <- MCBuildOf
  Keyed = {s1}
  Inode = {1, 2, 3}
INVARIANTS
  LibrariesIntact
PROPERTIES
  LoadsEnd
