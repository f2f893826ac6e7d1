CONSTANTS
  Callers = {c1, c2}
  f = f
  g = g
  k = k
  d = d
  FilePaths = {f, g, k}
  DirPaths = {d}
  Root = root
  Parent <- MCParent
  CopyNames <- MCCopyNames
  Sizes = {1, 2}
  Limit = 1
  MaxCalls = 3
  MaxFaults = 1
SPECIFICATION Spec
SYMMETRY Symmetry
INVARIANTS TypeOK  Fits
CHECK_DEADLOCK FALSE
