SPECIFICATION Spec
CONSTANTS
  Opens = {o1, o2, o3}
  Paths <- MCPaths
  VisiblePaths = {"a", "b"}
  InvisiblePaths = {"s"}
  Canonical <- MCCanonical
  Above <- MCAbove
  MaxCloses = 0
  None = None
INVARIANT ScanStateSettles
SYMMETRY Symmetry
CHECK_DEADLOCK FALSE
