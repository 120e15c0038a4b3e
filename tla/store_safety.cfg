SPECIFICATION Spec
CONSTANTS
  Opens = {o1, o2, o3}
  Paths <- MCPaths
  VisiblePaths = {"a", "b", "l"}
  InvisiblePaths = {"s"}
  Canonical <- MCCanonical
  Above <- MCAbove
  MaxCloses = 1
  None = None
INVARIANTS AtMostOneRoot CompleteMeansScanned ScanStateSettlesOnSuccess
PROPERTY RootFollowsRequests
SYMMETRY Symmetry
CHECK_DEADLOCK FALSE
