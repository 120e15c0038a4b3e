SPECIFICATION MCSpec
CONSTANTS
  Paths <- MCPaths
  Root = "root"
  Parent <- MCParent
  Ancestors <- MCAncestors
  Dirs <- MCDirs
  Gitignore = "gi"
  IgnoreSet = {"d", "x", "y"}
  Inodes = {1, 2, 3, 4, 5}
  Rank <- MCRank
  None = None
  Workers = {w1, w2}
  Main = Main
  Clients = {c1}
  Touched = {"gi", "d", "x", "y"}
  MaxFsOps = 2
  Worlds <- MCIgnoring
INVARIANT IndexesAgree
SYMMETRY Symmetry
CHECK_DEADLOCK FALSE
