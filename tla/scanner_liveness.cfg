SPECIFICATION MCFairSpec
CONSTANTS
  Paths <- MCPaths
  Root = "root"
  Parent <- MCParent
  Ancestors <- MCAncestors
  Dirs <- MCDirs
  Gitignore = "gi"
  IgnoreSet = {}
  Inodes = {1, 2, 3, 4}
  Rank <- MCRank
  None = None
  Workers = {w1}
  Main = Main
  Clients = {c1}
  Touched = {}
  MaxFsOps = 1
  Worlds <- MCQuiet
PROPERTY EveryRequestAnswered
CHECK_DEADLOCK FALSE
