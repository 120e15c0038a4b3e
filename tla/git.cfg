SPECIFICATION FairPanelSpec
CONSTANTS
  Paths <- MCPaths
  Statuses = {Clean, Modified}
  Clean = Clean
  MaxChanges = 3
  MaxFailures = 1
  MaxMoves = 1
  Names = {1, 2}
  Initial <- MCInitial
  MaxEntries = 6
  Tasks = {t1, t2}
  Bounds <- MCBounds
INVARIANTS NothingForgotten PanelShowsTree EditHasKeyboard
PROPERTY PanelFollowsGit
CHECK_DEADLOCK FALSE
