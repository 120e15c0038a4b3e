SPECIFICATION MCSpec
CONSTANTS
  Clients = {"worktree", "config"}
  Threads = {"reader", "scanner"}
  Paths <- MCPaths
  Bounds <- MCBounds
  Config = "config"
  Reader = "reader"
  Conf <- MCConf
  Updates = {1, 2}
  Worktree = "worktree"
  Root <- MCRoot
  BufferPath <- MCBufferPath
  Saves = {s1}
  MaxContent = 3
  MaxWrites = 3
  MaxVersion = 4
  MaxDeletes = 1
INVARIANTS ChangesArrive UpdatesAreKept
PROPERTIES CallsReturn ConfigFollowsFile BufferFollowsDisk
CHECK_DEADLOCK FALSE
