SPECIFICATION BuffersSpec
CONSTANTS
  Stores = {"buffers", "requests"}
  PathCount = 3
  MaxFiles = 2
  MaxOpens = 2
  MaxRenames <- MCMaxRenames
INVARIANTS LookupIsExact OneBufferPerFile
CHECK_DEADLOCK FALSE
