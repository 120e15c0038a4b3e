SPECIFICATION Spec
CONSTANTS
  Saves = {s1, s2}
  MaxContent = 2
  MaxWrites = 3
  MaxVersion = 3
  MaxDeletes = 1
INVARIANTS CleanMatchesDisk ForeignTextIsConflict
CONSTRAINT Bounded
SYMMETRY Symmetry
CHECK_DEADLOCK FALSE
