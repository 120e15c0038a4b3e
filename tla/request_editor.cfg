SPECIFICATION Spec
CONSTANTS
  Texts = {t1, t2}
  Invalid = Invalid
  Saves = {s1, s2}
  Reloads = {r1, r2}
  MaxSends = 3
  Bounds <- MCBounds
INVARIANTS CleanMatchesDisk DirtyMeansChanged ShowsOneAnswer
SYMMETRY Symmetry
CHECK_DEADLOCK FALSE
