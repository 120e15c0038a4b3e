SPECIFICATION Spec
CONSTANTS
  p1 = p1
  p2 = p2
  t1 = t1
  t2 = t2
  w1 = w1
  w2 = w2
  f1 = f1
  f2 = f2
  Boot = Boot
  None = None
  Paths = {p1, p2}
  Files = {f1, f2}
  Items = {1, 2, 3}
  Windows = {w1, w2}
  Tasks = {t1, t2}
  MaxHandles = 4
  MaxId = 5
  MaxRuns = 2
  Budgets <- MCBudgets
SYMMETRY MCSymmetry
CHECK_DEADLOCK FALSE
INVARIANTS PanesSound IdsDistinct SessionIsWhatIsOpen RestorableAtRest
