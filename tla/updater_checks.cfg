SPECIFICATION FairInstallationSpec
CONSTANTS
  w1 = w1
  w2 = w2
  Windows = {w1, w2}
  MaxVersion = 2
  MaxPolls = 4
  Helpers = {h1, h2}
  None = None
  Bounds <- MCBounds
INVARIANTS NoCheckForgotten ReadyMeansStaged ProgramStaysInstalled
PROPERTIES UpToDateIsTrue EveryCheckAnswered UpdateArrives
CHECK_DEADLOCK FALSE
