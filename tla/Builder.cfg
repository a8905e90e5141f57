SPECIFICATION Spec
CONSTANTS
  Flows = {v, w}
  Calls = {c, d}
  MaxActive = 1
  MaxSaves = 2
  Nothing = Nothing
  Browsers = {a}
  Goals <- MCGoals
  Sendable <- MCSent
  Addable = {"ai"}
  MaxMoves = 1
  MaxLost = 1
SYMMETRY Symmetry
CHECK_DEADLOCK FALSE
INVARIANTS CleanMeansSaved CanvasSound WithinPlan
PROPERTIES StoresConducting
