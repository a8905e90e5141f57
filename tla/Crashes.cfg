SPECIFICATION Spec
CONSTANTS
  Workers = {w1, w2}
  Recoverers = {r}
  NoOne = NoOne
  MaxAttempts = 1
  MaxVersion = 1
  MaxRevision = 1
  MaxFaults = 1
  MaxDrops = 0
  Origins = {"auto", "manual"}
  Routes = {"calendar", "review"}
SYMMETRY Symmetry
CHECK_DEADLOCK FALSE
INVARIANTS AtMostOnePost
PROPERTIES UnknownHeld NeverEarly
