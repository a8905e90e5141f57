SPECIFICATION Spec
CONSTANTS
  Workers = {w1, w2}
  Recoverers = {r}
  NoOne = NoOne
  MaxAttempts = 2
  MaxVersion = 0
  MaxRevision = 0
  MaxFaults = 0
  MaxDrops = 1
  Origins = {"auto", "dated"}
  Routes = {"retry", "cancel"}
SYMMETRY Symmetry
CHECK_DEADLOCK FALSE
INVARIANTS PublishedAsShown
