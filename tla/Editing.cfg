SPECIFICATION Spec
CONSTANTS
  Workers = {w1, w2}
  Recoverers = {r}
  NoOne = NoOne
  MaxAttempts = 1
  MaxVersion = 2
  MaxRevision = 1
  MaxFaults = 0
  MaxDrops = 0
  Origins = {"manual", "auto", "dated", "review", "import"}
  Routes = {"calendar", "cancel"}
SYMMETRY Symmetry
CHECK_DEADLOCK FALSE
INVARIANTS FrozenUnderSender PublishedAsShown RowsAgree
