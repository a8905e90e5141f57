SPECIFICATION Spec
CONSTANTS
  Workers = {w1}
  Recoverers = {r}
  NoOne = NoOne
  MaxAttempts = 1
  MaxVersion = 3
  MaxRevision = 1
  MaxFaults = 0
  MaxDrops = 0
  Origins = {"review"}
  Routes = {"calendar"}
CHECK_DEADLOCK FALSE
INVARIANTS ApprovedPosts
