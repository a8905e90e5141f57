SPECIFICATION FairSpec
CONSTANTS
  Workers = {w1}
  Recoverers = {r}
  NoOne = NoOne
  MaxAttempts = 2
  MaxVersion = 1
  MaxRevision = 0
  MaxFaults = 1
  MaxDrops = 0
  Origins = {"auto"}
  Routes = {"calendar"}
CHECK_DEADLOCK FALSE
PROPERTIES ImplementsDelivery AttemptsAccounted ReleasedEnds
