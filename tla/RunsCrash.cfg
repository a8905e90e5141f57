SPECIFICATION FairSpec
CONSTANTS
  Steps <- MCSteps
  Graphs <- Interrupted
  Workers = {w1}
  Recoverers = {r}
  NoOne = NoOne
  MaxAttempts = 1
  MaxDispatch = 2
  MaxFaults = 1
CHECK_DEADLOCK FALSE
INVARIANTS OneItem
PROPERTIES TakenUp PreparedAtLast
