SPECIFICATION Spec
CONSTANTS
  Steps <- MCSteps
  Graphs <- Approvals
  Workers = {w1, w2}
  Recoverers = {r}
  NoOne = NoOne
  MaxAttempts = 1
  MaxDispatch = 2
  MaxFaults = 0
SYMMETRY Symmetry
CHECK_DEADLOCK FALSE
INVARIANTS EffectOnce EffectAgreed WaitsForSomeone PreparedMeansItems
PROPERTIES DecisionsStand ImplementsDelivery
