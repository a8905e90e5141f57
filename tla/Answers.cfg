SPECIFICATION MCSpec
CONSTANTS
  careful = careful
  quick = quick
  Workflows = {careful, quick}
  Supervised = {careful}
  DailyLimit <- MCLimits
  Comments = {c, d}
  Runs = {r, s}
  Pollers = {p}
  Requests = {q1, q2}
  Bound = 1
  Limits = {1}
  Nothing = Nothing
  Cards = {"youtube", "instagram"}
  MaxDay = 2
  MaxUpsets = 1
  LosesClaims = FALSE
SYMMETRY Symmetry
CHECK_DEADLOCK FALSE
INVARIANTS AnsweredOnce WithinDay Covered Consented
PROPERTIES ImplementsDelivery
