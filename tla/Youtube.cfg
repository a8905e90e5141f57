SPECIFICATION Spec
CONSTANTS
  Workers = {w1}
  Sessions <- MCSessions
  None = None
  Chunks = 2
  MaxRecoveries = 1
  MaxRotations = 1
  MaxSource = 2
  Kinds = {TRUE, FALSE}
  MaxVersion = 1
  MaxRevision = 2
  MaxFaults = 1
  MaxOverlaps = 0
  MaxCalls = 1
CHECK_DEADLOCK FALSE
SYMMETRY Symmetry
INVARIANTS OneVideo ApprovedBytes PublishedProcessed Carried
PROPERTIES NeverEarly UnknownStops ImplementsDelivery
