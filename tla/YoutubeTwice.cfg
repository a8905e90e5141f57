SPECIFICATION Spec
CONSTANTS
  Workers = {w1, w2}
  Sessions <- MCSessions
  None = None
  Chunks = 1
  MaxRecoveries = 0
  MaxRotations = 0
  MaxSource = 1
  Kinds = {FALSE}
  MaxVersion = 1
  MaxRevision = 1
  MaxFaults = 0
  MaxOverlaps = 1
  MaxCalls = 1
CHECK_DEADLOCK FALSE
SYMMETRY Symmetry
INVARIANTS OneVideo
