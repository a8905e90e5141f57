SPECIFICATION Spec
CONSTANTS
  Channels = {"telegram", "bale", "eitaa", "website", "webhook", "instagram"}
  Images = {0, 2}
  MaxAttempts = 3
  MaxRevision = 1
  MaxFaults = 2
  MaxUpsets = 0
  MaxContainers = 4
  MaxPosts = 2
INVARIANTS IInv Fresh
PROPERTIES PreparedOnce ImplementsDelivery
CHECK_DEADLOCK FALSE
