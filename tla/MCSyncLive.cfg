SPECIFICATION FairSpec
CONSTANTS
  Req = {r1}
  None = None
  Batch <- CapturedBatches
  MaxPayload = 2
  CapturedOnce = {}
  MaxDay = 0
  Schedules <- NoUpdates
  DefaultSchedule <- Default
  OverlappingSyncs = FALSE
  OverlappingSaves = FALSE
  MayCrash = TRUE
  OldScraper = FALSE
CHECK_DEADLOCK FALSE
PROPERTIES CatchesUp
