SPECIFICATION Spec
CONSTANTS
  Req = {r1, r2}
  None = None
  Batch <- OneSnapshot
  MaxPayload = 2
  CapturedOnce = {}
  MaxDay = 0
  Schedules <- NoUpdates
  DefaultSchedule <- Default
  OverlappingSyncs = TRUE
  OverlappingSaves = TRUE
  MayCrash = FALSE
  OldScraper = FALSE
CHECK_DEADLOCK FALSE
INVARIANTS StampedSkipIsSafe
