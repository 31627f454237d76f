SPECIFICATION Spec
CONSTANTS
  Req = {r1, r2}
  None = None
  Batch <- CapturedBatches
  MaxPayload = 2
  CapturedOnce = {}
  MaxDay = 0
  Schedules <- NoUpdates
  DefaultSchedule <- Default
  OverlappingSyncs = FALSE
  OverlappingSaves = TRUE
  MayCrash = TRUE
  OldScraper = TRUE
CHECK_DEADLOCK FALSE
INVARIANTS TypeOK StampedSkipIsSafe SuccessMeansStored RecordedWasCommitted CaptureInv
PROPERTIES ImplementsCopy
