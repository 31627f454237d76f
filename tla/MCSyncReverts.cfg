SPECIFICATION Spec
CONSTANTS
  Req = {r1}
  None = None
  Batch <- ListAndOnePage
  MaxPayload = 2
  CapturedOnce <- OnePageBatches
  MaxDay = 2
  Schedules <- DiffOnOff
  DefaultSchedule <- Default
  OverlappingSyncs = FALSE
  OverlappingSaves = FALSE
  MayCrash = FALSE
  OldScraper = FALSE
INVARIANTS EverySkipIsSafe AcknowledgedScheduleStands InStepInv
PROPERTIES UnchangedIsSkipped OnlySuccessPostpones ScheduledSyncsKeepApart
