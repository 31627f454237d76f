SPECIFICATION Spec
CONSTANTS
  Odds = Odds
  Marks = Marks
  Task = {Odds, Marks}
  Timetables <- BothTimetables
  Posts <- OnOrOff
  SaveEvery = 2
  MaxTime = 1
  Missing = Missing
  Torn = Torn
  MayCrash = TRUE
  LegacyCron = TRUE
  SettledPosts = FALSE
INVARIANTS TypeOK CompletedWasExecuted LossIsBounded
