SPECIFICATION Spec
CONSTANTS
  Odds = Odds
  Marks = Marks
  Task = {Odds, Marks}
  Timetables <- BothTimetables
  Posts <- TwoChoices
  SaveEvery = 2
  MaxTime = 1
  Missing = Missing
  Torn = Torn
  MayCrash = FALSE
  LegacyCron = FALSE
  SettledPosts = FALSE
INVARIANT PlanFollowsSchedule
