SPECIFICATION FairSpec
CONSTANTS
  Odds = Odds
  Marks = Marks
  Task = {Odds, Marks}
  Timetables <- BothTimetables
  Posts <- TwoChoices
  SaveEvery = 2
  MaxTime = 2
  Missing = Missing
  Torn = Torn
  MayCrash = FALSE
  LegacyCron = FALSE
  SettledPosts = TRUE
INVARIANT PlanFollowsSchedule
PROPERTIES OncePerPlan DueGetsDone
