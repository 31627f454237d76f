SPECIFICATION TablesSpec
CONSTANTS
  Sessions = {s1, s2}
  Pages <- SomePages
  MaxPages = 3
  MaxCommits = 4
  Null = Null
INVARIANTS TablesTypeOK AloneSucceeds ResultsFollowThePage HorsesUnique CardIsLinked
PROPERTY KnownStays
CHECK_DEADLOCK FALSE
