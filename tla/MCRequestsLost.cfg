SPECIFICATION RequestsSpec
CONSTANTS
  Days <- SmallDays
  OddsPages <- TwoPages
  Offset <- ShortOffsets
  DebaLead = 6
  Interval = 2
  MinInterval = 3
  Jitter = 1
  MaxRetries = 1
  BackoffBase = 1
  BackoffMax = 2
  Cooldown = 1
  TickLen = 1
  Openings <- SomeOpenings
  Latency = 1
  Horizon = 60
  MaxItems = 5
  Never = Never
PROPERTY CompletedWasAnswered
CHECK_DEADLOCK FALSE
