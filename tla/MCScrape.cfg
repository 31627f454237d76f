SPECIFICATION ScrapeSpec
CONSTANTS
  Races = {1, 2}
  Start <- TwoStarts
  InList = {1}
  InCard = {2}
  Horses = {1}
  Posted = {"final", "t_minus_1m"}
  Casts <- Pairs
  Times = {20, 31, 123}
  MaxFaults = 2
INVARIANTS LossPerTear FinalsAreLate CompleteAfterwards RefundsNotEarly
PROPERTIES JobsEnd ImplementsLatest
CHECK_DEADLOCK FALSE
