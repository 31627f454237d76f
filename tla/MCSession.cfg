SPECIFICATION SessionSpec
CONSTANTS
  Tabs = {t1, t2}
  MaxRequests = 3
  MaxCalls = 1
  MaxFaults = 1
INVARIANTS SessionTypeOK KeepsSession LogoutStays
PROPERTY CallsEnd
CHECK_DEADLOCK FALSE
