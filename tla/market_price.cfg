SPECIFICATION Spec
CONSTANTS
  Price = {1, 2, 3}
  Volume = {1, 2}
  IssuePrice = 2
  None = None
  Faults <- AllFaults
  MaxDeals = 3
  MaxDay = 2
PROPERTIES
  CurrentIsLatest
CHECK_DEADLOCK FALSE
