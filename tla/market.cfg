SPECIFICATION Spec
CONSTANTS
  Price = {1, 2, 3}
  Volume = {1, 2}
  IssuePrice = 2
  None = None
  Faults <- AllFaults
  MaxDeals = 3
  MaxDay = 2
INVARIANTS
  TypeOK
  LastPriceIsClose
  CurrentPriceAgrees
  CandlesSound
PROPERTIES
  HistoryHeals
  CurrentIsLatestIfUpdated
CHECK_DEADLOCK FALSE
