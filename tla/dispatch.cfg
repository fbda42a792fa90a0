SPECIFICATION FairSpec
CONSTANTS
  Product = {p1, p2}
  Active = {p1}
  Web = {w1}
  Nothing = Nothing
  Faults <- AllFaults
  MaxFaults = 2
  MaxOrders = 2
  MaxCrossing = 2
PROPERTIES
  CrossingDealt
  MessageDrains
CHECK_DEADLOCK FALSE
