SPECIFICATION Spec
CONSTANTS
  Product = {p1, p2}
  OrderId = {1, 2, 3}
  Price = {1, 2}
  Volume = {1, 2}
  Request <- FewRequests
  NoRow = NoRow
  Web = {w1}
  Free = Free
  Abandoned = Abandoned
  ScanLocksTable = FALSE
  Development = TRUE
  MaxTime = 2
SYMMETRY Symmetry
INVARIANTS
  IInv
  StatusSound
  DealExhaustsOne
  CancelledOutOfBook
  DealsWithinLimits
