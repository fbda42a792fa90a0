SPECIFICATION Spec
CONSTANTS
  Product = {p1}
  OrderId = {1, 2, 3}
  Price = {1, 2}
  Volume = {1, 2}
  Request <- FewRequests
  NoRow = NoRow
  Web = {w1}
  Free = Free
  Abandoned = Abandoned
  ScanLocksTable = TRUE
  Development = FALSE
  MaxTime = 1
SYMMETRY Symmetry
INVARIANTS
  CancelAnswerTrue
