SPECIFICATION Spec
CONSTANTS
  Product = {"p"}
  Price = {1, 2}
  Volume = {1, 2}
  NoRow = NoRow
  Scale = 4
  Bonus = 1
  OrderId = {1, 2}
  Request <- Buys
  WithdrawId = {1, 2}
  Amount = {1, 3}
  Deposits = {4}
  CanWithdraw = {TRUE}
  Grants = {}
  Frozen = 0
  MaxDeposit = 8
  MaxHeld = 0
  MaxDay = 1
PROPERTIES
  WithdrawWithinMax
