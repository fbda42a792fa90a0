SPECIFICATION Spec
CONSTANTS
  Product = {"p"}
  Price = {1, 2}
  Volume = {1, 2}
  NoRow = NoRow
  Scale = 4
  Bonus = 1
  OrderId = {1, 2}
  Request <- BuysAndSales
  WithdrawId = {1, 2}
  Amount <- Amounts
  Deposits = {4}
  CanWithdraw = {TRUE, FALSE}
  Grants = {2}
  Frozen = 1
  MaxDeposit = 4
  MaxHeld = 1
  MaxDay = 1
INVARIANTS
  TypeOK
  OpenWithinMoney
PROPERTIES
  MoneyCovered
  SaleCovered
