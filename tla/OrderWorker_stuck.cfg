SPECIFICATION HealthySpec
CONSTANTS
  User = {u1}
  Number = {n1}
  Accrual <- SomeAmounts
  MaxBigint = 100
  NoOrder = NoOrder
  NoAccrual = NoAccrual
PROPERTY EveryOrderIsSettled
