SPECIFICATION Spec
CONSTANTS
  User = {u1}
  Number = {n1}
  Sender = {r1, r2}
  Reader = {q1}
  Goroutine = {g1}
  Accrual <- Amounts
  Sum <- Sums
  MaxBigint = 1000
  NoOrder = NoOrder
  NoAccrual = NoAccrual
INVARIANT ShownIsCredited
PROPERTIES
  WorkerFits
  UploadsFit
  BalancesFit
  ImplementsPoints
SYMMETRY Symmetry
