SPECIFICATION FairSpec
CONSTANTS
  User = {u1, u2}
  Number = {n1, n2}
  Accrual <- AllAmounts
  MaxBigint = 60
  NoOrder = NoOrder
  NoAccrual = NoAccrual
INVARIANTS
  TypeOK
  CopiesAreCurrent
  AgreesWithAccrualSystem
  IInv
  Reconciled
PROPERTIES
  ImplementsLedger
  KeepsPolling
  NewIsSettled
