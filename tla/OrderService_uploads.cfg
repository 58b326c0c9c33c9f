SPECIFICATION Spec
CONSTANTS
  User = {u1, u2}
  Number = {n1, n2}
  Request = {r1, r2, r3}
  Reader = {q1}
  Reward = {5}
  NoOrder = NoOrder
INVARIANTS
  TypeOK
  IInv
  AnswersAgree
  ListStaysTrue
SYMMETRY Symmetry
CHECK_DEADLOCK FALSE
