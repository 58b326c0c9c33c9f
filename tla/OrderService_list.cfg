SPECIFICATION Spec
CONSTANTS
  User = {u1, u2}
  Number = {n1, n2}
  Request = {r1, r2}
  Reader = {q1}
  Reward = {5}
  NoOrder = NoOrder
INVARIANT ListIsComplete
CHECK_DEADLOCK FALSE
