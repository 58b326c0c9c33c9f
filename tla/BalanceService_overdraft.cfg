SPECIFICATION Spec
CONSTANTS
  User = {u1}
  Request = {r1, r2}
  Sum <- Sums
  Reward = {3}
  MaxBigint = 6
INVARIANT NoOverdraft
