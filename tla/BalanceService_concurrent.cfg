SPECIFICATION Spec
CONSTANTS
  User = {u1, u2}
  Request = {r1, r2}
  Sum <- FewSums
  Reward = {2}
  MaxBigint = 4
INVARIANTS
  IInv
  OverdraftIsBounded
  AnswersAreFresh
PROPERTIES
  OverdraftNeedsStaleCheck
  ShownIsAvailable
SYMMETRY Symmetry
