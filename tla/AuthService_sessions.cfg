SPECIFICATION Spec
CONSTANTS
  Login = {l1, l2}
  Password = {p1, p2}
  Request = {r1, r2, r3, r4}
  NoUser = NoUser
INVARIANTS
  TypeOK
  IInv
  SessionsAreEarned
  LoginsAreUnique
SYMMETRY Symmetry
CHECK_DEADLOCK FALSE
