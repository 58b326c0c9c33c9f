--------------------------- MODULE MCAuthService ---------------------------
(* AuthService on small instances. *)
EXTENDS AuthService, TLC

Symmetry == Permutations(Login) \cup Permutations(Password) \cup Permutations(Request)
=============================================================================
