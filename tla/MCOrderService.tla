--------------------------- MODULE MCOrderService ---------------------------
(* OrderService on small instances. *)
EXTENDS OrderService, TLC

Symmetry == Permutations(User) \cup Permutations(Number) \cup Permutations(Request)
=============================================================================
