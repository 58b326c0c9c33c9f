-------------------------- MODULE MCBalanceService --------------------------
(* BalanceService on small instances. *)
EXTENDS BalanceService, TLC

(* Less than a kopeck, two and three kopecks, and what "gt=0" refuses.     *)
Sums == {-10, 5, 20, 30}

(* The same for two users, without the amount that withdraws nothing.      *)
FewSums == {-10, 20, 30}

Symmetry == Permutations(User) \cup Permutations(Request)
=============================================================================
