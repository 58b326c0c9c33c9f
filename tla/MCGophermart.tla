---------------------------- MODULE MCGophermart ----------------------------
(* Gophermart on small instances. *)
EXTENDS Gophermart, FiniteSetsExt, TLC

(* Half a rouble, and a withdrawal that it covers once.                    *)
Amounts == {500}
Sums    == {300}

Symmetry == Permutations(User) \cup Permutations(Number) \cup Permutations(Sender)
=============================================================================
