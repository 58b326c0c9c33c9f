------------------------------ MODULE MCInput -------------------------------
(***************************************************************************)
(* What clients send, for TLC: amounts, which walk through every number of *)
(* thousandths, and order numbers, which grow character by character.      *)
(***************************************************************************)
EXTENDS MCMoney, Luhn, FiniteSets

CONSTANTS
  MaxLength,   \* bound on the characters appended
  Zeros        \* the leading zeros a number starts with, for the long ones

ASSUME LengthAssumption == MaxLength \in Nat /\ Zeros \subseteq Nat

VARIABLES prefix, number

NoNumber == prefix = 0 /\ number = <<>>

InputInit == Init /\ prefix \in Zeros /\ number = <<>>

NextAmount == NoNumber /\ Next /\ UNCHANGED <<prefix, number>>

NextNumber ==
  /\ amount = 0
  /\ Len(number) < MaxLength
  /\ \E c \in Character : number' = Append(number, c)
  /\ UNCHANGED <<amount, prefix>>

InputNext == NextAmount \/ NextNumber

InputSpec == InputInit /\ [][InputNext]_<<amount, prefix, number>>

Sent == [i \in 1..prefix |-> 0] \o number

-----------------------------------------------------------------------------
(* Luhn's algorithm as textbooks have it, and as SPECIFICATION.md:129      *)
(* refers to it: from the right, every second digit counts with the sum of *)
(* the digits of its double; the total is a multiple of ten.               *)

Kept(s) == {i \in DOMAIN s : s[i] # Space}

(* Where a character stands, counted from the right without the spaces.    *)
Place(s, i) == Cardinality({j \in Kept(s) : j >= i})

Weight(s) ==
  [i \in Kept(s) |-> IF Place(s, i) % 2 = 1 THEN s[i]
                     ELSE ((2 * s[i]) \div 10) + ((2 * s[i]) % 10)]

Textbook(s) == SumFunctionOnSet(Weight(s), Kept(s)) % 10 = 0

(* The code walks from the left and decides by the parity of the length    *)
(* which digits it doubles (luhn.go:26-36): for every length it accepts,   *)
(* that is the textbook's verdict, with spaces anywhere in the number.     *)
MatchesTextbook ==
  ValidateLuhn(Sent) <=>
    /\ \A i \in Kept(Sent) : Sent[i] \in Digit
    /\ Cardinality(Kept(Sent)) \in 2..20
    /\ Textbook(Sent)

(* One digit is wrong.                                                     *)
Mistyped(s) == {[s EXCEPT ![i] = d] : i \in Kept(s), d \in Digit} \ {s}

Neighbours(s, i, j) == i < j /\ \A k \in Kept(s) : k <= i \/ k >= j

(* Two neighbours are swapped, other than 0 and 9, which the check cannot  *)
(* tell.                                                                   *)
Swapped(s) ==
  {[s EXCEPT ![p[1]] = s[p[2]], ![p[2]] = s[p[1]]] :
     p \in {q \in Kept(s) \X Kept(s) :
              Neighbours(s, q[1], q[2]) /\ {s[q[1]], s[q[2]]} # {0, 9}}} \ {s}

(* What the check is for (luhn.go:8): a client's slip -- one digit wrong,  *)
(* or two neighbours swapped -- never turns a number that is accepted into *)
(* another one that is, wherever it has spaces.                            *)
DetectsSlips ==
  ValidateLuhn(Sent) =>
    \A s \in Mistyped(Sent) \cup Swapped(Sent) : ~ValidateLuhn(s)
=============================================================================
