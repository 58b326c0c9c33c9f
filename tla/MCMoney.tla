------------------------------ MODULE MCMoney ------------------------------
(***************************************************************************)
(* The conversion of amounts for TLC: the state is the amount, which walks *)
(* through every number of thousandths up to MaxAmount.                    *)
(***************************************************************************)
EXTENDS Money

CONSTANTS
  MaxAmount,   \* bound on the amounts tried, in thousandths
  Bits         \* mantissa width at which the reference is computed

ASSUME BoundsAssumption == MaxAmount \in Nat

ASSUME WidthAssumption == ModelledWidth(Bits)

VARIABLE amount

Init == amount = 0

Next == amount < MaxAmount /\ amount' = amount + 1

Spec == Init /\ [][Next]_amount

-----------------------------------------------------------------------------
(* Reference: binary floating point carried out on integers, which fit     *)
(* when the mantissa has few bits.                                         *)

(* a / b rounded to the nearest integer, ties to even *)
RoundedQuotient(a, b) ==
  LET q == a \div b
      r == a % b
  IN  IF 2 * r > b \/ (2 * r = b /\ q % 2 = 1) THEN q + 1 ELSE q

(* an integer rounded to P significant bits *)
RoundedTo(P, v) ==
  LET unit == Pow2[Log2(v) - (P - 1)]
  IN  IF v < Pow2[P] THEN v ELSE unit * RoundedQuotient(v, unit)

(* At scale s, n thousandths have a mantissa of P bits at least.           *)
Fits(P, n, s) == n * Pow2[s] >= 1000 * Pow2[P - 1]

(* The smallest scale at which they do.                                    *)
Scale(P, n) ==
  CHOOSE s \in 0..(P + 9) : Fits(P, n, s) /\ (s = 0 \/ ~Fits(P, n, s - 1))

(* The mantissa of the P-bit float nearest to n thousandths, at that scale *)
Stored(P, n) == RoundedQuotient(n * Pow2[Scale(P, n)], 1000)

(* uint(x * 100) where x is the P-bit float nearest to n thousandths,      *)
(* n > 0: the rounded mantissa, the rounded product, the truncation.       *)
ReferenceConvert(P, n) ==
  RoundedTo(P, 100 * Stored(P, n)) \div Pow2[Scale(P, n)]

(* The residue form of Money agrees, amount by amount, with floating point *)
(* arithmetic done step by step (worker/order.go:128, balance.go:106),     *)
(* for whole kopecks and for fractions of one.                             *)
MatchesFloatingPoint ==
  (amount > 0 /\ amount < ModelledBelow(Bits)) =>
    ConvertAt(Bits, amount) = ReferenceConvert(Bits, amount)

(* Quarters of a point are binary fractions and survive the conversion: a  *)
(* balance of whole, half or quarter points, sent out by GET /balance and  *)
(* asked for again (handler/balance.go:72, 106), is that balance to the    *)
(* kopeck.  Of other amounts this is not so, see WholeKopecksAreExact.     *)
QuartersAreExact ==
  (amount % 25 = 0 /\ ToDecimal(amount) < ModelledBelow(Bits)) =>
    ConvertAt(Bits, ToDecimal(amount)) = amount

(* A larger decimal is never converted to fewer kopecks, the dropped       *)
(* kopecks included.                                                       *)
ConversionIsMonotone == ToKopecks(amount) <= ToKopecks(amount + 1)

(* SPECIFICATION.md:259: "sum" is the sum of points to write off, and a    *)
(* sum of whole kopecks is written off as exactly those kopecks.           *)
WholeKopecksAreExact == amount % 10 = 0 => ToKopecks(amount) = amount \div 10
=============================================================================
