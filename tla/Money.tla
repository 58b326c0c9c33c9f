------------------------------- MODULE Money -------------------------------
(***************************************************************************)
(* Amounts of loyalty points.  Clients and the accrual service send them   *)
(* as JSON decimals, the database keeps them as whole kopecks (BIGINT).    *)
(* The code converts with                                                  *)
(*                                                                         *)
(*      uint(x * 100)            x float64, decoded from the decimal       *)
(*                                                                         *)
(* which rounds twice in binary and then truncates.  A decimal amount is   *)
(* modelled by its number of thousandths, which is fine enough to tell     *)
(* whole kopecks from fractions of one.                                    *)
(*                                                                         *)
(* TLC has no 53-bit integers, so the loss is computed from residues.      *)
(* Let k be the whole kopecks of a decimal k/100, L == floor(log2 k),      *)
(* 2^d the ratio of the spacings of doubles around k and around k/100, and *)
(* s the scale at which k/100 has an integer mantissa of P bits.  With     *)
(* r == k*2^s mod 100 the decoder stores (k*2^s - r)/100 when r < 50, and  *)
(* 100 times that lies r units of 2^-s below k: the product is rounded     *)
(* back to k unless r exceeds half the spacing 2^d.                        *)
(***************************************************************************)
EXTENDS Integers

(* A definition whose name ends in _Something is the one of that name with *)
(* a plausible bug; no specification uses it, it shows that a property     *)
(* would notice.                                                           *)

(* float64 has a mantissa of 53 bits. *)
DoubleBits == 53

Pow2[n \in Nat] == IF n = 0 THEN 1 ELSE 2 * Pow2[n - 1]

(* The same modulo 100, for exponents that are beyond TLC's integers.      *)
Pow2Mod100[n \in Nat] == IF n = 0 THEN 1 ELSE (2 * Pow2Mod100[n - 1]) % 100

(* floor(log2 k), for 0 < k < 2^63, the numbers a BIGINT holds *)
Log2(k) == CHOOSE l \in 0..62 : Pow2[l] <= k /\ k < Pow2[l + 1]

(* The thousandths below which the closed form is that of a float of P     *)
(* bits: above, the spacing of the floats is no longer far below the       *)
(* fraction of a kopeck.  For float64 it is 4.4 * 10^12 points.            *)
ModelledBelow(P) == 1000 * Pow2[P - 11]

(* The width of the mantissa for which the closed form is right at the     *)
(* powers of two too: k/100 may be stored below one, where the spacing of  *)
(* the product is halved, and the loss must not lie between the two halves *)
(* of the spacings.  It does not for float64 (2^59 mod 100 = 88).          *)
ModelledWidth(P) == P \in 11..DoubleBits /\ Pow2Mod100[P + 6] \notin 33..49

SpacingRatio_Always7(k) == 7

(* log2 of the spacing of P-bit floats at k over their spacing at k/100. *)
SpacingRatio(k) == IF 64 * k >= 100 * Pow2[Log2(k)] THEN 6 ELSE 7

(* k*2^s mod 100, for the scale s of the P-bit float nearest to k/100. *)
DecodeResidue(P, k) ==
  ((k % 100) * Pow2Mod100[P - 1 - Log2(k) + SpacingRatio(k)]) % 100

DropsKopeck_AnyResidue(P, k) == k > 0 /\ DecodeResidue(P, k) < 50

(* Does uint(x * 100) drop a kopeck when x is the float nearest to k/100?  *)
DropsKopeck(P, k) ==
  /\ k > 0
  /\ DecodeResidue(P, k) < 50
  /\ DecodeResidue(P, k) > Pow2[SpacingRatio(k) - 1]

ConvertAt_Thousandths(P, n) == 100 * (n \div 1000) + (n % 1000)

(* uint(x * 100) for the P-bit float x nearest to n thousandths, n >= 0.   *)
(* When n is not a whole number of kopecks the fraction is at least 0.1    *)
(* and the rounding errors cannot reach the next integer.                  *)
ConvertAt(P, n) ==
  IF n % 10 = 0 /\ DropsKopeck(P, n \div 10) THEN n \div 10 - 1
                                             ELSE n \div 10

(* The conversion of the code, worker/order.go:128,143 and                 *)
(* handler/balance.go:106.                                                 *)
ToKopecks(n) == ConvertAt(DoubleBits, n)

(* float64(k) / 100, encoded as JSON: the shortest decimal that decodes to *)
(* the float nearest to k/100 is k/100 itself.                             *)
ToDecimal(k) == 10 * k
=============================================================================
