---------------------------- MODULE InputProofs ----------------------------
(***************************************************************************)
(* What the service makes of the amounts and the order numbers it is sent: *)
(* that Money's residue form is floating point arithmetic, and that the    *)
(* check is Luhn's, for numbers of any length with spaces anywhere in      *)
(* them.                                                                   *)
(***************************************************************************)
EXTENDS MCInput, CommonLemmas, SequenceTheorems

InputOK == amount \in Nat /\ Sent \in Seq(Character)

LEMMA InputIsSound == InputSpec => []InputOK
<1> DEFINE Inv == amount \in Nat /\ prefix \in Nat /\ number \in Seq(Character)
<1>1. InputInit => Inv
  BY LengthAssumption DEF InputInit, Init
<1>2. Inv /\ [InputNext]_<<amount, prefix, number>> => Inv'
  <2> SUFFICES ASSUME Inv, [InputNext]_<<amount, prefix, number>>
               PROVE  Inv'
    OBVIOUS
  <2>1. CASE NextAmount
    BY <2>1 DEF NextAmount, Next
  <2>2. CASE NextNumber
    BY <2>2 DEF NextNumber
  <2> QED BY <2>1, <2>2 DEF InputNext
<1>3. Inv => InputOK
  <2> SUFFICES ASSUME Inv
               PROVE  Sent \in Seq(Character)
    BY DEF InputOK
  <2> DEFINE zeros == [i \in 1..prefix |-> 0]
  <2>1. zeros \in Seq(Character)
    <3>1. zeros \in [1..prefix -> Character] /\ prefix \in Nat
      BY DEF Character, Digit
    <3> QED BY <3>1
  <2> HIDE DEF zeros
  <2>2. zeros \o number \in Seq(Character)
    BY <2>1
  <2> QED BY <2>2 DEF Sent, zeros
<1> QED BY <1>1, <1>2, <1>3, PTL DEF InputSpec

-----------------------------------------------------------------------------
(* Amounts                                                                 *)

(* For amounts of any size MaxAmount admits: asking for more never         *)
(* withdraws less, and more announced is never less credited               *)
(* (handler/balance.go:106, worker/order.go:128, 143).  It is about the    *)
(* residue form, which is the code's arithmetic below ModelledBelow: see   *)
(* ToKopecksIsDoubleArithmetic.                                            *)
THEOREM ConversionKeepsOrder == InputSpec => []ConversionIsMonotone
<1>1. ASSUME amount \in Nat
      PROVE  ConversionIsMonotone
  <2>1. /\ ToKopecks(amount) \in {amount \div 10, amount \div 10 - 1}
        /\ amount % 10 # 0 => ToKopecks(amount) = amount \div 10
    BY <1>1, ToKopecksRange
  <2>2. /\ ToKopecks(amount + 1) \in {(amount + 1) \div 10, (amount + 1) \div 10 - 1}
        /\ (amount + 1) % 10 # 0 => ToKopecks(amount + 1) = (amount + 1) \div 10
    BY <1>1, ToKopecksRange
  <2>3. CASE (amount + 1) % 10 = 0
    <3>1. (amount + 1) \div 10 = amount \div 10 + 1 /\ amount % 10 # 0
      BY <1>1, <2>3
    <3> QED BY <1>1, <2>1, <2>2, <3>1 DEF ConversionIsMonotone
  <2>4. CASE (amount + 1) % 10 # 0
    <3>1. (amount + 1) \div 10 = amount \div 10
      BY <1>1, <2>4
    <3> QED BY <1>1, <2>1, <2>2, <2>4, <3>1 DEF ConversionIsMonotone
  <2> QED BY <2>3, <2>4
<1>2. InputOK => ConversionIsMonotone
  BY <1>1 DEF InputOK
<1> QED BY <1>2, InputIsSound, PTL
-----------------------------------------------------------------------------
(* Amounts as floating point                                               *)

(* The rounding x of q + r/b, by the remainder.                            *)
RoundsAs(x, b, q, r) ==
  /\ 2 * r < b => x = q
  /\ 2 * r > b => x = q + 1
  /\ 2 * r = b /\ q % 2 = 1 => x = q + 1
  /\ x \in {q, q + 1}

LEMMA RoundsTo ==
  ASSUME NEW b \in Nat, b > 0, NEW q \in Nat, NEW r \in 0..(b - 1),
         NEW a \in Nat, a = q * b + r
  PROVE  RoundsAs(RoundedQuotient(a, b), b, q, r)
<1>1. q * b \in Nat /\ b * q = q * b
  OBVIOUS
<1>2. a \div b = q
  <2>1. q * b <= a /\ a < q * b + b
    BY <1>1
  <2> QED BY <1>1, <2>1, QuotientIs
<1>3. a % b = r
  <2>1. a = b * (a \div b) + (a % b) /\ a % b \in Int
    OBVIOUS
  <2> QED BY <1>1, <1>2, <2>1
<1> QED BY <1>2, <1>3 DEF RoundedQuotient, RoundsAs

LEMMA FitsGrows ==
  ASSUME NEW P \in Nat, NEW n \in Nat, NEW s \in Nat, NEW t \in Nat, s <= t,
         P > 0, Fits(P, n, s)
  PROVE  Fits(P, n, t)
<1> DEFINE a == Pow2[s]
           b == Pow2[t]
           c == Pow2[P - 1]
<1>1. a \in Nat /\ b \in Nat /\ c \in Nat /\ a <= b
  <2>1. P - 1 \in Nat
    OBVIOUS
  <2> QED BY <2>1, Pow2Type, Pow2Grows
<1>2. n * a >= 1000 * c
  BY DEF Fits
<1> HIDE DEF a, b, c
<1>3. a * n <= b * n
  BY <1>1, TimesKeepsOrder
<1>4. a * n = n * a /\ b * n = n * b /\ n * a \in Nat /\ n * b \in Nat
  BY <1>1
<1>5. n * b >= 1000 * c
  BY <1>1, <1>2, <1>3, <1>4
<1> QED BY <1>5 DEF Fits, b, c

LEMMA ScaleIs ==
  ASSUME NEW P \in 11..DoubleBits, NEW n \in Nat, NEW s \in 1..(P + 9),
         Fits(P, n, s), ~Fits(P, n, s - 1)
  PROVE  Scale(P, n) = s
<1>1. ASSUME NEW t \in 0..(P + 9), Fits(P, n, t), t = 0 \/ ~Fits(P, n, t - 1)
      PROVE  t = s
  <2>0. P \in Nat /\ P > 0
    BY DEF DoubleBits
  <2>1. ~(t < s)
    <3> SUFFICES ASSUME t < s PROVE FALSE
      OBVIOUS
    <3>1. t <= s - 1 /\ s - 1 \in Nat
      OBVIOUS
    <3> QED BY <1>1, <2>0, <3>1, FitsGrows
  <2>2. ~(s < t)
    <3> SUFFICES ASSUME s < t PROVE FALSE
      OBVIOUS
    <3>1. s <= t - 1 /\ t - 1 \in Nat
      OBVIOUS
    <3> QED BY <1>1, <2>0, <3>1, FitsGrows
  <2> QED BY <2>1, <2>2
<1>2. s \in 0..(P + 9) /\ Fits(P, n, s) /\ (s = 0 \/ ~Fits(P, n, s - 1))
  OBVIOUS
<1> QED BY <1>1, <1>2 DEF Scale

(* The scale of a modelled amount is large: there are 2^11 units of the    *)
(* mantissa or more to a kopeck.                                           *)
LEMMA ScaleBounds ==
  ASSUME NEW P \in 11..DoubleBits, NEW n \in Nat, n > 0, n < ModelledBelow(P)
  PROVE  /\ Scale(P, n) \in 11..(P + 9)
         /\ Fits(P, n, Scale(P, n))
         /\ ~Fits(P, n, Scale(P, n) - 1)
<1>0. /\ P \in Nat /\ P > 0 /\ P - 1 \in Nat /\ P - 11 \in Nat /\ P + 9 \in Nat
      /\ (P - 1) + 10 = P + 9 /\ (P - 11) + 10 = P - 1
  BY DEF DoubleBits
<1>1. /\ Pow2[P - 1] \in Nat /\ Pow2[P - 1] >= 1
      /\ Pow2[P - 11] \in Nat
      /\ Pow2[P + 9] = Pow2[P - 1] * 1024
      /\ Pow2[P - 1] = Pow2[P - 11] * 1024
  <2>1. /\ Pow2[P + 9] = Pow2[P - 1] * Pow2[10]
        /\ Pow2[P - 1] = Pow2[P - 11] * Pow2[10]
    <3>1. Pow2[(P - 1) + 10] = Pow2[P - 1] * Pow2[10]
      BY <1>0, Pow2Sum
    <3>2. Pow2[(P - 11) + 10] = Pow2[P - 11] * Pow2[10]
      BY <1>0, Pow2Sum
    <3> QED BY <1>0, <3>1, <3>2
  <2> QED BY <1>0, <2>1, Pow2Type, SmallPowers
<1>2. Fits(P, n, P + 9)
  <2> DEFINE a == Pow2[P + 9]
             c == Pow2[P - 1]
  <2>1. a = c * 1024 /\ c \in Nat
    BY <1>1
  <2> HIDE DEF a, c
  <2>2. 1 * a <= n * a
    BY <2>1, TimesKeepsOrder
  <2>3. n * a >= 1000 * c
    BY <2>1, <2>2
  <2> QED BY <2>3 DEF Fits, a, c
<1>3. ~Fits(P, n, 10)
  BY <1>1, SmallPowers DEF Fits, ModelledBelow
<1> DEFINE Fit == {t \in Nat : Fits(P, n, t)}
<1>4. PICK s \in Fit : \A t \in Fit : s <= t
  <2>1. Fit \subseteq Nat /\ Fit # {}
    BY <1>0, <1>2
  <2> HIDE DEF Fit
  <2> QED BY <2>1, LeastNumber
<1>5. s \in 11..(P + 9)
  <2>1. s \in Nat /\ s <= P + 9 /\ Fits(P, n, s)
    BY <1>0, <1>2, <1>4
  <2>2. ~(s <= 10)
    BY <1>0, <1>3, <2>1, FitsGrows
  <2> QED BY <1>0, <2>1, <2>2
<1>6. Fits(P, n, s) /\ ~Fits(P, n, s - 1)
  <2>1. s - 1 \in Nat /\ ~(s <= s - 1)
    BY <1>5
  <2>2. s - 1 \notin Fit
    <3> HIDE DEF Fit
    <3> QED BY <1>4, <2>1
  <2> QED BY <1>4, <2>1, <2>2
<1>7. Scale(P, n) = s
  <2>1. s \in 1..(P + 9)
    BY <1>5
  <2> HIDE DEF Fit
  <2> QED BY <1>6, <2>1, ScaleIs
<1> QED BY <1>5, <1>6, <1>7

(* The scaled amount, and the power of two that is its unit.               *)
LEMMA ScaledBounds ==
  ASSUME NEW P \in 11..DoubleBits, NEW n \in Nat, n > 0, n < ModelledBelow(P)
  PROVE  /\ n * Pow2[Scale(P, n)] \in Nat
         /\ n * Pow2[Scale(P, n)] >= 1000 * Pow2[P - 1]
         /\ n * Pow2[Scale(P, n)] < 2000 * Pow2[P - 1]
         /\ Pow2[Scale(P, n)] = 2048 * Pow2[Scale(P, n) - 11]
         /\ Pow2[Scale(P, n) - 11] \in Nat /\ Pow2[Scale(P, n) - 11] >= 1
         /\ Pow2[P - 1] \in Nat
<1> DEFINE s == Scale(P, n)
<1>1. s \in 11..(P + 9) /\ Fits(P, n, s) /\ ~Fits(P, n, s - 1)
  BY ScaleBounds
<1> HIDE DEF s
<1>2. /\ s \in Nat /\ s - 1 \in Nat /\ s - 11 \in Nat /\ P - 1 \in Nat
      /\ (s - 1) + 1 = s /\ 11 + (s - 11) = s
  BY <1>1 DEF DoubleBits
<1> DEFINE a == Pow2[s - 1]
           c == Pow2[P - 1]
<1>3. /\ Pow2[s] = 2 * a /\ a \in Nat /\ c \in Nat
      /\ Pow2[s - 11] \in Nat /\ Pow2[s - 11] >= 1
  <2>1. Pow2[(s - 1) + 1] = 2 * Pow2[s - 1]
    BY <1>2, Pow2Step
  <2> QED BY <1>2, <2>1, Pow2Type
<1>4. Pow2[s] = 2048 * Pow2[s - 11]
  <2>1. Pow2[11 + (s - 11)] = Pow2[11] * Pow2[s - 11]
    BY <1>2, Pow2Sum
  <2> QED BY <1>2, <2>1, SmallPowers
<1>5. n * Pow2[s] >= 1000 * c /\ ~(n * a >= 1000 * c)
  BY <1>1 DEF Fits
<1> HIDE DEF a, c
<1>6. n * (2 * a) = 2 * (n * a) /\ n * a \in Nat
  BY <1>3
<1>7. n * Pow2[s] \in Nat /\ n * Pow2[s] < 2000 * c
  BY <1>3, <1>5, <1>6
<1>8. c \in Nat
  BY <1>3
<1> QED BY <1>3, <1>4, <1>5, <1>7, <1>8 DEF c, s

(* The stored mantissa is the scaled amount in thousands, rounded.         *)
LEMMA StoredBounds ==
  ASSUME NEW P \in 11..DoubleBits, NEW n \in Nat, n > 0, n < ModelledBelow(P)
  PROVE  /\ Stored(P, n) \in Nat
         /\ 1000 * Stored(P, n) <= n * Pow2[Scale(P, n)] + 500
         /\ n * Pow2[Scale(P, n)] <= 1000 * Stored(P, n) + 500
         /\ 64 * Pow2[P - 1] <= 100 * Stored(P, n)
         /\ 100 * Stored(P, n) < 256 * Pow2[P - 1]
<1> DEFINE N == n * Pow2[Scale(P, n)]
           A == Pow2[P - 1]
           m == Stored(P, n)
<1>1. N \in Nat /\ A \in Nat /\ N >= 1000 * A /\ N < 2000 * A
  BY ScaledBounds
<1>2. m = RoundedQuotient(N, 1000)
  BY DEF Stored
<1> HIDE DEF N, A, m
<1> DEFINE q == N \div 1000
           r == N % 1000
<1>3. q \in Nat /\ r \in 0..999 /\ N = q * 1000 + r
  BY <1>1
<1>4. /\ 2 * r < 1000 => m = q
      /\ 2 * r > 1000 => m = q + 1
      /\ m \in {q, q + 1}
  <2> HIDE DEF q, r
  <2>1. r \in 0..(1000 - 1) /\ 1000 > 0 /\ 1000 \in Nat
    BY <1>3
  <2>2. RoundsAs(RoundedQuotient(N, 1000), 1000, q, r)
    BY <1>1, <1>3, <2>1, RoundsTo
  <2> QED BY <1>2, <2>2 DEF RoundsAs
<1> HIDE DEF q, r
<1>5. m \in Nat /\ 1000 * m <= N + 500 /\ N <= 1000 * m + 500
  BY <1>3, <1>4
<1>6. A <= q /\ q < 2 * A
  BY <1>1, <1>3
<1>7. 64 * A <= 100 * m /\ 100 * m < 256 * A
  <2>1. A >= 1
    BY <1>1
  <2> QED BY <1>1, <1>3, <1>4, <1>6, <2>1
<1> QED BY <1>5, <1>7 DEF N, A, m

(* The product is rounded to a multiple of 64 or of 128.                   *)
LEMMA ProductUnit ==
  ASSUME NEW P \in 11..DoubleBits, NEW v \in Nat,
         64 * Pow2[P - 1] <= v, v < 256 * Pow2[P - 1]
  PROVE  /\ v < 128 * Pow2[P - 1] => RoundedTo(P, v) = 64 * RoundedQuotient(v, 64)
         /\ v >= 128 * Pow2[P - 1] => RoundedTo(P, v) = 128 * RoundedQuotient(v, 128)
<1> DEFINE A == Pow2[P - 1]
<1>0. P \in Nat /\ P - 1 \in Nat /\ P + 5 \in 0..62 /\ P + 6 \in 0..62
  BY DEF DoubleBits
<1>1. /\ A \in Nat /\ A >= 1
      /\ Pow2[P] = 2 * A /\ Pow2[P + 5] = 64 * A
      /\ Pow2[P + 6] = 128 * A /\ Pow2[P + 7] = 256 * A
  <2>1. \A j \in Nat : Pow2[(P - 1) + j] = A * Pow2[j]
    BY <1>0, Pow2Sum
  <2>2. /\ (P - 1) + 1 = P /\ (P - 1) + 6 = P + 5
        /\ (P - 1) + 7 = P + 6 /\ (P - 1) + 8 = P + 7
    BY <1>0
  <2>3. A \in Nat /\ A >= 1
    BY <1>0, Pow2Type
  <2> HIDE DEF A
  <2>4. /\ Pow2[P] = A * Pow2[1] /\ Pow2[P + 5] = A * Pow2[6]
        /\ Pow2[P + 6] = A * Pow2[7] /\ Pow2[P + 7] = A * Pow2[8]
    BY <2>1, <2>2
  <2> QED BY <2>3, <2>4, SmallPowers
<1> HIDE DEF A
<1>2. ~(v < Pow2[P])
  BY <1>1 DEF A
<1>3. CASE v < 128 * A
  <2>1. Pow2[P + 5] <= v /\ v < Pow2[(P + 5) + 1]
    <3>1. (P + 5) + 1 = P + 6
      BY <1>0
    <3> QED BY <1>1, <1>3, <3>1 DEF A
  <2>2. Log2(v) = P + 5
    BY <1>0, <2>1, Log2Is
  <2>3. Pow2[Log2(v) - (P - 1)] = 64
    <3>1. (P + 5) - (P - 1) = 6
      BY <1>0
    <3> QED BY <2>2, <3>1, SmallPowers
  <2>4. RoundedTo(P, v) = 64 * RoundedQuotient(v, 64)
    BY <1>2, <2>3 DEF RoundedTo
  <2> QED BY <1>1, <1>3, <2>4 DEF A
<1>4. CASE v >= 128 * A
  <2>1. Pow2[P + 6] <= v /\ v < Pow2[(P + 6) + 1]
    <3>1. (P + 6) + 1 = P + 7
      BY <1>0
    <3> QED BY <1>1, <1>4, <3>1 DEF A
  <2>2. Log2(v) = P + 6
    BY <1>0, <2>1, Log2Is
  <2>3. Pow2[Log2(v) - (P - 1)] = 128
    <3>1. (P + 6) - (P - 1) = 7
      BY <1>0
    <3> QED BY <2>2, <3>1, SmallPowers
  <2>4. RoundedTo(P, v) = 128 * RoundedQuotient(v, 128)
    BY <1>2, <2>3 DEF RoundedTo
  <2> QED BY <1>1, <1>4, <2>4 DEF A
<1>5. v < 128 * A \/ v >= 128 * A
  BY <1>1
<1> QED BY <1>3, <1>4, <1>5

(* A rounded product is at most half a unit away.                          *)
LEMMA RoundedIsNear ==
  ASSUME NEW u \in {64, 128}, NEW v \in Nat
  PROVE  /\ u * RoundedQuotient(v, u) \in Nat
         /\ u * RoundedQuotient(v, u) <= v + 64
         /\ v <= u * RoundedQuotient(v, u) + 64
<1> DEFINE q == v \div u
           r == v % u
           x == RoundedQuotient(v, u)
<1>1. q \in Nat /\ r \in 0..(u - 1) /\ v = q * u + r
  <2>1. CASE u = 64
    BY <2>1
  <2>2. CASE u = 128
    BY <2>2
  <2> QED BY <2>1, <2>2
<1> HIDE DEF q, r
<1>2. RoundsAs(x, u, q, r)
  <2>1. u \in Nat /\ u > 0
    OBVIOUS
  <2> QED BY <1>1, <2>1, RoundsTo
<1> HIDE DEF x
<1>3. u * x \in Nat /\ u * x <= v + 64 /\ v <= u * x + 64
  <2>1. CASE u = 64
    BY <1>1, <1>2, <2>1 DEF RoundsAs
  <2>2. CASE u = 128
    BY <1>1, <1>2, <2>2 DEF RoundsAs
  <2> QED BY <2>1, <2>2
<1> QED BY <1>3 DEF x

(* What the product of the stored amount is rounded to, in general.        *)
LEMMA ProductBounds ==
  ASSUME NEW P \in 11..DoubleBits, NEW n \in Nat, n > 0, n < ModelledBelow(P)
  PROVE  /\ RoundedTo(P, 100 * Stored(P, n)) \in Nat
         /\ RoundedTo(P, 100 * Stored(P, n)) <= 100 * Stored(P, n) + 64
         /\ 100 * Stored(P, n) <= RoundedTo(P, 100 * Stored(P, n)) + 64
<1> DEFINE v == 100 * Stored(P, n)
           A == Pow2[P - 1]
<1>1. v \in Nat /\ 64 * A <= v /\ v < 256 * A
  BY StoredBounds
<1>2. A \in Nat
  BY ScaledBounds
<1> HIDE DEF v
<1>3. RoundedTo(P, v) \in {64 * RoundedQuotient(v, 64), 128 * RoundedQuotient(v, 128)}
  <2>1. v < 128 * A \/ v >= 128 * A
    <3> HIDE DEF A
    <3> QED BY <1>1, <1>2
  <2> QED BY <1>1, <2>1, ProductUnit
<1>4. /\ RoundedTo(P, v) \in Nat
      /\ RoundedTo(P, v) <= v + 64
      /\ v <= RoundedTo(P, v) + 64
  BY <1>1, <1>3, RoundedIsNear
<1> QED BY <1>4 DEF v

(* A fraction of a kopeck is at least a tenth of one, and the roundings    *)
(* cannot reach the next kopeck.                                           *)
LEMMA FractionsAreCut ==
  ASSUME NEW P \in 11..DoubleBits, NEW n \in Nat, n < ModelledBelow(P), n % 10 # 0
  PROVE  ReferenceConvert(P, n) = n \div 10
<1> DEFINE S == Pow2[Scale(P, n)]
           m == Stored(P, n)
           w == RoundedTo(P, 100 * m)
           q == n \div 10
           f == n % 10
<1>1. n > 0 /\ q \in Nat /\ f \in 1..9 /\ n = 10 * q + f
  OBVIOUS
<1>2. S \in Nat /\ S >= 2048
  BY <1>1, ScaledBounds
<1>3. m \in Nat /\ 1000 * m <= n * S + 500 /\ n * S <= 1000 * m + 500
  BY <1>1, StoredBounds
<1>4. w \in Nat /\ w <= 100 * m + 64 /\ 100 * m <= w + 64
  BY <1>1, ProductBounds
<1> HIDE DEF S, m, w, q, f
<1>5. n * S = 10 * (q * S) + f * S /\ q * S \in Nat /\ f * S \in Nat
  BY <1>1, <1>2
<1>6. S <= f * S /\ f * S <= 9 * S
  BY <1>1, <1>2
<1>7. q * S <= w /\ w < q * S + S
  BY <1>2, <1>3, <1>4, <1>5, <1>6
<1>8. w \div S = q
  <2>1. S > 0
    BY <1>2
  <2> QED BY <1>1, <1>2, <1>4, <1>7, <2>1, QuotientIs
<1> QED BY <1>8 DEF ReferenceConvert, S, m, w, q

(* A product a little below or above a multiple of 2048, rounded to the    *)
(* unit 64 or 128: below it, it is rounded up to the multiple unless it    *)
(* lies more than half a unit of 64 away (a tie goes to the even side).    *)
LEMMA RoundedBelow64 ==
  ASSUME NEW y \in Nat, y > 0, NEW r \in 0..49
  PROVE  64 * RoundedQuotient(2048 * y - r, 64)
           = IF r <= 32 THEN 2048 * y ELSE 2048 * y - 64
<1> DEFINE a == 2048 * y - r
           x == RoundedQuotient(a, 64)
<1>0. a \in Nat
  OBVIOUS
<1>1. CASE r = 0
  <2>1. 32 * y \in Nat /\ 0 \in 0..(64 - 1) /\ 64 \in Nat /\ 64 > 0
        /\ a = (32 * y) * 64 + 0
    BY <1>1
  <2> HIDE DEF a
  <2>2. RoundsAs(x, 64, 32 * y, 0)
    BY <1>0, <2>1, RoundsTo
  <2> HIDE DEF x
  <2>3. x = 32 * y
    BY <2>2 DEF RoundsAs
  <2> QED BY <1>1, <2>3 DEF x, a
<1>2. CASE r # 0
  <2> DEFINE q == 32 * y - 1
             t == 64 - r
  <2>1. q \in Nat /\ t \in 0..(64 - 1) /\ 64 \in Nat /\ 64 > 0
        /\ a = q * 64 + t /\ q % 2 = 1
    BY <1>2
  <2> HIDE DEF a, q, t
  <2>2. RoundsAs(x, 64, q, t)
    BY <1>0, <2>1, RoundsTo
  <2> HIDE DEF x
  <2>3. IF r <= 32 THEN x = q + 1 ELSE x = q
    BY <2>1, <2>2 DEF RoundsAs, t
  <2> QED BY <2>3 DEF x, a, q
<1> QED BY <1>1, <1>2

LEMMA RoundedBelow128 ==
  ASSUME NEW y \in Nat, y > 0, NEW r \in 0..49
  PROVE  128 * RoundedQuotient(2048 * y - r, 128) = 2048 * y
<1> DEFINE a == 2048 * y - r
           x == RoundedQuotient(a, 128)
<1>0. a \in Nat
  OBVIOUS
<1>1. CASE r = 0
  <2>1. 16 * y \in Nat /\ 0 \in 0..(128 - 1) /\ 128 \in Nat /\ 128 > 0
        /\ a = (16 * y) * 128 + 0
    BY <1>1
  <2> HIDE DEF a
  <2>2. RoundsAs(x, 128, 16 * y, 0)
    BY <1>0, <2>1, RoundsTo
  <2> HIDE DEF x
  <2>3. x = 16 * y
    BY <2>2 DEF RoundsAs
  <2> QED BY <1>1, <2>3 DEF x, a
<1>2. CASE r # 0
  <2> DEFINE q == 16 * y - 1
             t == 128 - r
  <2>1. q \in Nat /\ t \in 0..(128 - 1) /\ 128 \in Nat /\ 128 > 0
        /\ a = q * 128 + t
    BY <1>2
  <2> HIDE DEF a, q, t
  <2>2. RoundsAs(x, 128, q, t)
    BY <1>0, <2>1, RoundsTo
  <2> HIDE DEF x
  <2>3. x = q + 1
    BY <2>1, <2>2 DEF RoundsAs, t
  <2> QED BY <2>3 DEF x, a, q
<1> QED BY <1>1, <1>2

LEMMA RoundedAbove ==
  ASSUME NEW y \in Nat, NEW t \in 0..49, NEW u \in {64, 128}
  PROVE  /\ u * RoundedQuotient(2048 * y + t, u) \in Nat
         /\ 2048 * y <= u * RoundedQuotient(2048 * y + t, u)
         /\ u * RoundedQuotient(2048 * y + t, u) < 2048 * y + 2048
<1> DEFINE a == 2048 * y + t
           x == RoundedQuotient(a, u)
           z == IF u = 64 THEN 32 * y ELSE 16 * y
<1>1. a \in Nat /\ z \in Nat /\ u * z = 2048 * y /\ a = z * u + t
      /\ t \in 0..(u - 1) /\ u \in Nat /\ u > 0
  OBVIOUS
<1> HIDE DEF a, z
<1>2. RoundsAs(x, u, z, t)
  BY <1>1, RoundsTo
<1> HIDE DEF x
<1>3. x \in {z, z + 1}
  BY <1>2 DEF RoundsAs
<1>4. u * x \in Nat /\ 2048 * y <= u * x /\ u * x < 2048 * y + 2048
  <2>1. u * (z + 1) = u * z + u
    BY <1>1
  <2> QED BY <1>1, <1>3, <2>1
<1> QED BY <1>4 DEF x, a

(* The scale of k kopecks, by their leading bit and the ratio of spacings. *)
LEMMA KopeckScale ==
  ASSUME NEW P \in 11..DoubleBits, NEW k \in Nat, k > 0, 10 * k < ModelledBelow(P)
  PROVE  /\ Log2(k) \in 0..(P - 1)
         /\ Scale(P, 10 * k) = P - 1 - Log2(k) + SpacingRatio(k)
         /\ SpacingRatio(k) \in {6, 7}
         /\ SpacingRatio(k) = 6 => k * Pow2[Scale(P, 10 * k)] < 128 * Pow2[P - 1]
         /\ SpacingRatio(k) = 7 => k * Pow2[Scale(P, 10 * k)] >= 128 * Pow2[P - 1]
<1> DEFINE L == Log2(k)
           e == P - 1 - L
           d == SpacingRatio(k)
           A == Pow2[P - 1]
           B == Pow2[L]
           E == Pow2[e]
           n == 10 * k
<1>0. P \in Nat /\ P - 1 \in 0..62 /\ P - 1 \in Nat /\ P - 11 \in Nat
  BY DEF DoubleBits
<1>1. L \in 0..(P - 1) /\ B <= k /\ k < 2 * B
  <2>1. k < Pow2[(P - 1) + 1]
    <3>1. (P - 11) + 7 = P - 4 /\ P - 4 \in Nat /\ (P - 1) + 1 = P /\ P - 4 <= P
      BY <1>0 DEF DoubleBits
    <3>2. Pow2[(P - 11) + 7] = Pow2[P - 11] * Pow2[7]
      BY <1>0, Pow2Sum
    <3>3. k < 100 * Pow2[P - 11] /\ Pow2[P - 11] \in Nat
      BY <1>0, Pow2Type DEF ModelledBelow
    <3>4. Pow2[P - 4] <= Pow2[P] /\ Pow2[P - 4] \in Nat /\ Pow2[P] \in Nat
      BY <1>0, <3>1, Pow2Type, Pow2Grows
    <3> QED BY <3>1, <3>2, <3>3, <3>4, SmallPowers
  <2>2. L \in 0..(P - 1) /\ Pow2[L] <= k /\ k < Pow2[L + 1]
    BY <1>0, <2>1, Log2Bounds
  <2>3. Pow2[L + 1] = 2 * Pow2[L]
    <3> HIDE DEF L
    <3> QED BY <1>0, <2>2, Pow2Step
  <2> QED BY <2>2, <2>3
<1> HIDE DEF L
<1>2. e \in Nat /\ L \in Nat /\ L + e = P - 1
  BY <1>0, <1>1
<1> HIDE DEF e
<1>3. /\ A \in Nat /\ B \in Nat /\ E \in Nat /\ E >= 1 /\ A = B * E
  <2>1. Pow2[L + e] = Pow2[L] * Pow2[e]
    BY <1>2, Pow2Sum
  <2> QED BY <1>0, <1>2, <2>1, Pow2Type
<1>4. d \in {6, 7} /\ (d = 6 <=> 64 * k >= 100 * B)
  <2>1. 64 * k >= 100 * B \/ ~(64 * k >= 100 * B)
    OBVIOUS
  <2>2. d = IF 64 * k >= 100 * B THEN 6 ELSE 7
    BY DEF SpacingRatio, L
  <2> QED BY <2>1, <2>2
<1>5. Pow2[e + 5] = 32 * E /\ Pow2[e + 6] = 64 * E /\ Pow2[e + 7] = 128 * E
  <2>1. \A j \in Nat : Pow2[e + j] = E * Pow2[j]
    BY <1>2, Pow2Sum
  <2> QED BY <1>3, <2>1, SmallPowers
<1> HIDE DEF A, B, E, d
<1>6. k * E \in Nat /\ A <= k * E /\ k * E < 2 * A
  <2>1. B * E <= k * E
    BY <1>1, <1>3, TimesKeepsOrder
  <2>2. (k + 1) * E <= (2 * B) * E
    BY <1>1, <1>3, TimesKeepsOrder
  <2>3. (k + 1) * E = k * E + E /\ (2 * B) * E = 2 * (B * E) /\ k * E \in Nat
    BY <1>3
  <2> QED BY <1>3, <2>1, <2>2, <2>3
<1>7. d = 6 => 64 * (k * E) >= 100 * A
  <2> SUFFICES ASSUME d = 6 PROVE 64 * (k * E) >= 100 * A
    OBVIOUS
  <2>1. (100 * B) * E <= (64 * k) * E
    BY <1>3, <1>4, TimesKeepsOrder
  <2>2. (100 * B) * E = 100 * (B * E) /\ (64 * k) * E = 64 * (k * E)
    BY <1>3
  <2> QED BY <1>3, <1>6, <2>1, <2>2
<1>8. d = 7 => 64 * (k * E) < 100 * A
  <2> SUFFICES ASSUME d = 7 PROVE 64 * (k * E) < 100 * A
    OBVIOUS
  <2>1. (64 * k + 1) * E <= (100 * B) * E
    BY <1>3, <1>4, TimesKeepsOrder
  <2>2. (100 * B) * E = 100 * (B * E) /\ (64 * k + 1) * E = 64 * (k * E) + E
    BY <1>3
  <2> QED BY <1>3, <1>6, <2>1, <2>2
<1>9. /\ d = 6 => Pow2[e + d] = 64 * E /\ Pow2[(e + d) - 1] = 32 * E
      /\ d = 7 => Pow2[e + d] = 128 * E /\ Pow2[(e + d) - 1] = 64 * E
  <2>1. /\ d = 6 => (e + d) - 1 = e + 5
        /\ d = 7 => (e + d) - 1 = e + 6
    BY <1>2
  <2> QED BY <1>5, <2>1
<1>10. /\ d = 6 => k * Pow2[e + d] = 64 * (k * E) /\ k * Pow2[(e + d) - 1] = 32 * (k * E)
       /\ d = 7 => k * Pow2[e + d] = 128 * (k * E) /\ k * Pow2[(e + d) - 1] = 64 * (k * E)
  <2>1. k * (32 * E) = 32 * (k * E) /\ k * (64 * E) = 64 * (k * E)
        /\ k * (128 * E) = 128 * (k * E)
    BY <1>3
  <2> QED BY <1>9, <2>1
<1>11. Pow2[e + d] \in Nat /\ Pow2[(e + d) - 1] \in Nat
  BY <1>3, <1>4, <1>9
<1>12. Fits(P, n, e + d)
  <2>1. k * Pow2[e + d] >= 100 * A
    BY <1>3, <1>4, <1>6, <1>7, <1>10
  <2>2. (10 * k) * Pow2[e + d] = 10 * (k * Pow2[e + d]) /\ k * Pow2[e + d] \in Nat
    BY <1>11
  <2>3. n * Pow2[e + d] >= 1000 * A
    BY <1>3, <2>1, <2>2
  <2> HIDE DEF n
  <2> QED BY <2>3 DEF Fits, A
<1>13. ~Fits(P, n, (e + d) - 1)
  <2>1. k * Pow2[(e + d) - 1] < 100 * A
    BY <1>3, <1>4, <1>6, <1>8, <1>10
  <2>2. (10 * k) * Pow2[(e + d) - 1] = 10 * (k * Pow2[(e + d) - 1])
        /\ k * Pow2[(e + d) - 1] \in Nat
    BY <1>11
  <2>3. ~(n * Pow2[(e + d) - 1] >= 1000 * A)
    BY <1>3, <2>1, <2>2
  <2> HIDE DEF n
  <2> QED BY <2>3 DEF Fits, A
<1>14. Scale(P, n) = e + d
  <2>1. e + d \in 1..(P + 9) /\ n \in Nat
    BY <1>0, <1>1, <1>2, <1>4 DEF e
  <2> DEFINE s == e + d
  <2>2. s \in 1..(P + 9) /\ Fits(P, n, s) /\ ~Fits(P, n, s - 1)
    BY <1>12, <1>13, <2>1
  <2> HIDE DEF n, s
  <2>3. Scale(P, n) = s
    BY <2>1, <2>2, ScaleIs
  <2> QED BY <2>3 DEF s
<1>15. /\ d = 6 => k * Pow2[Scale(P, n)] < 128 * A
       /\ d = 7 => k * Pow2[Scale(P, n)] >= 128 * A
  <2> HIDE DEF n
  <2> QED BY <1>3, <1>6, <1>10, <1>14
<1> QED BY <1>1, <1>4, <1>14, <1>15 DEF L, e, d, A

(* Multiplication modulo 100.                                              *)
LEMMA ProductResidue ==
  ASSUME NEW a \in Nat, NEW b \in Nat
  PROVE  ((a % 100) * (b % 100)) % 100 = (a * b) % 100
<1> DEFINE i == a \div 100
           j == b \div 100
           r == a % 100
           t == b % 100
<1>1. /\ i \in Nat /\ r \in Nat /\ a = 100 * i + r
      /\ j \in Nat /\ t \in Nat /\ b = 100 * j + t
  OBVIOUS
<1> HIDE DEF i, j, r, t
<1>2. a * b = 100 * (100 * (i * j) + i * t + r * j) + r * t
  BY <1>1
<1> DEFINE c == 100 * (i * j) + i * t + r * j
           x == r * t
<1>3. c \in Nat /\ x \in Nat /\ a * b = 100 * c + x
  BY <1>1, <1>2
<1> HIDE DEF c, x
<1>4. (a * b) % 100 = x % 100
  BY <1>3
<1> QED BY <1>4 DEF x, r, t

(* The residue form decides by the remainder of the scaled kopecks.        *)
LEMMA DropsByResidue ==
  ASSUME NEW P \in 11..DoubleBits, NEW k \in Nat, k > 0, 10 * k < ModelledBelow(P),
         NEW r, r = (k * Pow2[Scale(P, 10 * k)]) % 100
  PROVE  DropsKopeck(P, k) <=> SpacingRatio(k) = 6 /\ r \in 33..49
<1> DEFINE s == Scale(P, 10 * k)
           d == SpacingRatio(k)
<1>1. s = P - 1 - Log2(k) + d /\ d \in {6, 7}
  BY KopeckScale
<1>2. s \in Nat
  <2> DEFINE n == 10 * k
  <2>1. n \in Nat /\ n > 0 /\ n < ModelledBelow(P)
    OBVIOUS
  <2> HIDE DEF n
  <2>2. Scale(P, n) \in 11..(P + 9)
    BY <2>1, ScaleBounds
  <2> QED BY <2>2 DEF n, DoubleBits
<1> HIDE DEF s
<1>3. Pow2Mod100[s] = Pow2[s] % 100 /\ Pow2[s] \in Nat
  BY <1>2, Pow2Residue, Pow2Type
<1>4. DecodeResidue(P, k) = ((k % 100) * (Pow2[s] % 100)) % 100
  BY <1>1, <1>3 DEF DecodeResidue
<1>5. DecodeResidue(P, k) = r
  BY <1>3, <1>4, ProductResidue DEF s
<1>6. r \in 0..99
  <2> DEFINE x == k * Pow2[s]
  <2>1. x \in Nat /\ r = x % 100
    BY <1>3 DEF s
  <2> HIDE DEF x
  <2> QED BY <2>1
<1> HIDE DEF d
<1>7. DropsKopeck(P, k) <=> r < 50 /\ r > Pow2[d - 1]
  BY <1>5 DEF DropsKopeck, d
<1>8. CASE d = 6
  <2>1. Pow2[d - 1] = 32
    BY <1>8, SmallPowers
  <2> QED BY <1>6, <1>7, <1>8, <2>1 DEF d
<1>9. CASE d = 7
  <2>1. Pow2[d - 1] = 64
    BY <1>9, SmallPowers
  <2> QED BY <1>6, <1>7, <1>9, <2>1 DEF d
<1> QED BY <1>1, <1>8, <1>9 DEF d

(* The decoder's rounding of whole kopecks: to the multiple of 100 below   *)
(* or above the scaled kopecks, by the remainder.                          *)
LEMMA KopecksStored ==
  ASSUME NEW P \in 11..DoubleBits, NEW k \in Nat, k > 0, 10 * k < ModelledBelow(P),
         NEW X, X = k * Pow2[Scale(P, 10 * k)]
  PROVE  /\ X \in Nat /\ X % 100 \in 0..99 /\ X % 100 # 50
         /\ X % 100 < 50 => 100 * Stored(P, 10 * k) = X - (X % 100)
         /\ X % 100 > 50 => 100 * Stored(P, 10 * k) = X + (100 - (X % 100))
<1> DEFINE n == 10 * k
           S == Pow2[Scale(P, n)]
           T == Pow2[Scale(P, n) - 11]
           m == Stored(P, n)
<1>1. n \in Nat /\ n > 0 /\ n < ModelledBelow(P)
  OBVIOUS
<1>2. S = 2048 * T /\ T \in Nat
  <2> HIDE DEF n
  <2> QED BY <1>1, ScaledBounds
<1>3. m = RoundedQuotient(n * S, 1000)
  BY DEF Stored
<1>4. X = k * S
  OBVIOUS
<1>5. n = 10 * k
  OBVIOUS
<1> HIDE DEF n, S, T, m
<1>6. n * S = 10 * X /\ X \in Nat /\ X = 2048 * (k * T) /\ k * T \in Nat
  BY <1>2, <1>4, <1>5
<1> DEFINE q == X \div 100
           r == X % 100
           y == k * T
<1>7. q \in Nat /\ r \in 0..99 /\ X = 100 * q + r /\ X = 2048 * y /\ y \in Nat
  BY <1>6
<1> HIDE DEF q, r, y
<1>8. r # 50
  BY <1>7
<1>9. RoundsAs(m, 1000, q, 10 * r)
  <2> DEFINE a == 10 * X
             t == 10 * r
  <2>1. a \in Nat /\ t \in 0..(1000 - 1) /\ a = q * 1000 + t
        /\ 1000 \in Nat /\ 1000 > 0
    BY <1>7
  <2>2. m = RoundedQuotient(a, 1000)
    BY <1>3, <1>6
  <2> HIDE DEF a, t
  <2>3. RoundsAs(m, 1000, q, t)
    BY <1>7, <2>1, <2>2, RoundsTo
  <2> QED BY <2>3 DEF t
<1>10. /\ r < 50 => 100 * m = X - r
       /\ r > 50 => 100 * m = X + (100 - r)
  BY <1>7, <1>9 DEF RoundsAs
<1> QED BY <1>6, <1>7, <1>8, <1>10 DEF r, m, n

(* Whole kopecks: kept, unless the decoder rounds down by more than half   *)
(* a unit of the product.                                                  *)
LEMMA KopecksAreKept ==
  ASSUME NEW P, ModelledWidth(P), NEW k \in Nat, k > 0, 10 * k < ModelledBelow(P)
  PROVE  ReferenceConvert(P, 10 * k) = ConvertAt(P, 10 * k)
<1> DEFINE n == 10 * k
           S == Pow2[Scale(P, n)]
           T == Pow2[Scale(P, n) - 11]
           A == Pow2[P - 1]
           X == k * S
           y == k * T
           v == 100 * Stored(P, n)
           w == RoundedTo(P, v)
           r == X % 100
<1>0. P \in 11..DoubleBits /\ Pow2Mod100[P + 6] \notin 33..49
  BY DEF ModelledWidth
<1>1. n \in Nat /\ n > 0 /\ n < ModelledBelow(P)
  OBVIOUS
<1>2. /\ S = 2048 * T /\ T \in Nat /\ T >= 1 /\ A \in Nat
  <2> HIDE DEF n
  <2> QED BY <1>0, <1>1, ScaledBounds
<1>3. /\ X \in Nat /\ r \in 0..99 /\ r # 50
      /\ r < 50 => v = X - r
      /\ r > 50 => v = X + (100 - r)
  BY <1>0, KopecksStored
<1>4. X = 2048 * y /\ y \in Nat /\ y > 0
  <2> HIDE DEF S, T
  <2>1. k * (2048 * T) = 2048 * (k * T) /\ 1 * T <= k * T /\ k * T \in Nat
    BY <1>2, TimesKeepsOrder
  <2> QED BY <1>2, <2>1
<1>5. /\ SpacingRatio(k) \in {6, 7}
      /\ SpacingRatio(k) = 6 => X < 128 * A
      /\ SpacingRatio(k) = 7 => X >= 128 * A
  BY <1>0, KopeckScale
<1>6. DropsKopeck(P, k) <=> SpacingRatio(k) = 6 /\ r \in 33..49
  BY <1>0, DropsByResidue
<1>7. v \in Nat /\ 64 * A <= v /\ v < 256 * A
  <2> HIDE DEF n
  <2> QED BY <1>0, <1>1, StoredBounds
<1> HIDE DEF v
<1>8. /\ v < 128 * A => w = 64 * RoundedQuotient(v, 64)
      /\ v >= 128 * A => w = 128 * RoundedQuotient(v, 128)
  BY <1>0, <1>7, ProductUnit
(* A power of two: the unit of the product is halved just below it. *)
<1>9. v < 128 * A /\ X >= 128 * A => r \notin 33..49
  <2> SUFFICES ASSUME v < 128 * A, X >= 128 * A PROVE r \notin 33..49
    OBVIOUS
  <2>1. /\ P - 5 \in Nat /\ P + 6 \in Nat /\ P - 1 \in Nat
        /\ (P - 5) + 11 = P + 6 /\ (P - 1) + 7 = P + 6
    BY <1>0 DEF DoubleBits
  <2> DEFINE H == Pow2[P - 5]
  <2>2. Pow2[P + 6] = 2048 * H /\ Pow2[P + 6] = 128 * A /\ H \in Nat
    <3>1. Pow2[(P - 5) + 11] = Pow2[P - 5] * Pow2[11] /\ H \in Nat
      BY <2>1, Pow2Sum, Pow2Type
    <3>2. Pow2[(P - 1) + 7] = Pow2[P - 1] * Pow2[7]
      BY <2>1, Pow2Sum
    <3> QED BY <1>2, <2>1, <3>1, <3>2, SmallPowers
  <2> HIDE DEF H, A, X, y, r
  <2>3. y = H
    BY <1>3, <1>4, <2>2
  <2>4. r = Pow2[P + 6] % 100
    BY <1>4, <2>2, <2>3 DEF r
  <2>5. Pow2Mod100[P + 6] = r
    BY <2>1, <2>4, Pow2Residue
  <2> QED BY <1>0, <2>5
<1> HIDE DEF w, A, X, y, r, S, T
<1>10. v < 128 * A \/ v >= 128 * A
  BY <1>2, <1>7
<1>11. CASE r > 50
  <2> DEFINE t == 100 - r
  <2>1. t \in 0..49 /\ v = 2048 * y + t
    BY <1>3, <1>4, <1>11
  <2> HIDE DEF t
  <2>2. \A u \in {64, 128} :
          /\ u * RoundedQuotient(v, u) \in Nat
          /\ X <= u * RoundedQuotient(v, u)
          /\ u * RoundedQuotient(v, u) < X + 2048
    BY <1>4, <2>1, RoundedAbove
  <2>3. w \in Nat /\ X <= w /\ w < X + 2048
    BY <1>8, <1>10, <2>2
  <2>4. ~DropsKopeck(P, k)
    BY <1>6, <1>11
  <2> QED
    <3>1. S \in Nat /\ S > 0 /\ X + 2048 <= X + S
      BY <1>2, <1>3
    <3>2. k * S <= w /\ w < k * S + S
      BY <1>3, <2>3, <3>1 DEF X
    <3>3. w \div S = k
      BY <2>3, <3>1, <3>2, QuotientIs
    <3>4. ConvertAt(P, n) = k
      BY <2>4 DEF ConvertAt
    <3> QED BY <3>3, <3>4 DEF ReferenceConvert, w, v, S
<1>12. CASE r < 50
  <2>0. r \in 0..49 /\ v = 2048 * y - r
    BY <1>3, <1>4, <1>12
  <2>1. w = IF DropsKopeck(P, k) THEN X - 64 ELSE X
    <3>1. CASE v < 128 * A
      <4>1. w = IF r <= 32 THEN X ELSE X - 64
        BY <1>4, <1>8, <2>0, <3>1, RoundedBelow64
      <4>2. X >= 128 * A => r <= 32
        BY <1>9, <2>0, <3>1
      <4>3. X < 128 * A \/ X >= 128 * A
        BY <1>2, <1>3
      <4>4. CASE X < 128 * A
        <5>1. SpacingRatio(k) = 6
          BY <1>2, <1>3, <1>5, <4>4
        <5> QED BY <1>6, <2>0, <4>1, <5>1
      <4>5. CASE X >= 128 * A
        BY <1>6, <2>0, <4>1, <4>2, <4>5
      <4> QED BY <4>3, <4>4, <4>5
    <3>2. CASE v >= 128 * A
      <4>1. w = X
        BY <1>4, <1>8, <2>0, <3>2, RoundedBelow128
      <4>2. X >= 128 * A
        BY <1>2, <1>3, <1>4, <2>0, <3>2
      <4>3. SpacingRatio(k) # 6
        BY <1>2, <1>3, <1>5, <4>2
      <4> QED BY <1>6, <4>1, <4>3
    <3> QED BY <1>10, <3>1, <3>2
  <2>2. S \in Nat /\ S >= 2048
    BY <1>2
  <2>3. CASE DropsKopeck(P, k)
    <3>1. w = X - 64
      BY <2>1, <2>3
    <3>2. k - 1 \in Nat /\ (k - 1) * S = X - S /\ X >= S
      <4>1. 1 * S <= k * S /\ (k - 1) * S = k * S - S
        BY <2>2, TimesKeepsOrder
      <4> QED BY <2>2, <4>1 DEF X
    <3>3. w \in Nat /\ (k - 1) * S <= w /\ w < (k - 1) * S + S /\ S > 0
      BY <1>3, <2>2, <3>1, <3>2
    <3>4. w \div S = k - 1
      BY <2>2, <3>2, <3>3, QuotientIs
    <3>5. ConvertAt(P, n) = k - 1
      BY <2>3 DEF ConvertAt
    <3> QED BY <3>4, <3>5 DEF ReferenceConvert, w, v, S
  <2>4. CASE ~DropsKopeck(P, k)
    <3>1. w = X
      BY <2>1, <2>4
    <3>2. w \in Nat /\ k * S <= w /\ w < k * S + S /\ S > 0
      BY <1>3, <2>2, <3>1 DEF X
    <3>3. w \div S = k
      BY <2>2, <3>2, QuotientIs
    <3>4. ConvertAt(P, n) = k
      BY <2>4 DEF ConvertAt
    <3> QED BY <3>3, <3>4 DEF ReferenceConvert, w, v, S
  <2> QED BY <2>3, <2>4
<1> QED BY <1>3, <1>11, <1>12

LEMMA ConvertsAsFloats ==
  ASSUME NEW P, ModelledWidth(P), NEW n \in Nat, n > 0, n < ModelledBelow(P)
  PROVE  ConvertAt(P, n) = ReferenceConvert(P, n)
<1>1. CASE n % 10 = 0
  <2> DEFINE k == n \div 10
  <2>1. k \in Nat /\ k > 0 /\ n = 10 * k
    BY <1>1
  <2> HIDE DEF k
  <2> QED BY <2>1, KopecksAreKept
<1>2. CASE n % 10 # 0
  <2>1. ReferenceConvert(P, n) = n \div 10
    BY <1>2, FractionsAreCut DEF ModelledWidth
  <2> QED BY <1>2, <2>1 DEF ConvertAt
<1> QED BY <1>1, <1>2

(* For every width of the mantissa that WidthAssumption admits and every   *)
(* amount below ModelledBelow, whole kopecks and fractions of one: what    *)
(* the model makes of an amount is what floating point makes of it when    *)
(* the decoder rounds, the product rounds and uint truncates               *)
(* (worker/order.go:128, handler/balance.go:106).                          *)
THEOREM ConversionIsFloatingPoint == InputSpec => []MatchesFloatingPoint
<1>1. InputOK => MatchesFloatingPoint
  BY WidthAssumption, ConvertsAsFloats DEF InputOK, MatchesFloatingPoint
<1> QED BY <1>1, InputIsSound, PTL

(* float64 is one of these widths.                                         *)
LEMMA DoubleWidth == ModelledWidth(DoubleBits)
<1>1. /\ Pow2[0] = 1
      /\ \A i \in Nat : Pow2[i] \in Nat
      /\ \A i \in Nat, j \in Nat : Pow2[i + j] = Pow2[i] * Pow2[j]
  BY Pow2Step, Pow2Type, Pow2Sum
<1> DEFINE a == Pow2[11]
           b == Pow2[22]
           c == Pow2[44]
           d == Pow2[55]
           e == Pow2[59]
<1>2. a = 2048 /\ Pow2[4] = 16
  BY SmallPowers
<1>3. b = 4194304
  <2>1. Pow2[11 + 11] = a * a
    BY <1>1
  <2> QED BY <1>2, <2>1
<1>4. c = 17592186044416
  <2>1. Pow2[22 + 22] = b * b
    BY <1>1
  <2> QED BY <1>3, <2>1
<1>5. d = 36028797018963968
  <2>1. Pow2[44 + 11] = c * a
    BY <1>1
  <2> QED BY <1>2, <1>4, <2>1
<1>6. e = 576460752303423488
  <2>1. Pow2[55 + 4] = d * Pow2[4]
    BY <1>1
  <2> QED BY <1>2, <1>5, <2>1
<1>7. Pow2Mod100[59] = 88
  <2>1. Pow2Mod100[59] = Pow2[59] % 100
    BY Pow2Residue
  <2> QED BY <1>6, <2>1
<1> QED BY <1>7 DEF ModelledWidth, DoubleBits

(* ToKopecks, which every module that moves points uses, is double         *)
(* precision arithmetic for every amount below 1000 * 2^42 thousandths,    *)
(* 4.4 * 10^12 points (worker/order.go:128, handler/balance.go:106).       *)
THEOREM ToKopecksIsDoubleArithmetic ==
  ASSUME NEW n \in Nat, n > 0, n < 1000 * Pow2[42]
  PROVE  ToKopecks(n) = ReferenceConvert(DoubleBits, n)
<1>1. n < ModelledBelow(DoubleBits)
  <2>1. DoubleBits - 11 = 42
    BY DEF DoubleBits
  <2> QED BY <2>1 DEF ModelledBelow
<1>2. ConvertAt(DoubleBits, n) = ReferenceConvert(DoubleBits, n)
  BY <1>1, DoubleWidth, ConvertsAsFloats
<1> QED BY <1>2 DEF ToKopecks

(* The scale of a modelled amount has 2^11 as a factor, so a multiple of   *)
(* 25 kopecks is scaled to a multiple of 100 and leaves nothing to round.  *)
LEMMA NothingToRound ==
  ASSUME NEW P \in 11..DoubleBits, NEW k \in Nat, k % 25 = 0,
         10 * k < ModelledBelow(P)
  PROVE  ~DropsKopeck(P, k)
<1>1. CASE k = 0
  BY <1>1 DEF DropsKopeck
<1>2. CASE k > 0
  <2> DEFINE n == 10 * k
             S == Pow2[Scale(P, n)]
             T == Pow2[Scale(P, n) - 11]
             j == k \div 25
  <2>1. S = 2048 * T /\ T \in Nat
    <3>1. n \in Nat /\ n > 0 /\ n < ModelledBelow(P)
      BY <1>2
    <3> HIDE DEF n
    <3> QED BY <3>1, ScaledBounds
  <2>2. k = 25 * j /\ j \in Nat
    OBVIOUS
  <2>3. (k * S) % 100 = 0
    <3> HIDE DEF S, T, j, n
    <3>1. k * S = 100 * (512 * (j * T)) /\ 512 * (j * T) \in Nat
      BY <2>1, <2>2
    <3> DEFINE x == 512 * (j * T)
    <3> HIDE DEF x
    <3>2. k * S = 100 * x /\ x \in Nat
      BY <3>1 DEF x
    <3> QED BY <3>2
  <2>4. DropsKopeck(P, k) <=> SpacingRatio(k) = 6 /\ 0 \in 33..49
    BY <1>2, <2>3, DropsByResidue
  <2> QED BY <2>4
<1> QED BY <1>1, <1>2

LEMMA QuarterIsKept ==
  ASSUME NEW P \in 11..DoubleBits, NEW k \in Nat, k % 25 = 0,
         ToDecimal(k) < ModelledBelow(P)
  PROVE  ConvertAt(P, ToDecimal(k)) = k
<1>1. 10 * k < ModelledBelow(P) /\ (10 * k) \div 10 = k
  BY DEF ToDecimal
<1> QED BY <1>1, NothingToRound DEF ConvertAt, ToDecimal

(* For every width of the mantissa that WidthAssumption admits: a balance  *)
(* of whole, half or quarter points, shown (handler/balance.go:72) and     *)
(* asked for (:106), is converted back to itself.                          *)
THEOREM QuartersConvertBack == InputSpec => []QuartersAreExact
<1>1. InputOK => QuartersAreExact
  BY WidthAssumption, QuarterIsKept DEF InputOK, QuartersAreExact, ModelledWidth
<1> QED BY <1>1, InputIsSound, PTL

-----------------------------------------------------------------------------
(* Order numbers without their spaces                                      *)

(* The recursion by which Clean is defined.                                *)
EraseStep(s, f, i) ==
  IF i = 0 THEN <<>>
  ELSE IF s[i] = Space THEN f[i - 1]
  ELSE Append(f[i - 1], s[i])

Erases(s, f) == f = [i \in 0..Len(s) |-> EraseStep(s, f, i)]

LEMMA ErasingExists ==
  ASSUME NEW s \in Seq(Character)
  PROVE  \E f : Erases(s, f)
<1> DEFINE Has(n) == \E f : f = [i \in 0..n |-> EraseStep(s, f, i)]
           Lacks  == {n \in Nat : ~Has(n)}
<1>1. Has(0)
  <2> DEFINE f == [i \in 0..0 |-> <<>>]
  <2>1. f = [i \in 0..0 |-> EraseStep(s, f, i)]
    BY DEF EraseStep
  <2> QED BY <2>1
<1>2. ASSUME NEW n \in Nat, Has(n)
      PROVE  Has(n + 1)
  <2>1. PICK f : f = [i \in 0..n |-> EraseStep(s, f, i)]
    BY <1>2
  <2> DEFINE g == [i \in 0..(n + 1) |-> EraseStep(s, f, i)]
  <2>2. \A i \in 0..n : g[i] = f[i]
    BY <2>1
  <2>3. \A i \in 0..(n + 1) : i = 0 \/ i - 1 \in 0..n
    OBVIOUS
  <2>4. \A i \in 0..(n + 1) : EraseStep(s, g, i) = EraseStep(s, f, i)
    <3> HIDE DEF g
    <3> QED BY <2>2, <2>3 DEF EraseStep
  <2>5. g = [i \in 0..(n + 1) |-> EraseStep(s, g, i)]
    BY <2>4
  <2> QED BY <2>5
<1>3. Lacks = {}
  <2> SUFFICES ASSUME Lacks # {} PROVE FALSE
    OBVIOUS
  <2>1. Lacks \subseteq Nat /\ \A n \in Nat : n \in Lacks <=> ~Has(n)
    OBVIOUS
  <2> HIDE DEF Has, Lacks
  <2>2. PICK m \in Lacks : \A k \in Lacks : m <= k
    BY <2>1, LeastNumber
  <2>3. m \in Nat /\ m # 0 /\ ~Has(m)
    BY <1>1, <2>1, <2>2
  <2>4. m - 1 \in Nat /\ m - 1 \notin Lacks /\ (m - 1) + 1 = m
    BY <2>2, <2>3
  <2>5. Has((m - 1) + 1)
    BY <1>2, <2>1, <2>4
  <2> QED BY <2>3, <2>4, <2>5
<1>4. Has(Len(s))
  <2> HIDE DEF Has
  <2> QED BY <1>3
<1> QED BY <1>4 DEF Erases

LEMMA CleanErases ==
  ASSUME NEW s \in Seq(Character)
  PROVE  \E f : Erases(s, f) /\ Clean(s) = f[Len(s)]
<1> DEFINE f == CHOOSE f : Erases(s, f)
<1>1. Erases(s, f)
  BY ErasingExists
<1>2. Clean(s) = f[Len(s)]
  BY DEF Clean, Erases, EraseStep
<1> QED BY <1>1, <1>2

(* Where a character stands, counted from the left without the spaces.     *)
Rank(s, i) == Cardinality({j \in Kept(s) : j <= i})

LEMMA KeptIsFinite ==
  ASSUME NEW s \in Seq(Character)
  PROVE  /\ Kept(s) \subseteq 1..Len(s)
         /\ \A t \in SUBSET Kept(s) : IsFiniteSet(t) /\ Cardinality(t) \in Nat
         /\ \A i : Rank(s, i) \in Nat /\ Place(s, i) \in Nat
<1>1. Kept(s) \subseteq 1..Len(s)
  BY DEF Kept
<1>2. IsFiniteSet(1..Len(s))
  BY FS_Interval
<1>3. \A t \in SUBSET Kept(s) : IsFiniteSet(t) /\ Cardinality(t) \in Nat
  BY <1>1, <1>2, FS_Subset, FS_CardinalityType
<1> QED BY <1>1, <1>3 DEF Rank, Place

LEMMA RankStep ==
  ASSUME NEW s \in Seq(Character)
  PROVE  /\ Rank(s, 0) = 0
         /\ \A m \in 0..(Len(s) - 1) :
              Rank(s, m + 1) = Rank(s, m) + (IF m + 1 \in Kept(s) THEN 1 ELSE 0)
         /\ Rank(s, Len(s)) = Cardinality(Kept(s))
<1> DEFINE UpTo(m) == {j \in Kept(s) : j <= m}
<1>1. Kept(s) \subseteq 1..Len(s)
  BY KeptIsFinite
<1>2. UpTo(0) = {} /\ UpTo(Len(s)) = Kept(s)
  BY <1>1
<1>3. ASSUME NEW m \in 0..(Len(s) - 1)
      PROVE  Rank(s, m + 1) = Rank(s, m) + (IF m + 1 \in Kept(s) THEN 1 ELSE 0)
  <2>1. IsFiniteSet(UpTo(m)) /\ m + 1 \notin UpTo(m) /\ Cardinality(UpTo(m)) \in Nat
    BY KeptIsFinite
  <2>2. CASE m + 1 \in Kept(s)
    <3>1. UpTo(m + 1) = UpTo(m) \cup {m + 1}
      BY <1>1, <2>2
    <3>2. Cardinality(UpTo(m) \cup {m + 1}) = Cardinality(UpTo(m)) + 1
      <4> HIDE DEF UpTo
      <4> QED BY <2>1, FS_AddElement
    <3> QED BY <2>2, <3>1, <3>2 DEF Rank
  <2>3. CASE m + 1 \notin Kept(s)
    <3>1. UpTo(m + 1) = UpTo(m)
      BY <1>1, <2>3
    <3>2. Rank(s, m + 1) = Rank(s, m)
      BY <3>1 DEF Rank
    <3> QED BY <2>3, <3>2, KeptIsFinite
  <2> QED BY <2>2, <2>3
<1> QED BY <1>2, <1>3, FS_EmptySet DEF Rank

LEMMA RankOrders ==
  ASSUME NEW s \in Seq(Character), NEW i \in Kept(s), NEW j \in Kept(s), i < j
  PROVE  Rank(s, i) < Rank(s, j)
<1> DEFINE A == {k \in Kept(s) : k <= i}
           B == {k \in Kept(s) : k <= j}
<1>1. i \in Int /\ j \in Int /\ \A k \in Kept(s) : k \in Int
  BY KeptIsFinite
<1>2. j \in B /\ A \subseteq B \ {j}
  <2>1. j <= j /\ \A k \in Kept(s) : k <= i => k <= j /\ k # j
    BY <1>1
  <2> QED BY <2>1
<1>3. IsFiniteSet(B) /\ Cardinality(B) \in Nat /\ Cardinality(A) \in Nat
  BY KeptIsFinite
<1> HIDE DEF A, B
<1>4. IsFiniteSet(B \ {j}) /\ Cardinality(B \ {j}) = Cardinality(B) - 1
  BY <1>2, <1>3, FS_RemoveElement
<1>5. Cardinality(A) <= Cardinality(B \ {j})
  BY <1>2, <1>4, FS_Subset
<1> QED BY <1>3, <1>4, <1>5 DEF Rank, A, B

(* After m characters Clean has kept those of rank up to m, in order.      *)
LEMMA ErasingKeepsOrder ==
  ASSUME NEW s \in Seq(Character), NEW f, Erases(s, f), NEW n \in 0..Len(s)
  PROVE  /\ f[n] \in Seq(Character)
         /\ Len(f[n]) = Rank(s, n)
         /\ \A i \in Kept(s) : i <= n => /\ Rank(s, i) \in 1..Len(f[n])
                                         /\ f[n][Rank(s, i)] = s[i]
         /\ \A k \in 1..Len(f[n]) : \E i \in Kept(s) : i <= n /\ Rank(s, i) = k
<1> DEFINE Kept1(m) ==
             /\ f[m] \in Seq(Character)
             /\ Len(f[m]) = Rank(s, m)
             /\ \A i \in Kept(s) : i <= m => /\ Rank(s, i) \in 1..Len(f[m])
                                             /\ f[m][Rank(s, i)] = s[i]
             /\ \A k \in 1..Len(f[m]) : \E i \in Kept(s) : i <= m /\ Rank(s, i) = k
           Bad == {m \in 0..Len(s) : ~Kept1(m)}
<1>1. \A m \in 0..Len(s) : f[m] = EraseStep(s, f, m)
  BY DEF Erases
<1>2. Kept(s) \subseteq 1..Len(s) /\ Len(s) \in Nat
  BY KeptIsFinite
<1>3. Kept1(0)
  <2>1. f[0] = <<>>
    BY <1>1, <1>2 DEF EraseStep
  <2> QED BY <1>2, <2>1, RankStep
<1>4. ASSUME NEW m \in 0..(Len(s) - 1), Kept1(m)
      PROVE  Kept1(m + 1)
  <2>1. m + 1 \in 0..Len(s) /\ m + 1 # 0 /\ (m + 1) - 1 = m /\ m + 1 \in 1..Len(s)
    BY <1>2
  <2>2. f[m + 1] = IF s[m + 1] = Space THEN f[m] ELSE Append(f[m], s[m + 1])
    BY <1>1, <2>1 DEF EraseStep
  <2>3. m + 1 \in Kept(s) <=> s[m + 1] # Space
    BY <2>1 DEF Kept
  <2>4. \A i \in Kept(s) : i <= m + 1 <=> i <= m \/ i = m + 1
    BY <1>2
  <2>5. CASE s[m + 1] = Space
    <3>1. f[m + 1] = f[m] /\ Rank(s, m + 1) = Rank(s, m)
      BY <2>2, <2>3, <2>5, RankStep, KeptIsFinite
    <3>2. \A i \in Kept(s) : i <= m + 1 <=> i <= m
      BY <2>3, <2>4, <2>5
    <3> QED BY <1>4, <3>1, <3>2
  <2>6. CASE s[m + 1] # Space
    <3> DEFINE r == Rank(s, m) + 1
    <3>1. Rank(s, m + 1) = r /\ Rank(s, m) \in Nat
      BY <2>3, <2>6, RankStep, KeptIsFinite
    <3>2. s[m + 1] \in Character
      BY <2>1
    <3>3. /\ f[m + 1] = Append(f[m], s[m + 1])
          /\ f[m + 1] \in Seq(Character) /\ Len(f[m + 1]) = r
          /\ f[m + 1][r] = s[m + 1]
          /\ \A k \in 1..Len(f[m]) : f[m + 1][k] = f[m][k]
      BY <1>4, <2>2, <2>6, <3>2, AppendProperties
    <3>4. ASSUME NEW i \in Kept(s), i <= m + 1
          PROVE  Rank(s, i) \in 1..Len(f[m + 1]) /\ f[m + 1][Rank(s, i)] = s[i]
      <4>1. CASE i = m + 1
        BY <3>1, <3>3, <4>1
      <4>2. CASE i <= m
        <5>1. Rank(s, i) \in 1..Len(f[m]) /\ f[m][Rank(s, i)] = s[i]
          BY <1>4, <4>2
        <5>2. Len(f[m]) = Rank(s, m)
          BY <1>4
        <5> QED BY <3>1, <3>3, <5>1, <5>2
      <4> QED BY <2>4, <3>4, <4>1, <4>2
    <3>5. ASSUME NEW k \in 1..Len(f[m + 1])
          PROVE  \E i \in Kept(s) : i <= m + 1 /\ Rank(s, i) = k
      <4>1. CASE k = r
        BY <2>3, <2>6, <3>1, <4>1
      <4>2. CASE k # r
        <5>1. k \in 1..Len(f[m])
          BY <1>4, <3>1, <3>3, <4>2
        <5>2. PICK i \in Kept(s) : i <= m /\ Rank(s, i) = k
          BY <1>4, <5>1
        <5> QED BY <2>4, <5>2
      <4> QED BY <4>1, <4>2
    <3> QED BY <3>1, <3>3, <3>4, <3>5
  <2> QED BY <2>5, <2>6
<1>5. Bad = {}
  <2> SUFFICES ASSUME Bad # {} PROVE FALSE
    OBVIOUS
  <2>1. Bad \subseteq Nat /\ \A m \in 0..Len(s) : m \in Bad <=> ~Kept1(m)
    BY <1>2
  <2>2. \A m \in Bad : m \in 0..Len(s)
    OBVIOUS
  <2> HIDE DEF Kept1, Bad
  <2>3. PICK m \in Bad : \A k \in Bad : m <= k
    BY <2>1, LeastNumber
  <2>4. m \in 0..Len(s) /\ m # 0
    BY <1>2, <1>3, <2>1, <2>2, <2>3
  <2>5. m - 1 \in 0..(Len(s) - 1) /\ m - 1 \in 0..Len(s) /\ m - 1 \notin Bad
          /\ (m - 1) + 1 = m
    BY <1>2, <2>3, <2>4
  <2>6. Kept1((m - 1) + 1)
    BY <1>4, <2>1, <2>5
  <2> QED BY <2>1, <2>3, <2>4, <2>5, <2>6
<1> HIDE DEF Kept1
<1>6. Kept1(n)
  BY <1>5
<1> QED BY <1>6 DEF Kept1

(* The cleaned number has the characters other than spaces, each at its    *)
(* rank.                                                                   *)
LEMMA CleanKeepsOrder ==
  ASSUME NEW s \in Seq(Character)
  PROVE  /\ Clean(s) \in Seq(Character)
         /\ Len(Clean(s)) = Cardinality(Kept(s))
         /\ \A i \in Kept(s) : /\ Rank(s, i) \in 1..Len(Clean(s))
                               /\ Clean(s)[Rank(s, i)] = s[i]
         /\ \A k \in 1..Len(Clean(s)) : \E i \in Kept(s) : Rank(s, i) = k
<1>1. PICK f : Erases(s, f) /\ Clean(s) = f[Len(s)]
  BY CleanErases
<1>2. Len(s) \in 0..Len(s) /\ \A i \in Kept(s) : i <= Len(s)
  BY KeptIsFinite
<1> QED BY <1>1, <1>2, ErasingKeepsOrder, RankStep

LEMMA PlaceIsFromTheRight ==
  ASSUME NEW s \in Seq(Character), NEW i \in Kept(s)
  PROVE  Place(s, i) = Cardinality(Kept(s)) - Rank(s, i) + 1
<1> DEFINE A == {j \in Kept(s) : j <= i}
           B == {j \in Kept(s) : j >= i}
<1>1. i \in Int /\ \A k \in Kept(s) : k \in Int
  BY KeptIsFinite
<1>2. A \cup B = Kept(s) /\ A \cap B = {i}
  <2>1. \A k \in Kept(s) : (k <= i \/ k >= i) /\ (k <= i /\ k >= i <=> k = i)
    BY <1>1
  <2> QED BY <2>1
<1>3. /\ IsFiniteSet(A) /\ IsFiniteSet(B)
      /\ Cardinality(A) \in Nat /\ Cardinality(B) \in Nat
  BY KeptIsFinite
<1> HIDE DEF A, B
<1>4. Cardinality(Kept(s)) = Cardinality(A) + Cardinality(B) - 1
  <2>1. Cardinality(A \cup B) = Cardinality(A) + Cardinality(B) - Cardinality(A \cap B)
    BY <1>3, FS_Union
  <2>2. Cardinality({i}) = 1
    BY FS_Singleton
  <2> QED BY <1>2, <2>1, <2>2
<1>5. Rank(s, i) = Cardinality(A) /\ Place(s, i) = Cardinality(B)
  BY DEF Rank, Place, A, B
<1> QED BY <1>3, <1>4, <1>5

-----------------------------------------------------------------------------
(* The verdict                                                             *)

(* The sum of the digits of a digit's double.                              *)
Doubling(d) == ((2 * d) \div 10) + ((2 * d) % 10)

LEMMA DoublingIs ==
  ASSUME NEW d \in Digit
  PROVE  /\ Doubling(d) = IF d < 5 THEN 2 * d ELSE 2 * d - 9
         /\ Doubling(d) = Doubled(d)
         /\ Doubling(d) \in 0..9
BY DEF Digit, Doubling, Doubled

LEMMA DoublingDiffers ==
  ASSUME NEW d \in Digit, NEW e \in Digit, d # e
  PROVE  Doubling(d) # Doubling(e)
<1>1. /\ d \in 0..9 /\ Doubling(d) = IF d < 5 THEN 2 * d ELSE 2 * d - 9
      /\ e \in 0..9 /\ Doubling(e) = IF e < 5 THEN 2 * e ELSE 2 * e - 9
  BY DoublingIs DEF Digit
<1> QED BY <1>1

LEMMA WeightIs ==
  ASSUME NEW s \in Seq(Character), NEW i \in Kept(s), s[i] \in Digit
  PROVE  /\ Weight(s)[i] = IF Place(s, i) % 2 = 1 THEN s[i] ELSE Doubling(s[i])
         /\ Weight(s)[i] \in 0..9
<1>1. Weight(s)[i] = IF Place(s, i) % 2 = 1 THEN s[i] ELSE Doubling(s[i])
  BY DEF Weight, Doubling
<1> QED BY <1>1, DoublingIs DEF Digit

(* What the code counts from the left is what the textbook counts from the *)
(* right.                                                                  *)
LEMMA SumIsTextbooks ==
  ASSUME NEW s \in Seq(Character), \A i \in Kept(s) : s[i] \in Digit
  PROVE  Sum(Clean(s)) = SumFunctionOnSet(Weight(s), Kept(s))
<1> DEFINE S == Kept(s)
           n == Len(Clean(s))
           T == 1..n
           f == Counted(Clean(s))
           g == Weight(s)
           h == [i \in S |-> Rank(s, i)]
<1>1. n \in Nat /\ n = Cardinality(Kept(s))
  BY CleanKeepsOrder
<1>2. IsFiniteSet(S) /\ IsFiniteSet(T)
  BY <1>1, KeptIsFinite, FS_Interval
<1>3. ASSUME NEW i \in S
      PROVE  h[i] \in T /\ f[h[i]] \in Int /\ g[i] = f[h[i]]
  <2> DEFINE r == Rank(s, i)
  <2>1. r \in 1..n /\ Clean(s)[r] = s[i] /\ s[i] \in Digit
    BY CleanKeepsOrder
  <2>2. f[r] = IF IsDoubled(r, n) THEN Doubled(s[i]) ELSE s[i]
    BY <2>1 DEF Counted
  <2>3. Place(s, i) = n - r + 1
    BY <1>1, PlaceIsFromTheRight
  <2>4. g[i] = IF Place(s, i) % 2 = 1 THEN s[i] ELSE Doubling(s[i])
    BY <2>1, WeightIs
  <2>5. g[i] \in Int
    BY <2>1, WeightIs
  <2>6. Doubling(s[i]) = Doubled(s[i])
    BY <2>1, DoublingIs
  <2>7. h[i] = r
    OBVIOUS
  <2> HIDE DEF f, g, h, n, r
  <2>8. (n - r + 1) % 2 = 1 <=> ~IsDoubled(r, n)
    BY <1>1, <2>1 DEF IsDoubled
  <2> QED BY <2>1, <2>2, <2>3, <2>4, <2>5, <2>6, <2>7, <2>8
<1>4. ASSUME NEW i \in S, NEW j \in S, h[i] = h[j]
      PROVE  i = j
  <2>1. i \in Int /\ j \in Int /\ Rank(s, i) = Rank(s, j) /\ Rank(s, i) \in Nat
    BY <1>4, KeptIsFinite
  <2>2. CASE i < j
    BY <2>1, <2>2, RankOrders
  <2>3. CASE j < i
    BY <2>1, <2>3, RankOrders
  <2> QED BY <2>1, <2>2, <2>3
<1>5. \A t \in T : f[t] \in Int /\ \E i \in S : h[i] = t
  <2>1. \A t \in T : \E i \in S : h[i] = t
    BY CleanKeepsOrder
  <2> QED BY <1>3, <2>1
<1>6. Sum(Clean(s)) = SumFunctionOnSet(f, T)
  BY DEF Sum
<1> HIDE DEF S, T, f, g, h
<1>7. SumFunctionOnSet(g, S) = SumFunctionOnSet(f, T)
  BY <1>2, <1>3, <1>4, <1>5, SumReindexed
<1> QED BY <1>6, <1>7 DEF g, S

TextbookAccepts(s) ==
  /\ \A i \in Kept(s) : s[i] \in Digit
  /\ Cardinality(Kept(s)) \in 2..20
  /\ Textbook(s)

LEMMA VerdictIsTextbooks ==
  ASSUME NEW s \in Seq(Character)
  PROVE  ValidateLuhn(s) <=> TextbookAccepts(s)
<1> DEFINE c == Clean(s)
<1>1. /\ c \in Seq(Character) /\ Len(c) = Cardinality(Kept(s)) /\ Len(c) \in Nat
      /\ \A i \in Kept(s) : Rank(s, i) \in 1..Len(c) /\ c[Rank(s, i)] = s[i]
      /\ \A k \in 1..Len(c) : \E i \in Kept(s) : Rank(s, i) = k
  BY CleanKeepsOrder
<1> HIDE DEF c
<1>2. (\A k \in 1..Len(c) : c[k] \in Digit) <=> (\A i \in Kept(s) : s[i] \in Digit)
  BY <1>1
<1>3. Len(c) >= 2 => c # <<>>
  BY <1>1
<1>4. (\A i \in Kept(s) : s[i] \in Digit) => (Sum(c) % 10 = 0 <=> Textbook(s))
  BY SumIsTextbooks DEF Textbook, c
<1>5. ValidateLuhn(s) <=> IsNumeric(c) /\ Len(c) >= 2 /\ Len(c) <= 20 /\ Sum(c) % 10 = 0
  BY DEF ValidateLuhn, c
<1>6. Len(c) \in 2..20 <=> Len(c) >= 2 /\ Len(c) <= 20
  BY <1>1
<1> QED BY <1>1, <1>2, <1>3, <1>4, <1>5, <1>6 DEF TextbookAccepts, IsNumeric

(* For numbers of any length and with spaces anywhere: the walk from the   *)
(* left that doubles by the parity of the length (luhn.go:20-41) gives the *)
(* verdict of the algorithm of SPECIFICATION.md:129.                       *)
THEOREM CheckIsLuhns == InputSpec => []MatchesTextbook
<1>1. InputOK => MatchesTextbook
  BY VerdictIsTextbooks DEF InputOK, MatchesTextbook, TextbookAccepts
<1> QED BY <1>1, InputIsSound, PTL

-----------------------------------------------------------------------------
(* Slips                                                                   *)

(* A digit of s is written as d: what that leaves alone, and the weight it *)
(* moves.                                                                  *)
Slip(s, i, d, t) ==
  /\ t \in Seq(Character) /\ Kept(t) = Kept(s)
  /\ \A k \in Kept(s) : t[k] = IF k = i THEN d ELSE s[k]
  /\ \A k : Place(t, k) = Place(s, k)

LEMMA SlipKeeps ==
  ASSUME NEW s \in Seq(Character), NEW i \in Kept(s), NEW d \in Digit
  PROVE  Slip(s, i, d, [s EXCEPT ![i] = d])
<1> DEFINE t == [s EXCEPT ![i] = d]
<1>1. i \in 1..Len(s) /\ Kept(s) \subseteq 1..Len(s)
  BY KeptIsFinite
<1>2. t \in Seq(Character) /\ Len(t) = Len(s)
  BY <1>1 DEF Character
<1>3. \A k \in 1..Len(s) : t[k] = IF k = i THEN d ELSE s[k]
  BY <1>1
<1>4. DOMAIN s = 1..Len(s) /\ DOMAIN t = 1..Len(s)
  BY <1>2
<1>5. d # Space
  BY CharacterAssumption
<1>6. s[i] # Space
  BY DEF Kept
<1> HIDE DEF t
<1>7. Kept(t) = Kept(s)
  BY <1>3, <1>4, <1>5, <1>6 DEF Kept
<1>8. Slip(s, i, d, t)
  BY <1>1, <1>2, <1>3, <1>7 DEF Slip, Place
<1> QED BY <1>8 DEF t

AllDigits(s) == \A k \in Kept(s) : s[k] \in Digit

Total(s) == SumFunctionOnSet(Weight(s), Kept(s))

LEMMA SlipMoves ==
  ASSUME NEW s \in Seq(Character), AllDigits(s),
         NEW i \in Kept(s), NEW d \in Digit, NEW t, Slip(s, i, d, t)
  PROVE  /\ AllDigits(t) /\ Total(s) \in Int
         /\ Total(t) = Total(s) + (Weight(t)[i] - Weight(s)[i])
         /\ \A k \in Kept(s) \ {i} : Weight(t)[k] = Weight(s)[k]
         /\ Weight(s)[i] = IF Place(s, i) % 2 = 1 THEN s[i] ELSE Doubling(s[i])
         /\ Weight(t)[i] = IF Place(s, i) % 2 = 1 THEN d ELSE Doubling(d)
<1>1. /\ t \in Seq(Character) /\ Kept(t) = Kept(s)
      /\ \A k \in Kept(s) : t[k] = IF k = i THEN d ELSE s[k]
      /\ \A k : Place(t, k) = Place(s, k)
  BY DEF Slip
<1>2. IsFiniteSet(Kept(s)) /\ i \in Kept(t)
  BY <1>1, KeptIsFinite
<1>3. \A k \in Kept(s) : s[k] \in Digit /\ t[k] \in Digit
  BY <1>1 DEF AllDigits
<1>4. \A k \in Kept(s) : Weight(s)[k] \in Int /\ Weight(t)[k] \in Int
  BY <1>1, <1>3, WeightIs
<1>5. \A k \in Kept(s) \ {i} : Weight(s)[k] = Weight(t)[k]
  BY <1>1, <1>3, WeightIs
<1>6. SumFunctionOnSet(Weight(s), Kept(s)) \in Int
  BY <1>2, <1>4, SumIsInt
<1>7. SumFunctionOnSet(Weight(t), Kept(s)) =
        SumFunctionOnSet(Weight(s), Kept(s)) + (Weight(t)[i] - Weight(s)[i])
  <2> DEFINE f == Weight(s)
             g == Weight(t)
  <2> HIDE DEF f, g
  <2>1. SUFFICES ASSUME NEW K, K = Kept(s)
                 PROVE  SumFunctionOnSet(g, K) = SumFunctionOnSet(f, K) + (g[i] - f[i])
    BY DEF f, g
  <2>2. IsFiniteSet(K) /\ i \in K
    BY <1>2, <2>1
  <2>3. \A y \in K : f[y] \in Int /\ g[y] \in Int
    BY <1>4, <2>1 DEF f, g
  <2>4. \A y \in K \ {i} : f[y] = g[y]
    BY <1>5, <2>1 DEF f, g
  <2>5. SumFunctionOnSet(f, K) = f[i] + SumFunctionOnSet(f, K \ {i})
    BY <2>2, <2>3, SumTakesAny
  <2>6. SumFunctionOnSet(g, K) = g[i] + SumFunctionOnSet(g, K \ {i})
    BY <2>2, <2>3, SumTakesAny
  <2>7. IsFiniteSet(K \ {i})
    BY <2>2, FS_Subset
  <2>8. SumFunctionOnSet(f, K \ {i}) = SumFunctionOnSet(g, K \ {i})
    BY <2>4, <2>7, SumAgrees
  <2>9. SumFunctionOnSet(f, K \ {i}) \in Int
    BY <2>3, <2>7, SumIsInt
  <2> QED BY <2>2, <2>3, <2>5, <2>6, <2>8, <2>9
<1>8. /\ Weight(s)[i] = IF Place(s, i) % 2 = 1 THEN s[i] ELSE Doubling(s[i])
      /\ Weight(t)[i] = IF Place(s, i) % 2 = 1 THEN d ELSE Doubling(d)
  BY <1>1, <1>2, <1>3, WeightIs
<1>9. AllDigits(t)
  BY <1>1, <1>3 DEF AllDigits
<1> QED BY <1>1, <1>5, <1>6, <1>7, <1>8, <1>9 DEF Total

(* A multiple of ten is not followed by another one at once.               *)
LEMMA NoMultipleNearby ==
  ASSUME NEW a \in Int, a % 10 = 0, NEW c \in (-9..9) \ {0}
  PROVE  (a + c) % 10 # 0
OBVIOUS

(* A digit that is wrong weighs something else.                            *)
LEMMA MistypedIsRefused ==
  ASSUME NEW s \in Seq(Character), TextbookAccepts(s),
         NEW i \in Kept(s), NEW d \in Digit, d # s[i]
  PROVE  ~TextbookAccepts([s EXCEPT ![i] = d])
<1> DEFINE t == [s EXCEPT ![i] = d]
           w == Weight(t)[i]
           v == Weight(s)[i]
<1>1. AllDigits(s)
  BY DEF TextbookAccepts, AllDigits
<1>2. Slip(s, i, d, t)
  BY SlipKeeps
<1> HIDE DEF t
<1>3. /\ Total(s) \in Int /\ Total(t) = Total(s) + (w - v)
      /\ v = IF Place(s, i) % 2 = 1 THEN s[i] ELSE Doubling(s[i])
      /\ w = IF Place(s, i) % 2 = 1 THEN d ELSE Doubling(d)
  BY <1>1, <1>2, SlipMoves
<1>4. v \in 0..9 /\ w \in 0..9 /\ v # w
  <2>1. s[i] \in Digit
    BY <1>1 DEF AllDigits
  <2>2. Doubling(d) \in 0..9 /\ Doubling(s[i]) \in 0..9 /\ Doubling(d) # Doubling(s[i])
    BY <2>1, DoublingIs, DoublingDiffers
  <2> QED BY <1>3, <2>1, <2>2 DEF Digit
<1>5. Total(s) % 10 = 0
  BY DEF TextbookAccepts, Textbook, Total
<1> HIDE DEF w, v
<1>6. Total(t) % 10 # 0
  <2>1. w - v \in (-9..9) \ {0}
    BY <1>4
  <2> QED BY <1>3, <1>5, <2>1, NoMultipleNearby
<1> QED BY <1>6 DEF TextbookAccepts, Textbook, Total, t

(* Neighbours stand at an odd and an even place.                           *)
LEMMA NeighboursAlternate ==
  ASSUME NEW s \in Seq(Character), NEW i \in Kept(s), NEW j \in Kept(s),
         Neighbours(s, i, j)
  PROVE  Place(s, i) = Place(s, j) + 1
<1> DEFINE A == {k \in Kept(s) : k >= i}
           B == {k \in Kept(s) : k >= j}
<1>1. i \in Int /\ j \in Int /\ i < j /\ \A k \in Kept(s) : k \in Int
  BY KeptIsFinite DEF Neighbours
<1>2. A = B \cup {i} /\ i \notin B
  <2>1. \A k \in Kept(s) : k >= i <=> k = i \/ k >= j
    BY <1>1 DEF Neighbours
  <2>2. i >= i /\ ~(i >= j) /\ i \in Kept(s)
    BY <1>1
  <2>3. A \subseteq B \cup {i} /\ B \cup {i} \subseteq A
    BY <2>1, <2>2
  <2> QED BY <2>2, <2>3
<1>3. IsFiniteSet(B) /\ Cardinality(B) \in Nat
  BY KeptIsFinite
<1> HIDE DEF A, B
<1>4. Cardinality(A) = Cardinality(B) + 1
  BY <1>2, <1>3, FS_AddElement
<1> QED BY <1>4 DEF Place, A, B

(* What swapping two digits does to a sum that counts one of them doubled. *)
LEMMA SwapShows ==
  ASSUME NEW a \in Digit, NEW b \in Digit, a # b, {a, b} # {0, 9}
  PROVE  /\ (b - a) + (Doubling(a) - Doubling(b)) \in (-9..9) \ {0}
         /\ (Doubling(b) - Doubling(a)) + (a - b) \in (-9..9) \ {0}
<1>1. ~(a = 0 /\ b = 9) /\ ~(a = 9 /\ b = 0)
  OBVIOUS
<1>2. /\ Doubling(a) = IF a < 5 THEN 2 * a ELSE 2 * a - 9
      /\ Doubling(b) = IF b < 5 THEN 2 * b ELSE 2 * b - 9
      /\ a \in 0..9 /\ b \in 0..9
  BY DoublingIs DEF Digit
<1> QED BY <1>1, <1>2

LEMMA SwappedIsRefused ==
  ASSUME NEW s \in Seq(Character), TextbookAccepts(s),
         NEW i \in Kept(s), NEW j \in Kept(s), Neighbours(s, i, j),
         s[i] # s[j], {s[i], s[j]} # {0, 9}
  PROVE  ~TextbookAccepts([s EXCEPT ![i] = s[j], ![j] = s[i]])
<1> DEFINE a == s[i]
           b == s[j]
           u == [s EXCEPT ![i] = b]
           t == [u EXCEPT ![j] = a]
<1>1. AllDigits(s) /\ a \in Digit /\ b \in Digit
  BY DEF TextbookAccepts, AllDigits
<1>2. i # j /\ Place(s, i) = Place(s, j) + 1 /\ Place(s, j) \in Nat
  BY NeighboursAlternate, KeptIsFinite DEF Neighbours
<1>3. t = [s EXCEPT ![i] = s[j], ![j] = s[i]]
  OBVIOUS
<1> HIDE DEF b
<1>4. Slip(s, i, b, u)
  BY <1>1, SlipKeeps
<1> HIDE DEF u
<1>5. u \in Seq(Character) /\ j \in Kept(u) /\ u[j] = b /\ Place(u, j) = Place(s, j)
  BY <1>2, <1>4 DEF Slip, b
<1> HIDE DEF a
<1>6. Slip(u, j, a, t)
  BY <1>1, <1>5, SlipKeeps
<1> HIDE DEF t
<1>7. /\ AllDigits(u) /\ Total(s) \in Int
      /\ Total(u) = Total(s) + (Weight(u)[i] - Weight(s)[i])
      /\ Weight(s)[i] = IF Place(s, i) % 2 = 1 THEN a ELSE Doubling(a)
      /\ Weight(u)[i] = IF Place(s, i) % 2 = 1 THEN b ELSE Doubling(b)
  BY <1>1, <1>4, SlipMoves DEF a
<1>8. /\ Total(t) = Total(u) + (Weight(t)[j] - Weight(u)[j])
      /\ Weight(u)[j] = IF Place(s, j) % 2 = 1 THEN b ELSE Doubling(b)
      /\ Weight(t)[j] = IF Place(s, j) % 2 = 1 THEN a ELSE Doubling(a)
  BY <1>1, <1>5, <1>6, <1>7, SlipMoves
<1>9. /\ (b - a) + (Doubling(a) - Doubling(b)) \in (-9..9) \ {0}
      /\ (Doubling(b) - Doubling(a)) + (a - b) \in (-9..9) \ {0}
  BY <1>1, SwapShows DEF a, b
<1>10. a \in Int /\ b \in Int /\ Doubling(a) \in Int /\ Doubling(b) \in Int
  BY <1>1, DoublingIs DEF Digit
<1>11. Place(s, i) % 2 = 1 <=> ~(Place(s, j) % 2 = 1)
  BY <1>2
<1>12. Total(s) % 10 = 0
  BY DEF TextbookAccepts, Textbook, Total
<1>13. Total(s) \in Int
  BY <1>7
<1>14. Total(t) % 10 # 0
  <2>1. CASE Place(s, i) % 2 = 1
    <3>1. /\ Total(u) = Total(s) + (b - a)
          /\ Total(t) = Total(u) + (Doubling(a) - Doubling(b))
      BY <1>7, <1>8, <1>11, <2>1
    <3>2. Total(t) = Total(s) + ((b - a) + (Doubling(a) - Doubling(b)))
      BY <1>10, <1>13, <3>1
    <3>3. (Total(s) + ((b - a) + (Doubling(a) - Doubling(b)))) % 10 # 0
      BY <1>9, <1>12, <1>13, NoMultipleNearby
    <3> QED BY <3>2, <3>3
  <2>2. CASE Place(s, i) % 2 # 1
    <3>1. /\ Total(u) = Total(s) + (Doubling(b) - Doubling(a))
          /\ Total(t) = Total(u) + (a - b)
      BY <1>7, <1>8, <1>11, <2>2
    <3>2. Total(t) = Total(s) + ((Doubling(b) - Doubling(a)) + (a - b))
      BY <1>10, <1>13, <3>1
    <3>3. (Total(s) + ((Doubling(b) - Doubling(a)) + (a - b))) % 10 # 0
      BY <1>9, <1>12, <1>13, NoMultipleNearby
    <3> QED BY <3>2, <3>3
  <2> QED BY <2>1, <2>2
<1> QED BY <1>3, <1>14 DEF TextbookAccepts, Textbook, Total

(* For numbers of any length and with spaces anywhere: one wrong digit, or *)
(* two neighbours swapped that are not 0 and 9, are always found           *)
(* (luhn.go:30-45).                                                        *)
THEOREM SlipsAreDetected == InputSpec => []DetectsSlips
<1>1. ASSUME NEW s \in Seq(Character), ValidateLuhn(s),
             NEW t \in Mistyped(s) \cup Swapped(s)
      PROVE  ~ValidateLuhn(t)
  <2>1. TextbookAccepts(s) /\ \A k \in Kept(s) : s[k] \in Digit
    BY <1>1, VerdictIsTextbooks DEF TextbookAccepts
  <2>2. CASE t \in Mistyped(s)
    <3>1. PICK i \in Kept(s), d \in Digit : t = [s EXCEPT ![i] = d] /\ t # s
      BY <2>2 DEF Mistyped
    <3>2. d # s[i]
      BY <3>1
    <3>3. t \in Seq(Character)
      BY <3>1, SlipKeeps DEF Slip
    <3> QED BY <2>1, <3>1, <3>2, <3>3, MistypedIsRefused, VerdictIsTextbooks
  <2>3. CASE t \in Swapped(s)
    <3>1. PICK i \in Kept(s), j \in Kept(s) :
            /\ Neighbours(s, i, j) /\ {s[i], s[j]} # {0, 9}
            /\ t = [s EXCEPT ![i] = s[j], ![j] = s[i]] /\ t # s
      BY <2>3 DEF Swapped
    <3>2. s[i] # s[j]
      BY <3>1
    <3>3. t \in Seq(Character)
      <4>1. i \in 1..Len(s) /\ j \in 1..Len(s) /\ s[i] \in Character /\ s[j] \in Character
        BY KeptIsFinite
      <4> QED BY <3>1, <4>1
    <3> QED BY <2>1, <3>1, <3>2, <3>3, SwappedIsRefused, VerdictIsTextbooks
  <2> QED BY <2>2, <2>3
<1>2. InputOK => DetectsSlips
  BY <1>1 DEF InputOK, DetectsSlips
<1> QED BY <1>2, InputIsSound, PTL
=============================================================================
