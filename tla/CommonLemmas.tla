---------------------------- MODULE CommonLemmas ----------------------------
(***************************************************************************)
(* Lemmas that the proofs share: what a sum over a finite set is, what the *)
(* powers of two of the conversion are, and the conversion's range.        *)
(*                                                                         *)
(* SumFunctionOnSet takes its terms in an order of its own choice, by      *)
(* recursion over the finite sets.  A fact about it is shown to hold of    *)
(* every set because there is no smallest one of which it does not; so is  *)
(* a fact about Pow2, by the least exponent.                               *)
(***************************************************************************)
EXTENDS Money, FiniteSetTheorems, TLAPS

-----------------------------------------------------------------------------
(* Least counterexamples                                                   *)

LEMMA LeastNumber ==
  ASSUME NEW T, T \subseteq Nat, T # {}
  PROVE  \E m \in T : \A k \in T : m <= k
<1>1. \E m \in T : \A k \in T : ~(<<k, m>> \in OpToRel(<, Nat))
  BY WFMin, NatLessThanWellFounded
<1>2. PICK m \in T : \A k \in T : ~(<<k, m>> \in OpToRel(<, Nat))
  BY <1>1
<1>3. \A k \in T : <<k, m>> \in OpToRel(<, Nat) <=> k < m
  BY DEF OpToRel
<1>4. \A k \in T : ~(k < m)
  BY <1>2, <1>3
<1> QED BY <1>4

(* A smallest set of a family of finite sets.                              *)
LEMMA SmallestSet ==
  ASSUME NEW F, F # {}, \A s \in F : IsFiniteSet(s)
  PROVE  \E s \in F : \A t \in F : Cardinality(s) <= Cardinality(t)
<1> DEFINE T == {Cardinality(s) : s \in F}
<1>1. T \subseteq Nat /\ T # {}
  BY FS_CardinalityType
<1> HIDE DEF T
<1>2. PICK m \in T : \A k \in T : m <= k
  BY <1>1, LeastNumber
<1> QED BY <1>2 DEF T

-----------------------------------------------------------------------------
PickOf(s) == CHOOSE x \in s : TRUE

LEMMA PickIsElement == ASSUME NEW s, s # {} PROVE PickOf(s) \in s
BY DEF PickOf

(* The recursion by which SumFunctionOnSet is defined.                     *)
PeelStep(f, g, s) == IF s = {} THEN 0 ELSE f[PickOf(s)] + g[s \ {PickOf(s)}]
Peels(f, S, g) == g = [s \in SUBSET S |-> PeelStep(f, g, s)]

(* It has a solution: one for the sets of up to n elements extends to      *)
(* those of n + 1.                                                         *)
LEMMA PeelingExists ==
  ASSUME NEW S, IsFiniteSet(S), NEW f
  PROVE  \E g : Peels(f, S, g)
<1> DEFINE Sub(n)  == {s \in SUBSET S : Cardinality(s) <= n}
           Has(n)  == \E g : g = [s \in Sub(n) |-> PeelStep(f, g, s)]
           Lacks   == {n \in Nat : ~Has(n)}
<1>0. \A s \in SUBSET S : IsFiniteSet(s) /\ Cardinality(s) \in Nat
                            /\ Cardinality(s) <= Cardinality(S)
  BY FS_Subset, FS_CardinalityType
<1>1. Cardinality(S) \in Nat
  BY FS_CardinalityType
<1>2. Has(0)
  <2> DEFINE g == [s \in Sub(0) |-> 0]
  <2>1. \A s \in Sub(0) : s = {}
    BY <1>0, FS_EmptySet
  <2>2. g = [s \in Sub(0) |-> PeelStep(f, g, s)]
    BY <2>1 DEF PeelStep
  <2> QED BY <2>2
<1>3. ASSUME NEW n \in Nat, Has(n)
      PROVE  Has(n + 1)
  <2>1. PICK g : g = [s \in Sub(n) |-> PeelStep(f, g, s)]
    BY <1>3
  <2> DEFINE h == [s \in Sub(n + 1) |-> PeelStep(f, g, s)]
  <2>2. \A s \in Sub(n) : s \in Sub(n + 1)
    BY <1>0
  <2>3. \A s \in Sub(n) : h[s] = g[s]
    BY <2>1, <2>2
  <2>4. \A s \in Sub(n + 1) : s # {} => s \ {PickOf(s)} \in Sub(n)
    BY <1>0, PickIsElement, FS_RemoveElement
  <2>5. \A s \in Sub(n + 1) : PeelStep(f, h, s) = PeelStep(f, g, s)
    <3> HIDE DEF h, Sub
    <3> QED BY <2>3, <2>4 DEF PeelStep
  <2>6. h = [s \in Sub(n + 1) |-> PeelStep(f, h, s)]
    BY <2>5
  <2> QED BY <2>6
<1>4. Lacks = {}
  <2> SUFFICES ASSUME Lacks # {} PROVE FALSE
    OBVIOUS
  <2>0. Lacks \subseteq Nat
    OBVIOUS
  <2>1. PICK m \in Lacks : \A k \in Lacks : m <= k
    <3> HIDE DEF Lacks
    <3> QED BY <2>0, LeastNumber
  <2>2. m \in Nat /\ m # 0 /\ ~Has(m)
    BY <1>2, <2>1
  <2>3. m - 1 \in Nat /\ m - 1 \notin Lacks
    <3> HIDE DEF Lacks
    <3> QED BY <2>1, <2>2
  <2>4. Has(m - 1)
    <3> HIDE DEF Has
    <3> QED BY <2>3
  <2>5. Has((m - 1) + 1)
    <3> HIDE DEF Has
    <3> QED BY <1>3, <2>3, <2>4
  <2>6. (m - 1) + 1 = m
    BY <2>2
  <2> HIDE DEF Has
  <2> QED BY <2>2, <2>5, <2>6
<1>5. Has(Cardinality(S))
  <2> HIDE DEF Has
  <2> QED BY <1>1, <1>4
<1>6. Sub(Cardinality(S)) = SUBSET S
  BY <1>0
<1> QED BY <1>5, <1>6 DEF Peels

(* And it has one only, whatever larger set one starts from.               *)
LEMMA PeelingIsUnique ==
  ASSUME NEW S, NEW T, T \subseteq S, IsFiniteSet(T), NEW f, NEW g, NEW h,
         Peels(f, S, g), Peels(f, T, h)
  PROVE  g[T] = h[T]
<1> DEFINE F == {s \in SUBSET T : g[s] # h[s]}
<1>1. \A s \in SUBSET T : g[s] = PeelStep(f, g, s) /\ h[s] = PeelStep(f, h, s)
  BY DEF Peels
<1>2. F = {}
  <2> SUFFICES ASSUME F # {} PROVE FALSE
    OBVIOUS
  <2>1. \A s \in F : IsFiniteSet(s)
    BY FS_Subset
  <2>2. PICK s \in F : \A t \in F : Cardinality(s) <= Cardinality(t)
    <3> HIDE DEF F
    <3> QED BY <2>1, SmallestSet
  <2>3. s \in SUBSET T /\ s # {} /\ g[s] # h[s]
    BY <1>1, <2>2 DEF PeelStep
  <2>4. s \ {PickOf(s)} \in F
    BY <1>1, <2>3 DEF PeelStep
  <2>5. Cardinality(s \ {PickOf(s)}) = Cardinality(s) - 1 /\ Cardinality(s) \in Nat
    BY <2>1, <2>2, <2>3, PickIsElement, FS_RemoveElement, FS_CardinalityType
  <2>6. Cardinality(s) <= Cardinality(s \ {PickOf(s)})
    BY <2>2, <2>4
  <2> QED BY <2>5, <2>6
<1> QED BY <1>2

(* The sum is what this recursion gives.                                   *)
LEMMA SumPeels ==
  ASSUME NEW S, IsFiniteSet(S), NEW f
  PROVE  \E g : Peels(f, S, g) /\ SumFunctionOnSet(f, S) = g[S]
<1> DEFINE g == CHOOSE g : Peels(f, S, g)
<1>1. Peels(f, S, g)
  BY PeelingExists
<1>2. SumFunctionOnSet(f, S) = g[S]
  BY DEF SumFunctionOnSet, FoldFunctionOnSet, MapThenFoldSet, Peels, PeelStep, PickOf
<1> QED BY <1>1, <1>2

-----------------------------------------------------------------------------
LEMMA SumStep ==
  ASSUME NEW S, IsFiniteSet(S), NEW f
  PROVE  SumFunctionOnSet(f, S) =
           IF S = {} THEN 0
           ELSE f[PickOf(S)] + SumFunctionOnSet(f, S \ {PickOf(S)})
<1> DEFINE T == S \ {PickOf(S)}
<1>1. PICK g : Peels(f, S, g) /\ SumFunctionOnSet(f, S) = g[S]
  BY SumPeels
<1>2. IsFiniteSet(T) /\ T \subseteq S
  BY FS_Subset
<1>3. PICK h : Peels(f, T, h) /\ SumFunctionOnSet(f, T) = h[T]
  BY <1>2, SumPeels
<1>4. g[T] = h[T]
  BY <1>1, <1>2, <1>3, PeelingIsUnique
<1>5. g[S] = PeelStep(f, g, S)
  BY <1>1 DEF Peels
<1> QED BY <1>1, <1>3, <1>4, <1>5 DEF PeelStep

LEMMA SumOfNothing == ASSUME NEW f PROVE SumFunctionOnSet(f, {}) = 0
BY SumStep, FS_EmptySet

(* Taking one element from the smallest counterexample leaves none.        *)
LEMMA SmallerIsSound ==
  ASSUME NEW S, IsFiniteSet(S), NEW F, F \subseteq SUBSET S, F # {}
  PROVE  \E s \in F : \A x \in s : \A t \in SUBSET (s \ {x}) : t \notin F
<1>1. \A s \in SUBSET S : IsFiniteSet(s)
  BY FS_Subset
<1>2. PICK s \in F : \A t \in F : Cardinality(s) <= Cardinality(t)
  BY <1>1, SmallestSet
<1>3. ASSUME NEW x \in s, NEW t \in SUBSET (s \ {x}) PROVE t \notin F
  <2>1. /\ Cardinality(s \ {x}) = Cardinality(s) - 1
        /\ Cardinality(s) \in Nat /\ Cardinality(t) \in Nat
    BY <1>1, FS_RemoveElement, FS_CardinalityType
  <2>2. IsFiniteSet(s \ {x}) /\ t \subseteq s \ {x}
    BY <1>1
  <2>3. Cardinality(t) <= Cardinality(s \ {x})
    BY <2>2, FS_Subset
  <2> QED BY <1>2, <2>1, <2>3
<1> QED BY <1>3

LEMMA SumOfZeros ==
  ASSUME NEW S, IsFiniteSet(S), NEW f, \A x \in S : f[x] = 0
  PROVE  SumFunctionOnSet(f, S) = 0
<1> DEFINE F == {s \in SUBSET S : SumFunctionOnSet(f, s) # 0}
<1>1. F = {}
  <2> SUFFICES ASSUME F # {} PROVE FALSE
    OBVIOUS
  <2>1. PICK s \in F : \A x \in s : \A t \in SUBSET (s \ {x}) : t \notin F
    <3>1. F \subseteq SUBSET S
      OBVIOUS
    <3> HIDE DEF F
    <3> QED BY <3>1, SmallerIsSound
  <2>2. IsFiniteSet(s) /\ s \subseteq S /\ s # {}
    BY FS_Subset, SumOfNothing
  <2>3. PickOf(s) \in s /\ f[PickOf(s)] = 0
    BY <2>2, PickIsElement
  <2>4. SumFunctionOnSet(f, s \ {PickOf(s)}) = 0
    BY <2>1, <2>2, <2>3
  <2> QED BY <2>2, <2>3, <2>4, SumStep
<1> QED BY <1>1

LEMMA SumIsInt ==
  ASSUME NEW S, IsFiniteSet(S), NEW f, \A x \in S : f[x] \in Int
  PROVE  SumFunctionOnSet(f, S) \in Int
<1> DEFINE F == {s \in SUBSET S : SumFunctionOnSet(f, s) \notin Int}
<1>1. F = {}
  <2> SUFFICES ASSUME F # {} PROVE FALSE
    OBVIOUS
  <2>1. PICK s \in F : \A x \in s : \A t \in SUBSET (s \ {x}) : t \notin F
    <3>1. F \subseteq SUBSET S
      OBVIOUS
    <3> HIDE DEF F
    <3> QED BY <3>1, SmallerIsSound
  <2>2. IsFiniteSet(s) /\ s \subseteq S
    BY FS_Subset
  <2>3. s # {}
    BY SumOfNothing
  <2>4. PickOf(s) \in s
    BY <2>3, PickIsElement
  <2>5. SumFunctionOnSet(f, s \ {PickOf(s)}) \in Int
    BY <2>1, <2>2, <2>4
  <2>6. SumFunctionOnSet(f, s) = f[PickOf(s)] + SumFunctionOnSet(f, s \ {PickOf(s)})
    BY <2>2, <2>3, SumStep
  <2> QED BY <2>2, <2>4, <2>5, <2>6
<1> QED BY <1>1

(* Any element may be taken first.                                         *)
LEMMA SumTakesAny ==
  ASSUME NEW S, IsFiniteSet(S), NEW f, \A x \in S : f[x] \in Int, NEW x \in S
  PROVE  SumFunctionOnSet(f, S) = f[x] + SumFunctionOnSet(f, S \ {x})
<1> DEFINE Takes(s) == \A y \in s :
             SumFunctionOnSet(f, s) = f[y] + SumFunctionOnSet(f, s \ {y})
           F == {s \in SUBSET S : ~Takes(s)}
<1>1. F = {}
  <2> SUFFICES ASSUME F # {} PROVE FALSE
    OBVIOUS
  <2>1. PICK s \in F : \A y \in s : \A t \in SUBSET (s \ {y}) : t \notin F
    <3>1. F \subseteq SUBSET S
      OBVIOUS
    <3> HIDE DEF F
    <3> QED BY <3>1, SmallerIsSound
  <2>2. PICK y \in s : SumFunctionOnSet(f, s) # f[y] + SumFunctionOnSet(f, s \ {y})
    OBVIOUS
  <2> DEFINE p == PickOf(s)
  <2>3. IsFiniteSet(s) /\ s \subseteq S /\ s # {} /\ p \in s
    BY FS_Subset, PickIsElement
  <2> HIDE DEF p
  <2>4. SumFunctionOnSet(f, s) = f[p] + SumFunctionOnSet(f, s \ {p})
    BY <2>3, SumStep DEF p
  <2>5. y # p
    BY <2>2, <2>4
  <2>6. s \ {p} \notin F /\ s \ {y} \notin F
    BY <2>1, <2>3
  <2>7. Takes(s \ {p}) /\ Takes(s \ {y})
    BY <2>3, <2>6
  <2>8. /\ SumFunctionOnSet(f, s \ {p}) = f[y] + SumFunctionOnSet(f, (s \ {p}) \ {y})
        /\ SumFunctionOnSet(f, s \ {y}) = f[p] + SumFunctionOnSet(f, (s \ {y}) \ {p})
    BY <2>3, <2>5, <2>7
  <2>9. (s \ {p}) \ {y} = (s \ {y}) \ {p}
    OBVIOUS
  <2>10. IsFiniteSet((s \ {p}) \ {y}) /\ (s \ {p}) \ {y} \subseteq S
    BY <2>3, FS_Subset
  <2>11. SumFunctionOnSet(f, (s \ {p}) \ {y}) \in Int
    BY <2>3, <2>10, SumIsInt
  <2>12. f[p] \in Int /\ f[y] \in Int
    BY <2>3
  <2> DEFINE r == SumFunctionOnSet(f, (s \ {p}) \ {y})
             a == SumFunctionOnSet(f, s \ {p})
             b == SumFunctionOnSet(f, s \ {y})
  <2>13. r \in Int /\ a = f[y] + r /\ b = f[p] + r
    BY <2>8, <2>9, <2>11
  <2>14. SumFunctionOnSet(f, s) = f[p] + a /\ SumFunctionOnSet(f, s) # f[y] + b
    BY <2>2, <2>4
  <2> HIDE DEF F, Takes, r, a, b
  <2> QED BY <2>12, <2>13, <2>14
<1>2. Takes(S)
  BY <1>1
<1> QED BY <1>2

LEMMA SumAgrees ==
  ASSUME NEW S, IsFiniteSet(S), NEW f, NEW g, \A x \in S : f[x] = g[x]
  PROVE  SumFunctionOnSet(f, S) = SumFunctionOnSet(g, S)
<1> DEFINE F == {s \in SUBSET S : SumFunctionOnSet(f, s) # SumFunctionOnSet(g, s)}
<1>1. F = {}
  <2> SUFFICES ASSUME F # {} PROVE FALSE
    OBVIOUS
  <2>1. PICK s \in F : \A x \in s : \A t \in SUBSET (s \ {x}) : t \notin F
    <3>1. F \subseteq SUBSET S
      OBVIOUS
    <3> HIDE DEF F
    <3> QED BY <3>1, SmallerIsSound
  <2>2. IsFiniteSet(s) /\ s \subseteq S
    BY FS_Subset
  <2>3. s # {}
    BY SumOfNothing
  <2>4. PickOf(s) \in s /\ f[PickOf(s)] = g[PickOf(s)]
    BY <2>2, <2>3, PickIsElement
  <2>5. SumFunctionOnSet(f, s \ {PickOf(s)}) = SumFunctionOnSet(g, s \ {PickOf(s)})
    BY <2>1, <2>2, <2>4
  <2>6. /\ SumFunctionOnSet(f, s) = f[PickOf(s)] + SumFunctionOnSet(f, s \ {PickOf(s)})
        /\ SumFunctionOnSet(g, s) = g[PickOf(s)] + SumFunctionOnSet(g, s \ {PickOf(s)})
    BY <2>2, <2>3, SumStep
  <2> QED BY <2>4, <2>5, <2>6
<1> QED BY <1>1

(* One term changes.                                                       *)
LEMMA SumChanges ==
  ASSUME NEW S, IsFiniteSet(S), NEW f, NEW g, NEW x \in S,
         \A y \in S : f[y] \in Int /\ g[y] \in Int,
         \A y \in S \ {x} : f[y] = g[y]
  PROVE  SumFunctionOnSet(g, S) = SumFunctionOnSet(f, S) + (g[x] - f[x])
<1>1. /\ SumFunctionOnSet(f, S) = f[x] + SumFunctionOnSet(f, S \ {x})
      /\ SumFunctionOnSet(g, S) = g[x] + SumFunctionOnSet(g, S \ {x})
  BY SumTakesAny
<1>2. IsFiniteSet(S \ {x})
  BY FS_Subset
<1>3. SumFunctionOnSet(f, S \ {x}) = SumFunctionOnSet(g, S \ {x})
  BY <1>2, SumAgrees
<1>4. SumFunctionOnSet(f, S \ {x}) \in Int
  BY <1>2, SumIsInt
<1> QED BY <1>1, <1>3, <1>4

(* Larger terms add up to more.                                            *)
LEMMA SumIsMonotone ==
  ASSUME NEW S, IsFiniteSet(S), NEW f, NEW g,
         \A x \in S : f[x] \in Int /\ g[x] \in Int /\ f[x] <= g[x]
  PROVE  SumFunctionOnSet(f, S) <= SumFunctionOnSet(g, S)
<1> DEFINE F == {s \in SUBSET S : ~(SumFunctionOnSet(f, s) <= SumFunctionOnSet(g, s))}
<1>1. F = {}
  <2> SUFFICES ASSUME F # {} PROVE FALSE
    OBVIOUS
  <2>1. PICK s \in F : \A x \in s : \A t \in SUBSET (s \ {x}) : t \notin F
    <3>1. F \subseteq SUBSET S
      OBVIOUS
    <3> HIDE DEF F
    <3> QED BY <3>1, SmallerIsSound
  <2>2. IsFiniteSet(s) /\ s \subseteq S
    BY FS_Subset
  <2>3. s # {}
    BY SumOfNothing
  <2> DEFINE x == PickOf(s)
             t == s \ {PickOf(s)}
  <2>4. x \in s /\ f[x] \in Int /\ g[x] \in Int /\ f[x] <= g[x]
    BY <2>2, <2>3, PickIsElement
  <2>5. SumFunctionOnSet(f, t) <= SumFunctionOnSet(g, t)
    BY <2>1, <2>2, <2>4
  <2>6. IsFiniteSet(t) /\ t \subseteq S
    BY <2>2, FS_Subset
  <2>7. SumFunctionOnSet(f, t) \in Int /\ SumFunctionOnSet(g, t) \in Int
    BY <2>6, SumIsInt
  <2>8. /\ SumFunctionOnSet(f, s) = f[x] + SumFunctionOnSet(f, t)
        /\ SumFunctionOnSet(g, s) = g[x] + SumFunctionOnSet(g, t)
    BY <2>2, <2>3, SumStep
  <2>9. ~(SumFunctionOnSet(f, s) <= SumFunctionOnSet(g, s))
    OBVIOUS
  <2> HIDE DEF x, t, F
  <2> QED BY <2>4, <2>5, <2>7, <2>8, <2>9
<1> QED BY <1>1

LEMMA SumOfSame ==
  ASSUME NEW S, IsFiniteSet(S), NEW c \in Int, NEW f, \A x \in S : f[x] = c
  PROVE  SumFunctionOnSet(f, S) = Cardinality(S) * c
<1> DEFINE F == {s \in SUBSET S : SumFunctionOnSet(f, s) # Cardinality(s) * c}
<1>1. F = {}
  <2> SUFFICES ASSUME F # {} PROVE FALSE
    OBVIOUS
  <2>1. PICK s \in F : \A x \in s : \A t \in SUBSET (s \ {x}) : t \notin F
    <3>1. F \subseteq SUBSET S
      OBVIOUS
    <3> HIDE DEF F
    <3> QED BY <3>1, SmallerIsSound
  <2>2. IsFiniteSet(s) /\ s \subseteq S
    BY FS_Subset
  <2>3. s # {}
    <3>1. Cardinality({}) = 0 /\ 0 * c = 0
      BY FS_EmptySet
    <3>2. SumFunctionOnSet(f, {}) = Cardinality({}) * c
      BY <3>1, SumOfNothing
    <3> QED BY <3>2
  <2> DEFINE x == PickOf(s)
             t == s \ {PickOf(s)}
             n == Cardinality(t)
  <2>4. x \in s /\ f[x] = c
    BY <2>2, <2>3, PickIsElement
  <2>5. SumFunctionOnSet(f, t) = n * c
    BY <2>1, <2>2, <2>4
  <2>6. Cardinality(s) = n + 1 /\ n \in Nat
    <3>1. IsFiniteSet(t) /\ Cardinality(s) \in Nat /\ n = Cardinality(s) - 1
      BY <2>2, <2>4, FS_RemoveElement, FS_CardinalityType
    <3> HIDE DEF t, x
    <3>2. n \in Nat
      BY <3>1, FS_CardinalityType
    <3> QED BY <3>1, <3>2
  <2>7. SumFunctionOnSet(f, s) = f[x] + SumFunctionOnSet(f, t)
    BY <2>2, <2>3, SumStep
  <2>8. SumFunctionOnSet(f, s) # Cardinality(s) * c
    OBVIOUS
  <2> HIDE DEF x, t, n, F
  <2>9. (n + 1) * c = c + n * c
    BY <2>6
  <2> QED BY <2>4, <2>5, <2>6, <2>7, <2>8, <2>9
<1> QED BY <1>1

(* The terms may be numbered differently.                                  *)
LEMMA SumReindexed ==
  ASSUME NEW S, IsFiniteSet(S), NEW T, IsFiniteSet(T), NEW f, NEW g, NEW h,
         \A x \in S : h[x] \in T /\ g[x] = f[h[x]],
         \A x, y \in S : h[x] = h[y] => x = y,
         \A t \in T : f[t] \in Int /\ \E x \in S : h[x] = t
  PROVE  SumFunctionOnSet(g, S) = SumFunctionOnSet(f, T)
<1> DEFINE Image(s) == {h[x] : x \in s}
           F == {s \in SUBSET S : SumFunctionOnSet(g, s) # SumFunctionOnSet(f, Image(s))}
<1>1. F = {}
  <2> SUFFICES ASSUME F # {} PROVE FALSE
    OBVIOUS
  <2>1. PICK s \in F : \A x \in s : \A t \in SUBSET (s \ {x}) : t \notin F
    <3>1. F \subseteq SUBSET S
      OBVIOUS
    <3> HIDE DEF F
    <3> QED BY <3>1, SmallerIsSound
  <2> DEFINE p == PickOf(s)
  <2>2. IsFiniteSet(s) /\ s \subseteq S
    BY FS_Subset
  <2>3. s # {}
    <3>1. Image({}) = {}
      OBVIOUS
    <3> QED BY <3>1, SumOfNothing
  <2>4. p \in s /\ p \in S
    BY <2>2, <2>3, PickIsElement
  <2>5. SumFunctionOnSet(g, s) = g[p] + SumFunctionOnSet(g, s \ {p})
    BY <2>2, <2>3, SumStep
  <2> HIDE DEF p
  <2>6. SumFunctionOnSet(g, s \ {p}) = SumFunctionOnSet(f, Image(s \ {p}))
    BY <2>1, <2>2, <2>4
  <2>7. Image(s) \subseteq T /\ h[p] \in Image(s) /\ Image(s \ {p}) = Image(s) \ {h[p]}
    BY <2>2, <2>4
  <2>8. IsFiniteSet(Image(s)) /\ \A t \in Image(s) : f[t] \in Int
    BY <2>7, FS_Subset
  <2>9. SumFunctionOnSet(g, s) # SumFunctionOnSet(f, Image(s))
    OBVIOUS
  <2> HIDE DEF F, Image
  <2>10. SumFunctionOnSet(f, Image(s)) = f[h[p]] + SumFunctionOnSet(f, Image(s) \ {h[p]})
    BY <2>7, <2>8, SumTakesAny
  <2> QED BY <2>4, <2>5, <2>6, <2>7, <2>9, <2>10
<1>2. Image(S) = T
  OBVIOUS
<1>3. SumFunctionOnSet(g, S) = SumFunctionOnSet(f, Image(S))
  BY <1>1
<1> QED BY <1>2, <1>3

-----------------------------------------------------------------------------
(* Powers of two                                                           *)

(* Induction over the numbers of a set.                                    *)
LEMMA EveryNumber ==
  ASSUME NEW T, 0 \in T, \A n \in Nat : n \in T => n + 1 \in T
  PROVE  \A n \in Nat : n \in T
<1> DEFINE Lacks == Nat \ T
<1> SUFFICES ASSUME Lacks # {} PROVE FALSE
  OBVIOUS
<1>1. Lacks \subseteq Nat
  OBVIOUS
<1>2. PICK m \in Lacks : \A k \in Lacks : m <= k
  <2> HIDE DEF Lacks
  <2> QED BY <1>1, LeastNumber
<1>3. m \in Nat /\ m # 0
  OBVIOUS
<1>4. m - 1 \in Nat /\ m - 1 \notin Lacks
  <2> HIDE DEF Lacks
  <2> QED BY <1>2, <1>3
<1>5. (m - 1) + 1 \in T
  BY <1>4
<1> QED BY <1>3, <1>5

(* The recursion by which Pow2 is defined.                                 *)
DoubleStep(f, i) == IF i = 0 THEN 1 ELSE 2 * f[i - 1]
Doubles(f, D) == f = [i \in D |-> DoubleStep(f, i)]

LEMMA DoublingUpTo ==
  ASSUME NEW n \in Nat
  PROVE  \E f : Doubles(f, 0..n)
<1> DEFINE Has == {k \in Nat : \E f : Doubles(f, 0..k)}
<1>1. 0 \in Has
  <2> DEFINE f == [i \in 0..0 |-> 1]
  <2>1. Doubles(f, 0..0)
    BY DEF Doubles, DoubleStep
  <2> QED BY <2>1
<1>2. ASSUME NEW k \in Nat, k \in Has
      PROVE  k + 1 \in Has
  <2>1. PICK f : Doubles(f, 0..k)
    BY <1>2
  <2> DEFINE g == [i \in 0..(k + 1) |-> DoubleStep(f, i)]
  <2>2. \A i \in 0..k : g[i] = f[i]
    BY <2>1 DEF Doubles
  <2>3. \A i \in 0..(k + 1) : i = 0 \/ i - 1 \in 0..k
    OBVIOUS
  <2>4. \A i \in 0..(k + 1) : DoubleStep(g, i) = DoubleStep(f, i)
    <3> HIDE DEF g
    <3> QED BY <2>2, <2>3 DEF DoubleStep
  <2>5. Doubles(g, 0..(k + 1))
    BY <2>4 DEF Doubles
  <2> QED BY <2>5
<1>3. n \in Has
  <2> HIDE DEF Has
  <2> QED BY <1>1, <1>2, EveryNumber
<1> QED BY <1>3

LEMMA DoublingIsUnique ==
  ASSUME NEW n \in Nat, NEW m \in Nat, n <= m,
         NEW f, Doubles(f, 0..n), NEW g, Doubles(g, 0..m)
  PROVE  f[n] = g[n]
<1> DEFINE Same == {i \in Nat : i <= n => f[i] = g[i]}
<1>1. 0 \in Same
  <2>1. f[0] = DoubleStep(f, 0) /\ g[0] = DoubleStep(g, 0)
    BY DEF Doubles
  <2> QED BY <2>1 DEF DoubleStep
<1>2. ASSUME NEW i \in Nat, i \in Same
      PROVE  i + 1 \in Same
  <2> SUFFICES ASSUME i + 1 <= n PROVE f[i + 1] = g[i + 1]
    OBVIOUS
  <2>1. f[i] = g[i]
    BY <1>2
  <2>2. i + 1 \in 0..n /\ i + 1 \in 0..m /\ i + 1 # 0 /\ (i + 1) - 1 = i
    OBVIOUS
  <2>3. f[i + 1] = DoubleStep(f, i + 1) /\ g[i + 1] = DoubleStep(g, i + 1)
    BY <2>2 DEF Doubles
  <2> QED BY <2>1, <2>2, <2>3 DEF DoubleStep
<1>3. n \in Same
  <2> HIDE DEF Same
  <2> QED BY <1>1, <1>2, EveryNumber
<1> QED BY <1>3

LEMMA DoublingExists == \E h : Doubles(h, Nat)
<1> DEFINE F(n) == CHOOSE f : Doubles(f, 0..n)
           h    == [n \in Nat |-> F(n)[n]]
<1>1. \A n \in Nat : Doubles(F(n), 0..n)
  BY DoublingUpTo
<1> HIDE DEF F
<1>2. ASSUME NEW n \in Nat
      PROVE  h[n] = DoubleStep(h, n)
  <2>1. h[n] = DoubleStep(F(n), n)
    <3>1. Doubles(F(n), 0..n) /\ n \in 0..n
      BY <1>1
    <3>2. F(n)[n] = DoubleStep(F(n), n)
      BY <3>1 DEF Doubles
    <3> QED BY <3>2
  <2>2. CASE n = 0
    BY <2>1, <2>2 DEF DoubleStep
  <2>3. CASE n # 0
    <3>1. n - 1 \in Nat /\ n - 1 <= n /\ n - 1 \in 0..n
      BY <2>3
    <3> DEFINE f == F(n - 1)
               g == F(n)
    <3>2. Doubles(f, 0..(n - 1)) /\ Doubles(g, 0..n)
      BY <1>1, <3>1
    <3> HIDE DEF f, g
    <3>3. f[n - 1] = g[n - 1]
      BY <3>1, <3>2, DoublingIsUnique
    <3>4. h[n - 1] = F(n)[n - 1]
      BY <3>1, <3>3 DEF f, g
    <3> QED BY <2>1, <2>3, <3>4 DEF DoubleStep
  <2> QED BY <2>2, <2>3
<1>3. Doubles(h, Nat)
  <2>1. h = [n \in Nat |-> h[n]]
    OBVIOUS
  <2> HIDE DEF h
  <2> QED BY <1>2, <2>1 DEF Doubles
<1> QED BY <1>3

LEMMA Pow2Doubles == Doubles(Pow2, Nat)
BY DoublingExists DEF Pow2, Doubles, DoubleStep

(* Pow2 is what its definition says, and counts.                           *)
LEMMA Pow2Step ==
  /\ Pow2[0] = 1
  /\ \A n \in Nat : Pow2[n + 1] = 2 * Pow2[n]
<1>1. \A n \in Nat : Pow2[n] = DoubleStep(Pow2, n)
  BY Pow2Doubles DEF Doubles
<1>2. ASSUME NEW n \in Nat
      PROVE  Pow2[n + 1] = 2 * Pow2[n]
  <2>1. n + 1 \in Nat /\ n + 1 # 0 /\ (n + 1) - 1 = n
    OBVIOUS
  <2>2. Pow2[n + 1] = DoubleStep(Pow2, n + 1)
    BY <1>1, <2>1
  <2> QED BY <2>1, <2>2 DEF DoubleStep
<1> QED BY <1>1, <1>2 DEF DoubleStep

LEMMA Pow2Type == ASSUME NEW n \in Nat PROVE Pow2[n] \in Nat /\ Pow2[n] >= 1
<1> DEFINE T == {k \in Nat : Pow2[k] \in Nat /\ Pow2[k] >= 1}
<1>1. 0 \in T
  BY Pow2Step
<1>2. \A k \in Nat : k \in T => k + 1 \in T
  BY Pow2Step
<1>3. n \in T
  <2> HIDE DEF T
  <2> QED BY <1>1, <1>2, EveryNumber
<1> QED BY <1>3

LEMMA Pow2Sum ==
  ASSUME NEW m \in Nat, NEW n \in Nat
  PROVE  Pow2[m + n] = Pow2[m] * Pow2[n]
<1> DEFINE T == {k \in Nat : Pow2[m + k] = Pow2[m] * Pow2[k]}
<1>1. 0 \in T
  <2>1. m + 0 = m /\ Pow2[m] * 1 = Pow2[m]
    BY Pow2Type
  <2> QED BY <2>1, Pow2Step
<1>2. ASSUME NEW k \in Nat, k \in T PROVE k + 1 \in T
  <2>1. Pow2[(m + k) + 1] = 2 * Pow2[m + k] /\ Pow2[k + 1] = 2 * Pow2[k]
    BY Pow2Step
  <2>2. m + (k + 1) = (m + k) + 1
    OBVIOUS
  <2> DEFINE a == Pow2[m]
             b == Pow2[k]
  <2>3. a \in Nat /\ b \in Nat
    BY Pow2Type
  <2>4. Pow2[m + k] = a * b
    BY <1>2
  <2> HIDE DEF a, b
  <2>5. 2 * (a * b) = a * (2 * b)
    BY <2>3
  <2>6. Pow2[m + (k + 1)] = a * Pow2[k + 1]
    BY <2>1, <2>2, <2>4, <2>5 DEF b
  <2> QED BY <2>6 DEF a
<1>3. n \in T
  <2> HIDE DEF T
  <2> QED BY <1>1, <1>2, EveryNumber
<1> QED BY <1>3

LEMMA Pow2Grows ==
  ASSUME NEW m \in Nat, NEW n \in Nat, m <= n
  PROVE  Pow2[m] <= Pow2[n]
<1> DEFINE T == {k \in Nat : Pow2[m] <= Pow2[m + k]}
<1>1. 0 \in T
  BY Pow2Type
<1>2. ASSUME NEW k \in Nat, k \in T PROVE k + 1 \in T
  <2>1. Pow2[(m + k) + 1] = 2 * Pow2[m + k] /\ m + (k + 1) = (m + k) + 1
    BY Pow2Step
  <2>2. Pow2[m + k] \in Nat /\ Pow2[m] \in Nat
    BY Pow2Type
  <2> QED BY <1>2, <2>1, <2>2
<1>3. n - m \in T
  <2> HIDE DEF T
  <2> QED BY <1>1, <1>2, EveryNumber
<1>4. m + (n - m) = n
  OBVIOUS
<1> QED BY <1>3, <1>4

(* The powers up to 2^11, the only ones whose value the proofs need.       *)
LEMMA SmallPowers ==
  /\ Pow2[0] = 1 /\ Pow2[1] = 2 /\ Pow2[2] = 4 /\ Pow2[3] = 8
  /\ Pow2[4] = 16 /\ Pow2[5] = 32 /\ Pow2[6] = 64 /\ Pow2[7] = 128
  /\ Pow2[8] = 256 /\ Pow2[9] = 512 /\ Pow2[10] = 1024 /\ Pow2[11] = 2048
<1>1. /\ Pow2[0] = 1 /\ Pow2[1] = 2 * Pow2[0] /\ Pow2[2] = 2 * Pow2[1]
      /\ Pow2[3] = 2 * Pow2[2] /\ Pow2[4] = 2 * Pow2[3] /\ Pow2[5] = 2 * Pow2[4]
  <2>1. /\ 0 + 1 = 1 /\ 1 + 1 = 2 /\ 2 + 1 = 3 /\ 3 + 1 = 4 /\ 4 + 1 = 5
    OBVIOUS
  <2> QED BY <2>1, Pow2Step
<1>2. /\ Pow2[6] = 2 * Pow2[5] /\ Pow2[7] = 2 * Pow2[6] /\ Pow2[8] = 2 * Pow2[7]
      /\ Pow2[9] = 2 * Pow2[8] /\ Pow2[10] = 2 * Pow2[9] /\ Pow2[11] = 2 * Pow2[10]
  <2>1. /\ 5 + 1 = 6 /\ 6 + 1 = 7 /\ 7 + 1 = 8 /\ 8 + 1 = 9 /\ 9 + 1 = 10
        /\ 10 + 1 = 11
    OBVIOUS
  <2> QED BY <2>1, Pow2Step
<1> QED BY <1>1, <1>2

(* Pow2Mod100 is the same modulo 100.                                      *)
ModStep(f, i) == IF i = 0 THEN 1 ELSE (2 * f[i - 1]) % 100

LEMMA DoubledResidue ==
  ASSUME NEW a \in Nat
  PROVE  (2 * (a % 100)) % 100 = (2 * a) % 100
OBVIOUS

LEMMA ResidueStep ==
  ASSUME NEW i \in Nat, i # 0
  PROVE  Pow2[i] % 100 = (2 * (Pow2[i - 1] % 100)) % 100
<1>1. i - 1 \in Nat /\ (i - 1) + 1 = i
  OBVIOUS
<1>2. Pow2[i] = 2 * Pow2[i - 1] /\ Pow2[i - 1] \in Nat
  <2>1. Pow2[(i - 1) + 1] = 2 * Pow2[i - 1]
    BY <1>1, Pow2Step
  <2> QED BY <1>1, <2>1, Pow2Type
<1> QED BY <1>2, DoubledResidue

LEMMA Pow2Residue ==
  ASSUME NEW n \in Nat
  PROVE  Pow2Mod100[n] = Pow2[n] % 100
<1> DEFINE h == [i \in Nat |-> Pow2[i] % 100]
           g == Pow2Mod100
<1>1. h = [i \in Nat |-> ModStep(h, i)]
  <2>1. ASSUME NEW i \in Nat
        PROVE  Pow2[i] % 100 = ModStep(h, i)
    <3>1. CASE i = 0
      BY <3>1, Pow2Step DEF ModStep
    <3>2. CASE i # 0
      <4>1. h[i - 1] = Pow2[i - 1] % 100
        BY <3>2
      <4> QED BY <3>2, <4>1, ResidueStep DEF ModStep
    <3> QED BY <3>1, <3>2
  <2> QED BY <2>1
<1>2. g = [i \in Nat |-> ModStep(g, i)]
  BY <1>1 DEF Pow2Mod100, ModStep
<1> HIDE DEF g
<1> DEFINE T == {k \in Nat : g[k] = Pow2[k] % 100}
<1>3. 0 \in T
  BY <1>2, Pow2Step DEF ModStep
<1>4. ASSUME NEW k \in Nat, k \in T PROVE k + 1 \in T
  <2>1. k + 1 \in Nat /\ k + 1 # 0 /\ (k + 1) - 1 = k
    OBVIOUS
  <2>2. g[k + 1] = ModStep(g, k + 1)
    BY <1>2, <2>1
  <2>3. g[k + 1] = (2 * (Pow2[k] % 100)) % 100
    BY <1>4, <2>1, <2>2 DEF ModStep
  <2> QED BY <2>1, <2>3, ResidueStep
<1>5. n \in T
  <2> HIDE DEF T
  <2> QED BY <1>3, <1>4, EveryNumber
<1> QED BY <1>5 DEF g

(* Log2 is the place of the leading bit.                                   *)
LEMMA Log2Is ==
  ASSUME NEW k \in Nat, NEW l \in 0..62, Pow2[l] <= k, k < Pow2[l + 1]
  PROVE  Log2(k) = l
<1>1. ASSUME NEW j \in 0..62, Pow2[j] <= k, k < Pow2[j + 1]
      PROVE  j = l
  <2>1. ASSUME NEW a \in 0..62, NEW b \in 0..62, a < b
        PROVE  Pow2[a + 1] <= Pow2[b]
    BY <2>1, Pow2Grows
  <2>2. /\ Pow2[j] \in Nat /\ Pow2[j + 1] \in Nat
        /\ Pow2[l] \in Nat /\ Pow2[l + 1] \in Nat
    BY Pow2Type
  <2>3. ~(j < l)
    <3> SUFFICES ASSUME j < l PROVE FALSE
      OBVIOUS
    <3>1. Pow2[j + 1] <= Pow2[l]
      BY <2>1
    <3> QED BY <1>1, <2>2, <3>1
  <2>4. ~(l < j)
    <3> SUFFICES ASSUME l < j PROVE FALSE
      OBVIOUS
    <3>1. Pow2[l + 1] <= Pow2[j]
      BY <2>1
    <3> QED BY <1>1, <2>2, <3>1
  <2> QED BY <2>3, <2>4
<1> QED BY <1>1 DEF Log2

LEMMA Log2Bounds ==
  ASSUME NEW k \in Nat, NEW n \in 0..62, k > 0, k < Pow2[n + 1]
  PROVE  /\ Log2(k) \in 0..n
         /\ Pow2[Log2(k)] <= k
         /\ k < Pow2[Log2(k) + 1]
<1> DEFINE Over == {l \in Nat : k < Pow2[l + 1]}
<1>1. Over \subseteq Nat /\ n \in Over
  OBVIOUS
<1>2. PICK l \in Over : \A j \in Over : l <= j
  <2> HIDE DEF Over
  <2> QED BY <1>1, LeastNumber
<1>3. l \in 0..n /\ k < Pow2[l + 1]
  BY <1>1, <1>2
<1>4. Pow2[l] <= k
  <2>1. CASE l = 0
    BY <2>1, Pow2Step
  <2>2. CASE l # 0
    <3>1. l - 1 \in Nat /\ (l - 1) + 1 = l /\ l - 1 \notin Over
      <4> HIDE DEF Over
      <4> QED BY <1>2, <1>3, <2>2
    <3>2. ~(k < Pow2[l])
      BY <3>1
    <3>3. Pow2[l] \in Nat
      BY <1>3, Pow2Type
    <3> QED BY <3>2, <3>3
  <2> QED BY <2>1, <2>2
<1>5. Log2(k) = l
  <2> HIDE DEF Over
  <2> QED BY <1>3, <1>4, Log2Is
<1> QED BY <1>3, <1>4, <1>5

-----------------------------------------------------------------------------
(* Products and quotients                                                  *)

LEMMA TimesKeepsOrder ==
  ASSUME NEW a \in Nat, NEW b \in Nat, NEW c \in Nat, a <= b
  PROVE  a * c <= b * c
<1>1. b * c = a * c + (b - a) * c /\ b - a \in Nat
  OBVIOUS
<1>2. (b - a) * c >= 0
  BY <1>1
<1>3. a * c \in Nat /\ b * c \in Nat /\ (b - a) * c \in Nat
  BY <1>1
<1> QED BY <1>1, <1>2, <1>3

LEMMA QuotientIs ==
  ASSUME NEW w \in Nat, NEW b \in Nat, b > 0, NEW q \in Nat,
         q * b <= w, w < q * b + b
  PROVE  w \div b = q
<1> DEFINE p == w \div b
<1>1. p \in Nat /\ p * b <= w /\ w < p * b + b
  <2>1. w = b * p + (w % b) /\ p \in Nat /\ w % b \in 0..(b - 1)
    OBVIOUS
  <2> HIDE DEF p
  <2>2. b * p = p * b /\ p * b \in Nat
    BY <2>1
  <2> QED BY <2>1, <2>2
<1> HIDE DEF p
<1>2. ~(p < q)
  <2> SUFFICES ASSUME p < q PROVE FALSE
    OBVIOUS
  <2>1. (p + 1) * b <= q * b
    BY <1>1, TimesKeepsOrder
  <2>2. (p + 1) * b = p * b + b
    BY <1>1
  <2> QED BY <1>1, <2>1, <2>2
<1>3. ~(q < p)
  <2> SUFFICES ASSUME q < p PROVE FALSE
    OBVIOUS
  <2>1. (q + 1) * b <= p * b
    BY <1>1, TimesKeepsOrder
  <2>2. (q + 1) * b = q * b + b
    BY <1>1
  <2> QED BY <1>1, <2>1, <2>2
<1> QED BY <1>1, <1>2, <1>3 DEF p

-----------------------------------------------------------------------------
(* The conversion of amounts                                               *)

(* The truncated amount, or one kopeck less.                               *)
LEMMA ConvertRange ==
  ASSUME NEW P, NEW n \in Nat
  PROVE  /\ ConvertAt(P, n) \in Nat
         /\ ConvertAt(P, n) \in {n \div 10, n \div 10 - 1}
         /\ n % 10 # 0 => ConvertAt(P, n) = n \div 10
<1>1. CASE n % 10 = 0 /\ DropsKopeck(P, n \div 10)
  <2>1. n \div 10 > 0
    BY <1>1 DEF DropsKopeck
  <2>2. ConvertAt(P, n) = n \div 10 - 1
    BY <1>1 DEF ConvertAt
  <2> QED BY <1>1, <2>1, <2>2
<1>2. CASE ~(n % 10 = 0 /\ DropsKopeck(P, n \div 10))
  <2>1. ConvertAt(P, n) = n \div 10
    BY <1>2 DEF ConvertAt
  <2> QED BY <2>1
<1> QED BY <1>1, <1>2

LEMMA ToKopecksRange ==
  ASSUME NEW n \in Nat
  PROVE  /\ ToKopecks(n) \in Nat
         /\ ToKopecks(n) \in {n \div 10, n \div 10 - 1}
         /\ n % 10 # 0 => ToKopecks(n) = n \div 10
BY ConvertRange DEF ToKopecks
=============================================================================
