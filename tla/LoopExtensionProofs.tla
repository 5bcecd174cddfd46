------------------------ MODULE LoopExtensionProofs ------------------------
(***************************************************************************)
(* The run-time arithmetic of UpdateLoopIterTimes for every width of the   *)
(* induction variable: what the operators of LoopExtension return.         *)
(***************************************************************************)
EXTENDS LoopExtension, FiniteSets, TLAPS, WellFoundedInduction,
        FiniteSetTheorems

(* Induction, in the form the provers can use: the least counterexample.   *)
LEMMA LeastNat ==
  ASSUME NEW T, T \subseteq Nat, T # {}
  PROVE  \E n \in T : \A m \in T : n <= m
<1>1. \E x \in T : \A y \in T : ~ (<<y, x>> \in OpToRel(<, Nat))
  BY NatLessThanWellFounded, WFMin, Zenon
<1>2. \E x \in T : \A y \in T : ~ (y < x)
  BY <1>1, Zenon DEF OpToRel
<1> QED
  BY <1>2

-----------------------------------------------------------------------------
(* Division and machine integers.                                          *)

LEMMA Quotient ==
  ASSUME NEW a \in Int, NEW b \in Nat \ {0}
  PROVE  /\ a \div b \in Int
         /\ b * (a \div b) <= a /\ a < b * (a \div b) + b
OBVIOUS

(* The quotient is the largest number that fits.                           *)
LEMMA QuotientIsLargest ==
  ASSUME NEW a \in Int, NEW b \in Nat \ {0}, NEW k \in Int
  PROVE  b * k <= a <=> k <= a \div b
<1> DEFINE q == a \div b
<1>1. q \in Int /\ b * q <= a /\ a < b * q + b
  BY Quotient
<1> HIDE DEF q
<1>2. ASSUME b * k <= a, k >= q + 1 PROVE FALSE
  <2>1. b * k >= b * (q + 1)
    BY <1>1, <1>2
  <2>2. b * (q + 1) = b * q + b
    BY <1>1
  <2> QED
    BY <1>1, <1>2, <2>1, <2>2
<1>3. ASSUME k <= q PROVE b * k <= a
  <2>1. b * k <= b * q
    BY <1>1, <1>3
  <2> QED
    BY <1>1, <2>1
<1>4. k <= q \/ k >= q + 1
  BY <1>1
<1> QED
  BY <1>2, <1>3, <1>4 DEF q

LEMMA Multiple ==
  ASSUME NEW b \in Nat \ {0}, NEW k \in Int, NEW a \in Int
  PROVE  /\ (b * k) \div b = k
         /\ (a + b * k) \div b = (a \div b) + k
         /\ b * (k + 1) = b * k + b
OBVIOUS

LEMMA NextRemainder ==
  ASSUME NEW a \in Int, NEW b \in Nat \ {0}
  PROVE  (a + b) % b = a % b
<1>1. /\ a % b \in 0 .. b - 1 /\ a = b * (a \div b) + (a % b)
      /\ a + b = b * ((a + b) \div b) + ((a + b) % b)
  OBVIOUS
<1>2. (a + b * 1) \div b = (a \div b) + 1
  BY Multiple
<1>3. a + b * 1 = a + b
  OBVIOUS
<1>4. b * ((a \div b) + 1) = b * (a \div b) + b
  BY Multiple, Quotient
<1> DEFINE q == a \div b
<1>5. (a + b) \div b = q + 1 /\ q \in Int
  BY <1>2, <1>3
<1> HIDE DEF q
<1>6. a + b = b * (q + 1) + ((a + b) % b) /\ a = b * q + (a % b)
  BY <1>1, <1>5 DEF q
<1> QED
  BY <1>4, <1>6 DEF q

(* The number of b's it takes to cover a.                                  *)
LEMMA CeilDivUIFacts ==
  ASSUME NEW a \in Nat, NEW b \in Nat \ {0}
  PROVE  /\ CeilDivUI(a, b) \in Nat
         /\ a <= b * CeilDivUI(a, b)
         /\ \A k \in Int : a <= b * k => CeilDivUI(a, b) <= k
<1>1. CASE a = 0
  <2>1. CeilDivUI(a, b) = 0
    BY <1>1 DEF CeilDivUI
  <2>2. \A k \in Int : 0 <= b * k => 0 <= k
    OBVIOUS
  <2> QED
    BY <1>1, <2>1, <2>2
<1>2. CASE a # 0
  <2> DEFINE q == (a - 1) \div b
  <2>1. CeilDivUI(a, b) = q + 1
    BY <1>2 DEF CeilDivUI
  <2>2. q \in Int /\ b * q <= a - 1 /\ a - 1 < b * q + b
    BY Quotient
  <2>3. 0 <= q
    BY <1>2, QuotientIsLargest
  <2>4. b * (q + 1) = b * q + b
    BY <2>2
  <2>5. ASSUME NEW k \in Int, a <= b * k PROVE q + 1 <= k
    <3>1. ~ (b * k <= a - 1)
      BY <2>5
    <3>2. ~ (k <= q)
      BY <3>1, <1>2, QuotientIsLargest
    <3> QED
      BY <2>2, <3>2
  <2> HIDE DEF q
  <2> QED
    BY <2>1, <2>2, <2>3, <2>4, <2>5
<1> QED
  BY <1>1, <1>2

LEMMA PowerFacts ==
  /\ 2 ^ Width \in Nat \ {0} /\ 2 ^ (Width - 1) \in Nat \ {0}
  /\ 2 ^ Width = 2 * 2 ^ (Width - 1)
<1> DEFINE h == 2 ^ (Width - 1)
           w == 2 ^ Width
<1>1. h \in Nat \ {0} /\ w = 2 * h
  BY PowerAssumption
<1> HIDE DEF h, w
<1>2. w \in Nat \ {0}
  BY <1>1
<1> QED
  BY <1>1, <1>2 DEF h, w

LEMMA WrapFacts ==
  ASSUME NEW n \in Int
  PROVE  /\ Wrap(n) \in 0 .. 2 ^ Width - 1
         /\ 0 <= n /\ n < 2 ^ Width => Wrap(n) = n
<1> DEFINE w == 2 ^ Width
<1>1. w \in Nat \ {0} /\ Wrap(n) = n % w
  BY PowerFacts DEF Wrap
<1> HIDE DEF w
<1>2. n % w \in 0 .. w - 1 /\ (0 <= n /\ n < w => n % w = n)
  BY <1>1
<1> QED
  BY <1>1, <1>2 DEF w

LEMMA SignedFacts ==
  ASSUME NEW n \in Int
  PROVE  /\ Signed(n) \in Int
         /\ n \in MachineInt => Signed(n) = n
<1> DEFINE w == 2 ^ Width
           h == 2 ^ (Width - 1)
<1>1. w \in Nat \ {0} /\ h \in Nat \ {0} /\ w = 2 * h
  BY PowerFacts
<1>2. Signed(n) = IF Wrap(n) >= h THEN Wrap(n) - w ELSE Wrap(n)
  BY DEF Signed
<1>3. Wrap(n) = n % w
  BY DEF Wrap
<1>4. MachineInt = -h .. h - 1
  BY DEF MachineInt
<1> HIDE DEF w, h
<1>5. n % w \in 0 .. w - 1
  BY <1>1
<1>6. ASSUME n \in -h .. h - 1 PROVE n % w = IF n < 0 THEN n + w ELSE n
  <2>1. CASE n >= 0
    BY <1>1, <1>6, <2>1
  <2>2. CASE n < 0
    <3>1. (n + w) % w = n + w
      BY <1>1, <1>6, <2>2
    <3>2. (n + w) % w = n % w
      BY <1>1, NextRemainder
    <3> QED
      BY <2>2, <3>1, <3>2
  <2> QED
    BY <2>1, <2>2
<1> QED
  BY <1>1, <1>2, <1>3, <1>4, <1>5, <1>6

LEMMA TripCountFacts ==
  ASSUME NEW lb \in Int, NEW ub \in Int, NEW step \in Nat \ {0}
  PROVE  /\ TripCount(lb, ub, step) \in Nat
         /\ \A k \in Int : lb + step * k < ub => k < TripCount(lb, ub, step)
         /\ \A k \in Nat : TripCount(lb, lb + step * k, step) = k
<1> USE DEF TripCount
<1>1. TripCount(lb, ub, step) \in Nat
  BY CeilDivUIFacts
<1>2. ASSUME NEW k \in Int, lb + step * k < ub
      PROVE  k < TripCount(lb, ub, step)
  <2>1. CASE ub <= lb
    <3>1. step * k < 0
      BY <1>2, <2>1
    <3>2. k < 0
      BY <3>1
    <3> QED
      BY <2>1, <3>2
  <2>2. CASE ub > lb
    <3> DEFINE a == ub - lb
               t == CeilDivUI(a, step)
    <3>1. a \in Nat /\ TripCount(lb, ub, step) = t /\ step * k < a
      BY <1>2, <2>2
    <3> HIDE DEF a
    <3>2. t \in Nat /\ a <= step * t
      BY <3>1, CeilDivUIFacts
    <3> HIDE DEF t
    <3>3. step * k < step * t
      BY <3>1, <3>2
    <3>4. k < t
      BY <3>2, <3>3
    <3> QED
      BY <3>1, <3>4
  <2> QED
    BY <2>1, <2>2
<1>3. ASSUME NEW k \in Nat PROVE TripCount(lb, lb + step * k, step) = k
  <2>1. CASE k = 0
    BY <2>1
  <2>2. CASE k # 0
    <3>1. step * k \in Nat \ {0} /\ lb + step * k > lb
      BY <2>2
    <3>2. TripCount(lb, lb + step * k, step) = CeilDivUI(step * k, step)
      BY <3>1
    <3> DEFINE a == step * k
               t == CeilDivUI(a, step)
    <3>3. t \in Nat /\ a <= step * t /\ \A m \in Int : a <= step * m => t <= m
      BY <3>1, CeilDivUIFacts
    <3>4. t <= k
      BY <3>3
    <3> HIDE DEF t
    <3>5. k <= t
      BY <3>3
    <3> QED
      BY <3>2, <3>3, <3>4, <3>5 DEF t
  <2> QED
    BY <2>1, <2>2
<1> QED
  BY <1>1, <1>2, <1>3

(* The k-th trip is below the bound.                                       *)
LEMMA TripIsBelow ==
  ASSUME NEW lb \in Int, NEW ub \in Int, NEW step \in Nat \ {0},
         NEW k \in Nat, k < TripCount(lb, ub, step)
  PROVE  lb + step * k < ub
<1>1. SUFFICES ASSUME ub <= lb + step * k PROVE FALSE
  OBVIOUS
<1>2. ub > lb
  BY DEF TripCount
<1> DEFINE a == ub - lb
           t == CeilDivUI(a, step)
<1>3. a \in Nat /\ k < t
  BY <1>2 DEF TripCount
<1>4. a <= step * k
  BY <1>1
<1> HIDE DEF a
<1>5. t \in Nat /\ t <= k
  BY <1>3, <1>4, CeilDivUIFacts
<1> QED
  BY <1>3, <1>5

-----------------------------------------------------------------------------
(* The factor: the largest of finitely many fractions.                     *)

Fraction == [req : Int, x : Nat \ {0}]

LEMMA GreaterEqTotal ==
  ASSUME NEW f \in Fraction, NEW g \in Fraction
  PROVE  GreaterEq(f, g) \/ GreaterEq(g, f)
<1>1. f.req * g.x \in Int /\ g.req * f.x \in Int
  BY DEF Fraction
<1> QED
  BY <1>1 DEF GreaterEq

LEMMA GreaterEqTransitive ==
  ASSUME NEW f \in Fraction, NEW g \in Fraction, NEW h \in Fraction,
         GreaterEq(f, g), GreaterEq(g, h)
  PROVE  GreaterEq(f, h)
<1> DEFINE a == f.req  p == f.x  b == g.req  q == g.x  c == h.req  r == h.x
<1>1. a \in Int /\ b \in Int /\ c \in Int
      /\ p \in Nat \ {0} /\ q \in Nat \ {0} /\ r \in Nat \ {0}
  BY DEF Fraction
<1>2. a * q >= b * p /\ b * r >= c * q
  BY DEF GreaterEq
<1>3. SUFFICES a * r >= c * p
  BY DEF GreaterEq
<1> HIDE DEF a, b, c, p, q, r
<1>4. (a * q) * r >= (b * p) * r
  BY <1>1, <1>2
<1>5. (b * r) * p >= (c * q) * p
  BY <1>1, <1>2
<1>6. /\ (a * q) * r = q * (a * r) /\ (b * p) * r = (b * r) * p
      /\ (c * q) * p = q * (c * p)
  BY <1>1
<1>7. q * (a * r) >= q * (c * p)
  BY <1>1, <1>4, <1>5, <1>6
<1>8. a * r \in Int /\ c * p \in Int
  BY <1>1
<1> QED
  BY <1>1, <1>7, <1>8

LEMMA GreatestFraction ==
  ASSUME NEW fs \in SUBSET Fraction, IsFiniteSet(fs), fs # {}
  PROVE  \E f \in fs : \A g \in fs : GreaterEq(f, g)
<1> DEFINE Has(S) == \E f \in S : \A g \in S : GreaterEq(f, g)
           Bad == {S \in SUBSET fs : S # {} /\ ~ Has(S)}
           Sizes == {Cardinality(S) : S \in Bad}
<1>1. SUFFICES ASSUME Bad # {} PROVE FALSE
  <2>1. fs \notin Bad
    BY <1>1
  <2> QED
    BY <2>1
<1>2. \A S \in SUBSET fs : IsFiniteSet(S) /\ Cardinality(S) \in Nat
  BY FS_Subset, FS_CardinalityType
<1>3. PICK n \in Sizes : \A m \in Sizes : n <= m
  <2>1. Sizes \subseteq Nat /\ Sizes # {}
    BY <1>1, <1>2
  <2> HIDE DEF Sizes
  <2> QED
    BY <2>1, LeastNat
<1>4. PICK S \in Bad : n = Cardinality(S)
  OBVIOUS
<1>5. PICK f \in S : TRUE
  BY <1>4
<1> DEFINE R == S \ {f}
<1>6. R \in SUBSET fs /\ Cardinality(R) = Cardinality(S) - 1
  BY <1>2, <1>4, <1>5, FS_RemoveElement
<1>7. R \notin Bad
  <2>1. ~ (Cardinality(S) <= Cardinality(R))
    BY <1>2, <1>4, <1>6
  <2> QED
    BY <1>3, <1>4, <2>1
<1>8. f \in Fraction /\ GreaterEq(f, f)
  BY <1>4, <1>5, GreaterEqTotal
<1>9. CASE R = {}
  <2>1. S = {f}
    BY <1>5, <1>9
  <2> QED
    BY <1>4, <1>8, <2>1
<1>10. CASE R # {}
  <2>1. PICK g \in R : \A h \in R : GreaterEq(g, h)
    BY <1>6, <1>7, <1>10
  <2>2. g \in S /\ g \in Fraction /\ \A h \in S : h = f \/ h \in R
    BY <1>6, <2>1
  <2>3. CASE GreaterEq(g, f)
    <3>1. Has(S)
      BY <2>1, <2>2, <2>3
    <3> QED
      BY <1>4, <3>1
  <2>4. CASE GreaterEq(f, g)
    <3>1. \A h \in R : GreaterEq(f, h)
      BY <1>6, <1>8, <2>1, <2>2, <2>4, GreaterEqTransitive
    <3>2. Has(S)
      BY <1>5, <1>8, <2>2, <3>1
    <3> QED
      BY <1>4, <3>2
  <2> QED
    BY <1>8, <2>2, <2>3, <2>4, GreaterEqTotal
<1> QED
  BY <1>9, <1>10

IsChain(deps) ==
  /\ IsFiniteSet(deps) /\ CanExtend(deps)
  /\ deps \subseteq [src : Nat, dst : Nat, cap : Nat \ {0}]

(* calculateFactor asks for at least one round per iteration, and for all  *)
(* that any dependency asks for.                                           *)
LEMMA CalculateFactorFacts ==
  ASSUME NEW deps, IsChain(deps)
  PROVE  /\ CalculateFactor(deps) \in [req : Nat \ {0}, x : Nat \ {0}]
         /\ CalculateFactor(deps).req >= CalculateFactor(deps).x
         /\ \A d \in deps : GreaterEq(CalculateFactor(deps), Factor(d))
<1> DEFINE one == [req |-> 1, x |-> 1]
           of == {Factor(d) : d \in deps}
           fs == {one} \cup of
<1>1. \A d \in deps : Factor(d) \in [req : Nat \ {0}, x : Nat \ {0}]
  <2> SUFFICES ASSUME NEW d \in deps
               PROVE  Factor(d) \in [req : Nat \ {0}, x : Nat \ {0}]
    OBVIOUS
  <2>1. d.src \in Nat /\ d.dst \in Nat /\ d.cap \in Nat \ {0} /\ d.dst > d.src
    BY DEF IsChain, CanExtend
  <2>2. d.dst - d.src + 1 \in Nat \ {0}
    BY <2>1
  <2> QED
    BY <2>1, <2>2 DEF Factor
<1>2. fs \subseteq [req : Nat \ {0}, x : Nat \ {0}]
  BY <1>1
<1>3. IsFiniteSet(of)
  <2>1. [d \in deps |-> Factor(d)] \in Surjection(deps, of)
    BY DEF Surjection
  <2>2. IsFiniteSet(deps)
    BY DEF IsChain
  <2> HIDE DEF of
  <2> QED
    BY <2>1, <2>2, FS_Surjection
<1>4. IsFiniteSet(fs)
  BY <1>3, FS_AddElement
<1>5. fs \in SUBSET Fraction /\ fs # {}
  <2>1. [req : Nat \ {0}, x : Nat \ {0}] \subseteq Fraction
    BY DEF Fraction
  <2>2. one \in fs
    OBVIOUS
  <2> HIDE DEF fs
  <2> QED
    BY <1>2, <2>1, <2>2
<1>6. \E f \in fs : \A g \in fs : GreaterEq(f, g)
  <2> HIDE DEF fs
  <2> QED
    BY <1>4, <1>5, GreatestFraction
<1>7. CalculateFactor(deps) = CHOOSE f \in fs : \A g \in fs : GreaterEq(f, g)
  BY Zenon DEF CalculateFactor
<1>8. CalculateFactor(deps) \in fs /\ \A g \in fs : GreaterEq(CalculateFactor(deps), g)
  <2> HIDE DEF fs
  <2> QED
    BY <1>6, <1>7
<1>9. CalculateFactor(deps) \in [req : Nat \ {0}, x : Nat \ {0}]
  BY <1>2, <1>8
<1>10. GreaterEq(CalculateFactor(deps), one)
  <2>1. one \in fs
    OBVIOUS
  <2> HIDE DEF fs, one
  <2> QED
    BY <1>8, <2>1
<1>11. CalculateFactor(deps).req >= CalculateFactor(deps).x
  <2> DEFINE r == CalculateFactor(deps).req
             x == CalculateFactor(deps).x
  <2>1. r \in Nat /\ x \in Nat
    BY <1>9
  <2>2. r * 1 >= 1 * x
    BY <1>10 DEF GreaterEq
  <2> HIDE DEF r, x
  <2>3. r >= x
    BY <2>1, <2>2
  <2> QED
    BY <2>3 DEF r, x
<1>12. \A d \in deps : GreaterEq(CalculateFactor(deps), Factor(d))
  <2>1. \A d \in deps : Factor(d) \in fs
    OBVIOUS
  <2> HIDE DEF fs
  <2> QED
    BY <1>8, <2>1
<1> HIDE DEF fs, of, one
<1> QED
  BY <1>9, <1>11, <1>12

(* The extended loop makes some number of rounds.                          *)
LEMMA NewTripCountType ==
  ASSUME NEW lb \in Int, NEW ub \in Int, NEW step \in MachineInt \cap (Nat \ {0}),
         NEW ifCount \in Nat, NEW f \in [req : Nat \ {0}, x : Nat \ {0}]
  PROVE  NewTripCount(lb, ub, step, ifCount, f) \in Nat
<1> DEFINE iterCount == CeilDivUI(Wrap(ub - lb), Wrap(step))
           ceiled    == CeilDivUI(Wrap(iterCount * f.req), f.x)
           newCount  == Wrap(ceiled + ifCount)
           new       == NewUpperBound(lb, ub, step, ifCount, f)
<1>1. Wrap(step) = step /\ step \in Nat \ {0}
  <2>1. step < 2 ^ (Width - 1) /\ 0 <= step
    BY PowerFacts DEF MachineInt
  <2>2. step < 2 ^ Width
    BY <2>1, PowerFacts
  <2> QED
    BY <2>1, <2>2, WrapFacts
<1>2. Wrap(ub - lb) \in Nat
  BY WrapFacts, PowerFacts
<1>3. iterCount \in Nat
  BY <1>1, <1>2, CeilDivUIFacts
<1>4. ceiled \in Nat
  <2> HIDE DEF iterCount
  <2>1. iterCount * f.req \in Int /\ f.x \in Nat \ {0}
    BY <1>3
  <2>2. Wrap(iterCount * f.req) \in Nat
    BY <2>1, WrapFacts, PowerFacts
  <2> QED
    BY <2>1, <2>2, CeilDivUIFacts
<1>5. newCount \in Int
  <2> HIDE DEF ceiled
  <2> QED
    BY <1>4, WrapFacts, PowerFacts
<1>6. new = Signed(lb + Wrap(step * newCount))
  BY Zenon DEF NewUpperBound
<1>7. new \in Int
  <2> HIDE DEF newCount, new
  <2>1. step * newCount \in Int
    BY <1>5
  <2>2. Wrap(step * newCount) \in Int
    BY <2>1, WrapFacts, PowerFacts
  <2> QED
    BY <1>6, <2>2, SignedFacts
<1> HIDE DEF new
<1> QED
  BY <1>7, TripCountFacts DEF NewTripCount, new

(* Without an overflow it is the number that calculateFactor asks for.     *)
LEMMA RoundsWithoutOverflow ==
  ASSUME NEW lb \in MachineInt, NEW ub \in MachineInt, lb <= ub,
         NEW step \in MachineInt \cap (Nat \ {0}), NEW ifCount \in Nat,
         NEW f \in [req : Nat \ {0}, x : Nat \ {0}],
         NEW total, total = CeilDivUI(TripCount(lb, ub, step) * f.req, f.x) + ifCount,
         TripCount(lb, ub, step) * f.req < 2 ^ Width,
         step * total < 2 ^ Width, lb + step * total < 2 ^ (Width - 1)
  PROVE  total \in Nat /\ NewTripCount(lb, ub, step, ifCount, f) = total
<1> DEFINE trips == TripCount(lb, ub, step)
           scaled == trips * f.req
           w == 2 ^ Width
           h == 2 ^ (Width - 1)
<1>1. w \in Nat \ {0} /\ h \in Nat \ {0} /\ w = 2 * h
  BY PowerFacts
<1>2. lb \in -h .. h - 1 /\ ub \in -h .. h - 1 /\ step \in 1 .. h - 1
  <2>1. MachineInt = -h .. h - 1
    BY DEF MachineInt
  <2> HIDE DEF h
  <2> QED
    BY <1>1, <2>1
<1>3. trips \in Nat
  <2>1. lb \in Int /\ ub \in Int /\ step \in Nat \ {0}
    BY <1>1, <1>2
  <2> QED
    BY <2>1, TripCountFacts
<1>4. scaled \in Nat /\ f.x \in Nat \ {0}
  <2> HIDE DEF trips
  <2> QED
    BY <1>3
<1>5. total = CeilDivUI(scaled, f.x) + ifCount
  OBVIOUS
<1>6. total \in Nat
  <2> DEFINE c == CeilDivUI(scaled, f.x)
  <2> HIDE DEF scaled
  <2>1. c \in Nat
    BY <1>4, CeilDivUIFacts
  <2> HIDE DEF c
  <2>2. c + ifCount \in Nat
    BY <2>1
  <2> QED
    BY <1>5, <2>2 DEF c
<1>7. \A n \in Int : 0 <= n /\ n < w => Wrap(n) = n
  BY WrapFacts
<1>8. \A n \in Int : -h <= n /\ n < h => Signed(n) = n
  <2>1. MachineInt = -h .. h - 1
    BY DEF MachineInt
  <2> HIDE DEF h
  <2> QED
    BY <1>1, <2>1, SignedFacts
<1>9. scaled < w /\ step * total < w /\ lb + step * total < h
  OBVIOUS
<1> HIDE DEF w, h
<1>10. Wrap(ub - lb) = ub - lb /\ Wrap(step) = step
  BY <1>1, <1>2, <1>7
<1>11. CeilDivUI(ub - lb, step) = trips
  BY <1>2 DEF TripCount, CeilDivUI
<1> HIDE DEF trips
<1>12. Wrap(scaled) = scaled
  <2> HIDE DEF scaled
  <2> QED
    BY <1>4, <1>7, <1>9
<1>13. Wrap(total) = total
  <2>1. total <= step * total /\ step * total \in Nat
    BY <1>1, <1>2, <1>6
  <2> QED
    BY <1>1, <1>6, <1>7, <1>9, <2>1
<1> DEFINE add == step * total
<1>14. add \in Nat /\ Wrap(add) = add
  BY <1>1, <1>2, <1>6, <1>7, <1>9
<1>15. Signed(lb + add) = lb + add
  <2>1. -h <= lb + add /\ lb + add < h /\ lb + add \in Int
    BY <1>1, <1>2, <1>9, <1>14
  <2> HIDE DEF add
  <2> QED
    BY <1>8, <2>1
<1>16. NewUpperBound(lb, ub, step, ifCount, f) = lb + add
  <2>1. CeilDivUI(Wrap(ub - lb), Wrap(step)) = trips
    BY <1>10, <1>11
  <2>2. CeilDivUI(Wrap(trips * f.req), f.x) + ifCount = total
    BY <1>5, <1>12
  <2>3. Signed(lb + Wrap(step * Wrap(total))) = lb + add
    BY <1>13, <1>14, <1>15
  <2> HIDE DEF scaled, add
  <2> QED
    BY <2>1, <2>2, <2>3, Zenon DEF NewUpperBound
<1>17. TripCount(lb, lb + step * total, step) = total
  <2>1. lb \in Int /\ ub \in Int /\ step \in Nat \ {0}
    BY <1>1, <1>2
  <2>2. \A k \in Nat : TripCount(lb, lb + step * k, step) = k
    BY <2>1, TripCountFacts
  <2> QED
    BY <1>6, <2>2
<1> QED
  BY <1>6, <1>16, <1>17 DEF NewTripCount

-----------------------------------------------------------------------------
(* The pace of the extended loop.                                          *)

(* The round in which iteration k begins.                                  *)
Begin(f, k) == (k * f.req) \div f.x

(* Where j iterations ask for m rounds, they have them.                    *)
LEMMA BeginsApart ==
  ASSUME NEW f \in [req : Nat \ {0}, x : Nat \ {0}],
         NEW k \in Int, NEW j \in Nat, NEW m \in Int, j * f.req >= m * f.x
  PROVE  /\ Begin(f, k) \in Int /\ Begin(f, k + j) \in Int
         /\ Begin(f, k) + m <= Begin(f, k + j)
<1> DEFINE a == k * f.req
           b == (k + j) * f.req
           p == a \div f.x
           q == b \div f.x
<1>1. /\ f.x \in Nat \ {0} /\ f.req \in Nat \ {0}
      /\ a \in Int /\ b \in Int /\ j * f.req \in Int /\ b = a + j * f.req
  OBVIOUS
<1>2. Begin(f, k) = p /\ Begin(f, k + j) = q
  BY DEF Begin
<1> HIDE DEF a, b
<1>3. p \in Int /\ q \in Int /\ f.x * p <= a
  BY <1>1, Quotient
<1> HIDE DEF p
<1>4. f.x * (p + m) = f.x * p + m * f.x /\ m * f.x \in Int /\ f.x * p \in Int
  BY <1>1, <1>3
<1>5. f.x * (p + m) <= b
  BY <1>1, <1>3, <1>4
<1>6. p + m \in Int
  BY <1>3
<1>7. p + m <= q
  BY <1>1, <1>5, <1>6, QuotientIsLargest
<1> QED
  BY <1>2, <1>3, <1>7

(* The last of n iterations begins before the last round but ifCount.      *)
LEMMA BeginsInTime ==
  ASSUME NEW f \in [req : Nat \ {0}, x : Nat \ {0}], f.req >= f.x, NEW n \in Nat
  PROVE  /\ Begin(f, n - 1) \in Int
         /\ Begin(f, n - 1) + 1 <= CeilDivUI(n * f.req, f.x)
<1> DEFINE a == n * f.req
           q == a \div f.x
           c == CeilDivUI(a, f.x)
           p == Begin(f, n - 1)
<1>1. f.x \in Nat \ {0} /\ f.req \in Nat \ {0} /\ a \in Nat
  OBVIOUS
<1>2. p \in Int /\ p + 1 <= q
  <2> DEFINE k == n - 1
  <2>1. k \in Int /\ k + 1 = n /\ 1 \in Nat /\ 1 \in Int
    OBVIOUS
  <2>2. 1 * f.req >= 1 * f.x
    BY <1>1
  <2> HIDE DEF k
  <2>3. Begin(f, k) \in Int /\ Begin(f, k) + 1 <= Begin(f, k + 1)
    BY <2>1, <2>2, BeginsApart
  <2>4. Begin(f, n) = q
    BY DEF Begin
  <2> HIDE DEF q
  <2> QED
    BY <2>1, <2>3, <2>4 DEF k
<1> HIDE DEF a
<1>3. q \in Int /\ f.x * q <= a
  BY <1>1, Quotient
<1>4. c \in Nat /\ a <= f.x * c
  BY <1>1, CeilDivUIFacts
<1> HIDE DEF c, q, p
<1>5. q <= c
  <2>1. SUFFICES ASSUME c + 1 <= q PROVE FALSE
    BY <1>3, <1>4
  <2>2. f.x * (c + 1) <= f.x * q
    BY <1>1, <1>3, <1>4, <2>1
  <2>3. f.x * (c + 1) = f.x * c + f.x
    BY <1>1, <1>4
  <2> QED
    BY <1>1, <1>3, <1>4, <2>2, <2>3
<1>6. p \in Int /\ p + 1 <= c
  BY <1>2, <1>3, <1>4, <1>5
<1> QED
  BY <1>6 DEF p, c, a

=============================================================================
