-------------------------- MODULE LoopBoundProofs --------------------------
(***************************************************************************)
(* For every loop that makes a trip and every set of dependencies: as long *)
(* as nothing overflows, the generated arithmetic gives the documented     *)
(* number of rounds, and that is enough for each dependency.               *)
(***************************************************************************)
EXTENDS LoopBound, LoopExtensionProofs

(* Extend has computed what it was to compute from inputs that stay.       *)
BoundInv ==
  /\ lb \in MachineInt /\ ub \in MachineInt
  /\ step \in MachineInt \cap (Nat \ {0})
  /\ ifCount \in Nat
  /\ IsChain(deps)
  /\ ready => /\ factor = CalculateFactor(deps)
              /\ trips = NewTripCount(lb, ub, step, ifCount, factor)

LEMMA BoundInit == Init => BoundInv
BY BoundAssumption DEF Init, BoundInv, IsChain

LEMMA BoundNext == BoundInv /\ [Next]_vars => BoundInv'
<1>1. BoundInv /\ Extend => BoundInv'
  BY DEF Extend, BoundInv, inputs
<1>2. BoundInv /\ UNCHANGED vars => BoundInv'
  BY DEF BoundInv, vars
<1> QED
  BY <1>1, <1>2 DEF Next

LEMMA MachineIntIsInt == MachineInt \subseteq Int
BY PowerFacts DEF MachineInt

(* Rounding up: the two ways to write it.                                  *)
LEMMA CeilDivSame ==
  ASSUME NEW a \in Nat, NEW b \in Nat \ {0}
  PROVE  CeilDiv(a, b) = CeilDivUI(a, b)
<1> DEFINE c == CeilDivUI(a, b)
           q == (-a) \div b
<1>1. c \in Nat /\ a <= b * c /\ \A k \in Int : a <= b * k => c <= k
  BY CeilDivUIFacts
<1>2. q \in Int /\ b * q <= -a /\ \A k \in Int : b * k <= -a => k <= q
  BY Quotient, QuotientIsLargest
<1>3. CeilDiv(a, b) = -q
  BY DEF CeilDiv
<1> HIDE DEF c, q
<1>4. b * (-c) = -(b * c) /\ b * (-q) = -(b * q)
  BY <1>1, <1>2
<1>5. -c <= q
  BY <1>1, <1>2, <1>4
<1>6. c <= -q
  BY <1>1, <1>2, <1>4
<1> QED
  BY <1>1, <1>2, <1>3, <1>5, <1>6 DEF c

LEMMA DocumentedFacts ==
  ASSUME BoundInv, ready
  PROVE  /\ Original \in Nat /\ Documented \in Nat
         /\ factor \in [req : Nat \ {0}, x : Nat \ {0}]
         /\ Original * factor.req \in Nat
         /\ Documented = CeilDivUI(Original * factor.req, factor.x) + ifCount
<1>1. factor \in [req : Nat \ {0}, x : Nat \ {0}]
  BY CalculateFactorFacts DEF BoundInv
<1>2. Original \in Nat
  BY TripCountFacts, MachineIntIsInt DEF BoundInv, Original
<1> DEFINE scaled == Original * factor.req
<1>3. scaled \in Nat
  BY <1>1, <1>2
<1>4. Documented = CeilDiv(scaled, factor.x) + ifCount
  BY DEF Documented
<1> HIDE DEF scaled
<1>5. CeilDivUI(scaled, factor.x) \in Nat /\ ifCount \in Nat
      /\ CeilDiv(scaled, factor.x) = CeilDivUI(scaled, factor.x)
  BY <1>1, <1>3, CeilDivSame, CeilDivUIFacts DEF BoundInv
<1> QED
  BY <1>1, <1>2, <1>3, <1>4, <1>5 DEF scaled

LEMMA RoundsAsDocumented ==
  ASSUME BoundInv, ready, lb <= ub, Fits
  PROVE  trips = Documented
<1>1. /\ lb \in MachineInt /\ ub \in MachineInt /\ step \in MachineInt \cap (Nat \ {0})
      /\ ifCount \in Nat /\ trips = NewTripCount(lb, ub, step, ifCount, factor)
  BY DEF BoundInv
<1>2. /\ factor \in [req : Nat \ {0}, x : Nat \ {0}]
      /\ Documented = CeilDivUI(Original * factor.req, factor.x) + ifCount
  BY DocumentedFacts
<1>3. /\ Original * factor.req < 2 ^ Width /\ step * Documented < 2 ^ Width
      /\ lb + step * Documented < 2 ^ (Width - 1)
  BY DEF Fits
<1> HIDE DEF Documented
<1> QED
  BY <1>1, <1>2, <1>3, RoundsWithoutOverflow DEF Original

LEMMA RoundsCover ==
  ASSUME BoundInv, ready, lb <= ub, Fits, NEW d \in deps
  PROVE  (trips - ifCount) * d.cap >= Original * Factor(d).req
<1> DEFINE n == Original
           c == CeilDivUI(n * factor.req, factor.x)
           F == Factor(d)
<1>1. /\ n \in Nat /\ factor.req \in Nat \ {0} /\ factor.x \in Nat \ {0}
      /\ n * factor.req \in Nat /\ Documented = c + ifCount
  BY DocumentedFacts
<1>2. c \in Nat /\ n * factor.req <= factor.x * c
  BY <1>1, CeilDivUIFacts
<1>3. trips - ifCount = c
  <2> HIDE DEF c
  <2> QED
    BY <1>1, <1>2, RoundsAsDocumented DEF BoundInv
<1>4. /\ d.cap \in Nat \ {0} /\ F.x = d.cap /\ F.req \in Int
      /\ factor.req * F.x >= F.req * factor.x
  <2>1. GreaterEq(factor, F)
    BY CalculateFactorFacts DEF BoundInv
  <2>2. d.cap \in Nat \ {0} /\ d.src \in Nat /\ d.dst \in Nat
    BY DEF BoundInv, IsChain
  <2> QED
    BY <2>1, <2>2 DEF GreaterEq, Factor
<1> HIDE DEF n, c, F
<1> DEFINE a == factor.req  x == factor.x  r == F.req  k == d.cap
<1>5. /\ n \in Nat /\ c \in Nat /\ a \in Nat /\ x \in Nat \ {0} /\ r \in Int /\ k \in Nat \ {0}
      /\ n * a <= x * c /\ a * k >= r * x
  BY <1>1, <1>2, <1>4
<1> HIDE DEF a, x, r, k
<1>6. (n * a) * k <= (x * c) * k
  BY <1>5
<1>7. n * (r * x) <= n * (a * k)
  BY <1>5
<1>8. /\ (n * a) * k = n * (a * k) /\ (x * c) * k = x * (c * k)
      /\ n * (r * x) = x * (n * r)
  BY <1>5
<1>9. n * r \in Int /\ c * k \in Int
  BY <1>5
<1>10. x * (n * r) <= x * (c * k)
  BY <1>5, <1>6, <1>7, <1>8
<1>11. n * r <= c * k
  BY <1>5, <1>9, <1>10
<1> QED
  BY <1>3, <1>9, <1>11 DEF n, F, r, k

LEMMA BoundSafe == BoundInv => NonEmptyLoopExtended /\ EveryDependencyCovered
BY RoundsAsDocumented, RoundsCover
   DEF NonEmptyLoopExtended, EveryDependencyCovered

(* The generated arithmetic implements the documented formula for every    *)
(* loop that makes a trip, up to the point where something overflows.      *)
THEOREM LoopIsExtended == Spec => []NonEmptyLoopExtended
BY BoundInit, BoundNext, BoundSafe, PTL DEF Spec

(* The extra rounds are enough for every dependency of the loop.           *)
THEOREM DependenciesAreCovered == Spec => []EveryDependencyCovered
BY BoundInit, BoundNext, BoundSafe, PTL DEF Spec

=============================================================================
