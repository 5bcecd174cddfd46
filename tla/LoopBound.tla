---------------------------- MODULE LoopBound ----------------------------
(***************************************************************************)
(* The run-time arithmetic of UpdateLoopIterTimes against the formula it   *)
(* implements.  The inputs are variables: Init chooses the original loop   *)
(* and its dependencies, Extend computes the new loop.                     *)
(***************************************************************************)
EXTENDS LoopExtension, FiniteSets

CONSTANTS Bounds,     \* values of the lower and upper bound
          Steps,      \* values of the step
          IfCounts,   \* numbers of blocks
          Chains      \* sets of intra-core dependencies [src, dst, cap]

ASSUME BoundAssumption ==
  /\ Bounds \subseteq MachineInt /\ Steps \subseteq MachineInt \cap (Nat \ {0})
  /\ IfCounts \subseteq Nat
  /\ \A ds \in Chains : /\ IsFiniteSet(ds) /\ CanExtend(ds)
                       /\ ds \subseteq [src : Nat, dst : Nat, cap : Nat \ {0}]

VARIABLES lb, ub, step, ifCount, deps,
          ready, factor, trips

inputs == <<lb, ub, step, ifCount, deps>>
vars == <<lb, ub, step, ifCount, deps, ready, factor, trips>>

Init ==
  /\ lb \in Bounds /\ ub \in Bounds
  /\ step \in Steps
  /\ ifCount \in IfCounts
  /\ deps \in Chains
  /\ \A d \in deps : d.dst <= ifCount
  /\ ready = FALSE
  /\ factor = [req |-> 1, x |-> 1]
  /\ trips = 0

Extend ==
  /\ ~ready
  /\ ready' = TRUE
  /\ factor' = CalculateFactor(deps)
  /\ trips' = NewTripCount(lb, ub, step, ifCount, factor')
  /\ UNCHANGED inputs

Next == Extend \/ (ready /\ UNCHANGED vars)

Spec == Init /\ [][Next]_vars

-----------------------------------------------------------------------------

Original == TripCount(lb, ub, step)

CeilDiv(a, b) == -((-a) \div b)

(* "ceil(original_iter_count * requiredBuffers / x) + ifCount"             *)
(* (UpdateLoopIterTimes.cpp:57).                                           *)
Documented == CeilDiv(Original * factor.req, factor.x) + ifCount

(* Neither the scaled count nor the new upper bound overflows.             *)
Fits ==
  /\ Original * factor.req < 2 ^ Width
  /\ step * Documented < 2 ^ Width
  /\ lb + step * Documented < 2 ^ (Width - 1)

(* For a loop that makes at least one trip, the unsigned arithmetic of the *)
(* generated code gives the documented number of rounds.                   *)
NonEmptyLoopExtended == ready /\ lb <= ub /\ Fits => trips = Documented

(* The rounds leave room for every dependency: with x buffers at most x    *)
(* iterations pass in req rounds, so Original iterations need this many.   *)
EveryDependencyCovered ==
  ready /\ lb <= ub /\ Fits =>
    \A d \in deps : (trips - ifCount) * d.cap >= Original * Factor(d).req

(* No loop, empty ones included, goes round more often than documented.    *)
NoMoreRoundsThanDocumented == ready /\ Fits => trips <= Documented

=============================================================================
