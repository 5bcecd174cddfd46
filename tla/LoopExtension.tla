-------------------------- MODULE LoopExtension --------------------------
(***************************************************************************)
(* UpdateLoopIterTimes.cpp: how many rounds the compiled main loop makes.  *)
(* A block whose condition is false is skipped, so the loop must go round  *)
(* more often than the original one for every block to be executed once    *)
(* per original iteration.  The new bound is computed by the generated     *)
(* code, in the machine integers of the induction variable.                *)
(***************************************************************************)
EXTENDS Integers

CONSTANT Width     \* bits of the induction variable

ASSUME WidthAssumption == Width \in Nat \ {0}

(* What there is to know of powers of two: it follows from WidthAssumption *)
(* and is stated for provers that take a power for an unknown number.      *)
ASSUME PowerAssumption ==
  2 ^ (Width - 1) \in Nat \ {0} /\ 2 ^ Width = 2 * 2 ^ (Width - 1)

(* The values of the induction variable's type.                            *)
MachineInt == -(2 ^ (Width - 1)) .. 2 ^ (Width - 1) - 1

Wrap(n) == n % (2 ^ Width)

Signed(n) == IF Wrap(n) >= 2 ^ (Width - 1) THEN Wrap(n) - 2 ^ Width ELSE Wrap(n)

(* Mutant: the quotient is rounded down.                                   *)
FloorDivUI(a, b) == a \div b

(* arith.ceildivui.                                                        *)
CeilDivUI(a, b) == IF a = 0 THEN 0 ELSE (a - 1) \div b + 1

(* The trips scf.for makes.                                                *)
TripCount(lb, ub, step) ==
  IF ub <= lb THEN 0 ELSE CeilDivUI(ub - lb, step)

(* Mutant: the last block of the chain is not counted.                     *)
FactorShort(d) == [req |-> d.dst - d.src, x |-> d.cap]

(* A dependency from block d.src to block d.dst of the same loop, with     *)
(* d.cap buffers, asks for d.dst - d.src + 1 rounds every d.cap iterations.*)
Factor(d) == [req |-> d.dst - d.src + 1, x |-> d.cap]

GreaterEq(f, g) == f.req * g.x >= g.req * f.x

(* Mutant: the factor of the least demanding dependency.                   *)
CalculateLeastFactor(deps) ==
  LET fs == {[req |-> 1, x |-> 1]} \cup {Factor(d) : d \in deps}
  IN  CHOOSE f \in fs : \A g \in fs : GreaterEq(g, f)

(* The largest fraction, and 1/1 when no dependency asks for more.         *)
CalculateFactor(deps) ==
  LET fs == {[req |-> 1, x |-> 1]} \cup {Factor(d) : d \in deps}
  IN  CHOOSE f \in fs : \A g \in fs : GreaterEq(f, g)

(* calculateFactor gives up on a dependency that goes backwards.           *)
CanExtend(deps) == \A d \in deps : d.dst > d.src

(* computeNewLoopUpperBound, operation by operation.                       *)
NewUpperBound(lb, ub, step, ifCount, f) ==
  LET iterCount == CeilDivUI(Wrap(ub - lb), Wrap(step))
      ceiled    == CeilDivUI(Wrap(iterCount * f.req), f.x)
      newCount  == Wrap(ceiled + ifCount)
  IN  Signed(lb + Wrap(step * newCount))

(* The rounds both loops with one main_loop id make: the cube loop and the *)
(* vector loop take the larger block count and the larger factor.          *)
NewTripCount(lb, ub, step, ifCount, f) ==
  TripCount(lb, NewUpperBound(lb, ub, step, ifCount, f), step)

(* Nothing overflows in it: the loop makes the rounds it asks for.         *)
RoundsFit(lb, ub, step, ifCount, f) ==
  LET trips == TripCount(lb, ub, step)
      total == CeilDivUI(trips * f.req, f.x) + ifCount
  IN  /\ trips * f.req < 2 ^ Width
      /\ step * total < 2 ^ Width /\ lb + step * total < 2 ^ (Width - 1)

-----------------------------------------------------------------------------
(* Are these rounds enough?  An edge [from, to, cap] is what block e.to    *)
(* awaits from block e.from, a block is <<core, index>>, and cube is the   *)
(* core that has its turn first in every round.                            *)

(* Rounds between the turn of e.from and the first turn of e.to at which   *)
(* e.to sees its input.                                                    *)
Latency(e, cube) == IF e.from[1] # cube /\ e.to[1] = cube THEN 1 ELSE 0

(* The distance, in rounds, that the buffers of e allow between its two    *)
(* blocks when both run in every round, or, for blocks of one loop, as     *)
(* often as Factor lets them.                                              *)
Reach(e, cube) ==
  CASE e.from[1] # cube /\ e.to[1] # cube -> e.to[2] - e.from[2]
    [] e.from[1] # cube /\ e.to[1] = cube -> e.cap
    [] OTHER                              -> e.cap - 1

(* Block b can run its k-th iteration start[b] rounds after the k-th       *)
(* iteration of the loop has begun.                                        *)
IsSchedule(edges, start, cube) ==
  \A e \in edges : /\ start[e.to] >= start[e.from] + Latency(e, cube)
                   /\ start[e.to] - start[e.from] <= Reach(e, cube)
=============================================================================
