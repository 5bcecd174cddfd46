---------------------------- MODULE LoopRounds ----------------------------
(***************************************************************************)
(* Is the extended loop long enough?  SSBuffer answers for one dependency  *)
(* graph; here the graph is a variable, chosen once by Init, and the loop  *)
(* is run round by round: the cube's blocks in order, then the vector's    *)
(* (flag 15 makes the rounds alternate, see SSBuffer!ExclusiveAccess, and  *)
(* both sub-blocks do the same, so one vector stands for both).            *)
(***************************************************************************)
EXTENDS LoopExtension, FiniteSets

CONSTANTS
  CubeBlocks, VectorBlocks,   \* blocks of the two loops
  Graphs,                     \* sets of edges [from, to, cap], blocks <<core, index>>
  MaxIterations               \* bound on the trips of the original loop

C == "cube"
V == "vector"

Blocks == ({C} \X (1 .. CubeBlocks)) \cup ({V} \X (1 .. VectorBlocks))

ASSUME RoundsAssumption ==
  /\ CubeBlocks \in Nat \ {0} /\ VectorBlocks \in Nat \ {0}
  /\ MaxIterations \in Nat
  /\ \A g \in Graphs :
       /\ IsFiniteSet(g) /\ g \subseteq [from : Blocks, to : Blocks, cap : Nat \ {0}]
       /\ \A e \in g : IF e.from[1] = V THEN e.to[1] = V => e.from[2] < e.to[2]
                                        ELSE e.to[1] = V

VARIABLES
  graph,     \* the dependencies of this kernel
  n,         \* trips of the original loop
  rounds,    \* trips of the extended loop, computed ahead of it
  round,     \* rounds finished
  at,        \* the block whose turn it is
  done       \* executions of each block

vars == <<graph, n, rounds, round, at, done>>

(* The dependencies calculateFactor looks at: those between two blocks of  *)
(* the vector loop.                                                        *)
IntraOf(g) ==
  {[src |-> e.from[2], dst |-> e.to[2], cap |-> e.cap] :
     e \in {d \in g : d.from[1] = V /\ d.to[1] = V}}

IfCount == IF CubeBlocks > VectorBlocks THEN CubeBlocks ELSE VectorBlocks

(* Mutant: the block count is not added.                                   *)
RoundsWithoutIfCount(g, trips) ==
  NewTripCount(0, trips, 1, 0, CalculateFactor(IntraOf(g)))

Rounds(g, trips) ==
  NewTripCount(0, trips, 1, IfCount, CalculateFactor(IntraOf(g)))

Init ==
  /\ graph \in Graphs
  /\ n \in 0 .. MaxIterations
  /\ rounds = Rounds(graph, n)
  /\ round = 0
  /\ at = <<C, 1>>
  /\ done = [b \in Blocks |-> 0]

Condition(b) ==
  /\ \A e \in graph : e.to = b => done[e.from] - done[b] > 0
  /\ \A e \in graph : e.from = b => done[b] - done[e.to] < e.cap
  /\ done[b] < n

(* The block after b in a round, the first cube block after the last.      *)
Successor(b) ==
  CASE b[1] = C /\ b[2] < CubeBlocks   -> <<C, b[2] + 1>>
    [] b = <<C, CubeBlocks>>           -> <<V, 1>>
    [] b[1] = V /\ b[2] < VectorBlocks -> <<V, b[2] + 1>>
    [] OTHER                           -> <<C, 1>>

Turn ==
  /\ round < rounds
  /\ done' = [done EXCEPT ![at] = IF Condition(at) THEN @ + 1 ELSE @]
  /\ at' = Successor(at)
  /\ round' = IF at = <<V, VectorBlocks>> THEN round + 1 ELSE round
  /\ UNCHANGED <<graph, n, rounds>>

Stop == round = rounds /\ UNCHANGED vars

Next == Turn \/ Stop

Spec == Init /\ [][Next]_vars /\ WF_vars(Turn)

-----------------------------------------------------------------------------

(* The buffers allow every block to keep pace with the loop.               *)
Steady(g) == \E start \in [Blocks -> 0 .. IfCount] : IsSchedule(g, start, C)

NoOverflow(g, trips) == RoundsFit(0, trips, 1, IfCount, CalculateFactor(IntraOf(g)))

AllIterationsRun == \A b \in Blocks : done[b] = n

(* Where the buffers allow a steady schedule, the rounds that              *)
(* UpdateLoopIterTimes computes from the intra-core buffers are enough.    *)
SteadyGraphsComplete ==
  round = rounds /\ Steady(graph) /\ NoOverflow(graph, n) => AllIterationsRun

(* "If multicache count is sufficient (bufferNum >= requireNum), only need *)
(* to increase iteration times with number of ifblock"                     *)
(* (updateLoopIterTimes_test.mlir:12).                                     *)
SufficientBuffersComplete ==
  /\ round = rounds
  /\ \A d \in IntraOf(graph) : d.cap >= d.dst - d.src + 1
  => AllIterationsRun

=============================================================================
