-------------------------- MODULE LoopRoundsProofs --------------------------
(***************************************************************************)
(* For every dependency graph with a steady schedule, every number of      *)
(* blocks and buffers: the rounds that UpdateLoopIterTimes computes are    *)
(* enough for all iterations.                                              *)
(*                                                                         *)
(* The argument.  In a schedule start, block b is to run iteration k no    *)
(* later than in round start[b] + Begin(F, k).  By induction over the      *)
(* turns it does: its producers have run iteration k, as they start early  *)
(* enough, and its consumers iteration k - cap, as the iteration that many *)
(* before k began, by the choice of F, long enough before.  The last       *)
(* iteration begins IfCount rounds before the end.                         *)
(***************************************************************************)
EXTENDS LoopRounds, LoopExtensionProofs

F == CalculateFactor(IntraOf(graph))

One(p) == IF p THEN 1 ELSE 0

(* Block a has its turn before block b in every round.                     *)
Ahead(a, b) == (a[1] = C /\ b[1] = V) \/ (a[1] = b[1] /\ a[2] < b[2])

(* The rounds in which block b had its turn.                               *)
Due(b) == round + One(Ahead(b, at))

Starts == [Blocks -> 0 .. IfCount]

Kept(start) ==
  \A b \in Blocks : \A k \in Nat :
    k < n /\ start[b] + Begin(F, k) < Due(b) => done[b] > k

RoundsType ==
  /\ graph \in Graphs /\ n \in Nat /\ rounds = Rounds(graph, n)
  /\ round \in Nat /\ at \in Blocks
  /\ done \in [Blocks -> Nat] /\ \A b \in Blocks : done[b] <= n

RoundsInv ==
  /\ RoundsType
  /\ \A start \in Starts : IsSchedule(graph, start, C) => Kept(start)

-----------------------------------------------------------------------------

LEMMA BlockFacts ==
  /\ CubeBlocks \in Nat \ {0} /\ VectorBlocks \in Nat \ {0} /\ IfCount \in Nat \ {0}
  /\ C # V
  /\ \A b \in Blocks :
       /\ b = <<b[1], b[2]>> /\ b[2] \in Nat \ {0}
       /\ (b[1] = C /\ b[2] <= CubeBlocks) \/ (b[1] = V /\ b[2] <= VectorBlocks)
  /\ \A i \in Nat \ {0} : /\ i <= CubeBlocks => <<C, i>> \in Blocks
                          /\ i <= VectorBlocks => <<V, i>> \in Blocks
<1>1. CubeBlocks \in Nat \ {0} /\ VectorBlocks \in Nat \ {0}
  BY RoundsAssumption
<1>2. IfCount \in Nat \ {0} /\ C # V
  BY <1>1 DEF IfCount, C, V
<1>3. ASSUME NEW b \in Blocks
      PROVE  /\ b = <<b[1], b[2]>> /\ b[2] \in Nat \ {0}
             /\ (b[1] = C /\ b[2] <= CubeBlocks) \/ (b[1] = V /\ b[2] <= VectorBlocks)
  <2>1. CASE b \in {C} \X (1 .. CubeBlocks)
    <3>1. PICK i \in 1 .. CubeBlocks : b = <<C, i>>
      BY <2>1
    <3>2. b[1] = C /\ b[2] = i /\ b = <<b[1], b[2]>>
      BY <3>1
    <3>3. b[2] \in Nat \ {0} /\ b[2] <= CubeBlocks
      BY <1>1, <3>2
    <3> QED
      BY <3>2, <3>3
  <2>2. CASE b \in {V} \X (1 .. VectorBlocks)
    <3>1. PICK i \in 1 .. VectorBlocks : b = <<V, i>>
      BY <2>2
    <3>2. b[1] = V /\ b[2] = i /\ b = <<b[1], b[2]>>
      BY <3>1
    <3>3. b[2] \in Nat \ {0} /\ b[2] <= VectorBlocks
      BY <1>1, <3>2
    <3> QED
      BY <3>2, <3>3
  <2> QED
    BY <2>1, <2>2 DEF Blocks
<1>4. \A i \in Nat \ {0} : /\ i <= CubeBlocks => <<C, i>> \in Blocks
                           /\ i <= VectorBlocks => <<V, i>> \in Blocks
  BY <1>1 DEF Blocks
<1> QED
  BY <1>1, <1>2, <1>3, <1>4

LEMMA CubeBlock ==
  ASSUME NEW i \in Nat \ {0}, i <= CubeBlocks
  PROVE  <<C, i>> \in Blocks
BY BlockFacts

LEMMA VectorBlock ==
  ASSUME NEW i \in Nat \ {0}, i <= VectorBlocks
  PROVE  <<V, i>> \in Blocks
BY BlockFacts

LEMMA EdgeFacts ==
  ASSUME graph \in Graphs, NEW e \in graph
  PROVE  /\ e.from \in Blocks /\ e.to \in Blocks /\ e.cap \in Nat \ {0}
         /\ e.from[1] = V /\ e.to[1] = V => e.from[2] < e.to[2]
         /\ e.from[1] # V => e.to[1] = V
BY RoundsAssumption

LEMMA IntraChain ==
  ASSUME graph \in Graphs
  PROVE  IsChain(IntraOf(graph))
<1> DEFINE dep(e) == [src |-> e.from[2], dst |-> e.to[2], cap |-> e.cap]
           intra == {d \in graph : d.from[1] = V /\ d.to[1] = V}
           of == {dep(e) : e \in intra}
<1>1. IntraOf(graph) = of
  BY DEF IntraOf
<1>2. IsFiniteSet(of)
  <2>1. IsFiniteSet(intra)
    <3>1. IsFiniteSet(graph)
      BY RoundsAssumption
    <3>2. intra \subseteq graph
      OBVIOUS
    <3> QED
      BY <3>1, <3>2, FS_Subset
  <2>2. [e \in intra |-> dep(e)] \in Surjection(intra, of)
    BY DEF Surjection
  <2> HIDE DEF of, intra
  <2> QED
    BY <2>1, <2>2, FS_Surjection
<1>3. ASSUME NEW d \in of
      PROVE  d \in [src : Nat, dst : Nat, cap : Nat \ {0}] /\ d.dst > d.src
  <2>1. PICK e \in intra : d = dep(e)
    OBVIOUS
  <2>2. /\ e.from[2] \in Nat /\ e.to[2] \in Nat /\ e.cap \in Nat \ {0}
        /\ e.from[2] < e.to[2]
    BY EdgeFacts, BlockFacts
  <2> QED
    BY <2>1, <2>2
<1> QED
  BY <1>1, <1>2, <1>3 DEF IsChain, CanExtend

LEMMA FactorFacts ==
  ASSUME graph \in Graphs
  PROVE  /\ F \in [req : Nat \ {0}, x : Nat \ {0}] /\ F.req \in Nat \ {0} /\ F.x \in Nat \ {0}
         /\ F.req >= F.x
         /\ \A e \in graph : e.from[1] = V /\ e.to[1] = V =>
              e.cap * F.req >= (e.to[2] - e.from[2] + 1) * F.x
<1>1. /\ F \in [req : Nat \ {0}, x : Nat \ {0}] /\ F.req >= F.x
      /\ \A d \in IntraOf(graph) : GreaterEq(F, Factor(d))
  BY IntraChain, CalculateFactorFacts DEF F
<1>2. F.req \in Nat \ {0} /\ F.x \in Nat \ {0}
  BY <1>1
<1>3. ASSUME NEW e \in graph, e.from[1] = V, e.to[1] = V
      PROVE  e.cap * F.req >= (e.to[2] - e.from[2] + 1) * F.x
  <2> DEFINE d == [src |-> e.from[2], dst |-> e.to[2], cap |-> e.cap]
  <2>1. d \in IntraOf(graph)
    BY <1>3 DEF IntraOf
  <2>2. F.req * Factor(d).x >= Factor(d).req * F.x
    BY <1>1, <2>1 DEF GreaterEq
  <2>3. Factor(d).x = e.cap /\ Factor(d).req = e.to[2] - e.from[2] + 1
    BY DEF Factor
  <2>4. e.cap \in Int
    BY EdgeFacts
  <2>5. F.req * e.cap = e.cap * F.req
    BY <1>2, <2>4
  <2> QED
    BY <2>2, <2>3, <2>5
<1> QED
  BY <1>1, <1>2, <1>3

LEMMA TimesGrows ==
  ASSUME NEW j \in Nat, NEW x \in Nat, NEW y \in Nat, y >= x
  PROVE  j * y >= j * x
OBVIOUS

(* Iterations begin at least a round apart, and those that the buffers of  *)
(* an intra-core dependency lie between, as many as its blocks take.       *)
LEMMA Begins ==
  ASSUME graph \in Graphs, NEW k \in Int
  PROVE  /\ Begin(F, k) \in Int
         /\ \A j \in Nat : Begin(F, k - j) \in Int /\ Begin(F, k - j) + j <= Begin(F, k)
         /\ \A e \in graph : e.from[1] = V /\ e.to[1] = V =>
              Begin(F, k - e.cap) + (e.to[2] - e.from[2] + 1) <= Begin(F, k)
<1>0. F \in [req : Nat \ {0}, x : Nat \ {0}]
  BY FactorFacts
<1>1. ASSUME NEW j \in Nat, NEW m \in Int, j * F.req >= m * F.x
      PROVE  Begin(F, k - j) \in Int /\ Begin(F, k) \in Int
             /\ Begin(F, k - j) + m <= Begin(F, k)
  <2> DEFINE i == k - j
  <2>1. i \in Int /\ i + j = k
    OBVIOUS
  <2> HIDE DEF i
  <2>2. Begin(F, i) \in Int /\ Begin(F, i + j) \in Int /\ Begin(F, i) + m <= Begin(F, i + j)
    BY <1>0, <1>1, <2>1, BeginsApart
  <2> QED
    BY <2>1, <2>2 DEF i
<1>2. ASSUME NEW j \in Nat
      PROVE  Begin(F, k - j) \in Int /\ Begin(F, k) \in Int
             /\ Begin(F, k - j) + j <= Begin(F, k)
  <2>1. F.req \in Nat /\ F.x \in Nat /\ F.req >= F.x
    BY FactorFacts
  <2>2. j * F.req >= j * F.x /\ j \in Int
    BY <2>1, TimesGrows
  <2> QED
    BY <1>1, <2>2
<1>3. ASSUME NEW e \in graph, e.from[1] = V, e.to[1] = V
      PROVE  Begin(F, k - e.cap) + (e.to[2] - e.from[2] + 1) <= Begin(F, k)
  <2> DEFINE m == e.to[2] - e.from[2] + 1
             j == e.cap
  <2>1. j \in Nat /\ m \in Int
    BY EdgeFacts, BlockFacts
  <2>2. j * F.req >= m * F.x
    BY <1>3, FactorFacts
  <2> HIDE DEF m, j
  <2>3. Begin(F, k - j) + m <= Begin(F, k)
    BY <1>1, <2>1, <2>2
  <2> QED
    BY <2>3 DEF m, j
<1> QED
  BY <1>2, <1>3

LEMMA BeginIsNat ==
  ASSUME graph \in Graphs, NEW k \in Nat
  PROVE  Begin(F, k) \in Nat
<1>1. Begin(F, 0) = 0
  <2>1. F.x \in Nat \ {0} /\ F.req \in Nat \ {0}
    BY FactorFacts
  <2>2. 0 * F.req = 0 /\ 0 \div F.x = 0
    BY <2>1
  <2> QED
    BY <2>2 DEF Begin
<1>2. Begin(F, k) \in Int /\ Begin(F, k - k) + k <= Begin(F, k)
  BY Begins
<1>3. k - k = 0
  OBVIOUS
<1> QED
  BY <1>1, <1>2, <1>3

-----------------------------------------------------------------------------
(* One turn.                                                               *)

LEMMA SuccessorFacts ==
  ASSUME at \in Blocks
  PROVE  /\ Successor(at) \in Blocks
         /\ at = <<V, VectorBlocks>> => Successor(at) = <<C, 1>>
         /\ at # <<V, VectorBlocks>> =>
              \A b \in Blocks : Ahead(b, Successor(at)) <=> Ahead(b, at) \/ b = at
<1> USE BlockFacts
<1> DEFINE i == at[2]
<1>1. at = <<at[1], i>> /\ i \in Nat \ {0}
  OBVIOUS
<1>2. CASE at[1] = C /\ i < CubeBlocks
  <2>1. Successor(at) = <<C, i + 1>>
    BY <1>2 DEF Successor
  <2>2. <<C, i + 1>> \in Blocks
    <3>1. i + 1 \in Nat \ {0} /\ i + 1 <= CubeBlocks
      BY <1>1, <1>2, BlockFacts
    <3> QED
      BY <3>1, CubeBlock
  <2>3. \A b \in Blocks : Ahead(b, <<C, i + 1>>) <=> Ahead(b, at) \/ b = at
    BY <1>1, <1>2 DEF Ahead
  <2>4. at # <<V, VectorBlocks>>
    BY <1>2
  <2> QED
    BY <2>1, <2>2, <2>3, <2>4
<1>3. CASE at[1] = C /\ ~(i < CubeBlocks)
  <2>1. at = <<C, CubeBlocks>> /\ i = CubeBlocks
    BY <1>1, <1>3
  <2>2. Successor(at) = <<V, 1>>
    BY <1>3, <2>1 DEF Successor
  <2>3. <<V, 1>> \in Blocks
    <3>1. 1 \in Nat \ {0} /\ 1 <= VectorBlocks
      BY BlockFacts
    <3> QED
      BY <3>1, VectorBlock
  <2>4. \A b \in Blocks : Ahead(b, <<V, 1>>) <=> Ahead(b, at) \/ b = at
    BY <1>1, <1>3, <2>1 DEF Ahead
  <2>5. at # <<V, VectorBlocks>>
    BY <1>3
  <2> QED
    BY <2>2, <2>3, <2>4, <2>5
<1>4. CASE at[1] = V /\ i < VectorBlocks
  <2>1. Successor(at) = <<V, i + 1>>
    BY <1>4 DEF Successor
  <2>2. <<V, i + 1>> \in Blocks
    <3>1. i + 1 \in Nat \ {0} /\ i + 1 <= VectorBlocks
      BY <1>1, <1>4, BlockFacts
    <3> QED
      BY <3>1, VectorBlock
  <2>3. \A b \in Blocks : Ahead(b, <<V, i + 1>>) <=> Ahead(b, at) \/ b = at
    BY <1>1, <1>4 DEF Ahead
  <2>4. at # <<V, VectorBlocks>>
    BY <1>4
  <2> QED
    BY <2>1, <2>2, <2>3, <2>4
<1>5. CASE at[1] = V /\ ~(i < VectorBlocks)
  <2>1. at = <<V, VectorBlocks>>
    BY <1>1, <1>5
  <2>2. Successor(at) = <<C, 1>>
    BY <1>5, <2>1 DEF Successor
  <2>3. <<C, 1>> \in Blocks
    <3>1. 1 \in Nat \ {0} /\ 1 <= CubeBlocks
      BY BlockFacts
    <3> QED
      BY <3>1, CubeBlock
  <2> QED
    BY <2>1, <2>2, <2>3
<1> QED
  BY <1>2, <1>3, <1>4, <1>5

LEMMA DueMoves ==
  ASSUME RoundsType, Turn, NEW b \in Blocks
  PROVE  /\ Due(b) \in Nat /\ Due(b) >= round
         /\ Due(b)' = Due(b) + One(b = at)
         /\ Due(at) = round
<1> USE BlockFacts DEF RoundsType, One
<1>1. ~Ahead(at, at) /\ at' = Successor(at)
  BY DEF Ahead, Turn
<1>2. CASE at = <<V, VectorBlocks>>
  <2>1. at' = <<C, 1>> /\ round' = round + 1
    BY <1>1, <1>2, SuccessorFacts DEF Turn
  <2>2. ~Ahead(b, <<C, 1>>) /\ (Ahead(b, at) <=> b # at)
    BY <1>2 DEF Ahead
  <2> QED
    BY <1>1, <2>1, <2>2 DEF Due
<1>3. CASE at # <<V, VectorBlocks>>
  <2>1. round' = round /\ (Ahead(b, at') <=> Ahead(b, at) \/ b = at)
    BY <1>1, <1>3, SuccessorFacts DEF Turn
  <2> QED
    BY <1>1, <2>1 DEF Due
<1> QED
  BY <1>2, <1>3

(* What a block owes at its turn: all iterations before k.                 *)
LEMMA KeptSoFar ==
  ASSUME RoundsType, NEW start \in Starts, Kept(start), NEW b \in Blocks,
         NEW k \in Nat, k < n, Due(b) \in Nat, start[b] + Begin(F, k) <= Due(b)
  PROVE  done[b] >= k
<1>1. done[b] \in Nat /\ n \in Nat /\ graph \in Graphs /\ start[b] \in Nat
  BY BlockFacts DEF RoundsType, Starts
<1>2. CASE k = 0
  BY <1>1, <1>2
<1>3. CASE k # 0
  <2> DEFINE i == k - 1
  <2>1. i \in Nat /\ i < n
    BY <1>1, <1>3
  <2>2. Begin(F, i) \in Int /\ Begin(F, k) \in Int /\ Begin(F, i) + 1 <= Begin(F, k)
    <3>1. k \in Int /\ 1 \in Nat
      OBVIOUS
    <3>2. Begin(F, k - 1) \in Int /\ Begin(F, k) \in Int /\ Begin(F, k - 1) + 1 <= Begin(F, k)
      BY <1>1, <3>1, Begins
    <3> QED
      BY <3>2
  <2>3. start[b] + Begin(F, i) < Due(b)
    BY <1>1, <2>2
  <2> HIDE DEF i
  <2>4. done[b] > i
    BY <2>1, <2>3 DEF Kept
  <2> QED
    BY <1>1, <2>1, <2>4 DEF i
<1> QED
  BY <1>2, <1>3

(* At its turn in the round of its k-th iteration, a block that has run    *)
(* all iterations before k may run.                                        *)
LEMMA Ready ==
  ASSUME RoundsType, NEW start \in Starts, IsSchedule(graph, start, C), Kept(start), Turn,
         NEW k \in Nat, k < n, start[at] + Begin(F, k) = round, done[at] = k
  PROVE  Condition(at)
<1>1. /\ graph \in Graphs /\ n \in Nat /\ round \in Nat /\ at \in Blocks
      /\ done \in [Blocks -> Nat]
  BY DEF RoundsType
<1>2. \A b \in Blocks : start[b] \in Nat /\ Due(b) \in Nat /\ Due(b) >= round
  BY BlockFacts, DueMoves DEF Starts
<1>3. \A b \in Blocks : Ahead(b, at) => Due(b) = round + 1
  BY DEF Due, One
<1>4. /\ Begin(F, k) \in Int
      /\ \A j \in Nat : Begin(F, k - j) \in Int /\ Begin(F, k - j) + j <= Begin(F, k)
      /\ \A e \in graph : e.from[1] = V /\ e.to[1] = V =>
           Begin(F, k - e.cap) + (e.to[2] - e.from[2] + 1) <= Begin(F, k)
  <2>1. k \in Int
    OBVIOUS
  <2> QED
    BY <1>1, <2>1, Begins
<1>5. ASSUME NEW e \in graph, e.to = at
      PROVE  done[e.from] - done[at] > 0
  <2>1. e.from \in Blocks /\ done[e.from] \in Nat
    BY <1>1, EdgeFacts
  <2>2. start[e.to] >= start[e.from] + Latency(e, C)
    BY DEF IsSchedule
  <2>3. start[e.from] + Begin(F, k) < Due(e.from)
    <3>1. CASE e.from[1] = V /\ e.to[1] = C
      <4>1. start[at] >= start[e.from] + 1
        BY <1>5, <2>2, <3>1, BlockFacts DEF Latency
      <4> QED
        BY <1>1, <1>2, <1>4, <2>1, <4>1
    <3>2. CASE ~(e.from[1] = V /\ e.to[1] = C)
      <4>1. start[at] >= start[e.from]
        BY <1>2, <1>5, <2>1, <2>2, <3>2, BlockFacts DEF Latency
      <4>2. Ahead(e.from, at)
        BY <1>1, <1>5, <3>2, EdgeFacts, BlockFacts DEF Ahead
      <4>3. Due(e.from) = round + 1
        BY <1>3, <2>1, <4>2
      <4> QED
        BY <1>1, <1>2, <1>4, <2>1, <4>1, <4>3
    <3> QED
      BY <3>1, <3>2
  <2>4. done[e.from] > k
    BY <2>1, <2>3 DEF Kept
  <2> QED
    BY <2>1, <2>4
<1>6. ASSUME NEW e \in graph, e.from = at
      PROVE  done[at] - done[e.to] < e.cap
  <2>1. e.to \in Blocks /\ done[e.to] \in Nat /\ e.cap \in Nat \ {0}
    BY <1>1, EdgeFacts
  <2>2. start[e.to] - start[e.from] <= Reach(e, C)
    BY DEF IsSchedule
  <2>3. CASE k < e.cap
    BY <2>1, <2>3
  <2>4. CASE k >= e.cap
    <3> DEFINE i == k - e.cap
    <3>1. i \in Nat /\ i < n
      BY <1>1, <2>1, <2>4
    <3>2. Begin(F, i) \in Int /\ Begin(F, i) + e.cap <= Begin(F, k)
      BY <1>4, <2>1
    <3>3. e.from[1] = V /\ e.to[1] = V =>
            Begin(F, i) + (e.to[2] - e.from[2] + 1) <= Begin(F, k)
      BY <1>4
    <3> HIDE DEF i
    <3>4. start[e.to] + Begin(F, i) < Due(e.to)
      <4>1. start[at] \in Nat /\ start[e.to] \in Nat /\ Due(e.to) \in Nat /\ Due(e.to) >= round
        BY <1>1, <1>2, <2>1
      <4>2. CASE e.from[1] = V /\ e.to[1] = V
        <5>1. e.to[2] \in Nat /\ e.from[2] \in Nat
          BY <1>1, EdgeFacts, BlockFacts
        <5>2. start[e.to] - start[at] <= e.to[2] - e.from[2]
          BY <1>6, <2>2, <4>2, BlockFacts DEF Reach
        <5> QED
          BY <1>1, <1>4, <3>2, <3>3, <4>1, <4>2, <5>1, <5>2
      <4>3. CASE e.from[1] = V /\ e.to[1] = C
        <5>1. start[e.to] - start[at] <= e.cap
          BY <1>6, <2>2, <4>3, BlockFacts DEF Reach
        <5>2. Ahead(e.to, at)
          BY <1>6, <4>3 DEF Ahead
        <5>3. Due(e.to) = round + 1
          BY <1>3, <2>1, <5>2
        <5> QED
          BY <1>1, <1>4, <2>1, <3>2, <4>1, <5>1, <5>3
      <4>4. CASE e.from[1] # V
        <5>1. start[e.to] - start[at] <= e.cap - 1
          <6>1. e.from[1] = C /\ e.to[1] = V /\ C # V
            BY <1>1, <4>4, EdgeFacts, BlockFacts
          <6> QED
            BY <1>6, <2>2, <6>1 DEF Reach
        <5> QED
          BY <1>1, <1>4, <2>1, <3>2, <4>1, <5>1
      <4> QED
        BY <1>1, <2>1, <4>2, <4>3, <4>4, BlockFacts
    <3>5. done[e.to] > i
      BY <2>1, <3>1, <3>4 DEF Kept
    <3> QED
      BY <1>1, <2>1, <3>5 DEF i
  <2> QED
    BY <2>1, <2>3, <2>4
<1> QED
  BY <1>1, <1>5, <1>6 DEF Condition

LEMMA KeptTurn ==
  ASSUME RoundsType, NEW start \in Starts, IsSchedule(graph, start, C), Kept(start), Turn
  PROVE  Kept(start)'
<1>1. /\ graph \in Graphs /\ n \in Nat /\ round \in Nat /\ at \in Blocks
      /\ done \in [Blocks -> Nat] /\ graph' = graph /\ n' = n
  BY DEF RoundsType, Turn
<1> SUFFICES ASSUME NEW b \in Blocks, NEW k \in Nat, k < n,
                    start[b] + Begin(F, k) < Due(b)'
             PROVE  done'[b] > k
  BY <1>1 DEF Kept, F
<1>2. Due(b) \in Nat /\ Due(b)' = Due(b) + One(b = at) /\ Due(at) = round
  BY DueMoves
<1>3. done[b] \in Nat /\ done'[b] = IF b = at /\ Condition(at) THEN done[b] + 1 ELSE done[b]
  BY <1>1 DEF Turn
<1>4. start[b] \in Nat /\ Begin(F, k) \in Nat
  BY <1>1, BlockFacts, BeginIsNat DEF Starts
<1>5. CASE start[b] + Begin(F, k) < Due(b)
  <2>1. done[b] > k
    BY <1>5 DEF Kept
  <2> QED
    BY <1>3, <2>1
<1>6. CASE ~(start[b] + Begin(F, k) < Due(b))
  <2>1. b = at /\ start[b] + Begin(F, k) = Due(b)
    BY <1>2, <1>4, <1>6 DEF One
  <2>2. done[b] >= k
    BY <1>2, <2>1, KeptSoFar
  <2>3. CASE Condition(at)
    BY <1>3, <2>1, <2>2, <2>3
  <2>4. CASE ~Condition(at)
    <3>1. done[b] # k
      BY <1>2, <2>1, <2>4, Ready
    <3> QED
      BY <1>3, <2>2, <2>4, <3>1
  <2> QED
    BY <2>3, <2>4
<1> QED
  BY <1>5, <1>6

-----------------------------------------------------------------------------
(* The inductive invariant.                                                *)

LEMMA RoundsInit == Init => RoundsInv
<1> SUFFICES ASSUME Init PROVE RoundsInv
  OBVIOUS
<1>1. RoundsType
  <2>1. <<C, 1>> \in Blocks
    <3>1. 1 \in Nat \ {0} /\ 1 <= CubeBlocks
      BY BlockFacts
    <3> QED
      BY <3>1, CubeBlock
  <2>2. n \in Nat
    BY RoundsAssumption DEF Init
  <2> QED
    BY <2>1, <2>2 DEF Init, RoundsType
<1>2. ASSUME NEW start \in Starts
      PROVE  Kept(start)
  <2> SUFFICES ASSUME NEW b \in Blocks, NEW k \in Nat
               PROVE  ~(start[b] + Begin(F, k) < Due(b))
    BY DEF Kept
  <2>1. start[b] \in Nat /\ Begin(F, k) \in Nat
    BY <1>1, BlockFacts, BeginIsNat DEF Starts, RoundsType
  <2>2. Due(b) = 0
    <3>1. round = 0 /\ at = <<C, 1>>
      BY DEF Init
    <3>2. ~Ahead(b, <<C, 1>>)
      BY BlockFacts DEF Ahead
    <3> QED
      BY <3>1, <3>2 DEF Due, One
  <2> QED
    BY <2>1, <2>2
<1> QED
  BY <1>1, <1>2 DEF RoundsInv

LEMMA RoundsNext == RoundsInv /\ [Next]_vars => RoundsInv'
<1> SUFFICES ASSUME RoundsInv, [Next]_vars PROVE RoundsInv'
  OBVIOUS
<1>1. RoundsType
  BY DEF RoundsInv
<1>2. CASE UNCHANGED vars
  BY <1>2 DEF vars, RoundsInv, RoundsType, Kept, Due, F
<1>3. CASE Turn
  <2>1. RoundsType'
    <3>1. at' \in Blocks
      BY <1>1, <1>3, SuccessorFacts DEF RoundsType, Turn
    <3>2. graph' = graph /\ n' = n /\ rounds' = rounds /\ round' \in Nat
      BY <1>1, <1>3 DEF RoundsType, Turn
    <3>3. done' = [done EXCEPT ![at] = IF Condition(at) THEN done[at] + 1 ELSE done[at]]
      BY <1>3 DEF Turn
    <3>4. Condition(at) => done[at] < n
      BY DEF Condition
    <3>5. done' \in [Blocks -> Nat] /\ \A b \in Blocks : done'[b] <= n
      BY <1>1, <3>3, <3>4 DEF RoundsType
    <3> QED
      BY <1>1, <3>1, <3>2, <3>5 DEF RoundsType
  <2>2. ASSUME NEW start \in Starts, IsSchedule(graph, start, C)'
        PROVE  Kept(start)'
    <3>1. IsSchedule(graph, start, C)
      BY <1>3, <2>2 DEF Turn
    <3>2. Kept(start)
      BY <3>1 DEF RoundsInv
    <3> QED
      BY <1>1, <1>3, <3>1, <3>2, KeptTurn
  <2> QED
    BY <2>1, <2>2 DEF RoundsInv
<1> QED
  BY <1>2, <1>3 DEF Next, Stop

(* The last iteration begins IfCount rounds before the end.                *)
LEMMA LastBegins ==
  ASSUME graph \in Graphs, n \in Nat \ {0}, NoOverflow(graph, n)
  PROVE  /\ Begin(F, n - 1) \in Int /\ Rounds(graph, n) \in Nat
         /\ IfCount + Begin(F, n - 1) < Rounds(graph, n)
<1> DEFINE p == Begin(F, n - 1)
           c == CeilDivUI(n * F.req, F.x)
           total == c + IfCount
<1>1. /\ F \in [req : Nat \ {0}, x : Nat \ {0}] /\ F.req >= F.x
      /\ F.req \in Nat \ {0} /\ F.x \in Nat \ {0} /\ IfCount \in Nat \ {0}
  BY FactorFacts, BlockFacts
<1>2. p \in Int /\ p + 1 <= c
  BY <1>1, BeginsInTime
<1>3. c \in Nat /\ n <= c
  <2>1. n * F.req \in Nat
    BY <1>1
  <2>2. c \in Nat /\ n * F.req <= F.x * c
    BY <1>1, <2>1, CeilDivUIFacts
  <2>3. n * F.req >= n * F.x /\ n * F.x = F.x * n
    <3>1. F.req \in Nat /\ F.x \in Nat /\ n \in Nat
      BY <1>1
    <3>2. n * F.x = F.x * n
      BY <3>1
    <3> QED
      BY <1>1, <3>1, <3>2, TimesGrows
  <2> HIDE DEF c
  <2>4. F.x * n <= F.x * c
    <3>1. F.x * n \in Nat /\ F.x * c \in Nat /\ n * F.req \in Nat
      BY <1>1, <2>1, <2>2
    <3> QED
      BY <2>2, <2>3, <3>1
  <2> QED
    BY <1>1, <2>2, <2>4
<1>4. TripCount(0, n, 1) = n
  <2>1. TripCount(0, 0 + 1 * n, 1) = n
    BY TripCountFacts
  <2> QED
    BY <2>1
<1>5. /\ TripCount(0, n, 1) * F.req < 2 ^ Width
      /\ total = CeilDivUI(TripCount(0, n, 1) * F.req, F.x) + IfCount
      /\ 1 * total < 2 ^ Width /\ 0 + 1 * total < 2 ^ (Width - 1)
  BY <1>4 DEF NoOverflow, RoundsFit, F
<1> HIDE DEF p, c
<1>6. total \in Nat \ {0} /\ n <= total /\ 1 <= total
  BY <1>1, <1>3
<1> HIDE DEF total
<1>7. 0 \in MachineInt /\ n \in MachineInt /\ 1 \in MachineInt \cap (Nat \ {0})
  <2> DEFINE h == 2 ^ (Width - 1)
  <2>1. h \in Nat \ {0} /\ total < h
    BY <1>5, <1>6, PowerFacts
  <2>2. MachineInt = -h .. h - 1
    BY DEF MachineInt
  <2> HIDE DEF h
  <2> QED
    BY <1>6, <2>1, <2>2
<1>8. Rounds(graph, n) = total
  <2>1. 0 <= n /\ IfCount \in Nat
    BY <1>1
  <2>2. NewTripCount(0, n, 1, IfCount, F) = total
    BY <1>1, <1>5, <1>7, <2>1, RoundsWithoutOverflow
  <2> QED
    BY <2>2 DEF Rounds, F
<1>9. IfCount + p < total
  BY <1>1, <1>2, <1>3 DEF total
<1> QED
  BY <1>2, <1>6, <1>8, <1>9 DEF p

LEMMA RoundsSafe == RoundsInv => SteadyGraphsComplete
<1> SUFFICES ASSUME RoundsInv, round = rounds, Steady(graph), NoOverflow(graph, n),
                    NEW b \in Blocks
             PROVE  done[b] = n
  BY DEF SteadyGraphsComplete, AllIterationsRun
<1>1. /\ graph \in Graphs /\ n \in Nat /\ rounds = Rounds(graph, n) /\ round \in Nat
      /\ done[b] \in Nat /\ done[b] <= n
  BY DEF RoundsInv, RoundsType
<1>2. CASE n = 0
  BY <1>1, <1>2
<1>3. CASE n # 0
  <2>1. PICK start \in Starts : IsSchedule(graph, start, C)
    BY DEF Steady, Starts
  <2>2. Kept(start)
    BY <2>1 DEF RoundsInv
  <2> DEFINE k == n - 1
  <2>3. k \in Nat /\ k < n /\ k + 1 = n
    BY <1>1, <1>3
  <2>4. Begin(F, k) \in Int /\ IfCount + Begin(F, k) < round
    BY <1>1, <1>3, LastBegins
  <2> HIDE DEF k
  <2>5. start[b] \in Nat /\ start[b] <= IfCount /\ IfCount \in Nat
    BY BlockFacts DEF Starts
  <2>6. start[b] + Begin(F, k) < Due(b)
    BY <1>1, <2>4, <2>5 DEF Due, One
  <2>7. done[b] > k
    BY <2>2, <2>3, <2>6 DEF Kept
  <2> QED
    BY <1>1, <2>3, <2>7
<1> QED
  BY <1>2, <1>3

(* Whatever the dependencies, the numbers of blocks and buffers, the loop  *)
(* and the width of its variable: if the buffers allow a steady schedule   *)
(* and nothing overflows, the computed rounds run every iteration.         *)
THEOREM SteadyGraphsAreComplete == Spec => []SteadyGraphsComplete
BY RoundsInit, RoundsNext, RoundsSafe, PTL DEF Spec

=============================================================================
