----------------------------- MODULE SSBuffer -----------------------------
(***************************************************************************)
(* The program AddControlFlowCondition makes of a main loop that is split  *)
(* between a cube core and its vector sub-blocks.                          *)
(*                                                                         *)
(* Every core goes round its own copy of the loop.  The loop body is a     *)
(* sequence of blocks, each under a condition: its input buffers hold      *)
(* data, its output buffers have room and its own counter is below the     *)
(* original upper bound.  Buffers between cores are counted in the         *)
(* SSBuffer, a shared memory with one copy per vector sub-block; buffers   *)
(* between two blocks of a vector core are counted in loop-carried         *)
(* variables.  The counts are read and written with plain loads and        *)
(* stores: only flag 15, set and awaited once per round, keeps the cube    *)
(* and the vectors from using the SSBuffer at the same time.               *)
(*                                                                         *)
(* The Passes executions of the loop are those of an outer loop inside the *)
(* same scope: counters and loop-carried variables start anew in each, the *)
(* SSBuffer does not.                                                      *)
(***************************************************************************)
EXTENDS LoopExtension, FiniteSets

CONSTANTS
  Cube,            \* the cube core
  Sub,             \* the vector sub-blocks (two per cube core)
  CubeBlocks,      \* number of blocks of the cube loop
  VectorBlocks,    \* number of blocks of the vector loop
  Cross,           \* cross-core dependencies [toVector, src, dst, cap]
  Intra,           \* dependencies between vector blocks [src, dst, cap]
  Lb, Ub, Step,    \* the original loop
  Passes           \* executions of the main loop in one kernel

Core == {Cube} \cup Sub

NumBlocks(c) == IF c = Cube THEN CubeBlocks ELSE VectorBlocks

ASSUME CoreAssumption == Cube \notin Sub /\ IsFiniteSet(Sub) /\ Sub # {}

ASSUME BlockAssumption ==
  CubeBlocks \in Nat \ {0} /\ VectorBlocks \in Nat \ {0}

ASSUME CrossAssumption ==
  /\ Cross \subseteq [toVector : BOOLEAN, src : Nat \ {0},
                      dst : Nat \ {0}, cap : {1, 2}]
  /\ \A d \in Cross : IF d.toVector
                      THEN d.src <= CubeBlocks /\ d.dst <= VectorBlocks
                      ELSE d.src <= VectorBlocks /\ d.dst <= CubeBlocks

ASSUME IntraAssumption ==
  /\ Intra \subseteq [src : 1 .. VectorBlocks, dst : 1 .. VectorBlocks,
                      cap : Nat \ {0}]
  /\ IsFiniteSet(Intra) /\ CanExtend(Intra)

ASSUME LoopAssumption ==
  /\ Lb \in MachineInt /\ Ub \in MachineInt
  /\ Step \in MachineInt \cap (Nat \ {0})
  /\ Passes \in Nat \ {0}

VARIABLES
  pc,        \* pc[c]: where core c is
  pass,      \* pass[c]: executions of the main loop c has finished
  round,     \* round[c]: rounds of the current execution c has finished
  blk,       \* blk[c]: the block c is at
  counter,   \* counter[c][b]: block b's own induction variable
  var,       \* var[s][d]: loop-carried count of intra dependency d
  stat,      \* stat[d][s]: SSBuffer word of dependency d, copy of s
  held,      \* held[c][d][s]: the value c loaded from that word
  toCube,    \* toCube[s]: flag 15 set by s, not yet consumed by the cube
  toVector,  \* toVector[s]: flag 15 set by the cube, not yet consumed by s
  slot,      \* slot[d][s][i]: execution that wrote buffer i of d for s
  islot,     \* islot[d][s][i]: the same for an intra dependency
  runs       \* runs[c][b]: executions of block b by c, over all passes

coreVars == <<pc, pass, round, blk>>
flagVars == <<toCube, toVector>>
dataVars == <<counter, var, stat, held, slot, islot, runs>>
vars == <<pc, pass, round, blk, counter, var, stat, held, toCube, toVector,
          slot, islot, runs>>

-----------------------------------------------------------------------------
(* The compiled program.                                                   *)

(* Both loops of one main_loop id make the same number of rounds.          *)
IfCount == IF CubeBlocks > VectorBlocks THEN CubeBlocks ELSE VectorBlocks

(* Mutant: the rounds a value needs to pass through the blocks are lost.   *)
RoundsWithoutIfCount == NewTripCount(Lb, Ub, Step, 0, CalculateFactor(Intra))

Rounds == NewTripCount(Lb, Ub, Step, IfCount, CalculateFactor(Intra))

(* The SSBuffer copies a core uses: the cube both, a vector its own.       *)
View(c) == IF c = Cube THEN Sub ELSE {c}

Produces(c, d) == d.toVector <=> c = Cube

Inputs(c, b)  == {d \in Cross : ~Produces(c, d) /\ d.dst = b}
Outputs(c, b) == {d \in Cross : Produces(c, d) /\ d.src = b}

IntraInputs(c, b)  == {d \in Intra : c # Cube /\ d.dst = b}
IntraOutputs(c, b) == {d \in Intra : c # Cube /\ d.src = b}

CrossCondition(c, b) ==
  \A s \in View(c) :
    /\ \A d \in Inputs(c, b)  : stat[d][s] > 0
    /\ \A d \in Outputs(c, b) : stat[d][s] < d.cap

(* Mutant: the same for the buffers of a vector core.                      *)
IntraConditionAtMost(c, b) ==
  /\ \A d \in IntraInputs(c, b)  : var[c][d] > 0
  /\ \A d \in IntraOutputs(c, b) : var[c][d] <= d.cap

IntraCondition(c, b) ==
  /\ \A d \in IntraInputs(c, b)  : var[c][d] > 0
  /\ \A d \in IntraOutputs(c, b) : var[c][d] < d.cap

(* Mutant: a block is not stopped at the original upper bound.             *)
ConditionWithoutCounter(c, b) == CrossCondition(c, b) /\ IntraCondition(c, b)

Condition(c, b) ==
  CrossCondition(c, b) /\ IntraCondition(c, b) /\ counter[c][b] < Ub

(* arith.divsi: the quotient is rounded towards zero.                      *)
DivSI(a, b) == IF a < 0 THEN -((-a) \div b) ELSE a \div b

(* Mutant: the loop's induction variable in place of the block's counter.  *)
CrossIndexByRound(c, b, d) == IF d.cap = 1 THEN 0 ELSE round[c] % 2

(* The buffer of a cross-core dependency alternates with the iteration.    *)
CrossIndex(c, b, d) ==
  IF d.cap = 1 \/ DivSI(counter[c][b], Step) % 2 = 0 THEN 0 ELSE 1

(* Mutant: every iteration uses the first buffer.                          *)
IntraIndexFixed(c, b, d) == 0

(* The buffer of an intra-core dependency: the iteration modulo the count. *)
IntraIndex(c, b, d) == ((counter[c][b] - Lb) \div Step) % d.cap

-----------------------------------------------------------------------------

Init ==
  /\ pc = [c \in Core |-> "zero"]
  /\ pass = [c \in Core |-> 0]
  /\ round = [c \in Core |-> 0]
  /\ blk = [c \in Core |-> 1]
  /\ counter = [c \in Core |-> [b \in 1 .. NumBlocks(c) |-> Lb]]
  /\ var = [s \in Sub |-> [d \in Intra |-> 0]]
  /\ stat \in [Cross -> [Sub -> {0, 1}]]
  /\ held = [c \in Core |-> [d \in Cross |-> [s \in Sub |-> 0]]]
  /\ toCube = [s \in Sub |-> 0]
  /\ toVector = [s \in Sub |-> 0]
  /\ slot = [d \in Cross |-> [s \in Sub |-> [i \in 0 .. d.cap - 1 |-> 0]]]
  /\ islot = [d \in Intra |-> [s \in Sub |-> [i \in 0 .. d.cap - 1 |-> 0]]]
  /\ runs = [c \in Core |-> [b \in 1 .. NumBlocks(c) |-> 0]]

(* What follows the loop: the cube waits for the vectors once more.        *)
AfterLoop(c) == IF c = Cube THEN "close" ELSE "done"

EnterLoop(c) == IF Rounds > 0 THEN "wait" ELSE AfterLoop(c)

(* Both words of every dependency are cleared ahead of the first scope, by *)
(* every core that runs the kernel.                                        *)
ZeroSSBuffer(c) ==
  /\ pc[c] = "zero"
  /\ stat' = [d \in Cross |-> [s \in Sub |-> 0]]
  /\ pc' = [pc EXCEPT ![c] = IF c = Cube THEN EnterLoop(c) ELSE "open"]
  /\ UNCHANGED <<pass, round, blk, counter, var, held, flagVars, slot, islot,
                 runs>>

(* Mutant: the set that opens a vector scope is missing.                   *)
OpenScopeWithoutSet(s) ==
  /\ pc[s] = "open"
  /\ pc' = [pc EXCEPT ![s] = EnterLoop(s)]
  /\ UNCHANGED <<pass, round, blk, dataVars, flagVars>>

(* A vector scope starts by setting flag 15 for the cube.                  *)
OpenScope(s) ==
  /\ pc[s] = "open"
  /\ toCube' = [toCube EXCEPT ![s] = @ + 1]
  /\ pc' = [pc EXCEPT ![s] = EnterLoop(s)]
  /\ UNCHANGED <<pass, round, blk, dataVars, toVector>>

(* Mutant: a flag is taken whether it is there or not.                     *)
TakeFlagsAtOnce(c) ==
  IF c = Cube
  THEN toCube' = [s \in Sub |-> toCube[s] - 1] /\ UNCHANGED toVector
  ELSE toVector' = [toVector EXCEPT ![c] = @ - 1] /\ UNCHANGED toCube

(* Mutant: the cube waits for one of the sub-blocks only.                  *)
TakeFlagsOfAny(c) ==
  IF c = Cube
  THEN /\ \E s \in Sub : toCube[s] > 0
       /\ toCube' = [s \in Sub |-> IF toCube[s] > 0 THEN toCube[s] - 1 ELSE 0]
       /\ UNCHANGED toVector
  ELSE /\ toVector[c] > 0
       /\ toVector' = [toVector EXCEPT ![c] = @ - 1]
       /\ UNCHANGED toCube

(* sync_block_wait on flag 15: the cube waits for every sub-block.         *)
TakeFlags(c) ==
  IF c = Cube
  THEN /\ \A s \in Sub : toCube[s] > 0
       /\ toCube' = [s \in Sub |-> toCube[s] - 1]
       /\ UNCHANGED toVector
  ELSE /\ toVector[c] > 0
       /\ toVector' = [toVector EXCEPT ![c] = @ - 1]
       /\ UNCHANGED toCube

(* sync_block_set on flag 15: the cube sets it for every sub-block.        *)
GiveFlags(c) ==
  IF c = Cube
  THEN /\ toVector' = [s \in Sub |-> toVector[s] + 1]
       /\ UNCHANGED toCube
  ELSE /\ toCube' = [toCube EXCEPT ![c] = @ + 1]
       /\ UNCHANGED toVector

Wait(c) ==
  /\ pc[c] = "wait"
  /\ TakeFlags(c)
  /\ pc' = [pc EXCEPT ![c] = "test"]
  /\ UNCHANGED <<pass, round, blk, dataVars>>

(* On to the next block, or to the end of the loop body.                   *)
Advance(c) ==
  IF blk[c] < NumBlocks(c)
  THEN /\ blk' = [blk EXCEPT ![c] = @ + 1]
       /\ pc' = [pc EXCEPT ![c] = "test"]
  ELSE /\ blk' = [blk EXCEPT ![c] = 1]
       /\ pc' = [pc EXCEPT ![c] = "set"]

(* scf.if: the condition is false, counters and counts are yielded as is.  *)
SkipBlock(c) ==
  /\ pc[c] = "test"
  /\ ~Condition(c, blk[c])
  /\ Advance(c)
  /\ UNCHANGED <<pass, round, dataVars, flagVars>>

EnterBlock(c) ==
  /\ pc[c] = "test"
  /\ Condition(c, blk[c])
  /\ pc' = [pc EXCEPT ![c] = "body"]
  /\ UNCHANGED <<pass, round, blk, dataVars, flagVars>>

(* The operations of the block: it fills its output buffers (what it reads *)
(* is the subject of FreshInput), then loads the words it will update.     *)
RunBody(c) ==
  LET b == blk[c]
      k == runs[c][b] + 1
  IN
  /\ pc[c] = "body"
  /\ slot' = [d \in Cross |-> [s \in Sub |->
                IF d \in Outputs(c, b) /\ s \in View(c)
                THEN [slot[d][s] EXCEPT ![CrossIndex(c, b, d)] = k]
                ELSE slot[d][s]]]
  /\ islot' = [d \in Intra |-> [s \in Sub |->
                IF d \in IntraOutputs(c, b) /\ s = c
                THEN [islot[d][s] EXCEPT ![IntraIndex(c, b, d)] = k]
                ELSE islot[d][s]]]
  /\ held' = [held EXCEPT ![c] = stat]
  /\ pc' = [pc EXCEPT ![c] = "publish"]
  /\ UNCHANGED <<pass, round, blk, counter, var, stat, flagVars, runs>>

(* The change a block makes to the count of a dependency.                  *)
Delta(ins, outs, d) ==
  (IF d \in outs THEN 1 ELSE 0) - (IF d \in ins THEN 1 ELSE 0)

(* The end of the then-region: the words are stored, the loop-carried      *)
(* counts and the block's counter take their new values.                   *)
Publish(c) ==
  LET b == blk[c]
      touched == Inputs(c, b) \cup Outputs(c, b)
  IN
  /\ pc[c] = "publish"
  /\ stat' = [d \in Cross |-> [s \in Sub |->
                IF d \in touched /\ s \in View(c)
                THEN held[c][d][s] + Delta(Inputs(c, b), Outputs(c, b), d)
                ELSE stat[d][s]]]
  /\ var' = IF c = Cube THEN var
            ELSE [var EXCEPT ![c] = [d \in Intra |->
                   var[c][d] + Delta(IntraInputs(c, b), IntraOutputs(c, b), d)]]
  /\ counter' = [counter EXCEPT ![c][b] = @ + Step]
  /\ runs' = [runs EXCEPT ![c][b] = @ + 1]
  /\ held' = [held EXCEPT ![c] = [d \in Cross |-> [s \in Sub |-> 0]]]
  /\ Advance(c)
  /\ UNCHANGED <<pass, round, flagVars, slot, islot>>

(* The end of a round that is not the last one.                            *)
NextRound(c) ==
  /\ pc[c] = "set"
  /\ round[c] + 1 < Rounds
  /\ GiveFlags(c)
  /\ round' = [round EXCEPT ![c] = @ + 1]
  /\ pc' = [pc EXCEPT ![c] = "wait"]
  /\ UNCHANGED <<pass, blk, dataVars>>

(* The end of the last round, and the start of the next execution of the   *)
(* loop, whose iteration arguments are initialised again.                  *)
EndPass(c) ==
  /\ pc[c] = "set"
  /\ round[c] + 1 >= Rounds
  /\ GiveFlags(c)
  /\ pass' = [pass EXCEPT ![c] = @ + 1]
  /\ round' = [round EXCEPT ![c] = 0]
  /\ counter' = [counter EXCEPT ![c] = [b \in 1 .. NumBlocks(c) |-> Lb]]
  /\ var' = IF c = Cube THEN var
            ELSE [var EXCEPT ![c] = [d \in Intra |-> 0]]
  /\ pc' = [pc EXCEPT ![c] =
              IF pass[c] + 1 < Passes THEN "wait" ELSE AfterLoop(c)]
  /\ UNCHANGED <<blk, stat, held, slot, islot, runs>>

(* Mutant: the wait that closes the cube scope is missing.                 *)
CloseScopeWithoutWait ==
  /\ pc[Cube] = "close"
  /\ pc' = [pc EXCEPT ![Cube] = "done"]
  /\ UNCHANGED <<pass, round, blk, dataVars, flagVars>>

(* The end of the cube scope.                                              *)
CloseScope ==
  /\ pc[Cube] = "close"
  /\ TakeFlags(Cube)
  /\ pc' = [pc EXCEPT ![Cube] = "done"]
  /\ UNCHANGED <<pass, round, blk, dataVars>>

CoreStep(c) ==
  \/ ZeroSSBuffer(c)
  \/ Wait(c)
  \/ SkipBlock(c)
  \/ EnterBlock(c)
  \/ RunBody(c)
  \/ Publish(c)
  \/ NextRound(c)
  \/ EndPass(c)

Terminated == \A c \in Core : pc[c] = "done"

Terminating == Terminated /\ UNCHANGED vars

Next ==
  \/ \E c \in Core : CoreStep(c)
  \/ \E s \in Sub : OpenScope(s)
  \/ CloseScope
  \/ Terminating

Fairness ==
  /\ \A c \in Core : WF_vars(CoreStep(c))
  /\ \A s \in Sub : WF_vars(OpenScope(s))
  /\ WF_vars(CloseScope)

Spec == Init /\ [][Next]_vars /\ Fairness

-----------------------------------------------------------------------------
(* Correctness.                                                            *)

States == {"zero", "open", "wait", "test", "body", "publish", "set", "close",
           "done"}

(* Every variable has its type; both flags are counters.                   *)
TypeOK ==
  /\ pc \in [Core -> States]
  /\ pass \in [Core -> Nat]
  /\ round \in [Core -> Nat]
  /\ blk \in [Core -> Nat \ {0}]
  /\ var \in [Sub -> [Intra -> Int]]
  /\ stat \in [Cross -> [Sub -> Int]]
  /\ held \in [Core -> [Cross -> [Sub -> Int]]]
  /\ toCube \in [Sub -> Nat]
  /\ toVector \in [Sub -> Nat]
  /\ DOMAIN counter = Core
  /\ DOMAIN runs = Core
  /\ \A c \in Core : /\ blk[c] <= NumBlocks(c)
                     /\ counter[c] \in [1 .. NumBlocks(c) -> Int]
                     /\ runs[c] \in [1 .. NumBlocks(c) -> Nat]

(* The pcs at which a core reads or writes the SSBuffer.                   *)
Using == {"test", "body", "publish"}

(* Plain loads and stores need it: while a core works on the SSBuffer no   *)
(* other core clears it, and the cube and a vector never use it together.  *)
ExclusiveAccess ==
  \A c, e \in Core :
    c # e /\ pc[c] \in Using =>
      /\ pc[e] # "zero"
      /\ (c = Cube \/ e = Cube) => pc[e] \notin Using

Producer(d, s) == runs[IF d.toVector THEN Cube ELSE s][d.src]
Consumer(d, s) == runs[IF d.toVector THEN s ELSE Cube][d.dst]

Zeroed == \E c \in Core : pc[c] # "zero"

(* From the moment it is cleared, a word of the SSBuffer is the number of  *)
(* items in the buffers it stands for, and these are never over-full: no   *)
(* update of the unlocked counts is lost, on either copy, in any pass.     *)
CountsAreOccupancy ==
  Zeroed => \A d \in Cross, s \in Sub :
    /\ stat[d][s] = Producer(d, s) - Consumer(d, s)
    /\ stat[d][s] \in 0 .. d.cap

(* While a block runs, each of its input buffers holds what the producer   *)
(* made for the very same iteration: nothing was overwritten before it was *)
(* read, and producer and consumer agree on which buffer is whose turn.    *)
FreshInput ==
  \A c \in Core :
    LET b == blk[c] IN
    pc[c] \in {"body", "publish"} =>
      /\ \A d \in Inputs(c, b), s \in View(c) :
           slot[d][s][CrossIndex(c, b, d)] = runs[c][b] + 1
      /\ \A d \in IntraInputs(c, b) :
           islot[d][c][IntraIndex(c, b, d)] = runs[c][b] + 1

(* The iterations of the original loop.                                    *)
Iterations == TripCount(Lb, Ub, Step)

(* In every pass a core has finished, each block ran once per original     *)
(* iteration: the extended loop is long enough.                            *)
OftenEnough ==
  \A c \in Core : \A b \in 1 .. NumBlocks(c) :
    runs[c][b] >= pass[c] * Iterations

(* Longer than that, it does not matter: no block runs once more.          *)
NeverTooOften ==
  \A c \in Core : \A b \in 1 .. NumBlocks(c) :
    runs[c][b] <= (IF pass[c] < Passes THEN pass[c] + 1 ELSE Passes) * Iterations

(* Each block runs exactly the original number of times in every pass.     *)
IterationsComplete == OftenEnough /\ NeverTooOften

(* At most one of the two flags is ever pending between the cube and a     *)
(* sub-block, and none is left over for the next kernel.                   *)
FlagsBalance ==
  /\ \A s \in Sub : toCube[s] + toVector[s] <= 1
  /\ Terminated => \A s \in Sub : toCube[s] = 0 /\ toVector[s] = 0

(* Both cores reach the end of their scopes.                               *)
Termination == <>Terminated

(* The loop implements the bounded dataflow of its dependencies.           *)
AbsBlock == UNION {{<<c, b>> : b \in 1 .. NumBlocks(c)} : c \in Core}

AbsEdge ==
  {[from |-> <<Cube, d.src>>, to |-> <<s, d.dst>>, cap |-> d.cap] :
     d \in {e \in Cross : e.toVector}, s \in Sub}
  \cup
  {[from |-> <<s, d.src>>, to |-> <<Cube, d.dst>>, cap |-> d.cap] :
     d \in {e \in Cross : ~e.toVector}, s \in Sub}
  \cup
  {[from |-> <<s, d.src>>, to |-> <<s, d.dst>>, cap |-> d.cap] :
     d \in Intra, s \in Sub}

AbsDone == [p \in AbsBlock |-> runs[p[1]][p[2]]]

Dataflow ==
  INSTANCE BoundedDataflow WITH
    Block <- AbsBlock,
    Edge  <- AbsEdge,
    Total <- Passes * Iterations,
    done  <- AbsDone

ImplementsDataflow == Dataflow!Spec

(* Kernels whose buffers let every block keep pace with the loop: for them *)
(* the extended loop is long enough.                                       *)
Steady == \E start \in [AbsBlock -> 0 .. IfCount] : IsSchedule(AbsEdge, start, Cube)

NoOverflow == RoundsFit(Lb, Ub, Step, IfCount, CalculateFactor(Intra))

=============================================================================
