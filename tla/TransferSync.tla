--------------------------- MODULE TransferSync ---------------------------
(***************************************************************************)
(* The loop as SplitDataflow leaves it (InterCoreTransferAndSync.cpp), and *)
(* with the second buffer AddMultiBufferOuterScope.cpp may give every      *)
(* transfer.  Each core runs its blocks in order, unconditionally; a value *)
(* that crosses cores is copied by its producer into a buffer of its       *)
(* consumer, and one flag id per buffer carries two counters: `filled',    *)
(* set by the producer after the copy, and `empty', set by the consumer    *)
(* after the block that read it.  An `empty' is set for every buffer       *)
(* before the loop and taken back after it.                                *)
(*                                                                         *)
(* The transfers of the kernel, and the loop they are made in, are         *)
(* variables chosen once by Init.                                          *)
(***************************************************************************)
EXTENDS Integers, FiniteSets

CONSTANTS
  Cube, Sub,                  \* the cube core and its vector sub-blocks
  CubeBlocks, VectorBlocks,   \* blocks of the two loop bodies
  Kernels,                    \* sets of transfers [toVector, src, dst]
  Modes                       \* [buffers, lb, step, trips]: 2 buffers with double
                              \* buffering, else 1; the loop's lower bound and
                              \* step, and a bound on its trips

ASSUME TransferAssumption ==
  /\ Cube \notin Sub /\ Sub # {}
  /\ CubeBlocks \in Nat \ {0} /\ VectorBlocks \in Nat \ {0}
  /\ Modes \subseteq [buffers : {1, 2}, lb : Int, step : Nat \ {0}, trips : Nat]
  /\ \A k \in Kernels : \A d \in k :
       \/ d.toVector = TRUE /\ d.src \in 1 .. CubeBlocks /\ d.dst \in 1 .. VectorBlocks
       \/ d.toVector = FALSE /\ d.src \in 1 .. VectorBlocks /\ d.dst \in 1 .. CubeBlocks

Core == {Cube} \cup Sub

NumBlocks(c) == IF c = Cube THEN CubeBlocks ELSE VectorBlocks

VARIABLES
  kernel,    \* the transfers
  mode,      \* the buffers and the loop
  trips,     \* trips of the loop
  pc,        \* pc[c]: where core c is
  iter,      \* iter[c]: iterations c has finished
  blk,       \* blk[c]: the block c is at
  todo,      \* todo[c]: transfers c has still to start in this block
  current,   \* current[c]: the transfer c is making, as a set of at most one
  filled,    \* filled[d][i][s]: flag of buffer i of d, producer to consumer
  empty,     \* empty[d][i][s]: the same flag id, consumer to producer
  data       \* data[d][i][s]: the iteration whose value the buffer holds

Buffer == 0 .. mode.buffers - 1

vars == <<kernel, mode, trips, pc, iter, blk, todo, current, filled, empty, data>>

(* A flag set by the cube reaches every sub-block, one it waits for has    *)
(* been set by all of them; a sub-block deals with its own.                *)
View(c) == IF c = Cube THEN Sub ELSE {c}

Produces(c, d) == d.toVector <=> c = Cube

Sent(c)     == {d \in kernel : Produces(c, d)}
Received(c) == {d \in kernel : ~Produces(c, d)}

SentBy(c, b)     == {d \in Sent(c) : d.src = b}
ReceivedBy(c, b) == {d \in Received(c) : d.dst = b}

(* arith.divsi: the quotient is rounded towards zero.                      *)
DivSI(a, b) == IF a < 0 THEN -((-a) \div b) ELSE a \div b

(* createPollingCondition: the buffer whose turn it is.                    *)
Turn(c) ==
  IF mode.buffers = 1 \/ DivSI(mode.lb + iter[c] * mode.step, mode.step) % 2 = 0 THEN 0 ELSE 1

Ready(flag, ds, is, c) ==
  \A d \in ds, i \in is, s \in View(c) : flag[d][i][s] > 0

Change(flag, ds, is, c, k) ==
  [d \in kernel |-> [i \in Buffer |-> [s \in Sub |->
     IF d \in ds /\ i \in is /\ s \in View(c)
     THEN flag[d][i][s] + k ELSE flag[d][i][s]]]]

Set(flag, ds, is, c)  == Change(flag, ds, is, c, 1)
Take(flag, ds, is, c) == Change(flag, ds, is, c, -1)

-----------------------------------------------------------------------------

Init ==
  /\ kernel \in Kernels
  /\ mode \in Modes
  /\ trips \in 0 .. mode.trips
  /\ pc = [c \in Core |-> "start"]
  /\ iter = [c \in Core |-> 0]
  /\ blk = [c \in Core |-> 1]
  /\ todo = [c \in Core |-> {}]
  /\ current = [c \in Core |-> {}]
  /\ filled = [d \in kernel |-> [i \in Buffer |-> [s \in Sub |-> 0]]]
  /\ empty = filled
  /\ data = filled

(* scf.for: another iteration, or the code after the loop.                 *)
LoopHead(k) == IF k < trips THEN "reads" ELSE "drain"

(* Mutant: only the first buffer is declared empty.                        *)
StartFirstBuffer(c) ==
  /\ pc[c] = "start"
  /\ empty' = Set(empty, Received(c), {0}, c)
  /\ pc' = [pc EXCEPT ![c] = LoopHead(0)]
  /\ UNCHANGED <<kernel, mode, trips, iter, blk, todo, current, filled, data>>

(* setOpForStart: a consumer declares its buffers empty ahead of the loop. *)
Start(c) ==
  /\ pc[c] = "start"
  /\ empty' = Set(empty, Received(c), Buffer, c)
  /\ pc' = [pc EXCEPT ![c] = LoopHead(0)]
  /\ UNCHANGED <<kernel, mode, trips, iter, blk, todo, current, filled, data>>

(* Mutant: the flags are taken without waiting for them.                   *)
AwaitInputsAtOnce(c) ==
  /\ pc[c] = "reads"
  /\ filled' = Take(filled, ReceivedBy(c, blk[c]), {Turn(c)}, c)
  /\ pc' = [pc EXCEPT ![c] = "body"]
  /\ UNCHANGED <<kernel, mode, trips, iter, blk, todo, current, empty, data>>

(* waitOpForRead, ahead of the first operation of the consuming block.     *)
AwaitInputs(c) ==
  LET ds == ReceivedBy(c, blk[c]) IN
  /\ pc[c] = "reads"
  /\ Ready(filled, ds, {Turn(c)}, c)
  /\ filled' = Take(filled, ds, {Turn(c)}, c)
  /\ pc' = [pc EXCEPT ![c] = "body"]
  /\ UNCHANGED <<kernel, mode, trips, iter, blk, todo, current, empty, data>>

(* V->C transfers are inserted before C->V ones, each at what is then the  *)
(* end of the block: a cube block releases its inputs before it sends, a   *)
(* vector block sends before it releases.                                  *)
ComputeBlock(c) ==
  /\ pc[c] = "body"
  /\ pc' = [pc EXCEPT ![c] = IF c = Cube THEN "release" ELSE "send"]
  /\ todo' = [todo EXCEPT ![c] = SentBy(c, blk[c])]
  /\ UNCHANGED <<kernel, mode, trips, iter, blk, current, filled, empty, data>>

NextBlock(c) ==
  IF blk[c] < NumBlocks(c)
  THEN /\ blk' = [blk EXCEPT ![c] = @ + 1]
       /\ pc' = [pc EXCEPT ![c] = "reads"]
       /\ UNCHANGED iter
  ELSE /\ blk' = [blk EXCEPT ![c] = 1]
       /\ iter' = [iter EXCEPT ![c] = @ + 1]
       /\ pc' = [pc EXCEPT ![c] = LoopHead(iter[c] + 1)]

(* Mutant: both buffers of a transfer are released together.               *)
ReleaseBothInputs(c) ==
  /\ pc[c] = "release"
  /\ empty' = Set(empty, ReceivedBy(c, blk[c]), Buffer, c)
  /\ IF c = Cube
     THEN pc' = [pc EXCEPT ![c] = "send"] /\ UNCHANGED <<iter, blk>>
     ELSE NextBlock(c)
  /\ UNCHANGED <<kernel, mode, trips, todo, current, filled, data>>

(* setOpForWrite, after the last operation of the consuming block.         *)
ReleaseInputs(c) ==
  /\ pc[c] = "release"
  /\ empty' = Set(empty, ReceivedBy(c, blk[c]), {Turn(c)}, c)
  /\ IF c = Cube
     THEN pc' = [pc EXCEPT ![c] = "send"] /\ UNCHANGED <<iter, blk>>
     ELSE NextBlock(c)
  /\ UNCHANGED <<kernel, mode, trips, todo, current, filled, data>>

(* waitOpForWrite, ahead of fixpipe or copy.                               *)
AwaitRoom(c) ==
  /\ pc[c] = "send"
  /\ \E d \in todo[c] :
       /\ Ready(empty, {d}, {Turn(c)}, c)
       /\ empty' = Take(empty, {d}, {Turn(c)}, c)
       /\ todo' = [todo EXCEPT ![c] = @ \ {d}]
       /\ current' = [current EXCEPT ![c] = {d}]
  /\ pc' = [pc EXCEPT ![c] = "copy"]
  /\ UNCHANGED <<kernel, mode, trips, iter, blk, filled, data>>

(* Mutant: every copy goes to the first buffer.                            *)
TransferToFirst(c) ==
  /\ pc[c] = "copy"
  /\ data' = [d \in kernel |-> [i \in Buffer |-> [s \in Sub |->
                IF d \in current[c] /\ i = 0 /\ s \in View(c)
                THEN iter[c] + 1 ELSE data[d][i][s]]]]
  /\ pc' = [pc EXCEPT ![c] = "signal"]
  /\ UNCHANGED <<kernel, mode, trips, iter, blk, todo, current, filled, empty>>

Transfer(c) ==
  /\ pc[c] = "copy"
  /\ data' = [d \in kernel |-> [i \in Buffer |-> [s \in Sub |->
                IF d \in current[c] /\ i = Turn(c) /\ s \in View(c)
                THEN iter[c] + 1 ELSE data[d][i][s]]]]
  /\ pc' = [pc EXCEPT ![c] = "signal"]
  /\ UNCHANGED <<kernel, mode, trips, iter, blk, todo, current, filled, empty>>

(* setOpForRead, after fixpipe or copy.                                    *)
SignalData(c) ==
  /\ pc[c] = "signal"
  /\ filled' = Set(filled, current[c], {Turn(c)}, c)
  /\ current' = [current EXCEPT ![c] = {}]
  /\ pc' = [pc EXCEPT ![c] = "send"]
  /\ UNCHANGED <<kernel, mode, trips, iter, blk, todo, empty, data>>

SendsDone(c) ==
  /\ pc[c] = "send"
  /\ todo[c] = {}
  /\ IF c = Cube
     THEN NextBlock(c)
     ELSE pc' = [pc EXCEPT ![c] = "release"] /\ UNCHANGED <<iter, blk>>
  /\ UNCHANGED <<kernel, mode, trips, todo, current, filled, empty, data>>

(* Mutant: only the buffer whose turn it is is taken back.                 *)
DrainOneBuffer(c) ==
  /\ pc[c] = "drain"
  /\ Ready(empty, Sent(c), {Turn(c)}, c)
  /\ empty' = Take(empty, Sent(c), {Turn(c)}, c)
  /\ pc' = [pc EXCEPT ![c] = "done"]
  /\ UNCHANGED <<kernel, mode, trips, iter, blk, todo, current, filled, data>>

(* waitOpForEnd: a producer takes every buffer back after the loop.        *)
Drain(c) ==
  /\ pc[c] = "drain"
  /\ Ready(empty, Sent(c), Buffer, c)
  /\ empty' = Take(empty, Sent(c), Buffer, c)
  /\ pc' = [pc EXCEPT ![c] = "done"]
  /\ UNCHANGED <<kernel, mode, trips, iter, blk, todo, current, filled, data>>

CoreStep(c) ==
  \/ Start(c)
  \/ AwaitInputs(c)
  \/ ComputeBlock(c)
  \/ ReleaseInputs(c)
  \/ AwaitRoom(c)
  \/ Transfer(c)
  \/ SignalData(c)
  \/ SendsDone(c)
  \/ Drain(c)

Terminated == \A c \in Core : pc[c] = "done"

Next ==
  \/ \E c \in Core : CoreStep(c)
  \/ Terminated /\ UNCHANGED vars

Spec == Init /\ [][Next]_vars /\ \A c \in Core : WF_vars(CoreStep(c))

-----------------------------------------------------------------------------

TypeOK ==
  /\ pc \in [Core -> {"start", "reads", "body", "release", "send", "copy",
                      "signal", "drain", "done"}]
  /\ \A c \in Core :
       /\ iter[c] \in 0 .. trips
       /\ blk[c] \in 1 .. NumBlocks(c)
       /\ todo[c] \subseteq SentBy(c, blk[c])
       /\ Cardinality(current[c]) <= 1
  /\ filled \in [kernel -> [Buffer -> [Sub -> Nat]]]
  /\ empty \in [kernel -> [Buffer -> [Sub -> Nat]]]
  /\ data \in [kernel -> [Buffer -> [Sub -> 0 .. trips]]]

(* The inputs core c may be reading: from the wait ahead of the block to   *)
(* the release after it.                                                   *)
Reading(c) ==
  CASE pc[c] = "body" -> ReceivedBy(c, blk[c])
    [] c = Cube /\ pc[c] = "release" -> ReceivedBy(c, blk[c])
    [] c # Cube /\ pc[c] \in {"send", "copy", "signal", "release"} ->
         ReceivedBy(c, blk[c])
    [] OTHER -> {}

(* From the wait to the release of a block each of its inputs is the value *)
(* made in the same iteration: the producer, which may be ahead, neither   *)
(* overwrites a buffer in use nor fills the other one out of turn.         *)
FreshInput ==
  \A c \in Core : \A d \in Reading(c), s \in View(c) :
    data[d][Turn(c)][s] = iter[c] + 1

Producer(d, s) == IF d.toVector THEN Cube ELSE s
Consumer(d, s) == IF d.toVector THEN s ELSE Cube

One(p) == IF p THEN 1 ELSE 0

(* Every buffer has exactly one owner: a pending flag (full or empty), the *)
(* producer while it copies, the consumer while it reads or before it has  *)
(* declared the buffer, or, after the loop, the producer again.  So the    *)
(* two uses of one flag id never meet, and a flag is never set twice.      *)
OneOwner ==
  \A d \in kernel, i \in Buffer, s \in Sub :
    LET p == Producer(d, s)
        q == Consumer(d, s)
    IN  filled[d][i][s] + empty[d][i][s]
          + One(d \in current[p] /\ i = Turn(p))
          + One(d \in Reading(q) /\ i = Turn(q))
          + One(pc[q] = "start")
          + One(pc[p] = "done") = 1

(* No flag is left set for the next kernel or the next use of the id.      *)
FlagsDrained ==
  Terminated => \A d \in kernel, i \in Buffer, s \in Sub :
                  filled[d][i][s] = 0 /\ empty[d][i][s] = 0

(* No set of forward transfers makes the cores wait for one another.       *)
Termination == <>Terminated

=============================================================================
