------------------------- MODULE BoundedDataflow -------------------------
(***************************************************************************)
(* What the dynamic CV pipeline promises about the blocks of a main loop:  *)
(* a bounded dataflow network.  Every block is executed Total times; an    *)
(* execution takes one item from every edge into the block and puts one    *)
(* on every edge out of it; an edge never holds more than its capacity.    *)
(* Nothing here knows about cores, rounds, counters or synchronisation     *)
(* flags: SSBuffer is shown to implement this module.                      *)
(***************************************************************************)
EXTENDS Integers, FiniteSets

CONSTANTS Block,   \* the blocks, each with the core that runs it
          Edge,    \* dependencies: records [from, to, cap]
          Total    \* how many times each block must be executed

VARIABLE done      \* done[b] = completed executions of block b

Init == done = [b \in Block |-> 0]

HasInput(b) == \A e \in Edge : e.to = b => done[e.from] > done[b]

HasRoom(b) == \A e \in Edge : e.from = b => done[b] - done[e.to] < e.cap

Fire(b) ==
  /\ done[b] < Total
  /\ HasInput(b)
  /\ HasRoom(b)
  /\ done' = [done EXCEPT ![b] = @ + 1]

Next == \E b \in Block : Fire(b)

Spec == Init /\ [][Next]_done /\ \A b \in Block : WF_done(Fire(b))
=============================================================================
