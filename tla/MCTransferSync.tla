-------------------------- MODULE MCTransferSync --------------------------
(* Every set of transfers between the blocks of a small kernel.            *)
EXTENDS TransferSync

CONSTANTS cube, v0, v1

(* A kernel is a sequence of blocks that the two loops share out; an order *)
(* is given by the number of cube blocks ahead of each vector block.       *)
Orders == {o \in [1 .. VectorBlocks -> 0 .. CubeBlocks] :
             \A i, j \in 1 .. VectorBlocks : i < j => o[i] <= o[j]}

(* Transfers lead forwards in that order.                                  *)
Forward(o) ==
  LET cv == {p \in (1 .. CubeBlocks) \X (1 .. VectorBlocks) : p[1] <= o[p[2]]}
      vc == {p \in (1 .. VectorBlocks) \X (1 .. CubeBlocks) : p[2] > o[p[1]]}
  IN  {[toVector |-> TRUE, src |-> p[1], dst |-> p[2]] : p \in cv}
        \cup {[toVector |-> FALSE, src |-> p[1], dst |-> p[2]] : p \in vc}

AllKernels == UNION {SUBSET Forward(o) : o \in Orders}

(* Single buffers in a loop from 0; double buffers in a loop that starts   *)
(* at -1 in steps of 2, where two iterations in a row use the same buffer. *)
SingleBuffers == [buffers |-> 1, lb |-> 0, step |-> 1, trips |-> 2]
DoubleBuffers == [buffers |-> 2, lb |-> -1, step |-> 2, trips |-> 3]
BothModes == {SingleBuffers, DoubleBuffers}

=============================================================================
