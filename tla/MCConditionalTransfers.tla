---------------------- MODULE MCConditionalTransfers ----------------------
(* A kernel with single and double buffers in both directions.             *)
EXTENDS ConditionalTransfers

CONSTANTS cube, v0, v1

C2V(m, n, k) == [toVector |-> TRUE, src |-> m, dst |-> n, cap |-> k]
V2C(m, n, k) == [toVector |-> FALSE, src |-> m, dst |-> n, cap |-> k]
V2V(m, n, k) == [src |-> m, dst |-> n, cap |-> k]

(* Three blocks on each side, in turn, with two buffers everywhere.  The   *)
(* first cube block sends to two vector blocks.  The first vector block    *)
(* also feeds the last one, over two intra buffers: 3 rounds are needed    *)
(* every 2 iterations, and the blocks ahead fill their buffers and stall.  *)
ChainCross == {C2V(1, 1, 2), V2C(1, 2, 2), C2V(2, 2, 2), V2C(2, 3, 2), C2V(3, 3, 2), C2V(1, 2, 2)}
ChainIntra == {V2V(1, 3, 2)}

(* The kernel is one of those whose rounds are proved to be enough.        *)
ASSUME ChainIsSteady == Steady /\ NoOverflow

=============================================================================
