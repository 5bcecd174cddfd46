---------------------------- MODULE MCSSBuffer ----------------------------
(* Loops for TLC: the dependency graphs of SSBuffer's instances.           *)
EXTENDS SSBuffer

CONSTANTS cube, v0, v1

C2V(m, n, k) == [toVector |-> TRUE, src |-> m, dst |-> n, cap |-> k]
V2C(m, n, k) == [toVector |-> FALSE, src |-> m, dst |-> n, cap |-> k]
V2V(m, n, k) == [src |-> m, dst |-> n, cap |-> k]

(* Attention, as in crossCoreDeps_test.mlir: QK^T on the cube, softmax on  *)
(* the vectors, PV on the cube, rescaling on the vectors.                  *)
AttentionCross == {C2V(1, 1, 1), V2C(1, 2, 1), C2V(2, 2, 1)}
AttentionIntra == {V2V(1, 2, 2)}

(* The kernel is one of those whose rounds are proved to be enough.        *)
ASSUME AttentionIsSteady == Steady /\ NoOverflow

=============================================================================
