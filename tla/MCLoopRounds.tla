--------------------------- MODULE MCLoopRounds ---------------------------
(* Every dependency graph of a small kernel.                               *)
EXTENDS LoopRounds

CONSTANTS CrossCaps, IntraCaps

(* A kernel is a sequence of blocks that the two loops share out; an order *)
(* is given by the number of cube blocks ahead of each vector block.       *)
Orders == {o \in [1 .. VectorBlocks -> 0 .. CubeBlocks] :
             \A i, j \in 1 .. VectorBlocks : i < j => o[i] <= o[j]}

(* Dependencies lead forwards in that order.                               *)
AllPairs(o) ==
  LET cv == {p \in (1 .. CubeBlocks) \X (1 .. VectorBlocks) : p[1] <= o[p[2]]}
      vc == {p \in (1 .. VectorBlocks) \X (1 .. CubeBlocks) : p[2] > o[p[1]]}
      vv == {p \in (1 .. VectorBlocks) \X (1 .. VectorBlocks) : p[1] < p[2]}
  IN  {<<<<C, p[1]>>, <<V, p[2]>>>> : p \in cv}
        \cup {<<<<V, p[1]>>, <<C, p[2]>>>> : p \in vc}
        \cup {<<<<V, p[1]>>, <<V, p[2]>>>> : p \in vv}

Capacitate(ps, x, i) ==
  {[from |-> p[1], to |-> p[2],
    cap |-> IF p[1][1] = p[2][1] THEN i ELSE x] : p \in ps}

(* One buffer count holds for all cross-core, one for all intra-core       *)
(* dependencies (BufferCountManager).                                      *)
AllGraphs ==
  UNION {UNION {{Capacitate(ps, x, i) : x \in CrossCaps, i \in IntraCaps} :
                  ps \in SUBSET AllPairs(o)} : o \in Orders}

=============================================================================
