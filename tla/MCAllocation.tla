---------------------------- MODULE MCAllocation ----------------------------
(* Small sets of buffers with every combination of lifetimes.              *)
EXTENDS Allocation

Ranges == {r \in (0 .. Horizon - 1) \X (1 .. Horizon) : r[1] < r[2]}

Sorted(bs) == \A i, j \in DOMAIN bs : i < j => bs[i].size >= bs[j].size

(* Four buffers outside of partitions.                                     *)
FourBuffers ==
  {bs \in [1 .. 4 -> [size : {1, 3}, alignment : {1}, range : Ranges,
             ws : {0}, region : {0}]] : Sorted(bs)}

(* Regions 1 and 2 belong to one warp_specialize op, 3 to another.         *)
WsOf == [r \in 0 .. 3 |-> CASE r = 0 -> 0 [] r \in {1, 2} -> 1 [] r = 3 -> 2]

(* Three buffers, the small ones with an alignment above their size, any   *)
(* of them outside or in one of three regions, numbered as they come.      *)
ThreeBuffers ==
  {[i \in 1 .. 3 |-> [size |-> size[i], alignment |-> IF size[i] = 1 THEN 4 ELSE 1,
                      range |-> range[i], ws |-> WsOf[region[i]], region |-> region[i]]] :
     size \in {s \in [1 .. 3 -> {1, 2}] : s[1] >= s[2] /\ s[2] >= s[3]},
     range \in [1 .. 3 -> Ranges],
     region \in {r \in [1 .. 3 -> 0 .. 3] :
                   \A i \in 1 .. 3 : r[i] \in {2, 3} => \E j \in 1 .. i - 1 : r[j] = 1}}

SmallRequests == FourBuffers \cup ThreeBuffers

=============================================================================
