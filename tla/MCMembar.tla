------------------------------ MODULE MCMembar ------------------------------
(* Every assignment of operations to the blocks of small control-flow      *)
(* graphs: a straight line, a loop, a branch, a loop in a loop.            *)
EXTENDS Membar

Low == <<0, 2>>
Middle == <<1, 3>>
Scratch(kind, i) == Op(kind, {i}, {i})

Load == Op("access", {Low}, {})
Store == Op("access", {}, {Low})
StoreMiddle == Op("access", {}, {Middle})
Convert == Scratch("scratch", <<0, 1>>)
WarpConvert == Scratch("warpscratch", <<2, 3>>)
AsyncWait == Op("wait", {}, {})
Arrive == Op("arrive", {}, {})

Plain == {Load, Store, StoreMiddle, Convert, WarpConvert}
Waiting == {Load, StoreMiddle, Barrier, AsyncWait, Arrive}

LoopGraph == <<<<2, 3>>, <<2, 3>>, <<>>>>
BranchGraph == <<<<2, 3>>, <<4>>, <<4>>, <<>>>>
NestGraph == <<<<2, 4>>, <<3>>, <<2, 3, 4>>, <<>>>>

(* One function; a, b, ... are sets of contents for its blocks.            *)
Of(ops, n) == {c \in [1 .. n -> ops] : \A i \in 1 .. n - 1 : ~(c[i] = Barrier /\ c[i + 1] = Barrier)}
Three(graph, a, b, c) == {<<[succ |-> graph, code |-> k]>> : k \in a \X b \X c}
Four(graph, a, b, c, d) == {<<[succ |-> graph, code |-> k]>> : k \in a \X b \X c \X d}

(* A callee that has no barrier inside and whose frame begins at offset 0, *)
(* called in a loop.                                                       *)
Line(c) == [succ |-> <<<<>>>>, code |-> <<c>>]
SimpleCalls ==
  {<<Line(c), [succ |-> LoopGraph, code |-> <<a, <<CallOp(1, 0)>>, b>>]>> :
     c \in Of(Plain, 1), a \in Of(Plain, 1), b \in Of(Plain, 1)}

SmallFunctions ==
  UNION {Three(LoopGraph, Of(ops, 1), Of(ops, 2), Of(ops, 1)) : ops \in {Plain, Waiting}}
    \cup Four(BranchGraph, Of(Plain, 1), Of(Plain, 1), Of(Plain, 1), Of(Plain, 1))
    \cup Four(NestGraph, Of(Plain, 0), Of(Plain, 1), Of(Plain, 2), Of(Plain, 1))
    \cup SimpleCalls

(* Copies by the TMA unit, ordinary accesses and reads by tensor cores.    *)
Copy == [Op("access", {}, {Low}) EXCEPT !.proxy = "write", !.ignored = TRUE]
Dot == [Op("access", {Low}, {}) EXCEPT !.proxy = "read", !.ignored = TRUE]
FenceOps == {Load, StoreMiddle, Convert, Copy, Dot, Fence}
CopyFunctions ==
  Three(LoopGraph, Of(FenceOps, 1), Of(FenceOps, 2), Of(FenceOps, 1))
    \cup Four(NestGraph, Of(FenceOps, 0), Of(FenceOps, 1), Of(FenceOps, 2), Of({Copy}, 1))

SmallPrograms ==
  [fences : {FALSE}, functions : SmallFunctions] \cup [fences : {TRUE}, functions : CopyFunctions]

=============================================================================
