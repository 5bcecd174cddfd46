--------------------------- MODULE MCLoopExpander ---------------------------
(* Loops of three operations and one or two arguments: every choice of     *)
(* operands for the scheduler, every number of iterations for the expander.*)
EXTENDS AsyncCopies

(* The last iteration is cut short where the step allows it.               *)
Bounds(trips, step, const, peel) ==
  [lb |-> 1, ub |-> 1 + trips * step - (step - 1), step |-> step, constBounds |-> const, peel |-> peel]

Copied(kinds, latency, via, uses, yield, liveOut, given, b) ==
  [kind |-> kinds, via |-> via, latency |-> latency, uses |-> uses, yield |-> yield, liveOut |-> liveOut,
   given |-> given, lb |-> b.lb, ub |-> b.ub, step |-> b.step, constBounds |-> b.constBounds,
   peel |-> b.peel]

InRegisters(kinds) == [k \in DOMAIN kinds |-> "registers"]

Shape(kinds, latency, uses, yield, liveOut, given, b) ==
  Copied(kinds, latency, InRegisters(kinds), uses, yield, liveOut, given, b)

Twice == Bounds(2, 1, FALSE, FALSE)

UsesOf(k, args) == SUBSET ({Op(j) : j \in 1 .. k - 1} \cup args)

ScheduleLoops ==
  {Shape(<<"load", k[1], k[2]>>, <<l1, IF k[1] = "load" THEN l2 ELSE 0, 0>>, <<u1, u2, u3>>, <<y>>,
         {1}, <<>>, Twice) :
     k \in {"op", "if", "load"} \X {"op", "if"}, l1 \in 1 .. 2, l2 \in 0 .. 1,
     u1 \in UsesOf(1, {Arg(1)}), u2 \in UsesOf(2, {Arg(1)}), u3 \in UsesOf(3, {Arg(1)}) \ {{}},
     y \in {Op(1), Op(2), Op(3), Outside(1)}}

TwoArgs == {<<Op(2), Op(3)>>, <<Op(3), Op(1)>>, <<Op(1), Op(2)>>}

ExpandLoops(yields, peels) ==
  {Shape(<<"load", "op", "op">>, <<l1, 0, 0>>, <<u1, u2, u3>>, y, out, <<>>, Bounds(trips, 2, const, peel)) :
     l1 \in 1 .. 2, u1 \in {{Iv}, {Iv, Arg(1)}},
     u2 \in {{Op(1)}, {Op(1), Arg(1)}, {Iv, Arg(2)}},
     u3 \in {{Op(1), Op(2)}, {Iv, Op(2), Arg(1)}, {Op(1), Arg(2)}},
     y \in yields, out \in {{1, 2}},
     trips \in 0 .. 4, const \in BOOLEAN, peel \in peels}

Chain == <<{Iv}, {Op(1)}, {Op(2), Arg(1)}>>

GivenSchedules ==
  {g \in [1 .. 3 -> {<<>>} \cup ((1 .. 2) \X (0 .. 1))] :
     /\ \A j, k \in 1 .. 3 : j < k /\ <<>> \notin {g[j], g[k]} =>
          g[j][1] < g[k][1] \/ (g[j][1] = g[k][1] /\ g[j][2] <= g[k][2])
     /\ \E k \in 1 .. 3 : g[k] # <<>>}

GivenLoops ==
  {Shape(<<"load", "load", "op">>, <<0, 0, 0>>, Chain, <<Op(3)>>, {1}, g, Twice) : g \in GivenSchedules}

KeptLoops ==
  {Shape(<<"load", kind, "op">>, <<latency, 0, 0>>, Chain, y, {}, <<>>, Twice) :
     kind \in {"op", "nested", "barrier"}, latency \in 0 .. 1, y \in {<<Op(3), Op(1)>>, <<Arg(2), Op(3)>>}}

(* Loads that become copies.  A dot accumulates what two of them bring; an *)
(* operation that is no dot reads them into registers.                     *)
CopiedPairs(kinds, latencies, vias, uses2, trips) ==
  {Copied(<<"load", "load", kind>>, <<l[1], l[2], 0>>, <<v[1], v[2], "registers">>,
          <<{Iv}, u2, {Op(1), Op(2), Arg(1)}>>, <<Op(3)>>, {1}, <<>>, Bounds(n, 1, const, FALSE)) :
     kind \in kinds, l \in latencies, v \in vias, u2 \in uses2, n \in trips, const \in BOOLEAN}

Vias == {"async", "tma"} \X {"async", "tma"}

(* Awaited at different places: with an `if' between them, and with a dot  *)
(* the result of which is used at once.                                    *)
CopiedApart(latencies, vias) ==
  {Copied(<<"load", "load">> \o tail.kinds, <<l, l>> \o [k \in DOMAIN tail.kinds |-> 0],
          <<v[1], v[2]>> \o InRegisters(tail.kinds), <<{Iv}, {Iv}>> \o tail.uses, <<tail.yield>>, {1}, <<>>,
          Bounds(4, 1, const, FALSE)) :
     l \in latencies, v \in vias, const \in BOOLEAN,
     tail \in {[kinds |-> <<"op", "if", "op">>, uses |-> <<{Op(1)}, {Op(3)}, {Op(4), Op(2), Arg(1)}>>, yield |-> Op(5)],
               [kinds |-> <<"dot", "op">>, uses |-> <<{Op(1), Arg(1)}, {Op(3), Op(2)}>>, yield |-> Op(4)]}}

CopiedLoops ==
  CopiedPairs({"op", "dot"}, {<<1, 1>>, <<2, 2>>, <<2, 1>>, <<1, 2>>}, Vias, {{Iv}}, {0, 2, 5})
    \cup CopiedPairs({"op", "dot"}, {<<3, 3>>}, {<<"async", "async">>, <<"tma", "tma">>}, {{Iv}}, {6})
    \cup CopiedPairs({"op", "dot"}, {<<1, 1>>, <<2, 1>>}, Vias \cup {<<"registers", "async">>}, {{Iv, Op(1)}}, {5})
    \cup CopiedApart(1 .. 2, Vias)

(* An argument a value from outside replaces is not combined with peeling. *)
SmallLoops ==
  ScheduleLoops \cup GivenLoops \cup KeptLoops \cup ExpandLoops(TwoArgs, BOOLEAN)
    \cup ExpandLoops({<<Op(3), Outside(2)>>}, {FALSE}) \cup CopiedLoops
=============================================================================
