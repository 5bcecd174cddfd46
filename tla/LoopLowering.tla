---------------------------- MODULE LoopLowering ----------------------------
(***************************************************************************)
(* LowerLoops (lib/Dialect/TritonGPU/Transforms/Pipeliner): in a scheduled *)
(* loop, a load whose users are stages away becomes an asynchronous copy   *)
(* into one of N buffers and a read of the buffer where the value is used. *)
(* The loop gets two counters for each N, the buffer to fill and the       *)
(* buffer to read.  Copies are awaited by commit groups, or (TMA) by a     *)
(* barrier for each buffer, the phase of which is a third counter.         *)
(*                                                                         *)
(* A loop says of each load whether it stays in "registers", can be        *)
(* copied by threads ("async") or is a descriptor load ("tma").  A "dot"   *)
(* is a warp-group dot; a load used by dots only reaches them in shared    *)
(* memory (through a local_alloc that is folded), any other is read into   *)
(* registers first.  The operations of a lowered loop have roles:          *)
(* <<"op", k>> is operation k of the loop before, <<"copy", k>>, <<"read", *)
(* k>> and so on belong to its load k, <<"insert", N>>, <<"extract", N>>   *)
(* and <<"phase", N>> are the counters.                                    *)
(***************************************************************************)
EXTENDS LoopSchedule

ASSUME ViaAssumption ==
  \A l \in Loops : l.via \in [Body(l) -> {"registers", "async", "tma"}]

VARIABLES
  role,           \* operation of the lowered loop -> its role
  buffers,        \* lowered load -> the number of its buffers
  barrierOf       \* lowered descriptor load -> the load whose barriers it shares

loweringVars == <<role, buffers, barrierOf>>

LoweringInit == role = <<>> /\ buffers = <<>> /\ barrierOf = <<>>

(* Users in the same iteration or, through an argument, in the next.       *)
TopLevelUsers(l, k) ==
  Users(l, k) \cup {u \in Body(l) : \E a \in Args(l) : l.yield[a] = Op(k) /\ Arg(a) \in l.uses[u]}

StageDiff(l, k) ==
  IF TopLevelUsers(l, k) = {} THEN 0
  ELSE Min({sched[u].stage : u \in TopLevelUsers(l, k)}) - sched[k].stage

Lowered(l) == {k \in Body(l) : l.via[k] # "registers" /\ StageDiff(l, k) # 0}
LoweredTMA(l) == {k \in Lowered(l) : l.via[k] = "tma"}

(* Not mustLoadToRegisters.                                                *)
InShared(l, k) ==
  Users(l, k) # {} /\ Op(k) \notin Range(l.yield) /\ \A u \in Users(l, k) : l.kind[u] = "dot"

(* Mutant: nothing is added for a dot that is still reading.               *)
NumBuffersOfStages(l, k) == StageDiff(l, k)

NumBuffers(l, k) == StageDiff(l, k) + (IF InShared(l, k) THEN 1 ELSE 0)

(* The first use of a set of loads: where they are awaited and read.       *)
FirstUse(l, ks) ==
  LET users == UNION {TopLevelUsers(l, k) : k \in ks}
      Before(u, v) ==
        \/ sched[u].stage < sched[v].stage
        \/ /\ sched[u].stage = sched[v].stage
           /\ \/ Rank(clusters, sched[u].cluster) < Rank(clusters, sched[v].cluster)
              \/ sched[u].cluster = sched[v].cluster /\ u < v
  IN  CHOOSE u \in users : \A v \in users \ {u} : Before(u, v)

(* Descriptor loads with the same place and number of buffers share a      *)
(* barrier if nothing uses one of them before the last: `first' and those  *)
(* that follow it, to the first operation that stops the search.           *)
SharesFrom(l, first, taken) ==
  LET Candidates(j) == {k \in LoweredTMA(l) : first <= k /\ k < j /\ sched[k] = sched[first]}
      stops == {j \in first + 1 .. Len(l.kind) :
                  \/ \E k \in Candidates(j) : j \in Users(l, k)
                  \/ j \in taken
                  \/ j \in LoweredTMA(l) /\ NumBuffers(l, j) # NumBuffers(l, first)}
  IN  Candidates(Min(stops \cup {Len(l.kind) + 1}))

WaitGroups(l) ==
  LET WithGroupOf(groups, j) ==
        IF j \in LoweredTMA(l) \ UNION groups THEN groups \cup {SharesFrom(l, j, UNION groups)} ELSE groups
  IN  FoldLeft(WithGroupOf, {}, [j \in Body(l) |-> j])

WaitGroup(l, k) == CHOOSE g \in WaitGroups(l) : k \in g

(*--------------------------- the lowered loop ----------------------------*)

CounterNames(l) ==
  LET counts == {NumBuffers(l, k) : k \in Lowered(l)}
      OfCount(n) == <<<<"insert", n>>, <<"extract", n>>>>
                    \o (IF \E k \in LoweredTMA(l) : NumBuffers(l, k) = n THEN <<<<"phase", n>>>> ELSE <<>>)
  IN  FlattenSeq([i \in 1 .. Cardinality(counts) |-> OfCount(SetToSortSeq(counts, <)[i])])

(* What stands in the place of operation k.                                *)
InPlaceOf(l, k) ==
  CASE k \notin Lowered(l) -> <<<<"op", k>>>>
    [] k \in Lowered(l) \ LoweredTMA(l) -> <<<<"copy", k>>, <<"commit", k>>, <<"wait", k>>, <<"read", k>>>>
    [] k \in LoweredTMA(l) ->
         LET group == WaitGroup(l, k)
         IN  (IF k = Min(group) THEN <<<<"expect", k>>>> ELSE <<>>) \o <<<<"copy", k>>>>
             \o (IF k = Max(group)
                 THEN <<<<"barrier", Min(group)>>>> \o [i \in 1 .. Cardinality(group) |-> <<"read", SetToSortSeq(group, >)[i]>>]
                 ELSE <<>>)

NamesOf(l) == CounterNames(l) \o FlattenSeq([k \in Body(l) |-> InPlaceOf(l, k)])

Position(names, name) == CHOOSE i \in DOMAIN names : names[i] = name

(* A value of the loop in the lowered loop.                                *)
ValueIn(l, names, v) ==
  IF v[1] # "op" THEN v
  ELSE Op(Position(names, IF v[2] \in Lowered(l) THEN <<"read", v[2]>> ELSE v))

LoweredUses(l, names, name) ==
  LET Named(n) == Op(Position(names, n))
      Counter(n) == Arg(Len(l.yield) + Position(names, n))
      Insert(k) == Named(<<"insert", NumBuffers(l, k)>>)
      Extract(k) == Named(<<"extract", NumBuffers(l, k)>>)
      k == name[2]
  IN  CASE name[1] \in {"insert", "extract"} -> {Counter(name)}
        [] name[1] = "phase" -> {Counter(name), Named(<<"extract", k>>)}
        [] name[1] = "op" -> {ValueIn(l, names, v) : v \in l.uses[k]}
        [] name[1] = "copy" -> {ValueIn(l, names, v) : v \in l.uses[k]} \cup {Insert(k)}
        [] name[1] = "commit" -> {Named(<<"copy", k>>)}
        [] name[1] = "wait" -> {Named(<<"commit", k>>)}
        [] name[1] = "read" -> {Extract(k)} \cup
             (IF l.via[k] = "async" /\ ~InShared(l, k) THEN {Named(<<"wait", k>>)} ELSE {})
        [] name[1] = "expect" -> {Insert(k)}
        [] name[1] = "barrier" -> {Extract(k), Named(<<"phase", NumBuffers(l, k)>>)}

PlaceOf(l, name) ==
  CASE name[1] \in {"op", "copy", "commit", "expect"} -> sched[name[2]]
    [] name[1] \in {"wait", "read"} -> sched[FirstUse(l, {name[2]})]
    [] name[1] = "barrier" -> sched[FirstUse(l, WaitGroup(l, name[2]))]

LowerLoads ==
  /\ phase = "scheduled" /\ Lowered(loop) # {}
  /\ UNCHANGED <<numStages, clusters, visit, pending, dist1Cluster, afterPrologue, early>>
  /\ \E names \in {NamesOf(loop)} :
       LET counters == DOMAIN CounterNames(loop) IN
       /\ role' = names
       /\ loop' = [loop EXCEPT
            !.kind = [i \in DOMAIN names |-> IF names[i][1] = "op" THEN loop.kind[names[i][2]] ELSE "op"],
            !.uses = [i \in DOMAIN names |-> LoweredUses(loop, names, names[i])],
            !.yield = [a \in DOMAIN loop.yield |-> ValueIn(loop, names, loop.yield[a])]
                      \o [i \in counters |-> Op(i)]]
       /\ buffers' = [k \in Lowered(loop) |-> NumBuffers(loop, k)]
       /\ barrierOf' = [k \in LoweredTMA(loop) |-> Min(WaitGroup(loop, k))]
       /\ \E places \in {[i \in DOMAIN names \ counters |-> PlaceOf(loop, names[i])]} :
            sched' = places /\ todo' = StageByStage(places, clusters)
  /\ phase' = "lowering"

(* Nothing to lower.                                                       *)
KeepLoads ==
  /\ phase = "scheduled" /\ Lowered(loop) = {}
  /\ phase' = "lowered"
  /\ role' = [k \in Body(loop) |-> Op(k)]
  /\ UNCHANGED <<loop, numStages, clusters, sched, todo, visit, pending, dist1Cluster,
                 afterPrologue, early, buffers, barrierOf>>

(* scheduleDependencies has given the counters their places.               *)
CountersScheduled ==
  /\ phase = "lowering" /\ todo = <<>>
  /\ phase' = "lowered"
  /\ UNCHANGED <<loop, numStages, clusters, sched, todo, visit, pending, dist1Cluster,
                 afterPrologue, early, loweringVars>>

LoweringNext == LowerLoads \/ KeepLoads \/ CountersScheduled

=============================================================================
