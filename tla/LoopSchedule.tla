---------------------------- MODULE LoopSchedule ----------------------------
(***************************************************************************)
(* ScheduleLoops (lib/Dialect/TritonGPU/Transforms/Pipeliner): which stage *)
(* and cluster of the software pipeline each operation of a loop runs in.  *)
(* An operation of stage s runs s turns of the pipelined loop after one of *)
(* stage 0; in a turn, operations run cluster by cluster and, in one       *)
(* cluster, in the order of the program.                                   *)
(*                                                                         *)
(* A loop is a record: the kind ("op", "load", "if", "nested", "barrier")  *)
(* and latency of each operation, the values it uses, what the loop yields *)
(* for each of its arguments, and what the expander needs besides.         *)
(* `given' is <<>>, or the <<stage, cluster>> attributes a loop cut out of *)
(* a warp-specialised one already has (<<>> where an operation has none).  *)
(***************************************************************************)
EXTENDS Integers, Sequences, FiniteSets, SequencesExt, FiniteSetsExt

CONSTANT Loops

Op(k) == <<"op", k>>
Arg(a) == <<"arg", a>>
Outside(a) == <<"outside", a>>
Iv == <<"iv", 0>>

Body(l) == DOMAIN l.kind
Args(l) == DOMAIN l.yield

IsLoop(l) ==
  /\ Len(l.uses) = Len(l.kind) /\ Len(l.latency) = Len(l.kind)
  /\ \A k \in Body(l) :
       /\ l.latency[k] \in Nat
       /\ l.uses[k] \subseteq {Iv} \cup {Op(j) : j \in 1 .. k - 1} \cup {Arg(a) : a \in Args(l)}
  /\ \A a \in Args(l) :
       l.yield[a] \in {Outside(a)} \cup {Op(j) : j \in Body(l)} \cup {Arg(b) : b \in Args(l)}

ASSUME LoopAssumption == \A l \in Loops : IsLoop(l)

VARIABLES
  loop,
  phase,          \* what scheduleLoop does next
  numStages,
  clusters,       \* ClusterList: the clusters in order (names, not positions)
  sched,          \* opToStageAndCluster: operation -> [stage, cluster]
  todo,           \* scheduleDependencies: entries of getOpsInOrder still to visit
  visit,          \* scheduleDistanceOneDependencies: the operation it is at
  pending,        \* and those of its arguments still to look at
  dist1Cluster,   \* and the clusters it has added: cluster -> the one before it
  afterPrologue,
  early           \* history: what is scheduled before those dependencies

schedVars == <<loop, phase, numStages, clusters, sched, todo, visit, pending,
               dist1Cluster, afterPrologue, early>>

At(s, c) == [stage |-> s, cluster |-> c]

Rank(cs, c) == CHOOSE i \in DOMAIN cs : cs[i] = c
NewCluster(cs) == Len(cs) + 1

(* Edges of the loop body.                                                 *)
Users(l, k) == {u \in Body(l) : Op(k) \in l.uses[u]}
Producers(l, k) == {j \in Body(l) : Op(j) \in l.uses[k]}
CarriedProducers(l, k) == {j \in Body(l) : \E a \in Args(l) : Arg(a) \in l.uses[k] /\ l.yield[a] = Op(j)}

(* What can be reached from S, in as many steps as there are operations.   *)
Closure(l, S, Step(_)) ==
  LET reach[n \in 0 .. Len(l.kind)] ==
        IF n = 0 THEN S ELSE UNION {{k} \cup Step(k) : k \in reach[n - 1]}
  IN  reach[Len(l.kind)]

ForwardSlice(l, S) == Closure(l, S, LAMBDA k : Users(l, k))
BackwardSlice(l, k) == Closure(l, Producers(l, k), LAMBDA j : Producers(l, j))

(* Mutant: the safety test looks at the loop's own operations only.        *)
SafeBody(l) == \A k \in Body(l) : l.kind[k] \notin {"nested", "barrier"}

IsSafeToPipeline(l) ==
  /\ \A a \in Args(l) : l.yield[a] \notin {Arg(b) : b \in Args(l)}
  /\ \A k \in Body(l) : l.kind[k] \notin {"nested", "barrier"}

(*-------------------------- the initial schedule -------------------------*)

LatencyOps(l) == {k \in Body(l) : l.latency[k] > 0}
KeyOps(l) == ForwardSlice(l, LatencyOps(l))

(* Mutant: the latency of the user counts, not that of the producer.       *)
DistanceOfUsers(l) ==
  LET dist[k \in Body(l)] == Max({0} \cup {l.latency[u] + dist[u] : u \in Users(l, k)})
  IN  dist

(* The longest path, in latencies, to the end of the loop's body.          *)
Distance(l) ==
  LET dist[k \in Body(l)] == l.latency[k] + Max({0} \cup {dist[u] : u \in Users(l, k)})
  IN  dist

KeyStage(l) ==
  LET dist == Distance(l)
      maxDistance == Max({dist[k] : k \in LatencyOps(l)})
  IN  [k \in KeyOps(l) |-> maxDistance - dist[k]]

(* An `if' that nothing scheduled uses goes to the end of the turn.        *)
EpilogueIfs(l) ==
  {k \in KeyOps(l) : l.kind[k] = "if" /\ l.latency[k] = 0 /\ Users(l, k) = {}}

(* Cluster i holds stage top - i + 1; the last one is the epilogue.        *)
ScheduleKeyOps(l) ==
  LET stage == KeyStage(l)
      top == Max(Range(stage))
      Cluster(k) == IF k \in EpilogueIfs(l) THEN top + 2 ELSE top - stage[k] + 1
  IN  [numStages |-> top + 1,
       clusters |-> [i \in 1 .. top + 2 |-> i],
       sched |-> [k \in KeyOps(l) |-> At(stage[k], Cluster(k))]]

(* A loop that has a schedule: everything in one stage if its latency      *)
(* operations are in one, else the same schedule from stage 0 on.          *)
Given(l) == {k \in Body(l) : l.given[k] # <<>>}

ExistingSchedule(l) ==
  LET stages == {l.given[k][1] : k \in Given(l)}
      used == {l.given[k][2] : k \in Given(l)}
  IN  IF Cardinality({l.given[k][1] : k \in {k \in Given(l) : l.kind[k] = "load"}}) <= 1
      THEN [numStages |-> 1, clusters |-> <<1>>, sched |-> [k \in Body(l) |-> At(0, 1)]]
      ELSE [numStages |-> Max(stages) - Min(stages) + 1,
            clusters |-> [i \in 1 .. Max(used) - Min(used) + 1 |-> i],
            sched |-> [k \in Given(l) |->
                         At(l.given[k][1] - Min(stages), l.given[k][2] - Min(used) + 1)]]

Init ==
  /\ loop \in Loops
  /\ phase = "initial"
  /\ numStages = 0 /\ clusters = <<>> /\ sched = <<>>
  /\ todo = <<>> /\ visit = [op |-> 0] /\ pending = {} /\ dist1Cluster = <<>>
  /\ afterPrologue = 0 /\ early = {}

Start(s) ==
  /\ numStages' = s.numStages /\ clusters' = s.clusters /\ sched' = s.sched
  /\ phase' = "ifs"

InitialSchedule ==
  /\ phase = "initial" /\ IsSafeToPipeline(loop)
  /\ \/ LatencyOps(loop) # {} /\ \E s \in {ScheduleKeyOps(loop)} : Start(s)
     \/ LatencyOps(loop) = {} /\ loop.given # <<>> /\ Start(ExistingSchedule(loop))
  /\ UNCHANGED <<loop, todo, visit, pending, dist1Cluster, afterPrologue, early>>

KeepLoop ==
  /\ phase = "initial"
  /\ ~IsSafeToPipeline(loop) \/ (LatencyOps(loop) = {} /\ loop.given = <<>>)
  /\ phase' = "kept"
  /\ UNCHANGED <<loop, numStages, clusters, sched, todo, visit, pending, dist1Cluster,
                 afterPrologue, early>>

(*------------------ `if's at the two ends of the turn --------------------*)

PrologueIfs(l) ==
  {k \in Body(l) : l.kind[k] = "if" /\ \E u \in DOMAIN sched : k \in BackwardSlice(l, u)}

PrologueStage(l, k) == Min({sched[u].stage : u \in {u \in DOMAIN sched : k \in BackwardSlice(l, u)}})

(* getOpsInOrder: cluster by cluster, in the order of the program.         *)
InOrder(s, cs) ==
  LET program == [k \in 1 .. Max(DOMAIN s) |-> k]
      InCluster(c) == SelectSeq(program, LAMBDA k : k \in DOMAIN s /\ s[k].cluster = c)
  IN  FlattenSeq([i \in DOMAIN cs |-> InCluster(cs[i])])

(* Its entries, stage by stage.                                            *)
StageByStage(s, cs) ==
  LET order == InOrder(s, cs)
      entries == [i \in DOMAIN order |-> [op |-> order[i], at |-> s[order[i]]]]
  IN  FlattenSeq([i \in 1 .. numStages |-> SelectSeq(entries, LAMBDA e : e.at.stage = i - 1)])

SchedulePrologueAndEpilogue ==
  /\ phase = "ifs"
  /\ afterPrologue' = Head(clusters)
  /\ \E front \in {IF PrologueIfs(loop) = {} THEN <<>> ELSE <<NewCluster(clusters)>>} :
     \E epilogue \in {NewCluster(front \o clusters)} :
       /\ clusters' = front \o clusters \o <<epilogue>>
       /\ sched' = [k \in DOMAIN sched \cup {k \in Body(loop) : loop.kind[k] = "if"} |->
                      IF k \in DOMAIN sched THEN sched[k]
                      ELSE IF k \in PrologueIfs(loop) THEN At(PrologueStage(loop, k), Head(front))
                      ELSE At(numStages - 1, epilogue)]
  /\ todo' = StageByStage(sched', clusters')
  /\ phase' = "deps"
  /\ UNCHANGED <<loop, numStages, visit, pending, dist1Cluster, early>>

(*----------------------------- dependencies ------------------------------*)

(* insertMinimum: whether `at' is earlier than where k is.                 *)
Earlier(cs, at, s, k) ==
  \/ k \notin DOMAIN s
  \/ at.stage < s[k].stage
  \/ at.stage = s[k].stage /\ Rank(cs, at.cluster) < Rank(cs, s[k].cluster)

(* insertDepsOfOp: the recursion goes on from what it has moved.           *)
InsertDeps(l, cs, s, k, at, includeArg) ==
  LET Deps(j) == {d \in Producers(l, j) \cup (IF includeArg THEN CarriedProducers(l, j) ELSE {}) :
                    Earlier(cs, at, s, d)}
      moved == Closure(l, Deps(k), Deps)
  IN  [j \in DOMAIN s \cup moved |-> IF j \in moved THEN at ELSE s[j]]

(* Mutant: what has moved starts the walk again.                           *)
ScheduleDependenciesAgain ==
  /\ phase \in {"deps", "lowering"}
  /\ todo # <<>>
  /\ sched' = InsertDeps(loop, clusters, sched, Head(todo).op, Head(todo).at, FALSE)
  /\ todo' = StageByStage(sched', clusters)
  /\ UNCHANGED <<loop, phase, numStages, clusters, visit, pending, dist1Cluster, afterPrologue, early>>

ScheduleDependencies ==
  /\ phase \in {"deps", "lowering"}
  /\ todo # <<>>
  /\ sched' = InsertDeps(loop, clusters, sched, Head(todo).op, Head(todo).at, FALSE)
  /\ todo' = Tail(todo)
  /\ UNCHANGED <<loop, phase, numStages, clusters, visit, pending, dist1Cluster, afterPrologue, early>>

DependenciesDone ==
  /\ phase = "deps" /\ todo = <<>>
  /\ phase' = "dist1"
  /\ early' = DOMAIN sched
  /\ UNCHANGED <<loop, numStages, clusters, sched, todo, visit, pending, dist1Cluster,
                 afterPrologue>>

(*-------------------- dependencies of one iteration ----------------------*)

UsedArgs(l, k) == {a \in Args(l) : Arg(a) \in l.uses[k]}

VisitOp ==
  /\ phase = "dist1" /\ pending = {} /\ visit.op < Len(loop.kind)
  /\ \E k \in {visit.op + 1} :
       \/ /\ k \in DOMAIN sched /\ sched[k].stage # numStages - 1
          /\ visit' = [op |-> k, at |-> sched[k]]
          /\ pending' = UsedArgs(loop, k)
       \/ /\ ~(k \in DOMAIN sched /\ sched[k].stage # numStages - 1)
          /\ visit' = [op |-> k]
          /\ pending' = {}
  /\ UNCHANGED <<loop, phase, numStages, clusters, sched, todo, dist1Cluster, afterPrologue, early>>

InsertCarried(d, cs, at) ==
  sched' = InsertDeps(loop, cs, [j \in DOMAIN sched \cup {d} |-> IF j = d THEN at ELSE sched[j]], d, at, TRUE)

(* Mutant: the new cluster comes behind that of the user.                  *)
InsertBehind(cs, c, new) == InsertAt(cs, Rank(cs, c) + 1, new)

InsertBefore(cs, c, new) == InsertAt(cs, Rank(cs, c), new)

(* An operand carried from the iteration before: its definition is one     *)
(* stage later, in a cluster before; a load goes with its user.            *)
CarriedOperand ==
  /\ phase = "dist1"
  /\ \E a \in pending :
       /\ pending' = pending \ {a}
       /\ \/ /\ \A d \in Body(loop) : loop.yield[a] = Op(d) => d \in DOMAIN sched
             /\ UNCHANGED <<clusters, sched, dist1Cluster>>
          \/ \E d \in Body(loop) \ DOMAIN sched :
               /\ loop.yield[a] = Op(d)
               /\ \/ /\ loop.kind[d] = "load"
                     /\ InsertCarried(d, clusters, visit.at)
                     /\ UNCHANGED <<clusters, dist1Cluster>>
                  \/ /\ loop.kind[d] # "load" /\ visit.at.cluster \in DOMAIN dist1Cluster
                     /\ InsertCarried(d, clusters, At(visit.at.stage + 1, dist1Cluster[visit.at.cluster]))
                     /\ UNCHANGED <<clusters, dist1Cluster>>
                  \/ /\ loop.kind[d] # "load" /\ visit.at.cluster \notin DOMAIN dist1Cluster
                     /\ \E new \in {NewCluster(clusters)} :
                          /\ clusters' = InsertBefore(clusters, visit.at.cluster, new)
                          /\ dist1Cluster' = [c \in DOMAIN dist1Cluster \cup {visit.at.cluster} |->
                                                IF c = visit.at.cluster THEN new ELSE dist1Cluster[c]]
                          /\ InsertCarried(d, clusters', At(visit.at.stage + 1, new))
  /\ UNCHANGED <<loop, phase, numStages, todo, visit, afterPrologue, early>>

(*------------------------------- the rest --------------------------------*)

(* Mutant: an operation nothing has scheduled follows the prologue.        *)
RemainingAfterPrologue(u) == afterPrologue

(* Not before a definition of the last stage it uses, directly or through  *)
(* other operations nothing has scheduled.                                 *)
RemainingCluster(u) ==
  LET above == Closure(loop, {u}, LAMBDA j : Producers(loop, j) \ DOMAIN sched)
      last == {p \in DOMAIN sched : sched[p].stage = numStages - 1 /\ \E j \in above : p \in Producers(loop, j)}
  IN  clusters[Max({Rank(clusters, c) : c \in {afterPrologue} \cup {sched[p].cluster : p \in last}})]

ScheduleRemainingToLastStage ==
  /\ phase = "dist1" /\ pending = {} /\ visit.op = Len(loop.kind)
  /\ sched' = [k \in Body(loop) |->
                 IF k \in DOMAIN sched THEN sched[k] ELSE At(numStages - 1, RemainingCluster(k))]
  /\ phase' = "scheduled"
  /\ UNCHANGED <<loop, numStages, clusters, todo, visit, pending, dist1Cluster, afterPrologue, early>>

ScheduleNext ==
  \/ InitialSchedule \/ KeepLoop \/ SchedulePrologueAndEpilogue \/ ScheduleDependencies
  \/ DependenciesDone \/ VisitOp \/ CarriedOperand \/ ScheduleRemainingToLastStage

=============================================================================
