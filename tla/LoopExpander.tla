---------------------------- MODULE LoopExpander ----------------------------
(***************************************************************************)
(* pipelineForLoop (PipelineExpander.cpp), of a loop LoopSchedule has      *)
(* scheduled: a prologue that starts the first turns, a kernel loop in     *)
(* which every stage works on an iteration of its own, and an epilogue, or *)
(* predicates in the kernel that switch off stages without an iteration.   *)
(* The model emits and runs the code together: a step is one operation of  *)
(* the pipelined program.                                                  *)
(*                                                                         *)
(* The value of operation k in iteration n of the original loop is the     *)
(* token <<"op", k, n>>.  What an operation computes is that token only if *)
(* its operands are those of iteration n; the expander's bookkeeping of    *)
(* which version of a value an operation must use is thereby checked, not  *)
(* the arithmetic.  An operation switched off by its predicate gives       *)
(* Poison; a version the expander never set is Unset.                      *)
(***************************************************************************)
EXTENDS LoopLowering

VARIABLES
  opOrder,        \* operations in the order of the final schedule
  dynamicLoop,    \* fewer iterations than stages, or not known
  part,           \* the part of prologue or epilogue being run
  rest,           \* operations of this part, or of this turn, still to run
  valueMapping,   \* value -> its versions 0 .. maxStage
  iterArgs,       \* the kernel's iteration arguments for those of the loop
  crossArgs,      \* those for values used in a later stage: <<value, turns ago>>
  iv,             \* the kernel's induction variable
  mapping,        \* results of this turn of the kernel
  returnValues,   \* results of the loop
  executed,       \* history: how often each operation has run
  faults          \* history: operations that had a wrong operand

expandVars == <<opOrder, dynamicLoop, part, rest, valueMapping, iterArgs, crossArgs, iv,
                mapping, returnValues, executed, faults>>

vars == <<schedVars, loweringVars, expandVars>>

Poison == <<"poison">>
Unset == <<"unset">>

stages == [k \in DOMAIN sched |-> sched[k].stage]
maxStage == Max(Range(stages))

Definition(l, v) ==
  {d \in Body(l) : v = Op(d) \/ \E a \in Args(l) : v = Arg(a) /\ l.yield[a] = Op(d)}
DistanceTo(v) == IF v[1] = "arg" THEN 1 ELSE 0

(*------------------------ the original loop ------------------------------*)

Trips(l) == IF l.ub <= l.lb THEN 0 ELSE (l.ub - l.lb + l.step - 1) \div l.step

InLoop(l, v, n) ==
  CASE v[1] = "op" -> <<"op", v[2], n>>
    [] v[1] = "iv" -> <<"iv", l.lb + n * l.step>>
    [] v[1] = "outside" -> v
    [] v[1] = "arg" -> IF n = 0 THEN <<"init", v[2]>>
                       ELSE IF l.yield[v[2]][1] = "op" THEN <<"op", l.yield[v[2]][2], n - 1>>
                       ELSE l.yield[v[2]]

(* Operation k runs, if `on' is true, with the operands operand[v].        *)
ResultOf(k, operand, on) ==
  IF ~on THEN Poison
  ELSE IF \A v \in loop.uses[k] : operand[v] = InLoop(loop, v, executed[k])
       THEN <<"op", k, executed[k]>>
       ELSE <<"wrong", k>>

Run(k, operand, on) ==
  /\ executed' = [executed EXCEPT ![k] = @ + (IF on THEN 1 ELSE 0)]
  /\ faults' = faults \cup
       {k : v \in {v \in loop.uses[k] : \/ operand[v] = Unset
                                        \/ on /\ operand[v] # InLoop(loop, v, executed[k])}}

(*--------------------------- initialisation ------------------------------*)

ExpandInit ==
  /\ opOrder = <<>> /\ dynamicLoop = FALSE /\ part = 0 /\ rest = <<>>
  /\ valueMapping = <<>> /\ iterArgs = <<>> /\ crossArgs = <<>> /\ iv = 0
  /\ mapping = <<>> /\ returnValues = <<>>
  /\ executed = <<>> /\ faults = {}

(* The cycle of an operation, unrolled by stages.                          *)
Cycle(s, order, k) ==
  (CHOOSE c \in DOMAIN order : order[c] = k) + s[k].stage * Len(order)

VerifySchedule(l, s, order) ==
  \A k \in Body(l) : \A v \in l.uses[k] : \A d \in Definition(l, v) :
    Cycle(s, order, k) >= Cycle(s, order, d) - Len(order) * DistanceTo(v)

Reject ==
  /\ phase = "lowered"
  /\ ~VerifySchedule(loop, sched, InOrder(sched, clusters))
  /\ phase' = "kept"
  /\ UNCHANGED <<loop, numStages, clusters, sched, todo, visit, pending, dist1Cluster,
                 afterPrologue, early, loweringVars, expandVars>>

(* setValueMapping, for a set of [value, version, element].                *)
SetVersions(vm, changes) ==
  [v \in DOMAIN vm \cup {c[1] : c \in changes} |->
     [i \in 0 .. maxStage |->
        LET new == {c \in changes : c[1] = v /\ c[2] = i}
        IN  IF new # {} THEN (CHOOSE c \in new : TRUE)[3]
            ELSE IF v \in DOMAIN vm THEN vm[v][i] ELSE Unset]]

Version(v, i) == IF v \in DOMAIN valueMapping THEN valueMapping[v][i] ELSE Unset

(* The arguments' initial values are version 0; one that takes a value     *)
(* from outside the loop has it from then on.                              *)
InitialVersions(l) ==
  {<<Arg(a), 0, <<"init", a>>>> : a \in Args(l)} \cup
    UNION {{<<Arg(a), i, l.yield[a]>> : i \in 1 .. maxStage - 1} :
             a \in {a \in Args(l) : l.yield[a] = Outside(a)}}

PrologueOps(order, i) == SelectSeq(order, LAMBDA k : stages[k] <= i)
EpilogueOps(order, i) == SelectSeq(order, LAMBDA k : stages[k] >= i)

IvVersion(i, n) == <<Iv, i, <<"iv", loop.lb + n * loop.step>>>>

UnchangedSchedule ==
  UNCHANGED <<loop, numStages, clusters, sched, todo, visit, pending, dist1Cluster, afterPrologue, early,
              loweringVars>>

IsDynamic == ~loop.constBounds \/ Trips(loop) < maxStage

InitializeLoopInfo ==
  /\ phase = "lowered"
  /\ \E order \in {InOrder(sched, clusters)} :
       /\ VerifySchedule(loop, sched, order)
       /\ opOrder' = order
       /\ rest' = PrologueOps(order, 0)
  /\ dynamicLoop' = IsDynamic
  /\ executed' = [k \in Body(loop) |-> 0]
  /\ valueMapping' = SetVersions(<<>>, InitialVersions(loop) \cup {IvVersion(0, 0)})
  /\ phase' = IF maxStage = 0 THEN "kernelloop" ELSE "prologue"
  /\ UnchangedSchedule
  /\ UNCHANGED <<part, iterArgs, crossArgs, iv, mapping, returnValues, faults>>

(*------------------------------ prologue ---------------------------------*)

YieldedBy(k) == {a \in Args(loop) : loop.yield[a] = Op(k)}

(* Mutant: a live-out value is not selected in the prologue.               *)
CarriedAlways(a, on, result, prev) == result

(* What the argument is after this iteration: where the iteration may not  *)
(* exist and the loop's result is used, the old value must survive.        *)
CarriedInPrologue(a, on, result, prev) ==
  IF dynamicLoop /\ a \in loop.liveOut /\ ~on THEN prev ELSE result

EmitPrologueOp ==
  /\ phase = "prologue" /\ rest # <<>>
  /\ \E k \in {Head(rest)} : \E i \in {part - stages[k]} :
     \E on \in {~dynamicLoop \/ loop.lb + i * loop.step < loop.ub} :
     \E operand \in {[v \in loop.uses[k] |-> Version(v, i)]} :
     \E result \in {ResultOf(k, operand, on)} :
       /\ Run(k, operand, on)
       /\ valueMapping' = SetVersions(valueMapping,
            {<<Op(k), i, result>>} \cup
            {<<Arg(a), i + 1, CarriedInPrologue(a, on, result, Version(Arg(a), i))>> : a \in YieldedBy(k)})
  /\ rest' = Tail(rest)
  /\ UnchangedSchedule
  /\ UNCHANGED <<phase, opOrder, dynamicLoop, part, iterArgs, crossArgs, iv, mapping, returnValues>>

NextProloguePart ==
  /\ phase = "prologue" /\ rest = <<>>
  /\ \/ /\ part + 1 < maxStage
        /\ part' = part + 1
        /\ rest' = PrologueOps(opOrder, part + 1)
        /\ valueMapping' = SetVersions(valueMapping, {IvVersion(part + 1, part + 1)})
        /\ UNCHANGED phase
     \/ /\ part + 1 = maxStage
        /\ phase' = "kernelloop"
        /\ UNCHANGED <<part, rest, valueMapping>>
  /\ UnchangedSchedule
  /\ UNCHANGED <<opOrder, dynamicLoop, iterArgs, crossArgs, iv, mapping, returnValues,
                 executed, faults>>

(*------------------------------- kernel ----------------------------------*)

(* analyzeCrossStageValues: a use that is neither in the stage of the      *)
(* definition nor the direct use of a value carried from the stage after.  *)
CrossUses(l) ==
  UNION {{<<v, d, u>> : d \in {d \in Definition(l, v) : stages[d] \notin {stages[u], stages[u] + DistanceTo(v)}}} :
           <<v, u>> \in {w \in (UNION Range(l.uses)) \X Body(l) : w[1] \in l.uses[w[2]]}}

CrossValues(l) == {u[1] : u \in CrossUses(l)}
DefStage(l, v) == stages[CHOOSE d \in Body(l) : d \in Definition(l, v)]
LastUseStage(l, v) == Max({stages[u[3]] : u \in {u \in CrossUses(l) : u[1] = v}})
Versions(l, v) == LastUseStage(l, v) - DefStage(l, v)

(* Mutant: a value crosses as many stages as it is used in.                *)
CrossAgeOne(l, v) == {1}

CrossAges(l, v) == 1 .. Versions(l, v)

CreateKernelLoop ==
  /\ phase = "kernelloop"
  /\ iterArgs' = [a \in Args(loop) |->
       IF Definition(loop, Arg(a)) = {} THEN <<"init", a>>
       ELSE Version(Arg(a), maxStage - DefStage(loop, Arg(a)))]
  /\ crossArgs' = [w \in {<<v, age>> : v \in CrossValues(loop), age \in 1 .. maxStage} |->
       IF w[2] \in CrossAges(loop, w[1])
       THEN Version(w[1], maxStage - DefStage(loop, w[1]) - w[2]) ELSE Unset]
  /\ iv' = loop.lb
  /\ rest' = opOrder
  /\ mapping' = [k \in Body(loop) |-> Unset]
  /\ phase' = "kernel"
  /\ UnchangedSchedule
  /\ UNCHANGED <<opOrder, dynamicLoop, part, valueMapping, returnValues, executed, faults>>

KernelUb == IF loop.peel THEN loop.ub - maxStage * loop.step ELSE loop.ub

(* Mutant: the predicate stops one iteration early.                        *)
StageRunsTooShort(s) == loop.peel \/ s = maxStage \/ iv < loop.ub - (maxStage - s + 1) * loop.step

(* emitPredicateForStage: the stage's own iteration exists.                *)
StageRuns(s) == loop.peel \/ s = maxStage \/ iv < loop.ub - (maxStage - s) * loop.step

(* The operand v of an operation of stage s.                               *)
KernelOperand(v, s) ==
  LET dep == Definition(loop, v)
      d == CHOOSE d \in dep : TRUE
  IN  CASE v = Iv -> <<"iv", iv + (maxStage - s) * loop.step>>
        [] v[1] = "arg" /\ dep = {} -> IF s # maxStage THEN loop.yield[v[2]] ELSE iterArgs[v[2]]
        [] v[1] = "arg" /\ dep # {} /\ stages[d] = s -> iterArgs[v[2]]
        [] v[1] = "op" /\ stages[d] = s -> mapping[d]
        [] v[1] = "arg" /\ dep # {} /\ stages[d] = s + 1 -> mapping[d]
        [] OTHER -> crossArgs[<<v, s - stages[d]>>]

KernelOp ==
  /\ phase = "kernel" /\ iv < KernelUb /\ rest # <<>>
  /\ \E k \in {Head(rest)} : \E on \in {StageRuns(stages[k])} :
     \E operand \in {[v \in loop.uses[k] |-> KernelOperand(v, stages[k])]} :
       /\ Run(k, operand, on)
       /\ mapping' = [mapping EXCEPT ![k] = ResultOf(k, operand, on)]
  /\ rest' = Tail(rest)
  /\ UnchangedSchedule
  /\ UNCHANGED <<phase, opOrder, dynamicLoop, part, valueMapping, iterArgs, crossArgs, iv,
                 returnValues>>

Mapped(v) ==
  CASE v[1] = "op" -> mapping[v[2]] [] v[1] = "arg" -> iterArgs[v[2]] [] OTHER -> v

(* Mutant: the kernel always yields what it has just computed.             *)
KernelYieldAlways(a) == Mapped(loop.yield[a])

(* With no epilogue, a result of the loop keeps its value in the turns     *)
(* whose iteration does not exist.                                         *)
KernelYield(a) ==
  IF /\ ~loop.peel /\ a \in loop.liveOut
     /\ Definition(loop, Arg(a)) # {}
     /\ ~StageRuns(DefStage(loop, Arg(a)))
  THEN iterArgs[a] ELSE Mapped(loop.yield[a])

NextTurn ==
  /\ phase = "kernel" /\ iv < KernelUb /\ rest = <<>>
  /\ iterArgs' = [a \in Args(loop) |-> KernelYield(a)]
  /\ crossArgs' = [w \in DOMAIN crossArgs |->
       IF w[2] = 1 THEN Mapped(w[1]) ELSE crossArgs[<<w[1], w[2] - 1>>]]
  /\ iv' = iv + loop.step
  /\ rest' = opOrder
  /\ mapping' = [k \in Body(loop) |-> Unset]
  /\ UnchangedSchedule
  /\ UNCHANGED <<phase, opOrder, dynamicLoop, part, valueMapping, returnValues, executed, faults>>

(*------------------------------ epilogue ---------------------------------*)

CeilTrips == (loop.ub - loop.lb + loop.step - 1) \div loop.step
TotalIterations == IF loop.ub - loop.lb + loop.step - 1 < 0 THEN 0 - ((1 - loop.ub + loop.lb - loop.step) \div loop.step) ELSE CeilTrips

StartIter == Max({0, TotalIterations - maxStage})

KernelVersions ==
  UNION {{<<v, maxStage - DefStage(loop, v) - age + 1, crossArgs[<<v, age>>]>> : age \in CrossAges(loop, v)} :
           v \in CrossValues(loop)}
  \cup UNION {IF Definition(loop, Arg(a)) = {}
              THEN {<<Arg(a), i, loop.yield[a]>> : i \in 1 .. maxStage}
              ELSE {<<Arg(a), maxStage - s + 1, iterArgs[a]>> : s \in {DefStage(loop, Arg(a))} \ {0}} :
                a \in Args(loop)}
  \cup {IvVersion(i, StartIter + i - 1) : i \in 1 .. maxStage}

KernelDone ==
  /\ phase = "kernel" /\ iv >= KernelUb
  /\ returnValues' = iterArgs
  /\ valueMapping' = SetVersions(<<>>, KernelVersions)
  /\ \/ /\ loop.peel /\ maxStage > 0
        /\ part' = 1 /\ rest' = EpilogueOps(opOrder, 1) /\ phase' = "epilogue"
     \/ /\ ~loop.peel \/ maxStage = 0
        /\ rest' = <<>> /\ phase' = "done" /\ UNCHANGED part
  /\ UnchangedSchedule
  /\ UNCHANGED <<opOrder, dynamicLoop, iterArgs, crossArgs, iv, mapping, executed, faults>>

EpilogueOn(version) == ~dynamicLoop \/ TotalIterations >= version

EmitEpilogueOp ==
  /\ phase = "epilogue" /\ rest # <<>>
  /\ \E k \in {Head(rest)} : \E i \in {maxStage - stages[k] + part} :
     \E operand \in {[v \in loop.uses[k] |-> Version(v, i)]} :
     \E result \in {ResultOf(k, operand, EpilogueOn(i))} :
       /\ Run(k, operand, EpilogueOn(i))
       /\ valueMapping' = SetVersions(valueMapping,
            {<<Op(k), i, result>>} \cup
            {<<Arg(a), i + 1, result>> : a \in {a \in YieldedBy(k) : i + 1 <= maxStage}})
       /\ returnValues' = [a \in DOMAIN returnValues |->
            IF a \in YieldedBy(k) THEN result ELSE returnValues[a]]
  /\ rest' = Tail(rest)
  /\ UnchangedSchedule
  /\ UNCHANGED <<phase, opOrder, dynamicLoop, part, iterArgs, crossArgs, iv, mapping>>

(* The version of argument a that this part has set, if it set one.        *)
PartVersion(a) == {maxStage - stages[d] + part : d \in {d \in Definition(loop, Arg(a)) : stages[d] >= part}}

Selected(a, i) == IF EpilogueOn(i) THEN returnValues[a] ELSE Version(Arg(a), i)

NextEpiloguePart ==
  /\ phase = "epilogue" /\ rest = <<>>
  /\ \/ dynamicLoop
        /\ returnValues' = [a \in DOMAIN returnValues |->
             IF PartVersion(a) = {} THEN returnValues[a] ELSE Selected(a, Max(PartVersion(a)))]
        /\ valueMapping' = SetVersions(valueMapping,
             UNION {{<<Arg(a), i + 1, Selected(a, i)>> : i \in PartVersion(a) \ {maxStage}} : a \in Args(loop)})
     \/ ~dynamicLoop /\ UNCHANGED <<returnValues, valueMapping>>
  /\ \/ part < maxStage /\ part' = part + 1 /\ rest' = EpilogueOps(opOrder, part + 1) /\ UNCHANGED phase
     \/ part = maxStage /\ phase' = "done" /\ UNCHANGED <<part, rest>>
  /\ UnchangedSchedule
  /\ UNCHANGED <<opOrder, dynamicLoop, iterArgs, crossArgs, iv, mapping, executed, faults>>

(*----------------------------- properties --------------------------------*)

(* Once every operation has its stage, it comes after what it uses in the  *)
(* same iteration: in a later stage, a later cluster of the stage, or      *)
(* later in the same cluster.  Lowering has kept that, and has found a     *)
(* place for all it has added.                                             *)
DependenciesHold ==
  phase \in {"scheduled", "lowered"} =>
    /\ DOMAIN sched = Body(loop)
    /\ \A k \in Body(loop) : \A j \in Producers(loop, k) :
         Cycle(sched, InOrder(sched, clusters), j) < Cycle(sched, InOrder(sched, clusters), k)

(* What an operation takes from the iteration before is ready too, unless  *)
(* its definition had its place for the sake of its own iteration.         *)
CarriedHold ==
  phase = "scheduled" =>
    \A k \in Body(loop) : \A d \in CarriedProducers(loop, k) \ early :
      Cycle(sched, InOrder(sched, clusters), d) - Len(loop.kind)
        <= Cycle(sched, InOrder(sched, clusters), k)

(* Later steps leave a user of a load as far behind it as its latency,     *)
(* unless what was scheduled for a carried dependency takes a value from   *)
(* it, an iteration later.                                                 *)
LatencyKept ==
  phase = "scheduled" =>
    \A k \in LatencyOps(loop) : \A u \in Users(loop, k) :
      \/ sched[u].stage >= sched[k].stage + loop.latency[k]
      \/ \E j \in Body(loop) \ early : CarriedProducers(loop, j) \cap ForwardSlice(loop, {u}) # {}

(* Every operation that runs has the operands it has in the same iteration *)
(* of the original loop.                                                   *)
OperandsAsInLoop == faults = {}

(* The pipelined loop runs each operation once for each iteration and      *)
(* returns what the loop returns.                                          *)
ResultsAsInLoop ==
  phase = "done" =>
    /\ \A k \in Body(loop) : executed[k] = Trips(loop)
    /\ \A a \in loop.liveOut : returnValues[a] = InLoop(loop, Arg(a), Trips(loop))

=============================================================================
