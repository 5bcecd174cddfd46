------------------------------ MODULE Membar ------------------------------
(***************************************************************************)
(* Where barriers and fences go (lib/Analysis/Membar.cpp,                  *)
(* ProxyFenceInsertion.cpp).  The threads of a CTA share memory and run    *)
(* freely between barriers; MembarAnalysis walks each function, callees    *)
(* first, with the accesses that no barrier has ordered yet, and inserts a *)
(* barrier where the next operation would clash with one of them.          *)
(* ProxyFenceAnalysis reuses the walk for fences between ordinary accesses *)
(* and copies by the TMA unit.                                             *)
(*                                                                         *)
(* First the analysis runs, one operation per step; then the program with  *)
(* the inserted barriers is executed along every path.  A function is a    *)
(* graph of virtual blocks; a block without successors returns.            *)
(***************************************************************************)
EXTENDS Integers, Sequences, FiniteSets, SequencesExt

CONSTANTS
  Programs,   \* [fences, functions]: functions, callees first, are [succ, code];
              \* fences tells whether to insert fences (ProxyFenceAnalysis)
              \* or barriers (MembarAnalysis)
  Top         \* end of shared memory

IsSequence(s) == s \in Seq(ToSet(s))

(* Operations.  reads and writes are the intervals of the buffers an       *)
(* operation names; an operation with a scratch buffer writes it,          *)
(* synchronises (the warp or the CTA) and reads it.  `proxy' tells whether *)
(* the TMA unit makes the access; `ignored' is ignoreOpForProxyFence.      *)
Op(kind, reads, writes) ==
  [kind |-> kind, reads |-> reads, writes |-> writes, proxy |-> "none", ignored |-> FALSE]

(* A call; the callee's memory is the virtual buffer at offset base.       *)
CallOp(callee, base) ==
  [kind |-> "call", reads |-> {}, writes |-> {}, proxy |-> "none", ignored |-> FALSE,
   callee |-> callee, base |-> base]

Everything == <<0, Top>>

Barrier == Op("barrier", {}, {})
Fence == Op("fence", {}, {})

Intervals == {i \in (0 .. Top) \X (0 .. Top) : i[1] < i[2]}

Scratches == {"scratch", "warpscratch"}
PlainKinds == {"barrier", "fence", "wait", "arrive", "access"} \cup Scratches

(* The operations of function f, whose callees come before it.  A scratch  *)
(* buffer is the only shared memory of its operation.                      *)
PlainOps ==
  {op \in [kind : PlainKinds, reads : SUBSET Intervals, writes : SUBSET Intervals,
           proxy : {"none", "read", "write"}, ignored : BOOLEAN] :
     /\ op.kind \in {"barrier", "fence", "wait"} => op.reads = {} /\ op.writes = {}
     /\ op.kind \in Scratches => op.reads = op.writes
     /\ op.proxy = "write" => op.kind = "access" /\ op.ignored}

CallOps(f) ==
  [kind : {"call"}, reads : {{}}, writes : {{}}, proxy : {"none"}, ignored : {FALSE},
   callee : 1 .. f - 1, base : Nat]

ASSUME ProgramAssumption ==
  /\ Top \in Nat \ {0}
  /\ \A p \in Programs :
       /\ p.fences \in BOOLEAN
       /\ p.functions # <<>> /\ IsSequence(p.functions)
       /\ \A f \in DOMAIN p.functions :
            LET g == p.functions[f]
            IN  /\ IsSequence(g.code) /\ g.code # <<>>
                /\ IsSequence(g.succ) /\ DOMAIN g.succ = DOMAIN g.code
                /\ \A b \in DOMAIN g.code :
                     /\ g.succ[b] \in Seq(DOMAIN g.code)
                     /\ g.code[b] \in Seq(PlainOps \cup CallOps(f))

VARIABLES
  fences,     \* fences or barriers
  succ,       \* successors of each block of each function
  code,       \* operations of each block, barriers inserted as they come
  fn,         \* the function under analysis
  blockList,  \* its work list
  block,      \* the block under analysis, 0 between two
  pos,        \* position of the next operation
  blockInfo,  \* the accesses pending there
  input,      \* inputBlockInfoMap
  output,     \* outputBlockInfoMap: a function of the blocks seen
  funcInfo,   \* funcBlockInfoMap of the functions analysed
  stack,      \* execution: frames [fn, block, at, base], innermost first
  pending     \* execution: accesses no barrier (fence) has ordered yet

walk == <<block, pos, blockInfo>>
vars == <<fences, succ, code, fn, blockList, walk, input, output, funcInfo, stack, pending>>

Functions_ == DOMAIN code
Analysing == fn \in Functions_
Running == stack # <<>>

-----------------------------------------------------------------------------
(* BlockInfo: the intervals read and written, with the operations (here:   *)
(* whether filterFn ignores them).                                         *)

Nothing == [reads |-> {}, writes |-> {}]

Join(a, b) == [reads |-> a.reads \cup b.reads, writes |-> a.writes \cup b.writes]

Overlap(i, j) == i[1] < j[2] /\ j[1] < i[2]

AnyOverlap(s, t) == \E a \in s, b \in t : Overlap(a.at, b.at) /\ ~(fences /\ b.ignored)

(* Mutant: a write after a read is taken to be harmless.                   *)
IsIntersectedRAW(info, other) ==
  \/ AnyOverlap(info.writes, other.reads)
  \/ AnyOverlap(info.writes, other.writes)

IsIntersected(info, other) ==
  \/ AnyOverlap(info.writes, other.reads)
  \/ AnyOverlap(info.reads, other.writes)
  \/ AnyOverlap(info.writes, other.writes)

Accesses(op, intervals) == {[at |-> i, ignored |-> op.ignored] : i \in intervals}

Effects(op) ==
  [reads |-> Accesses(op, op.reads), writes |-> Accesses(op, op.writes)]

Written(op) == [reads |-> {}, writes |-> Accesses(op, op.writes)]

(* What an operation does to the accesses pending: the new BlockInfo, and  *)
(* the operations that take its place.                                     *)
Step(info, ops) == [info |-> info, ops |-> ops]

(* Mutant: a warp-level sync is taken for a barrier.                       *)
UpdateScratchSynced(info, op) ==
  LET clash == IsIntersected(info, Written(op))
  IN  Step(Join(Nothing, Effects(op)), IF clash THEN <<Barrier, op>> ELSE <<op>>)

UpdateScratch(info, op) ==
  LET clash == IsIntersected(info, Written(op))
      kept == IF clash \/ op.kind = "scratch" THEN Nothing ELSE info
  IN  Step(Join(kept, Effects(op)), IF clash THEN <<Barrier, op>> ELSE <<op>>)

(* An arrive may signal other threads: it waits for every access and every *)
(* later access waits for it.                                              *)
CurrentInfo(op) ==
  CASE op.kind = "call" -> funcInfo[op.callee]
    [] op.kind = "arrive" -> [reads |-> Accesses(op, op.reads \cup {Everything}),
                              writes |-> Accesses(op, op.writes \cup {Everything})]
    [] OTHER -> Effects(op)

(* Mutant: the barrier an asynchronous wait has already is not seen.       *)
UpdateWaitTwice(info, op, next) == Step(Nothing, <<op, Barrier>>)

(* An asynchronous wait gets a barrier behind it, unless there is one.     *)
UpdateWait(info, op, next) ==
  IF next = "barrier" THEN Step(info, <<op>>) ELSE Step(Nothing, <<op, Barrier>>)

UpdateAccess(info, op) ==
  LET cur == CurrentInfo(op)
      clash == IsIntersected(info, cur)
  IN  Step(Join(IF clash THEN Nothing ELSE info, cur),
           IF clash THEN <<Barrier, op>> ELSE <<op>>)

(* MembarAnalysis::update.                                                 *)
Update(info, op, next) ==
  CASE op.kind = "barrier" -> Step(Nothing, <<op>>)
    [] op.kind = "wait" -> UpdateWait(info, op, next)
    [] op.kind \in Scratches -> UpdateScratch(info, op)
    [] OTHER -> UpdateAccess(info, op)

(* Mutant: ordinary accesses after the fence are not remembered.           *)
UpdateFenceOnce(info, op) ==
  IF op.proxy = "write" /\ IsIntersected(Written(op), info)
  THEN Step(Nothing, <<Fence, op>>)
  ELSE Step(Join(info, [Effects(op) EXCEPT !.writes = {}]), <<op>>)

(* ProxyFenceAnalysis::update.  The destination of a TMA copy is held      *)
(* against the ordinary accesses; a scratch buffer counts as read.         *)
FenceInfo(op) ==
  CASE op.kind = "call" -> funcInfo[op.callee]
    [] op.kind \in Scratches -> [reads |-> Accesses(op, op.reads), writes |-> {}]
    [] op.proxy = "write" -> Nothing
    [] OTHER -> Effects(op)

UpdateFence(info, op) ==
  CASE op.kind = "fence" -> Step(Nothing, <<op>>)
    [] op.proxy = "write" /\ IsIntersected(Written(op), info) -> Step(FenceInfo(op), <<Fence, op>>)
    [] OTHER -> Step(Join(info, FenceInfo(op)), <<op>>)

-----------------------------------------------------------------------------
(* The work list: MembarOrFenceAnalysis::resolve.                          *)

EmptyInput(f) == [b \in DOMAIN code[f] |-> Nothing]

Init ==
  /\ \E p \in Programs :
       /\ fences = p.fences
       /\ succ = [f \in DOMAIN p.functions |-> p.functions[f].succ]
       /\ code = [f \in DOMAIN p.functions |-> p.functions[f].code]
  /\ fn = 1
  /\ blockList = <<1>>
  /\ block = 0 /\ pos = 0 /\ blockInfo = Nothing
  /\ input = EmptyInput(1)
  /\ output = <<>>
  /\ funcInfo = <<>>
  /\ stack = <<>>
  /\ pending = Nothing

Known(b) == b \in DOMAIN output

Successors(f, b) == ToSet(succ[f][b])

(* Mutant: a successor is reached by the last of its predecessors only.    *)
JoinSuccessorsLast(b, info) ==
  [s \in DOMAIN input |-> IF s \in Successors(fn, b) THEN info ELSE input[s]]

JoinSuccessors(b, info) ==
  [s \in DOMAIN input |-> IF s \in Successors(fn, b) THEN Join(input[s], info) ELSE input[s]]

(* Mutant: every result is taken for a new one.                            *)
NeverUnchanged(b, info) == FALSE

Unchanged(b, info) == Known(b) /\ output[b] = info

(* One turn of the work list: take its first block,                        *)
StartBlock ==
  /\ Analysing /\ block = 0 /\ blockList # <<>>
  /\ block' = Head(blockList)
  /\ pos' = 1
  /\ blockInfo' = input[block']
  /\ blockList' = Tail(blockList)
  /\ UNCHANGED <<fences, succ, code, fn, input, output, funcInfo, stack, pending>>

(* go through its operations up to the terminator,                         *)
Walked == code[fn][block]
NextKind == IF pos = Len(Walked) THEN "terminator" ELSE Walked[pos + 1].kind
Visited ==
  IF fences THEN UpdateFence(blockInfo, Walked[pos]) ELSE Update(blockInfo, Walked[pos], NextKind)

Splice(ops, at, new) == SubSeq(ops, 1, at - 1) \o new \o SubSeq(ops, at + 1, Len(ops))

VisitOp ==
  /\ Analysing /\ block # 0 /\ pos <= Len(Walked)
  /\ code' = [code EXCEPT ![fn][block] = Splice(@, pos, Visited.ops)]
  /\ pos' = pos + Len(Visited.ops)
  /\ blockInfo' = Visited.info
  /\ UNCHANGED <<fences, succ, fn, blockList, block, input, output, funcInfo, stack, pending>>

(* and if the result is new, keep it (it may be smaller than the last one: *)
(* a barrier has been inserted), and append the successors.                *)
EndBlock ==
  /\ Analysing /\ block # 0 /\ pos > Len(Walked)
  /\ IF Unchanged(block, blockInfo)
     THEN UNCHANGED <<blockList, input, output>>
     ELSE /\ output' = [c \in DOMAIN output \cup {block} |->
                          IF c = block THEN blockInfo ELSE output[c]]
          /\ input' = JoinSuccessors(block, blockInfo)
          /\ blockList' = blockList \o succ[fn][block]
  /\ block' = 0 /\ pos' = 0 /\ blockInfo' = Nothing
  /\ UNCHANGED <<fences, succ, code, fn, funcInfo, stack, pending>>

Returns(f) == {b \in DOMAIN succ[f] : succ[f][b] = <<>>}

(* The dangling accesses of a function are those of its returns.           *)
Dangling ==
  LET at == {output[b] : b \in {c \in Returns(fn) : Known(c)}}
  IN  [reads |-> UNION {i.reads : i \in at}, writes |-> UNION {i.writes : i \in at}]

Frame(f, base) == [fn |-> f, block |-> 1, at |-> 1, base |-> base]

(* The work list is empty: on to the caller, or to the execution.          *)
FinishFunction ==
  /\ Analysing /\ block = 0 /\ blockList = <<>>
  /\ funcInfo' = Append(funcInfo, Dangling)
  /\ fn' = fn + 1
  /\ output' = <<>>
  /\ IF fn + 1 \in Functions_
     THEN /\ blockList' = <<1>>
          /\ input' = EmptyInput(fn + 1)
          /\ UNCHANGED stack
     ELSE /\ stack' = <<Frame(fn, 0)>>
          /\ UNCHANGED <<blockList, input>>
  /\ UNCHANGED <<fences, succ, code, walk, pending>>

Analyse == StartBlock \/ VisitOp \/ EndBlock \/ FinishFunction

-----------------------------------------------------------------------------
(* Execution.                                                              *)

Here == Head(stack)
OpsHere == code[Here.fn][Here.block]
AtOp == Running /\ Here.at <= Len(OpsHere)
CurrentOp == OpsHere[Here.at]

Shift(intervals) == {<<i[1] + Here.base, i[2] + Here.base>> : i \in intervals}

Orders(op) == op.kind = (IF fences THEN "fence" ELSE "barrier")

(* What is pending after op.  A scratch operation ends with reads, after a *)
(* barrier of its own.  An asynchronous wait makes the copies of this      *)
(* thread visible, those of the others only after a barrier.               *)
PendingAfter(op) ==
  LET own == [reads |-> Shift(op.reads), writes |-> Shift(op.writes)]
  IN  CASE Orders(op) -> Nothing
        [] fences /\ ~Orders(op) -> IF op.ignored THEN pending ELSE Join(pending, own)
        [] ~fences /\ op.kind = "wait" -> [pending EXCEPT !.writes = @ \cup {Everything}]
        [] ~fences /\ op.kind = "scratch" -> [own EXCEPT !.writes = {}]
        [] OTHER -> Join(pending, own)

Advance == <<[Here EXCEPT !.at = @ + 1]>> \o Tail(stack)

Execute ==
  /\ AtOp /\ CurrentOp.kind # "call"
  /\ pending' = PendingAfter(CurrentOp)
  /\ stack' = Advance
  /\ UNCHANGED <<fences, succ, code, fn, blockList, walk, input, output, funcInfo>>

(* The callee's frame lies in the virtual buffer of the call.              *)
Call ==
  /\ AtOp /\ CurrentOp.kind = "call"
  /\ stack' = <<Frame(CurrentOp.callee, Here.base + CurrentOp.base)>> \o Advance
  /\ UNCHANGED <<fences, succ, code, fn, blockList, walk, input, output, funcInfo, pending>>

Branch ==
  /\ Running /\ ~AtOp
  /\ \E b \in Successors(Here.fn, Here.block) :
       stack' = <<[Here EXCEPT !.block = b, !.at = 1]>> \o Tail(stack)
  /\ UNCHANGED <<fences, succ, code, fn, blockList, walk, input, output, funcInfo, pending>>

Return ==
  /\ Running /\ ~AtOp /\ Here.block \in Returns(Here.fn)
  /\ stack' = Tail(stack)
  /\ UNCHANGED <<fences, succ, code, fn, blockList, walk, input, output, funcInfo, pending>>

Done == ~Analysing /\ ~Running /\ UNCHANGED vars

Next == Analyse \/ Execute \/ Call \/ Branch \/ Return \/ Done

(* The analysis runs on; the program may loop for ever.                    *)
Spec == Init /\ [][Next]_vars /\ WF_vars(Analyse)

-----------------------------------------------------------------------------

(* Calls the analysis is right about: the callee's frame begins where the  *)
(* caller's does, and what is noted for the callee tells all it does.      *)
Within(info, other) == info.reads \subseteq other.reads /\ info.writes \subseteq other.writes

Told(op, callee) ==
  IF fences THEN op.proxy # "write" ELSE Within(CurrentInfo(op), funcInfo[callee])

Calls == {op \in UNION {UNION {ToSet(code[f][b]) : b \in DOMAIN code[f]} : f \in Functions_} : op.kind = "call"}

CallsInPlace == \A op \in Calls : op.base = 0

CallsTold ==
  Running => \A op \in Calls : \A b \in DOMAIN code[op.callee] :
    \A c \in ToSet(code[op.callee][b]) : Told(c, op.callee)

(* Two threads are never between the same two barriers with accesses of    *)
(* which one is a write to the same byte; an arrive has nothing pending    *)
(* behind it.  Whatever the path.                                          *)
Clash(op) ==
  LET hits(s, t) == \E i \in s, j \in t : Overlap(i, j)
  IN  \/ hits(pending.writes, Shift(op.reads))
      \/ hits(pending.reads, Shift(op.writes))
      \/ hits(pending.writes, Shift(op.writes))
      \/ op.kind = "arrive" /\ pending # Nothing

NoRace == AtOp /\ ~fences => ~Clash(CurrentOp)

(* The TMA unit never writes bytes that threads have accessed since the    *)
(* last fence.                                                             *)
NoProxyRace ==
  AtOp /\ fences /\ CurrentOp.proxy = "write" =>
    \A i \in Shift(CurrentOp.writes), j \in pending.reads \cup pending.writes : ~Overlap(i, j)

(* What a caller is told about a function covers what is really pending    *)
(* when it returns (fences tell reads from writes no more: a scratch       *)
(* buffer, written and read, is noted as read).                            *)
DanglingCovered ==
  Running /\ ~AtOp /\ Len(stack) = 1 /\ Here.block \in Returns(Here.fn) =>
    LET info == funcInfo[Here.fn]
        reads == {a.at : a \in info.reads}
        writes == {a.at : a \in info.writes}
    IN  /\ pending.writes \subseteq (IF fences THEN reads \cup writes ELSE writes)
        /\ pending.reads \subseteq reads

(* However often a block is visited, no operation gets a second barrier.   *)
SingleBarriers(ops) == \A i \in 1 .. Len(ops) - 1 : ~(ops[i] = Barrier /\ ops[i + 1] = Barrier)

NoDoubleBarrier == \A f \in Functions_ : \A b \in DOMAIN code[f] : SingleBarriers(code[f][b])

(* The transfer function is not monotonic (a barrier makes a result        *)
(* smaller), but the walk ends.                                            *)
AnalysisTerminates == <>~Analysing

=============================================================================
