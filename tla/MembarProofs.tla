---------------------------- MODULE MembarProofs ----------------------------
(***************************************************************************)
(* Proofs about Membar, for every program, graph and offset.               *)
(*                                                                         *)
(* The argument has three parts.                                           *)
(*                                                                         *)
(* 1. What one operation does to the accesses pending.  Passes(before, op, *)
(*    next, after) says, of the BlockInfo before and after op, that op     *)
(*    clashes with nothing in `before' (InOrder) and that `after' has all  *)
(*    that is pending behind it (Leaves).  It holds of every operation the *)
(*    walk leaves behind, whether or not it inserted something             *)
(*    (TransferFacts, VisitedFacts).                                       *)
(*                                                                         *)
(* 2. The analysis.  A walk leaves annotations J[1], J[2], ... between the *)
(*    operations of a block, from its input to its output, with            *)
(*    Passes(J[i], ops[i], ..., J[i + 1]): WalkInv while the block is      *)
(*    visited, Settled(b, in, out) when it is done.  ListInv: a block that *)
(*    is not on the list is settled for its present input, its output has  *)
(*    been joined into the inputs of its successors, and these are known   *)
(*    or on the list.  The transfer function is not monotonic: a later     *)
(*    visit may insert a barrier and lower the output.  But inputs only    *)
(*    grow, which is why no barrier is missing in the end.  SummaryInv:    *)
(*    when the list is empty the annotations are a post-fixpoint, and      *)
(*    funcInfo[f] has what is pending at the returns of f.                 *)
(*                                                                         *)
(* 3. The execution.  ExecInv: every frame of the stack stands at one of   *)
(*    the annotations E[k], and the union of all E[k] covers `pending', as *)
(*    long as frames begin where the caller's do (CallsInPlace), except    *)
(*    between an asynchronous wait and the barrier behind it.  NestInv: if *)
(*    summaries tell all that their functions do (CallsTold), a frame's    *)
(*    has what the callees above it do.  As no call clashes with the       *)
(*    annotation before it, an operation at the top then clashes with no   *)
(*    E[k]: RaceFree, ProxyRaceFree; DanglingFacts needs only ExecInv.     *)
(*                                                                         *)
(* The hypotheses on calls are needed: MembarAnalysis notes of a callee    *)
(* only what is pending at its end and at the callee's own offsets, so     *)
(* that a program whose callee has a barrier inside, or whose frame lies   *)
(* elsewhere, can have races (see the README).                             *)
(***************************************************************************)
EXTENDS Membar, SequenceTheorems, TLAPS

Ops(f) == PlainOps \cup CallOps(f)
Access == [at : Intervals, ignored : BOOLEAN]
Infos == [reads : SUBSET Access, writes : SUBSET Access]

-----------------------------------------------------------------------------
(* Sequences.                                                              *)

LEMMA SpliceFacts ==
  ASSUME NEW S, NEW ops \in Seq(S), NEW at \in 1 .. Len(ops), NEW new \in Seq(S)
  PROVE  /\ Splice(ops, at, new) \in Seq(S)
         /\ Len(Splice(ops, at, new)) = Len(ops) - 1 + Len(new)
         /\ \A i \in 1 .. at - 1 : Splice(ops, at, new)[i] = ops[i]
         /\ \A i \in 1 .. Len(new) : Splice(ops, at, new)[at - 1 + i] = new[i]
         /\ \A i \in at + 1 .. Len(ops) : Splice(ops, at, new)[i - 1 + Len(new)] = ops[i]
<1> DEFINE before == SubSeq(ops, 1, at - 1)
           behind == SubSeq(ops, at + 1, Len(ops))
           front == before \o new
<1>1. at \in Nat /\ Len(ops) \in Nat /\ Len(new) \in Nat /\ \A i \in 1 .. Len(ops) : ops[i] \in S
  BY ElementOfSeq, LenProperties
<1>2. /\ before \in Seq(S) /\ Len(before) = at - 1
      /\ \A i \in 1 .. at - 1 : before[i] = ops[i]
  <2>1. \A i \in 1 .. at - 1 : ops[i] \in S
    BY <1>1
  <2>2. /\ before \in Seq(S) /\ Len(before) = IF 1 <= at - 1 THEN at - 1 - 1 + 1 ELSE 0
        /\ \A i \in 1 .. (at - 1) - 1 + 1 : before[i] = ops[1 + i - 1]
    BY <1>1, <2>1, SubSeqProperties
  <2> QED
    BY <1>1, <2>2
<1>3. /\ behind \in Seq(S) /\ Len(behind) = Len(ops) - at
      /\ \A i \in 1 .. Len(ops) - at : behind[i] = ops[at + i]
  <2>1. \A i \in at + 1 .. Len(ops) : ops[i] \in S
    BY <1>1
  <2>2. /\ behind \in Seq(S)
        /\ Len(behind) = IF at + 1 <= Len(ops) THEN Len(ops) - (at + 1) + 1 ELSE 0
        /\ \A i \in 1 .. Len(ops) - (at + 1) + 1 : behind[i] = ops[at + 1 + i - 1]
    BY <1>1, <2>1, SubSeqProperties
  <2> QED
    BY <1>1, <2>2
<1> HIDE DEF before, behind
<1>4. /\ front \in Seq(S) /\ Len(front) = Len(before) + Len(new)
      /\ \A i \in 1 .. Len(before) + Len(new) :
           front[i] = IF i <= Len(before) THEN before[i] ELSE new[i - Len(before)]
  BY <1>2, ConcatProperties
<1> HIDE DEF front
<1> DEFINE whole == front \o behind
<1>5. /\ whole \in Seq(S) /\ Len(whole) = Len(front) + Len(behind)
      /\ \A i \in 1 .. Len(front) + Len(behind) :
           whole[i] = IF i <= Len(front) THEN front[i] ELSE behind[i - Len(front)]
  <2>1. front \in Seq(S) /\ behind \in Seq(S)
    BY <1>3, <1>4
  <2> QED
    BY <2>1, ConcatProperties
<1>6. Splice(ops, at, new) = whole
  BY DEF Splice, before, behind, front
<1> HIDE DEF whole
<1>7. \A i \in 1 .. at - 1 : whole[i] = ops[i]
  <2> TAKE i \in 1 .. at - 1
  <2>1. i \in 1 .. Len(before) + Len(new) /\ i <= Len(before) /\ i \in 1 .. Len(before)
    BY <1>1, <1>2
  <2>2. front[i] = ops[i]
    BY <1>2, <1>4, <2>1
  <2>3. i \in 1 .. Len(front) + Len(behind) /\ i <= Len(front)
    BY <1>1, <1>2, <1>3, <1>4, <2>1
  <2> QED
    BY <1>5, <2>2, <2>3
<1>8. \A i \in 1 .. Len(new) : whole[at - 1 + i] = new[i]
  <2> TAKE i \in 1 .. Len(new)
  <2>1. PICK j : j = at - 1 + i
    OBVIOUS
  <2>2. j \in 1 .. Len(before) + Len(new) /\ ~ (j <= Len(before)) /\ j - Len(before) = i
    BY <1>1, <1>2, <2>1
  <2>3. front[j] = new[i]
    BY <1>4, <2>2
  <2>4. j \in 1 .. Len(front) + Len(behind) /\ j <= Len(front)
    BY <1>1, <1>3, <1>4, <2>2
  <2>5. whole[j] = new[i]
    BY <1>5, <2>3, <2>4
  <2> QED
    BY <2>1, <2>5
<1>9. \A i \in at + 1 .. Len(ops) : whole[i - 1 + Len(new)] = ops[i]
  <2> TAKE i \in at + 1 .. Len(ops)
  <2>1. PICK j : j = i - 1 + Len(new)
    OBVIOUS
  <2>2. j \in 1 .. Len(front) + Len(behind) /\ ~ (j <= Len(front)) /\ j - Len(front) = i - at
    BY <1>1, <1>2, <1>3, <1>4, <2>1
  <2>3. i - at \in 1 .. Len(ops) - at /\ at + (i - at) = i
    BY <1>1
  <2>4. behind[i - at] = ops[i]
    BY <1>3, <2>3
  <2>5. whole[j] = ops[i]
    BY <1>5, <2>2, <2>4
  <2> QED
    BY <2>1, <2>5
<1>10. Len(whole) = Len(ops) - 1 + Len(new)
  BY <1>1, <1>2, <1>3, <1>4, <1>5
<1> QED
  BY <1>5, <1>6, <1>7, <1>8, <1>9, <1>10

LEMMA ShortSequences ==
  ASSUME NEW S, NEW a \in S, NEW b \in S
  PROVE  /\ <<a>> \in Seq(S) /\ Len(<<a>>) = 1 /\ <<a>>[1] = a
         /\ <<a, b>> \in Seq(S) /\ Len(<<a, b>>) = 2 /\ <<a, b>>[1] = a /\ <<a, b>>[2] = b
OBVIOUS

(* An operation replaced by itself.                                        *)
LEMMA SpliceSame ==
  ASSUME NEW S, NEW ops \in Seq(S), NEW at \in 1 .. Len(ops)
  PROVE  Splice(ops, at, <<ops[at]>>) = ops
<1>1. Len(ops) \in Nat /\ at \in Nat /\ ops[at] \in S
  BY ElementOfSeq, LenProperties
<1>2. PICK one : one = <<ops[at]>>
  OBVIOUS
<1>3. one \in Seq(S) /\ Len(one) = 1 /\ one[1] = ops[at]
  BY <1>1, <1>2, ShortSequences
<1>4. PICK new : new = Splice(ops, at, one)
  OBVIOUS
<1>5. /\ new \in Seq(S) /\ Len(new) = Len(ops) - 1 + Len(one)
      /\ \A i \in 1 .. at - 1 : new[i] = ops[i]
      /\ \A i \in 1 .. Len(one) : new[at - 1 + i] = one[i]
      /\ \A i \in at + 1 .. Len(ops) : new[i - 1 + Len(one)] = ops[i]
  <2>1. one \in Seq(S)
    BY <1>3
  <2>2. Splice(ops, at, one) \in Seq(S) /\ Len(Splice(ops, at, one)) = Len(ops) - 1 + Len(one)
    BY <2>1, SpliceFacts
  <2>3. \A i \in 1 .. at - 1 : Splice(ops, at, one)[i] = ops[i]
    BY <2>1, SpliceFacts
  <2>4. \A i \in 1 .. Len(one) : Splice(ops, at, one)[at - 1 + i] = one[i]
    BY <2>1, SpliceFacts
  <2>5. \A i \in at + 1 .. Len(ops) : Splice(ops, at, one)[i - 1 + Len(one)] = ops[i]
    BY <2>1, SpliceFacts
  <2> QED
    BY <1>4, <2>2, <2>3, <2>4, <2>5
<1>6. Len(new) = Len(ops)
  BY <1>1, <1>3, <1>5
<1>7. ASSUME NEW i \in 1 .. Len(ops) PROVE new[i] = ops[i]
  <2>1. CASE i < at
    BY <1>1, <1>5, <2>1
  <2>2. CASE i = at
    <3>1. 1 \in 1 .. Len(one) /\ at - 1 + 1 = at
      BY <1>1, <1>3
    <3> QED
      BY <1>3, <1>5, <2>2, <3>1
  <2>3. CASE i > at
    <3>1. i \in at + 1 .. Len(ops) /\ i - 1 + Len(one) = i
      BY <1>1, <1>3, <2>3
    <3> QED
      BY <1>5, <3>1
  <2> QED
    BY <1>1, <2>1, <2>2, <2>3
<1>8. new \in Seq(S) /\ \A i \in 1 .. Len(new) : new[i] = ops[i]
  BY <1>5, <1>6, <1>7
<1>9. new = ops
  BY <1>6, <1>8, SeqEqual
<1> QED
  BY <1>2, <1>4, <1>9

LEMMA TopIsAnInterval == Everything \in Intervals
BY ProgramAssumption DEF Everything, Intervals

LEMMA OpFacts ==
  ASSUME NEW f, NEW op \in Ops(f)
  PROVE  /\ op.reads \subseteq Intervals /\ op.writes \subseteq Intervals
         /\ op.ignored \in BOOLEAN
         /\ op.kind \in PlainKinds \cup {"call"}
         /\ op.kind \in {"barrier", "fence", "wait", "call"} => op.reads = {} /\ op.writes = {}
         /\ op.kind \in Scratches => op.reads = op.writes
         /\ op.proxy = "write" => op.kind = "access" /\ op.ignored
         /\ op.kind = "call" => op.callee \in 1 .. f - 1 /\ op.base \in Nat
<1>1. CASE op \in PlainOps
  BY <1>1 DEF PlainOps, PlainKinds, Scratches
<1>2. CASE op \in CallOps(f)
  BY <1>2 DEF CallOps, Scratches
<1> QED
  BY <1>1, <1>2 DEF Ops

LEMMA AccessesFacts ==
  ASSUME NEW f, NEW op \in Ops(f), NEW is \in SUBSET Intervals
  PROVE  Accesses(op, is) \in SUBSET Access
BY OpFacts DEF Accesses, Access

LEMMA InfoFacts ==
  /\ Nothing \in Infos
  /\ \A a, b \in Infos : Join(a, b) \in Infos
  /\ \A a, b \in Infos : Within(a, Join(a, b)) /\ Within(b, Join(a, b))
  /\ \A a \in Infos : Within(a, a) /\ Join(Nothing, a) = a
  /\ \A a \in Infos : ~ IsIntersected(Nothing, a) /\ ~ IsIntersected(a, Nothing)
BY DEF Nothing, Infos, Join, Within, IsIntersected, AnyOverlap

LEMMA WithinFacts ==
  ASSUME NEW a, NEW b, NEW c, Within(a, b)
  PROVE  Within(b, c) => Within(a, c)
BY DEF Within

-----------------------------------------------------------------------------
(* What one operation does to the list of pending accesses.                *)

(* Nothing that is pending before op clashes with it; next is the kind of  *)
(* the operation behind it.                                                *)
InOrder(before, op, next) ==
  IF fences
  THEN op.proxy = "write" => ~ IsIntersected(Written(op), before)
  ELSE /\ op.kind = "wait" => next = "barrier"
       /\ op.kind \in Scratches => ~ IsIntersected(before, Written(op))
       /\ op.kind \notin Scratches \cup {"barrier", "wait"} => ~ IsIntersected(before, CurrentInfo(op))

(* What may be pending behind op is among `after'.                         *)
Leaves(before, op, after) ==
  IF fences
  THEN op.kind # "fence" => Within(before, after) /\ Within(FenceInfo(op), after)
  ELSE /\ op.kind \notin {"barrier", "wait", "scratch"} => Within(before, after)
       /\ op.kind \notin {"barrier", "wait"} => Within(CurrentInfo(op), after)

Passes(before, op, next, after) == InOrder(before, op, next) /\ Leaves(before, op, after)

Transfer(info, op, next) == IF fences THEN UpdateFence(info, op) ELSE Update(info, op, next)

FuncInfoOK == \A f \in DOMAIN funcInfo : funcInfo[f] \in Infos

LEMMA CurrentInfoFacts ==
  ASSUME NEW f, NEW op \in Ops(f), FuncInfoOK, op.kind = "call" => op.callee \in DOMAIN funcInfo
  PROVE  /\ CurrentInfo(op) \in Infos /\ FenceInfo(op) \in Infos
         /\ Effects(op) \in Infos /\ Written(op) \in Infos
<1>1. /\ Accesses(op, op.reads) \in SUBSET Access /\ Accesses(op, op.writes) \in SUBSET Access
      /\ Accesses(op, op.reads \cup {Everything}) \in SUBSET Access
      /\ Accesses(op, op.writes \cup {Everything}) \in SUBSET Access
  BY OpFacts, AccessesFacts, TopIsAnInterval
<1>2. Effects(op) \in Infos /\ Written(op) \in Infos
  BY <1>1 DEF Effects, Written, Infos
<1>3. CurrentInfo(op) \in Infos
  BY <1>1, <1>2 DEF CurrentInfo, FuncInfoOK, Infos
<1>4. FenceInfo(op) \in Infos
  BY <1>1, <1>2, InfoFacts DEF FenceInfo, FuncInfoOK, Infos
<1> QED
  BY <1>2, <1>3, <1>4

(* The operations that come of op: op alone, op behind a new barrier or    *)
(* fence, or op before a new barrier.                                      *)
LEMMA TransferFacts ==
  ASSUME NEW f, NEW op \in Ops(f), NEW info \in Infos, NEW next, FuncInfoOK,
         op.kind = "call" => op.callee \in DOMAIN funcInfo
  PROVE  LET t == Transfer(info, op, next)
         IN  /\ t.info \in Infos
             /\ \/ t.ops = <<op>> /\ Passes(info, op, next, t.info)
                \/ /\ t.ops = <<IF fences THEN Fence ELSE Barrier, op>>
                   /\ op.kind \notin {"barrier", "wait"}
                   /\ Passes(Nothing, op, next, t.info)
                   /\ info # Nothing
                \/ /\ t.ops = <<op, Barrier>>
                   /\ ~ fences /\ op.kind = "wait" /\ next # "barrier" /\ t.info = Nothing
<1> DEFINE t == Transfer(info, op, next)
<1>1. /\ CurrentInfo(op) \in Infos /\ FenceInfo(op) \in Infos
      /\ Effects(op) \in Infos /\ Written(op) \in Infos
  BY CurrentInfoFacts
<1>2. CASE fences
  <2>1. t = UpdateFence(info, op)
    BY <1>2 DEF Transfer
  <2>2. CASE op.kind = "fence"
    <3>1. t = Step(Nothing, <<op>>) /\ op.proxy # "write"
      BY <2>1, <2>2, OpFacts DEF UpdateFence
    <3> QED
      BY <1>2, <2>2, <3>1, InfoFacts DEF Step, Passes, InOrder, Leaves
  <2>3. CASE op.kind # "fence" /\ op.proxy = "write" /\ IsIntersected(Written(op), info)
    <3>1. t = Step(FenceInfo(op), <<Fence, op>>) /\ op.kind = "access"
      BY <2>1, <2>3, OpFacts DEF UpdateFence
    <3>2. Passes(Nothing, op, next, FenceInfo(op))
      BY <1>1, <1>2, InfoFacts DEF Passes, InOrder, Leaves, Within, Nothing
    <3>3. info # Nothing
      BY <1>1, <2>3, InfoFacts
    <3> QED
      BY <1>1, <1>2, <3>1, <3>2, <3>3 DEF Step
  <2>4. CASE op.kind # "fence" /\ ~ (op.proxy = "write" /\ IsIntersected(Written(op), info))
    <3>1. t = Step(Join(info, FenceInfo(op)), <<op>>)
      BY <2>1, <2>4 DEF UpdateFence
    <3>2. Passes(info, op, next, Join(info, FenceInfo(op)))
      BY <1>1, <1>2, <2>4, InfoFacts DEF Passes, InOrder, Leaves
    <3> QED
      BY <1>1, <3>1, <3>2, InfoFacts DEF Step
  <2> QED
    BY <2>2, <2>3, <2>4
<1>3. CASE ~ fences
  <2>1. t = Update(info, op, next)
    BY <1>3 DEF Transfer
  <2>2. CASE op.kind = "barrier"
    <3>1. t = Step(Nothing, <<op>>)
      BY <2>1, <2>2 DEF Update, Scratches
    <3>2. Passes(info, op, next, Nothing)
      BY <1>3, <2>2 DEF Passes, InOrder, Leaves, Scratches
    <3> QED
      BY <3>1, <3>2, InfoFacts DEF Step
  <2>3. CASE op.kind = "wait"
    <3>1. t = IF next = "barrier" THEN Step(info, <<op>>) ELSE Step(Nothing, <<op, Barrier>>)
      BY <2>1, <2>3 DEF Update, UpdateWait, Scratches
    <3>2. next = "barrier" => Passes(info, op, next, info)
      BY <1>3, <2>3 DEF Passes, InOrder, Leaves, Scratches
    <3> QED
      BY <1>3, <2>3, <3>1, <3>2, InfoFacts DEF Step
  <2>4. CASE op.kind \in Scratches
    <3> DEFINE clash == IsIntersected(info, Written(op))
               kept == IF clash \/ op.kind = "scratch" THEN Nothing ELSE info
               ops == IF clash THEN <<Barrier, op>> ELSE <<op>>
    <3>1. t = Step(Join(kept, Effects(op)), ops)
      BY <2>1, <2>4 DEF Update, UpdateScratch, Scratches
    <3>2. CurrentInfo(op) = Effects(op)
      BY <2>4 DEF CurrentInfo, Scratches
    <3>3. kept \in Infos
      BY InfoFacts
    <3>4. /\ Join(kept, Effects(op)) \in Infos
          /\ Within(kept, Join(kept, Effects(op))) /\ Within(Effects(op), Join(kept, Effects(op)))
      BY <1>1, <3>3, InfoFacts
    <3>5. CASE clash
      <4>1. ops = <<Barrier, op>> /\ kept = Nothing /\ info # Nothing
        <5>1. ops = <<Barrier, op>> /\ kept = Nothing
          BY <3>5
        <5>2. info # Nothing
          BY <1>1, <3>5, InfoFacts
        <5> QED
          BY <5>1, <5>2
      <4>2. Passes(Nothing, op, next, Join(kept, Effects(op)))
        BY <1>1, <1>3, <2>4, <3>2, <3>4, <4>1, InfoFacts DEF Passes, InOrder, Leaves, Scratches
      <4>3. op.kind \notin {"barrier", "wait"}
        BY <2>4 DEF Scratches
      <4> HIDE DEF kept, ops
      <4> QED
        BY <1>3, <3>1, <3>4, <4>1, <4>2, <4>3 DEF Step
    <3>6. CASE ~ clash
      <4>1. ops = <<op>> /\ (op.kind = "warpscratch" => kept = info)
        BY <3>6
      <4>2. Passes(info, op, next, Join(kept, Effects(op)))
        BY <1>1, <1>3, <2>4, <3>2, <3>4, <3>6, <4>1, InfoFacts DEF Passes, InOrder, Leaves, Scratches
      <4> HIDE DEF kept, ops
      <4> QED
        BY <3>1, <3>4, <4>1, <4>2 DEF Step
    <3> QED
      BY <3>5, <3>6
  <2>5. CASE op.kind \notin Scratches \cup {"barrier", "wait"}
    <3> DEFINE cur == CurrentInfo(op)
               clash == IsIntersected(info, cur)
               kept == IF clash THEN Nothing ELSE info
               ops == IF clash THEN <<Barrier, op>> ELSE <<op>>
    <3>1. t = Step(Join(kept, cur), ops)
      BY <2>1, <2>5 DEF Update, UpdateAccess, Scratches
    <3>2. kept \in Infos
      BY InfoFacts
    <3>3. /\ Join(kept, cur) \in Infos
          /\ Within(kept, Join(kept, cur)) /\ Within(cur, Join(kept, cur))
      BY <1>1, <3>2, InfoFacts
    <3>4. CASE clash
      <4>1. ops = <<Barrier, op>> /\ kept = Nothing /\ info # Nothing
        <5>1. ops = <<Barrier, op>> /\ kept = Nothing
          BY <3>4
        <5>2. info # Nothing
          BY <1>1, <3>4, InfoFacts
        <5> QED
          BY <5>1, <5>2
      <4>2. Passes(Nothing, op, next, Join(kept, cur))
        BY <1>1, <1>3, <2>5, <3>3, <4>1, InfoFacts DEF Passes, InOrder, Leaves, Scratches
      <4>3. op.kind \notin {"barrier", "wait"}
        BY <2>5
      <4> HIDE DEF kept, ops
      <4> QED
        BY <1>3, <3>1, <3>3, <4>1, <4>2, <4>3 DEF Step
    <3>5. CASE ~ clash
      <4>1. ops = <<op>> /\ kept = info
        BY <3>5
      <4>2. Passes(info, op, next, Join(kept, cur))
        BY <1>1, <1>3, <2>5, <3>3, <3>5, <4>1, InfoFacts DEF Passes, InOrder, Leaves, Scratches
      <4> HIDE DEF kept, ops
      <4> QED
        BY <3>1, <3>3, <4>1, <4>2 DEF Step
    <3> QED
      BY <3>4, <3>5
  <2> QED
    BY <2>2, <2>3, <2>4, <2>5
<1> QED
  BY <1>2, <1>3

-----------------------------------------------------------------------------
(* Types.                                                                  *)

ProgramOK ==
  /\ fences \in BOOLEAN
  /\ \E n \in Nat \ {0} : DOMAIN code = 1 .. n
  /\ DOMAIN succ = DOMAIN code
  /\ code = [f \in DOMAIN code |-> code[f]]
  /\ \A f \in DOMAIN code :
       /\ code[f] \in [DOMAIN code[f] -> Seq(Ops(f))]
       /\ succ[f] \in [DOMAIN code[f] -> Seq(DOMAIN code[f])]
       /\ 1 \in DOMAIN code[f] /\ DOMAIN code[f] \subseteq Nat \ {0}

AnalysisOK ==
  /\ fn \in Nat \ {0} /\ (fn \in DOMAIN code \/ fn - 1 \in DOMAIN code)
  /\ funcInfo \in Seq(Infos) /\ Len(funcInfo) = fn - 1
  /\ Analysing =>
       /\ input \in [DOMAIN code[fn] -> Infos]
       /\ blockList \in Seq(DOMAIN code[fn])
       /\ block \in DOMAIN code[fn] \cup {0}
       /\ block # 0 => pos \in 1 .. Len(code[fn][block]) + 1
       /\ blockInfo \in Infos
       /\ DOMAIN output \subseteq DOMAIN code[fn] /\ output \in [DOMAIN output -> Infos]
       /\ stack = <<>> /\ pending = Nothing

LEMMA EmptyOutput == <<>> \in [DOMAIN <<>> -> Infos] /\ DOMAIN <<>> = {}
<1>1. <<>> \in Seq(Infos) /\ Len(<<>>) = 0
  BY EmptySeq
<1>2. <<>> \in [1 .. 0 -> Infos] /\ DOMAIN <<>> = 1 .. 0
  BY <1>1, LenProperties
<1> QED
  BY <1>2

LEMMA ProgramInit == Init => ProgramOK
<1> SUFFICES ASSUME Init PROVE ProgramOK
  OBVIOUS
<1>1. PICK p \in Programs :
        /\ fences = p.fences
        /\ succ = [f \in DOMAIN p.functions |-> p.functions[f].succ]
        /\ code = [f \in DOMAIN p.functions |-> p.functions[f].code]
  BY DEF Init
<1>2. /\ p.fences \in BOOLEAN /\ p.functions # <<>>
      /\ p.functions \in Seq(ToSet(p.functions))
  BY ProgramAssumption DEF IsSequence
<1>3. PICK n \in Nat \ {0} : DOMAIN p.functions = 1 .. n
  <2>1. Len(p.functions) \in Nat /\ DOMAIN p.functions = 1 .. Len(p.functions)
    BY <1>2, LenProperties
  <2>2. Len(p.functions) # 0
    BY <1>2, EmptySeq
  <2> QED
    BY <2>1, <2>2
<1>4. ASSUME NEW f \in DOMAIN code
      PROVE  /\ code[f] \in [DOMAIN code[f] -> Seq(Ops(f))]
             /\ succ[f] \in [DOMAIN code[f] -> Seq(DOMAIN code[f])]
             /\ 1 \in DOMAIN code[f] /\ DOMAIN code[f] \subseteq Nat \ {0}
  <2> DEFINE c == code[f]
  <2>1. f \in DOMAIN p.functions /\ c = p.functions[f].code /\ succ[f] = p.functions[f].succ
    BY <1>1, <1>4
  <2> DEFINE d == succ[f]
  <2>2. /\ c \in Seq(ToSet(c)) /\ c # <<>>
        /\ d \in Seq(ToSet(d)) /\ DOMAIN d = DOMAIN c
        /\ \A b \in DOMAIN c : d[b] \in Seq(DOMAIN c) /\ c[b] \in Seq(Ops(f))
    BY <2>1, ProgramAssumption DEF IsSequence, Ops
  <2> HIDE DEF c, d
  <2>3. Len(c) \in Nat \ {0} /\ DOMAIN c = 1 .. Len(c) /\ c \in [1 .. Len(c) -> ToSet(c)]
    BY <2>2, LenProperties, EmptySeq
  <2>4. c \in [DOMAIN c -> Seq(Ops(f))] /\ 1 \in DOMAIN c /\ DOMAIN c \subseteq Nat \ {0}
    BY <2>2, <2>3
  <2>5. Len(d) \in Nat /\ DOMAIN d = 1 .. Len(d) /\ d \in [1 .. Len(d) -> ToSet(d)]
    BY <2>2, LenProperties
  <2>6. d \in [DOMAIN c -> Seq(DOMAIN c)]
    BY <2>2, <2>5
  <2> QED
    BY <2>4, <2>6 DEF c, d
<1> QED
  BY <1>1, <1>2, <1>3, <1>4 DEF ProgramOK

LEMMA AnalysisInit == Init => AnalysisOK
<1> SUFFICES ASSUME Init PROVE AnalysisOK
  OBVIOUS
<1>1. ProgramOK
  BY ProgramInit
<1>2. 1 \in DOMAIN code
  BY <1>1 DEF ProgramOK
<1>3. 1 \in DOMAIN code[1]
  BY <1>1, <1>2 DEF ProgramOK
<1>4. input \in [DOMAIN code[1] -> Infos]
  BY InfoFacts DEF Init, EmptyInput
<1>5. funcInfo \in Seq(Infos) /\ Len(funcInfo) = 0
  BY DEF Init
<1>6. output \in [DOMAIN output -> Infos] /\ DOMAIN output = {}
  <2>1. output = <<>>
    BY DEF Init
  <2> QED
    BY <2>1, EmptyOutput, Zenon
<1>7. blockList \in Seq(DOMAIN code[1])
  <2>1. blockList = <<1>>
    BY DEF Init
  <2> QED
    BY <1>3, <2>1, ShortSequences
<1>8. /\ fn = 1 /\ block = 0 /\ blockInfo = Nothing /\ stack = <<>> /\ pending = Nothing
  BY DEF Init
<1> QED
  BY <1>2, <1>4, <1>5, <1>6, <1>7, <1>8, InfoFacts DEF AnalysisOK

(* Sets of the elements of sequences.                                      *)
LEMMA ToSetFacts ==
  ASSUME NEW S, NEW s \in Seq(S)
  PROVE  /\ ToSet(s) \subseteq S
         /\ s # <<>> => /\ Head(s) \in S /\ Tail(s) \in Seq(S)
                        /\ ToSet(s) \subseteq {Head(s)} \cup ToSet(Tail(s))
                        /\ ToSet(Tail(s)) \subseteq ToSet(s)
<1>1. Len(s) \in Nat /\ DOMAIN s = 1 .. Len(s) /\ \A i \in 1 .. Len(s) : s[i] \in S
  BY LenProperties, ElementOfSeq
<1>2. ASSUME s # <<>>
      PROVE  /\ Head(s) \in S /\ Tail(s) \in Seq(S)
             /\ ToSet(s) \subseteq {Head(s)} \cup ToSet(Tail(s))
             /\ ToSet(Tail(s)) \subseteq ToSet(s)
  <2>1. /\ Head(s) \in S /\ Tail(s) \in Seq(S) /\ Len(Tail(s)) = Len(s) - 1
        /\ \A i \in 1 .. Len(Tail(s)) : Tail(s)[i] = s[i + 1]
    BY <1>2, HeadTailProperties
  <2>2. DOMAIN Tail(s) = 1 .. Len(s) - 1
    BY <2>1, LenProperties
  <2>3. ASSUME NEW i \in 1 .. Len(s) PROVE s[i] \in {Head(s)} \cup ToSet(Tail(s))
    <3>1. CASE i = 1
      BY <3>1
    <3>2. CASE i # 1
      <4>1. i - 1 \in 1 .. Len(s) - 1 /\ (i - 1) + 1 = i
        BY <1>1, <3>2
      <4>2. Tail(s)[i - 1] = s[i]
        BY <2>1, <4>1
      <4> QED
        BY <2>2, <4>1, <4>2 DEF ToSet
    <3> QED
      BY <3>1, <3>2
  <2>4. ASSUME NEW i \in 1 .. Len(s) - 1 PROVE Tail(s)[i] \in ToSet(s)
    <3>1. i + 1 \in 1 .. Len(s) /\ Tail(s)[i] = s[i + 1]
      BY <1>1, <2>1
    <3> QED
      BY <1>1, <3>1 DEF ToSet
  <2> QED
    BY <1>1, <2>1, <2>2, <2>3, <2>4 DEF ToSet
<1> QED
  BY <1>1, <1>2 DEF ToSet

LEMMA ToSetConcat ==
  ASSUME NEW S, NEW s \in Seq(S), NEW t \in Seq(S)
  PROVE  s \o t \in Seq(S) /\ ToSet(s \o t) = ToSet(s) \cup ToSet(t)
<1>1. /\ Len(s) \in Nat /\ DOMAIN s = 1 .. Len(s) /\ Len(t) \in Nat /\ DOMAIN t = 1 .. Len(t)
  BY LenProperties
<1>2. PICK u : u = s \o t
  OBVIOUS
<1>3. /\ u \in Seq(S) /\ Len(u) = Len(s) + Len(t)
      /\ \A i \in 1 .. Len(s) + Len(t) : u[i] = IF i <= Len(s) THEN s[i] ELSE t[i - Len(s)]
  BY <1>2, ConcatProperties
<1>4. DOMAIN u = 1 .. Len(s) + Len(t)
  BY <1>3, LenProperties
<1>5. ASSUME NEW i \in DOMAIN u PROVE u[i] \in ToSet(s) \cup ToSet(t)
  <2>1. i \in 1 .. Len(s) \/ (i - Len(s) \in 1 .. Len(t) /\ ~ (i <= Len(s)))
    <3>1. Len(s) \in Nat /\ Len(t) \in Nat /\ i \in 1 .. Len(s) + Len(t)
      BY <1>1, <1>4
    <3> QED
      BY <3>1
  <2> QED
    BY <1>1, <1>3, <1>4, <2>1 DEF ToSet
<1>6. ASSUME NEW i \in DOMAIN s PROVE s[i] \in ToSet(u)
  BY <1>1, <1>3, <1>4 DEF ToSet
<1>7. ASSUME NEW i \in DOMAIN t PROVE t[i] \in ToSet(u)
  <2>1. PICK j : j = i + Len(s)
    OBVIOUS
  <2>2. j \in DOMAIN u /\ ~ (j <= Len(s)) /\ j - Len(s) = i /\ j \in 1 .. Len(s) + Len(t)
    BY <1>1, <1>4, <2>1
  <2> QED
    BY <1>3, <2>2 DEF ToSet
<1>8. ToSet(u) = ToSet(s) \cup ToSet(t)
  BY <1>5, <1>6, <1>7 DEF ToSet
<1> QED
  BY <1>2, <1>3, <1>8

(* A single operation and its result.                                      *)
LEMMA BlockFacts ==
  ASSUME ProgramOK, NEW f \in DOMAIN code, NEW b \in DOMAIN code[f]
  PROVE  /\ code[f][b] \in Seq(Ops(f)) /\ Len(code[f][b]) \in Nat
         /\ DOMAIN code[f][b] = 1 .. Len(code[f][b])
         /\ \A i \in 1 .. Len(code[f][b]) : code[f][b][i] \in Ops(f)
         /\ succ[f][b] \in Seq(DOMAIN code[f])
         /\ Successors(f, b) \subseteq DOMAIN code[f]
<1>1. code[f][b] \in Seq(Ops(f)) /\ succ[f][b] \in Seq(DOMAIN code[f])
  BY DEF ProgramOK
<1>2. Successors(f, b) \subseteq DOMAIN code[f]
  BY <1>1, ToSetFacts DEF Successors
<1> QED
  BY <1>1, <1>2, LenProperties, ElementOfSeq

LEMMA BarriersAreOps == \A f : Barrier \in Ops(f) /\ Fence \in Ops(f)
BY DEF Barrier, Fence, Op, Ops, PlainOps, PlainKinds, Scratches

LEMMA FuncInfoFacts ==
  ASSUME ProgramOK, AnalysisOK
  PROVE  /\ FuncInfoOK /\ DOMAIN funcInfo = 1 .. fn - 1
         /\ \A f \in Nat : \A op \in Ops(f) :
              f <= fn /\ op.kind = "call" => op.callee \in DOMAIN funcInfo
<1>1. /\ funcInfo \in Seq(Infos) /\ Len(funcInfo) = fn - 1 /\ fn \in Nat \ {0}
  BY DEF AnalysisOK
<1>2. DOMAIN funcInfo = 1 .. fn - 1 /\ FuncInfoOK
  BY <1>1, LenProperties, ElementOfSeq DEF FuncInfoOK
<1>3. ASSUME NEW f \in Nat, NEW op \in Ops(f), f <= fn, op.kind = "call"
      PROVE  op.callee \in 1 .. fn - 1
  <2>1. op.callee \in 1 .. f - 1
    BY <1>3, OpFacts
  <2> QED
    BY <1>1, <1>3, <2>1
<1> QED
  BY <1>2, <1>3

LEMMA VisitedFacts ==
  ASSUME ProgramOK, AnalysisOK, Analysing, block # 0, pos <= Len(Walked)
  PROVE  LET op == Walked[pos]
             next == NextKind
         IN  /\ Walked \in Seq(Ops(fn)) /\ pos \in 1 .. Len(Walked) /\ op \in Ops(fn)
             /\ Visited.info \in Infos
             /\ Visited.ops \in Seq(Ops(fn)) /\ Len(Visited.ops) \in {1, 2}
             /\ \/ Visited.ops = <<op>> /\ Passes(blockInfo, op, next, Visited.info)
                \/ /\ Visited.ops = <<IF fences THEN Fence ELSE Barrier, op>>
                   /\ op.kind \notin {"barrier", "wait"}
                   /\ Passes(Nothing, op, next, Visited.info)
                   /\ blockInfo # Nothing
                \/ /\ Visited.ops = <<op, Barrier>>
                   /\ ~ fences /\ op.kind = "wait" /\ next # "barrier" /\ Visited.info = Nothing
<1> DEFINE op == Walked[pos]
<1>1. fn \in DOMAIN code /\ block \in DOMAIN code[fn] /\ fn \in Nat
  BY DEF AnalysisOK, Analysing, Functions_
<1>2. /\ Walked \in Seq(Ops(fn)) /\ Len(Walked) \in Nat
      /\ \A i \in 1 .. Len(Walked) : Walked[i] \in Ops(fn)
  BY <1>1, BlockFacts DEF Walked
<1>3. pos \in 1 .. Len(Walked)
  BY <1>2 DEF AnalysisOK, Walked
<1>4. op \in Ops(fn)
  BY <1>2, <1>3
<1>5. FuncInfoOK /\ (op.kind = "call" => op.callee \in DOMAIN funcInfo)
  BY <1>1, <1>4, FuncInfoFacts
<1>6. blockInfo \in Infos
  BY DEF AnalysisOK
<1>7. Visited = Transfer(blockInfo, op, NextKind)
  BY DEF Visited, Transfer
<1> HIDE DEF op
<1>8. /\ Visited.info \in Infos
      /\ \/ Visited.ops = <<op>> /\ Passes(blockInfo, op, NextKind, Visited.info)
         \/ /\ Visited.ops = <<IF fences THEN Fence ELSE Barrier, op>>
            /\ op.kind \notin {"barrier", "wait"}
            /\ Passes(Nothing, op, NextKind, Visited.info)
            /\ blockInfo # Nothing
         \/ /\ Visited.ops = <<op, Barrier>>
            /\ ~ fences /\ op.kind = "wait" /\ NextKind # "barrier" /\ Visited.info = Nothing
  BY <1>4, <1>5, <1>6, <1>7, TransferFacts
<1>9. Visited.ops \in Seq(Ops(fn)) /\ Len(Visited.ops) \in {1, 2}
  <2>1. Barrier \in Ops(fn) /\ Fence \in Ops(fn)
    BY BarriersAreOps
  <2>2. \/ Visited.ops = <<op>>
        \/ \E e \in {Barrier, Fence} : Visited.ops = <<e, op>> \/ Visited.ops = <<op, e>>
    BY <1>8
  <2>3. CASE Visited.ops = <<op>>
    BY <1>4, <2>3, ShortSequences
  <2>4. ASSUME NEW e \in {Barrier, Fence}, Visited.ops = <<e, op>> \/ Visited.ops = <<op, e>>
        PROVE  Visited.ops \in Seq(Ops(fn)) /\ Len(Visited.ops) = 2
    <3>1. e \in Ops(fn)
      BY <2>1
    <3>2. <<e, op>> \in Seq(Ops(fn)) /\ Len(<<e, op>>) = 2
      BY <1>4, <3>1, ShortSequences
    <3>3. <<op, e>> \in Seq(Ops(fn)) /\ Len(<<op, e>>) = 2
      BY <1>4, <3>1, ShortSequences
    <3> QED
      BY <2>4, <3>2, <3>3
  <2> QED
    BY <2>2, <2>3, <2>4
<1> QED
  BY <1>2, <1>3, <1>4, <1>8, <1>9 DEF op

LEMMA VisitOpFacts ==
  ASSUME ProgramOK, AnalysisOK, VisitOp
  PROVE  /\ fn \in DOMAIN code /\ block \in DOMAIN code[fn] /\ fn \in Nat
         /\ DOMAIN code' = DOMAIN code /\ code' = [f \in DOMAIN code' |-> code'[f]]
         /\ \A f \in DOMAIN code : /\ DOMAIN code'[f] = DOMAIN code[f]
                                   /\ code'[f] = [b \in DOMAIN code[f] |-> code'[f][b]]
         /\ \A f \in DOMAIN code : \A b \in DOMAIN code[f] :
              f # fn \/ b # block => code'[f][b] = code[f][b]
         /\ code'[fn][block] = Splice(Walked, pos, Visited.ops)
         /\ code'[fn][block] \in Seq(Ops(fn))
         /\ Len(code'[fn][block]) = Len(Walked) - 1 + Len(Visited.ops)
<1>1. fn \in DOMAIN code /\ block \in DOMAIN code[fn] /\ fn \in Nat
  BY DEF AnalysisOK, VisitOp, Analysing, Functions_
<1>2. code' = [code EXCEPT ![fn][block] = Splice(Walked, pos, Visited.ops)]
  BY DEF VisitOp, Walked
<1>3. /\ code = [f \in DOMAIN code |-> code[f]]
      /\ \A f \in DOMAIN code : code[f] = [b \in DOMAIN code[f] |-> code[f][b]]
  BY DEF ProgramOK
<1>4. Walked \in Seq(Ops(fn)) /\ pos \in 1 .. Len(Walked) /\ Visited.ops \in Seq(Ops(fn))
  BY VisitedFacts DEF VisitOp
<1>5. PICK new : new = Splice(Walked, pos, Visited.ops)
  OBVIOUS
<1>6. new \in Seq(Ops(fn)) /\ Len(new) = Len(Walked) - 1 + Len(Visited.ops)
  <2>1. PICK s : s = Visited.ops
    OBVIOUS
  <2>2. Walked \in Seq(Ops(fn)) /\ pos \in 1 .. Len(Walked) /\ s \in Seq(Ops(fn))
    BY <1>4, <2>1
  <2>3. /\ Splice(Walked, pos, s) \in Seq(Ops(fn))
        /\ Len(Splice(Walked, pos, s)) = Len(Walked) - 1 + Len(s)
    BY <2>2, SpliceFacts
  <2> QED
    BY <1>5, <2>1, <2>3
<1>7. code' = [code EXCEPT ![fn] = [code[fn] EXCEPT ![block] = new]]
  BY <1>2, <1>5
<1>8. code'[fn] = [code[fn] EXCEPT ![block] = new] /\ DOMAIN code' = DOMAIN code
      /\ \A f \in DOMAIN code : f # fn => code'[f] = code[f]
  BY <1>1, <1>3, <1>7
<1>9. code' = [f \in DOMAIN code' |-> code'[f]]
  BY <1>3, <1>7
<1>10. code'[fn][block] = new /\ \A b \in DOMAIN code[fn] : b # block => code'[fn][b] = code[fn][b]
  BY <1>1, <1>3, <1>8
<1>11. \A f \in DOMAIN code : /\ DOMAIN code'[f] = DOMAIN code[f]
                               /\ code'[f] = [b \in DOMAIN code[f] |-> code'[f][b]]
  BY <1>1, <1>3, <1>8
<1> QED
  BY <1>1, <1>5, <1>6, <1>8, <1>9, <1>10, <1>11

LEMMA ProgramNext == ProgramOK /\ AnalysisOK /\ [Next]_vars => ProgramOK'
<1> SUFFICES ASSUME ProgramOK, AnalysisOK, [Next]_vars PROVE ProgramOK'
  OBVIOUS
<1>1. CASE VisitOp
  <2>1. ASSUME NEW f \in DOMAIN code PROVE code'[f] \in [DOMAIN code[f] -> Seq(Ops(f))]
    <3>1. ASSUME NEW b \in DOMAIN code[f] PROVE code'[f][b] \in Seq(Ops(f))
      BY <1>1, VisitOpFacts, BlockFacts
    <3> QED
      BY <1>1, <3>1, VisitOpFacts
  <2>2. fences' = fences /\ succ' = succ
    BY <1>1 DEF VisitOp
  <2> QED
    BY <1>1, <2>1, <2>2, VisitOpFacts DEF ProgramOK
<1>2. ASSUME UNCHANGED <<fences, succ, code>> PROVE ProgramOK'
  BY <1>2 DEF ProgramOK
<1>3. VisitOp \/ UNCHANGED <<fences, succ, code>>
  BY DEF Next, Analyse, StartBlock, EndBlock, FinishFunction, Execute, Call, Branch, Return, Done, vars
<1> QED
  BY <1>1, <1>2, <1>3

LEMMA AnalysisNext == ProgramOK /\ AnalysisOK /\ [Next]_vars => AnalysisOK'
<1> SUFFICES ASSUME ProgramOK, AnalysisOK, [Next]_vars PROVE AnalysisOK'
  OBVIOUS
<1> USE DEF Analysing, Functions_
<1>1. CASE StartBlock
  <2>1. fn \in DOMAIN code /\ blockList \in Seq(DOMAIN code[fn]) /\ blockList # <<>>
    BY <1>1 DEF StartBlock, AnalysisOK
  <2>2. Head(blockList) \in DOMAIN code[fn] /\ Tail(blockList) \in Seq(DOMAIN code[fn])
    BY <2>1, ToSetFacts
  <2>3. Len(code[fn][Head(blockList)]) \in Nat
    BY <2>1, <2>2, BlockFacts
  <2>4. input[Head(blockList)] \in Infos
    BY <2>1, <2>2 DEF AnalysisOK
  <2> QED
    BY <1>1, <2>1, <2>2, <2>3, <2>4 DEF StartBlock, AnalysisOK
<1>2. CASE VisitOp
  <2>1. /\ fn \in DOMAIN code' /\ DOMAIN code'[fn] = DOMAIN code[fn]
        /\ Len(code'[fn][block]) = Len(Walked) - 1 + Len(Visited.ops)
    BY <1>2, VisitOpFacts
  <2>2. /\ Walked \in Seq(Ops(fn)) /\ pos \in 1 .. Len(Walked)
        /\ Visited.info \in Infos /\ Len(Visited.ops) \in {1, 2}
    BY <1>2, VisitedFacts DEF VisitOp
  <2>3. pos + Len(Visited.ops) \in 1 .. Len(code'[fn][block]) + 1
    BY <2>1, <2>2, LenProperties
  <2>4. DOMAIN code' = DOMAIN code
    BY <1>2, VisitOpFacts
  <2> QED
    BY <1>2, <2>1, <2>2, <2>3, <2>4 DEF VisitOp, AnalysisOK
<1>3. CASE EndBlock
  <2>1. /\ fn \in DOMAIN code /\ block \in DOMAIN code[fn]
        /\ blockList \in Seq(DOMAIN code[fn]) /\ blockInfo \in Infos
        /\ input \in [DOMAIN code[fn] -> Infos]
        /\ DOMAIN output \subseteq DOMAIN code[fn] /\ output \in [DOMAIN output -> Infos]
    BY <1>3 DEF EndBlock, AnalysisOK
  <2>2. CASE Unchanged(block, blockInfo)
    BY <1>3, <2>1, <2>2, InfoFacts DEF EndBlock, AnalysisOK
  <2>3. CASE ~ Unchanged(block, blockInfo)
    <3>1. /\ output' = [c \in DOMAIN output \cup {block} |->
                          IF c = block THEN blockInfo ELSE output[c]]
          /\ input' = JoinSuccessors(block, blockInfo)
          /\ blockList' = blockList \o succ[fn][block]
      BY <1>3, <2>3 DEF EndBlock
    <3>2. blockList' \in Seq(DOMAIN code[fn])
      BY <2>1, <3>1, BlockFacts, ToSetConcat
    <3>3. input' \in [DOMAIN code[fn] -> Infos]
      BY <2>1, <3>1, InfoFacts DEF JoinSuccessors
    <3>4. /\ DOMAIN output' \subseteq DOMAIN code[fn]
          /\ output' \in [DOMAIN output' -> Infos]
      BY <2>1, <3>1
    <3> QED
      BY <1>3, <3>2, <3>3, <3>4, InfoFacts DEF EndBlock, AnalysisOK
  <2> QED
    BY <2>2, <2>3
<1>4. CASE FinishFunction
  <2>1. /\ fn \in DOMAIN code /\ funcInfo \in Seq(Infos) /\ Len(funcInfo) = fn - 1
        /\ DOMAIN output \subseteq DOMAIN code[fn] /\ output \in [DOMAIN output -> Infos]
        /\ block = 0 /\ blockInfo \in Infos /\ stack = <<>> /\ pending = Nothing
        /\ fn \in Nat \ {0}
    BY <1>4 DEF FinishFunction, AnalysisOK
  <2>2. Dangling \in Infos
    BY <2>1 DEF Dangling, Infos, Known
  <2>3. funcInfo' \in Seq(Infos) /\ Len(funcInfo') = fn
    BY <1>4, <2>1, <2>2, AppendProperties DEF FinishFunction
  <2>4. CASE fn + 1 \in DOMAIN code
    <3>1. blockList' = <<1>> /\ input' = EmptyInput(fn + 1) /\ output' = <<>> /\ stack' = stack
      BY <1>4, <2>4 DEF FinishFunction
    <3>2. 1 \in DOMAIN code[fn + 1]
      BY <2>4 DEF ProgramOK
    <3>3. blockList' \in Seq(DOMAIN code[fn + 1])
      BY <3>1, <3>2, ShortSequences
    <3>4. input' \in [DOMAIN code[fn + 1] -> Infos]
      BY <3>1, InfoFacts DEF EmptyInput
    <3>5. DOMAIN output' = {} /\ output' \in [DOMAIN output' -> Infos]
      BY <3>1, EmptyOutput, Zenon
    <3> QED
      BY <1>4, <2>1, <2>3, <2>4, <3>1, <3>3, <3>4, <3>5 DEF FinishFunction, AnalysisOK, walk
  <2>5. CASE fn + 1 \notin DOMAIN code
    BY <1>4, <2>1, <2>3, <2>5 DEF FinishFunction, AnalysisOK, walk
  <2> QED
    BY <2>4, <2>5
<1>5. ASSUME Execute \/ Call \/ Branch \/ Return PROVE AnalysisOK'
  <2>1. ~ Analysing
    BY <1>5 DEF AnalysisOK, Execute, Call, Branch, Return, AtOp, Running
  <2>2. UNCHANGED <<code, fn, funcInfo>>
    BY <1>5 DEF Execute, Call, Branch, Return
  <2> QED
    BY <2>1, <2>2 DEF AnalysisOK
<1>6. ASSUME UNCHANGED vars PROVE AnalysisOK'
  BY <1>6 DEF vars, walk, AnalysisOK
<1> QED
  BY <1>1, <1>2, <1>3, <1>4, <1>5, <1>6 DEF Next, Analyse, Done

(* What the walk leaves of a block, position by position.                  *)
LEMMA NewOps ==
  ASSUME ProgramOK, AnalysisOK, VisitOp
  PROVE  LET new == code'[fn][block]
             n == Len(Walked)
             op == Walked[pos]
         IN  /\ n \in Nat /\ pos \in 1 .. n
             /\ \A i \in 1 .. pos - 1 : new[i] = Walked[i]
             /\ \/ /\ Visited.ops = <<op>> /\ Len(new) = n /\ pos' = pos + 1
                   /\ \A i \in 1 .. n : new[i] = Walked[i]
                \/ \E a, b \in Ops(fn) :
                     /\ Visited.ops = <<a, b>> /\ Len(new) = n + 1 /\ pos' = pos + 2
                     /\ new[pos] = a /\ new[pos + 1] = b
                     /\ \A i \in pos + 1 .. n : new[i + 1] = Walked[i]
<1> DEFINE op == Walked[pos]
<1>1. /\ Walked \in Seq(Ops(fn)) /\ pos \in 1 .. Len(Walked) /\ op \in Ops(fn)
      /\ Visited.ops \in Seq(Ops(fn))
      /\ \/ Visited.ops = <<op>>
         \/ \E a, b \in Ops(fn) : Visited.ops = <<a, b>>
  <2>1. Barrier \in Ops(fn) /\ Fence \in Ops(fn)
    BY BarriersAreOps
  <2> QED
    BY <2>1, VisitedFacts DEF VisitOp
<1>2. Len(Walked) \in Nat
  BY <1>1, LenProperties
<1>3. PICK s, new : s = Visited.ops /\ new = code'[fn][block]
  OBVIOUS
<1>4. s \in Seq(Ops(fn)) /\ new = Splice(Walked, pos, s) /\ pos' = pos + Len(s)
  BY <1>1, <1>3, VisitOpFacts DEF VisitOp
<1> HIDE DEF op
<1>5. /\ Len(new) = Len(Walked) - 1 + Len(s)
      /\ \A i \in 1 .. pos - 1 : new[i] = Walked[i]
      /\ \A i \in 1 .. Len(s) : new[pos - 1 + i] = s[i]
      /\ \A i \in pos + 1 .. Len(Walked) : new[i - 1 + Len(s)] = Walked[i]
  <2>1. Walked \in Seq(Ops(fn)) /\ pos \in 1 .. Len(Walked) /\ s \in Seq(Ops(fn))
    BY <1>1, <1>4
  <2>2. Len(Splice(Walked, pos, s)) = Len(Walked) - 1 + Len(s)
    BY <2>1, SpliceFacts
  <2>3. \A i \in 1 .. pos - 1 : Splice(Walked, pos, s)[i] = Walked[i]
    BY <2>1, SpliceFacts
  <2>4. \A i \in 1 .. Len(s) : Splice(Walked, pos, s)[pos - 1 + i] = s[i]
    BY <2>1, SpliceFacts
  <2>5. \A i \in pos + 1 .. Len(Walked) : Splice(Walked, pos, s)[i - 1 + Len(s)] = Walked[i]
    BY <2>1, SpliceFacts
  <2> QED
    BY <1>4, <2>2, <2>3, <2>4, <2>5
<1>6. CASE s = <<op>>
  <2>1. Len(s) = 1 /\ s[1] = op
    BY <1>1, <1>6, ShortSequences
  <2>2. new[pos] = op
    <3>1. new[pos - 1 + 1] = s[1]
      BY <1>5, <2>1
    <3> QED
      BY <1>1, <2>1, <3>1
  <2>3. ASSUME NEW i \in 1 .. Len(Walked) PROVE new[i] = Walked[i]
    <3>1. CASE i < pos
      BY <1>1, <1>5, <3>1
    <3>2. CASE i = pos
      BY <2>2, <3>2 DEF op
    <3>3. CASE i > pos
      <4>1. i \in pos + 1 .. Len(Walked) /\ i - 1 + Len(s) = i
        BY <1>1, <1>2, <2>1, <3>3
      <4> QED
        BY <1>5, <4>1
    <3> QED
      BY <1>1, <3>1, <3>2, <3>3
  <2>4. Len(new) = Len(Walked) /\ pos' = pos + 1
    BY <1>2, <1>4, <1>5, <2>1
  <2> QED
    BY <1>1, <1>2, <1>3, <1>5, <1>6, <2>3, <2>4 DEF op
<1>7. ASSUME NEW a \in Ops(fn), NEW b \in Ops(fn), s = <<a, b>>
      PROVE  /\ Len(new) = Len(Walked) + 1 /\ pos' = pos + 2
             /\ new[pos] = a /\ new[pos + 1] = b
             /\ \A i \in pos + 1 .. Len(Walked) : new[i + 1] = Walked[i]
  <2>1. Len(s) = 2 /\ s[1] = a /\ s[2] = b
    BY <1>7, ShortSequences
  <2>2. new[pos - 1 + 1] = a /\ new[pos - 1 + 2] = b
    BY <1>5, <2>1
  <2>3. pos - 1 + 1 = pos /\ pos - 1 + 2 = pos + 1
    BY <1>1
  <2>4. ASSUME NEW i \in pos + 1 .. Len(Walked) PROVE new[i + 1] = Walked[i]
    <3>1. i - 1 + Len(s) = i + 1
      BY <1>1, <2>1
    <3> QED
      BY <1>5, <3>1
  <2>5. Len(new) = Len(Walked) + 1 /\ pos' = pos + 2
    BY <1>2, <1>4, <1>5, <2>1
  <2> QED
    BY <2>2, <2>3, <2>4, <2>5
<1> QED
  BY <1>1, <1>2, <1>3, <1>5, <1>6, <1>7 DEF op

-----------------------------------------------------------------------------
(* No second barrier.                                                      *)

(* Behind a barrier nothing is pending, so that nothing asks for another.  *)
ClearBehindBarrier ==
  Analysing /\ block # 0 /\ ~ fences =>
    (pos > 1 /\ Walked[pos - 1] = Barrier => blockInfo = Nothing)

BarrierInv == NoDoubleBarrier /\ ClearBehindBarrier

LEMMA BarrierVisit ==
  ASSUME ProgramOK, AnalysisOK, BarrierInv, VisitOp
  PROVE  BarrierInv'
<1> DEFINE op == Walked[pos]
           new == code'[fn][block]
           n == Len(Walked)
<1>1. /\ fn \in DOMAIN code /\ block \in DOMAIN code[fn]
      /\ DOMAIN code' = DOMAIN code
      /\ \A f \in DOMAIN code : DOMAIN code'[f] = DOMAIN code[f]
      /\ \A f \in DOMAIN code : \A b \in DOMAIN code[f] :
           f # fn \/ b # block => code'[f][b] = code[f][b]
  BY VisitOpFacts
<1>2. \A i \in 1 .. n - 1 : ~ (Walked[i] = Barrier /\ Walked[i + 1] = Barrier)
  BY <1>1 DEF BarrierInv, NoDoubleBarrier, SingleBarriers, Walked, Functions_
<1>3. fences' = fences /\ fn' = fn /\ block' = block /\ blockInfo' = Visited.info /\ block # 0
  BY DEF VisitOp
<1>4. /\ \/ Visited.ops = <<op>>
         \/ /\ Visited.ops = <<IF fences THEN Fence ELSE Barrier, op>>
            /\ op.kind \notin {"barrier", "wait"} /\ blockInfo # Nothing
         \/ /\ Visited.ops = <<op, Barrier>>
            /\ ~ fences /\ op.kind = "wait" /\ NextKind # "barrier" /\ Visited.info = Nothing
  BY VisitedFacts DEF VisitOp
<1>5. Barrier.kind = "barrier" /\ Fence # Barrier
  BY DEF Barrier, Fence, Op
<1>6. /\ n \in Nat /\ pos \in 1 .. n
      /\ \A i \in 1 .. pos - 1 : new[i] = Walked[i]
      /\ \/ /\ Visited.ops = <<op>> /\ Len(new) = n /\ pos' = pos + 1
            /\ \A i \in 1 .. n : new[i] = Walked[i]
         \/ \E a, b \in Ops(fn) :
              /\ Visited.ops = <<a, b>> /\ Len(new) = n + 1 /\ pos' = pos + 2
              /\ new[pos] = a /\ new[pos + 1] = b
              /\ \A i \in pos + 1 .. n : new[i + 1] = Walked[i]
  BY NewOps
<1>7. op = Barrier /\ ~ fences => Visited.info = Nothing
  BY <1>5 DEF Visited, Update, Step, Scratches
<1>8. pos > 1 /\ Walked[pos - 1] = Barrier /\ ~ fences => blockInfo = Nothing
  BY <1>1, <1>3 DEF BarrierInv, ClearBehindBarrier, Analysing, Functions_, VisitOp
<1> HIDE DEF op, new, n
<1>9. ASSUME SingleBarriers(new), new[pos' - 1] = Barrier /\ ~ fences => Visited.info = Nothing
      PROVE  BarrierInv'
  <2>1. ASSUME NEW f \in DOMAIN code, NEW b \in DOMAIN code[f] PROVE SingleBarriers(code'[f][b])
    BY <1>1, <1>9, <2>1 DEF BarrierInv, NoDoubleBarrier, Functions_, new
  <2>2. NoDoubleBarrier'
    BY <1>1, <2>1 DEF NoDoubleBarrier, Functions_
  <2>3. ClearBehindBarrier'
    BY <1>3, <1>9 DEF ClearBehindBarrier, Walked, new
  <2> QED
    BY <2>2, <2>3 DEF BarrierInv
<1>10. CASE Visited.ops = <<op>>
  <2>1. Len(new) = n /\ pos' = pos + 1 /\ \A i \in 1 .. n : new[i] = Walked[i]
    BY <1>6, <1>10
  <2>2. SingleBarriers(new)
    <3>1. ASSUME NEW i \in 1 .. n - 1 PROVE new[i] = Walked[i] /\ new[i + 1] = Walked[i + 1]
      BY <1>6, <2>1
    <3> QED
      BY <1>2, <2>1, <3>1 DEF SingleBarriers
  <2>3. new[pos' - 1] = op
    BY <1>6, <2>1 DEF op
  <2> QED
    BY <1>7, <1>9, <2>2, <2>3
<1>11. ASSUME NEW a, NEW b, Visited.ops = <<a, b>>,
              a = Barrier /\ pos > 1 => Walked[pos - 1] # Barrier,
              ~ (a = Barrier /\ b = Barrier),
              b = Barrier /\ pos < n => Walked[pos + 1] # Barrier,
              b = Barrier => Visited.info = Nothing
       PROVE  BarrierInv'
  <2>1. /\ Len(new) = n + 1 /\ pos' = pos + 2
        /\ new[pos] = a /\ new[pos + 1] = b
        /\ \A i \in pos + 1 .. n : new[i + 1] = Walked[i]
    BY <1>6, <1>11
  <2>2. ASSUME NEW i \in 1 .. n, new[i] = Barrier, new[i + 1] = Barrier
        PROVE  FALSE
    <3>1. CASE i + 1 < pos
      <4>1. i \in 1 .. pos - 1 /\ i + 1 \in 1 .. pos - 1 /\ i \in 1 .. n - 1
        BY <1>6, <3>1
      <4>2. new[i] = Walked[i] /\ new[i + 1] = Walked[i + 1]
        BY <1>6, <4>1
      <4> QED
        BY <1>2, <2>2, <4>1, <4>2
    <3>2. CASE i + 1 = pos
      BY <1>6, <1>11, <2>1, <2>2, <3>2
    <3>3. CASE i = pos
      BY <1>11, <2>1, <2>2, <3>3
    <3>4. CASE i = pos + 1
      BY <1>6, <1>11, <2>1, <2>2, <3>4
    <3>5. CASE i > pos + 1
      <4>1. i - 1 \in pos + 1 .. n /\ i \in pos + 1 .. n /\ i - 1 + 1 = i /\ i - 1 \in 1 .. n - 1
        BY <1>6, <3>5
      <4>2. new[i] = Walked[i - 1] /\ new[i + 1] = Walked[i]
        BY <2>1, <4>1
      <4> QED
        BY <1>2, <2>2, <4>1, <4>2
    <3> QED
      BY <1>6, <3>1, <3>2, <3>3, <3>4, <3>5
  <2>3. SingleBarriers(new)
    BY <1>6, <2>1, <2>2 DEF SingleBarriers
  <2>4. new[pos' - 1] = b
    <3>1. pos' - 1 = pos + 1
      BY <1>6, <2>1
    <3> QED
      BY <2>1, <3>1
  <2> QED
    BY <1>9, <1>11, <2>3, <2>4
<1>12. CASE /\ Visited.ops = <<IF fences THEN Fence ELSE Barrier, op>>
            /\ op.kind \notin {"barrier", "wait"} /\ blockInfo # Nothing
  BY <1>5, <1>8, <1>11, <1>12
<1>13. CASE /\ Visited.ops = <<op, Barrier>>
            /\ ~ fences /\ op.kind = "wait" /\ NextKind # "barrier" /\ Visited.info = Nothing
  <2>1. op # Barrier
    BY <1>5, <1>13
  <2>2. pos < n => Walked[pos + 1] # Barrier
    BY <1>5, <1>6, <1>13 DEF NextKind, n
  <2> QED
    BY <1>11, <1>13, <2>1, <2>2
<1> QED
  BY <1>4, <1>10, <1>12, <1>13

LEMMA BarrierNext ==
  ProgramOK /\ AnalysisOK /\ BarrierInv /\ [Next]_vars => BarrierInv'
<1> SUFFICES ASSUME ProgramOK, AnalysisOK, BarrierInv, [Next]_vars PROVE BarrierInv'
  OBVIOUS
<1>1. ASSUME UNCHANGED <<fences, code>>,
             (Analysing /\ block # 0)' => \/ pos' = 1
                                          \/ UNCHANGED <<fn, block, pos, blockInfo>>
      PROVE  BarrierInv'
  <2>1. NoDoubleBarrier'
    BY <1>1 DEF BarrierInv, NoDoubleBarrier, Functions_
  <2>2. ClearBehindBarrier'
    BY <1>1 DEF BarrierInv, ClearBehindBarrier, Walked, Analysing, Functions_
  <2> QED
    BY <2>1, <2>2 DEF BarrierInv
<1>2. CASE VisitOp
  BY <1>2, BarrierVisit
<1>3. CASE StartBlock
  BY <1>1, <1>3 DEF StartBlock
<1>4. CASE EndBlock
  BY <1>1, <1>4 DEF EndBlock
<1>5. CASE FinishFunction
  BY <1>1, <1>5 DEF FinishFunction, walk
<1>6. CASE Execute \/ Call \/ Branch \/ Return \/ UNCHANGED vars
  BY <1>1, <1>6 DEF Execute, Call, Branch, Return, vars, walk
<1> QED
  BY <1>2, <1>3, <1>4, <1>5, <1>6 DEF Next, Analyse, Done

(* MembarAnalysis never puts a barrier next to another one, of the program *)
(* or of its own, however often it comes back to a block.                  *)
THEOREM NoSecondBarrier ==
  ASSUME \A p \in Programs : \A f \in DOMAIN p.functions :
           \A b \in DOMAIN p.functions[f].code : SingleBarriers(p.functions[f].code[b])
  PROVE  Spec => []NoDoubleBarrier
<1>1. Init => BarrierInv
  BY DEF Init, BarrierInv, NoDoubleBarrier, ClearBehindBarrier, Functions_
<1> QED
  BY <1>1, ProgramInit, ProgramNext, AnalysisInit, AnalysisNext, BarrierNext, PTL
  DEF Spec, BarrierInv

-----------------------------------------------------------------------------
(* Annotations: what may be pending before each operation of a block.      *)

KindAt(ops, i) == IF i > Len(ops) THEN "terminator" ELSE ops[i].kind

Annotates(J, ops, n) ==
  /\ J \in [1 .. n -> Infos]
  /\ \A i \in 1 .. n - 1 : Passes(J[i], ops[i], KindAt(ops, i + 1), J[i + 1])

(* The walk has found an annotation of what it has passed.                 *)
WalkInv ==
  Analysing /\ block # 0 =>
    \E J : Annotates(J, Walked, pos) /\ J[1] = input[block] /\ J[pos] = blockInfo

LEMMA PassesNext ==
  ASSUME NEW before, NEW op, NEW next, NEW other, NEW after,
         Passes(before, op, next, after), next = "barrier" => other = "barrier"
  PROVE  Passes(before, op, other, after)
BY DEF Passes, InOrder

LEMMA BarrierPasses ==
  ASSUME NEW before, NEW next, NEW after
  PROVE  Passes(before, IF fences THEN Fence ELSE Barrier, next, after)
BY DEF Passes, InOrder, Leaves, Barrier, Fence, Op, Scratches

LEMMA WaitPasses ==
  ASSUME NEW before, NEW op, NEW after, ~ fences, op.kind = "wait"
  PROVE  Passes(before, op, "barrier", after)
BY DEF Passes, InOrder, Leaves, Scratches

LEMMA NextKindAt ==
  ASSUME Len(Walked) \in Nat, pos \in 1 .. Len(Walked)
  PROVE  NextKind = KindAt(Walked, pos + 1)
<1>1. CASE pos = Len(Walked)
  BY <1>1 DEF NextKind, KindAt
<1>2. CASE pos # Len(Walked)
  <2>1. ~ (pos + 1 > Len(Walked))
    BY <1>2
  <2> QED
    BY <1>2, <2>1 DEF NextKind, KindAt
<1> QED
  BY <1>1, <1>2

LEMMA WalkOne ==
  ASSUME ProgramOK, AnalysisOK, VisitOp, Visited.ops = <<Walked[pos]>>,
         Passes(blockInfo, Walked[pos], NextKind, Visited.info),
         NEW J, Annotates(J, Walked, pos), J[pos] = blockInfo
  PROVE  \E K : /\ Annotates(K, code'[fn][block], pos')
                /\ K[1] = J[1] /\ K[pos'] = Visited.info
<1> DEFINE new == code'[fn][block]
           n == Len(Walked)
           K == [i \in 1 .. pos + 1 |-> IF i <= pos THEN J[i] ELSE Visited.info]
<1>1. n \in Nat /\ pos \in 1 .. n /\ Visited.info \in Infos
  BY NewOps, VisitedFacts DEF VisitOp
<1>2. Len(new) = n /\ pos' = pos + 1 /\ \A i \in 1 .. n : new[i] = Walked[i]
  <2>1. ASSUME NEW a, NEW b, Visited.ops = <<a, b>> PROVE FALSE
    BY <2>1
  <2> QED
    BY <2>1, NewOps
<1>3. /\ J \in [1 .. pos -> Infos]
      /\ \A i \in 1 .. pos - 1 : Passes(J[i], Walked[i], KindAt(Walked, i + 1), J[i + 1])
  BY DEF Annotates
<1> HIDE DEF new
<1>4. K \in [1 .. pos' -> Infos] /\ K[1] = J[1] /\ K[pos'] = Visited.info
  BY <1>1, <1>2, <1>3
<1>5. \A i \in 1 .. n : KindAt(new, i + 1) = KindAt(Walked, i + 1)
  BY <1>1, <1>2 DEF KindAt
<1>6. ASSUME NEW i \in 1 .. pos' - 1
      PROVE  Passes(K[i], new[i], KindAt(new, i + 1), K[i + 1])
  <2>1. CASE i = pos
    <3>1. K[i] = blockInfo /\ K[i + 1] = Visited.info
      BY <1>1, <2>1
    <3>2. new[i] = Walked[pos] /\ KindAt(new, i + 1) = NextKind
      BY <1>1, <1>2, <1>5, <2>1, NextKindAt
    <3> HIDE DEF K
    <3> QED
      BY <3>1, <3>2
  <2>2. CASE i # pos
    <3>1. i \in 1 .. pos - 1 /\ i \in 1 .. n
      BY <1>1, <1>2, <2>2
    <3>2. K[i] = J[i] /\ K[i + 1] = J[i + 1]
      BY <1>1, <3>1
    <3> HIDE DEF K
    <3> QED
      BY <1>2, <1>3, <1>5, <3>1, <3>2
  <2> QED
    BY <2>1, <2>2
<1> HIDE DEF K
<1> QED
  BY <1>4, <1>6 DEF Annotates, new

LEMMA WalkTwo ==
  ASSUME ProgramOK, AnalysisOK, VisitOp, NEW a, NEW b, Visited.ops = <<a, b>>,
         Passes(blockInfo, a, b.kind, Nothing), Passes(Nothing, b, NextKind, Visited.info),
         Walked[pos].kind = "barrier" => a.kind = "barrier",
         NEW J, Annotates(J, Walked, pos), J[pos] = blockInfo
  PROVE  \E K : /\ Annotates(K, code'[fn][block], pos')
                /\ K[1] = J[1] /\ K[pos'] = Visited.info
<1> DEFINE new == code'[fn][block]
           n == Len(Walked)
           K == [i \in 1 .. pos + 2 |->
                   IF i <= pos THEN J[i] ELSE IF i = pos + 1 THEN Nothing ELSE Visited.info]
<1>1. n \in Nat /\ pos \in 1 .. n /\ Visited.info \in Infos
  BY NewOps, VisitedFacts DEF VisitOp
<1>2. /\ Len(new) = n + 1 /\ pos' = pos + 2
      /\ new[pos] = a /\ new[pos + 1] = b
      /\ \A i \in 1 .. pos - 1 : new[i] = Walked[i]
      /\ \A i \in pos + 1 .. n : new[i + 1] = Walked[i]
  <2>1. PICK o : o = Walked[pos]
    OBVIOUS
  <2>2. Visited.ops # <<o>>
    OBVIOUS
  <2> QED
    BY <2>1, <2>2, NewOps
<1>3. /\ J \in [1 .. pos -> Infos]
      /\ \A i \in 1 .. pos - 1 : Passes(J[i], Walked[i], KindAt(Walked, i + 1), J[i + 1])
  BY DEF Annotates
<1> HIDE DEF new
<1>4. K \in [1 .. pos' -> Infos] /\ K[1] = J[1] /\ K[pos'] = Visited.info
  <2>1. pos' = pos + 2 /\ J \in [1 .. pos -> Infos] /\ Nothing \in Infos
    BY <1>2, <1>3, InfoFacts
  <2> QED
    BY <1>1, <2>1
<1>5. KindAt(new, pos) = a.kind /\ KindAt(new, pos + 1) = b.kind
  BY <1>1, <1>2 DEF KindAt
<1>6. KindAt(new, pos + 2) = NextKind
  <2>1. CASE pos = n
    BY <1>1, <1>2, <2>1, NextKindAt DEF KindAt
  <2>2. CASE pos # n
    <3>1. pos + 1 \in pos + 1 .. n /\ (pos + 1) + 1 = pos + 2 /\ ~ (pos + 2 > n + 1) /\ ~ (pos + 1 > n)
      BY <1>1, <2>2
    <3>2. new[pos + 2] = Walked[pos + 1]
      BY <1>2, <3>1
    <3> QED
      BY <1>1, <1>2, <3>1, <3>2, NextKindAt DEF KindAt
  <2> QED
    BY <2>1, <2>2
<1>7. ASSUME NEW i \in 1 .. pos' - 1
      PROVE  Passes(K[i], new[i], KindAt(new, i + 1), K[i + 1])
  <2>1. CASE i = pos
    <3>1. K[i] = blockInfo /\ K[i + 1] = Nothing
      BY <1>1, <2>1
    <3> HIDE DEF K
    <3> QED
      BY <1>2, <1>5, <2>1, <3>1
  <2>2. CASE i = pos + 1
    <3>1. K[i] = Nothing /\ K[i + 1] = Visited.info /\ i + 1 = pos + 2
      BY <1>1, <2>2
    <3> HIDE DEF K
    <3> QED
      BY <1>2, <1>6, <2>2, <3>1
  <2>3. CASE i < pos
    <3>1. i \in 1 .. pos - 1
      BY <1>1, <1>2, <2>3
    <3>2. K[i] = J[i] /\ K[i + 1] = J[i + 1]
      BY <1>1, <3>1
    <3> HIDE DEF K
    <3>3. KindAt(Walked, i + 1) = "barrier" => KindAt(new, i + 1) = "barrier"
      <4>1. CASE i + 1 = pos
        <5>1. KindAt(Walked, i + 1) = Walked[pos].kind
          BY <1>1, <4>1 DEF KindAt
        <5> QED
          BY <1>5, <4>1, <5>1
      <4>2. CASE i + 1 # pos
        <5>1. i + 1 \in 1 .. pos - 1 /\ ~ (i + 1 > n) /\ ~ (i + 1 > n + 1)
          BY <1>1, <3>1, <4>2
        <5> QED
          BY <1>2, <5>1 DEF KindAt
      <4> QED
        BY <4>1, <4>2
    <3>4. Passes(J[i], Walked[i], KindAt(Walked, i + 1), J[i + 1])
      BY <1>3, <3>1
    <3>5. Passes(J[i], Walked[i], KindAt(new, i + 1), J[i + 1])
      BY <3>3, <3>4, PassesNext
    <3> QED
      BY <1>2, <3>1, <3>2, <3>5
  <2> QED
    BY <1>1, <1>2, <2>1, <2>2, <2>3
<1> HIDE DEF K
<1> QED
  BY <1>4, <1>7 DEF Annotates, new

(* Whatever the operation, the annotation goes on behind it.               *)
LEMMA WalkOn ==
  ASSUME ProgramOK, AnalysisOK, VisitOp, NEW J, Annotates(J, Walked, pos), J[pos] = blockInfo
  PROVE  \E K : /\ Annotates(K, code'[fn][block], pos')
                /\ K[1] = J[1] /\ K[pos'] = Visited.info
<1> DEFINE op == Walked[pos]
           bar == IF fences THEN Fence ELSE Barrier
<1>1. \/ Visited.ops = <<op>> /\ Passes(blockInfo, op, NextKind, Visited.info)
      \/ /\ Visited.ops = <<bar, op>>
         /\ op.kind \notin {"barrier", "wait"}
         /\ Passes(Nothing, op, NextKind, Visited.info)
      \/ /\ Visited.ops = <<op, Barrier>>
         /\ ~ fences /\ op.kind = "wait" /\ Visited.info = Nothing
  BY VisitedFacts DEF VisitOp
<1>2. CASE Visited.ops = <<op>> /\ Passes(blockInfo, op, NextKind, Visited.info)
  BY <1>2, WalkOne
<1>3. CASE /\ Visited.ops = <<bar, op>>
           /\ op.kind \notin {"barrier", "wait"}
           /\ Passes(Nothing, op, NextKind, Visited.info)
  <2>1. Passes(blockInfo, bar, op.kind, Nothing)
    BY BarrierPasses
  <2> HIDE DEF bar
  <2> QED
    BY <1>3, <2>1, WalkTwo
<1>4. CASE /\ Visited.ops = <<op, Barrier>>
           /\ ~ fences /\ op.kind = "wait" /\ Visited.info = Nothing
  <2>1. Barrier.kind = "barrier"
    BY DEF Barrier, Op
  <2>2. Passes(blockInfo, op, Barrier.kind, Nothing)
    BY <1>4, <2>1, WaitPasses
  <2>3. Passes(Nothing, Barrier, NextKind, Visited.info)
    BY <1>4, BarrierPasses
  <2> QED
    BY <1>4, <2>2, <2>3, WalkTwo
<1> QED
  BY <1>1, <1>2, <1>3, <1>4

-----------------------------------------------------------------------------
(* Nothing of this depends on anything but the calls' summaries.           *)

LEMMA PassesKept ==
  ASSUME fences' = fences, NEW before, NEW op, NEW next, NEW after,
         op.kind = "call" => funcInfo'[op.callee] = funcInfo[op.callee]
  PROVE  Passes(before, op, next, after) => Passes(before, op, next, after)'
<1>1. CurrentInfo(op)' = CurrentInfo(op) /\ FenceInfo(op)' = FenceInfo(op)
  BY DEF CurrentInfo, FenceInfo
<1>2. \A a, b : IsIntersected(a, b)' <=> IsIntersected(a, b)
  BY DEF IsIntersected, AnyOverlap
<1>3. InOrder(before, op, next) => InOrder(before, op, next)'
  BY <1>1, <1>2 DEF InOrder
<1>4. Leaves(before, op, after) => Leaves(before, op, after)'
  BY <1>1 DEF Leaves
<1> QED
  BY <1>3, <1>4 DEF Passes

LEMMA AnnotatesKept ==
  ASSUME fences' = fences, NEW ops, NEW n \in Nat, n <= Len(ops) + 1, Len(ops) \in Nat, NEW J, Annotates(J, ops, n),
         \A i \in 1 .. Len(ops) : ops[i].kind = "call" => funcInfo'[ops[i].callee] = funcInfo[ops[i].callee]
  PROVE  Annotates(J, ops, n)'
<1>1. ASSUME NEW i \in 1 .. n - 1
      PROVE  Passes(J[i], ops[i], KindAt(ops, i + 1), J[i + 1])'
  <2>1. i \in 1 .. Len(ops)
    OBVIOUS
  <2> QED
    BY <2>1, PassesKept DEF Annotates
<1> QED
  BY <1>1 DEF Annotates

Settled(f, b, in, out) ==
  \E J : /\ Annotates(J, code[f][b], Len(code[f][b]) + 1)
         /\ J[1] = in /\ J[Len(code[f][b]) + 1] = out

LEMMA SettledKept ==
  ASSUME fences' = fences, NEW f, NEW b, NEW in, NEW out, Settled(f, b, in, out),
         code'[f][b] = code[f][b], Len(code[f][b]) \in Nat,
         \A i \in 1 .. Len(code[f][b]) : 
             code[f][b][i].kind = "call" => funcInfo'[code[f][b][i].callee] = funcInfo[code[f][b][i].callee]
  PROVE  Settled(f, b, in, out)'
<1>1. PICK ops : ops = code[f][b]
  OBVIOUS
<1>2. PICK J : Annotates(J, ops, Len(ops) + 1) /\ J[1] = in /\ J[Len(ops) + 1] = out
  BY <1>1 DEF Settled
<1>3. Annotates(J, ops, Len(ops) + 1)'
  BY <1>1, <1>2, AnnotatesKept
<1> QED
  BY <1>1, <1>2, <1>3 DEF Settled

LEMMA CallsKept ==
  ASSUME ProgramOK, AnalysisOK, NEW f \in DOMAIN code, f <= fn, NEW b \in DOMAIN code[f],
         \A g \in 1 .. fn - 1 : funcInfo'[g] = funcInfo[g],
         NEW i \in 1 .. Len(code[f][b]), code[f][b][i].kind = "call"
  PROVE  funcInfo'[code[f][b][i].callee] = funcInfo[code[f][b][i].callee]
<1>1. f \in Nat /\ code[f][b][i] \in Ops(f)
  BY BlockFacts DEF ProgramOK
<1>2. code[f][b][i].callee \in 1 .. fn - 1
  BY <1>1, FuncInfoFacts
<1> QED
  BY <1>2

LEMMA WalkNext == ProgramOK /\ AnalysisOK /\ WalkInv /\ [Next]_vars => WalkInv'
<1> SUFFICES ASSUME ProgramOK, AnalysisOK, WalkInv, [Next]_vars, (Analysing /\ block # 0)'
             PROVE  \E J : Annotates(J, Walked, pos)' /\ J[1] = (input[block])' /\ J[pos'] = blockInfo'
  BY DEF WalkInv
<1>1. CASE VisitOp
  <2>1. PICK J : Annotates(J, Walked, pos) /\ J[1] = input[block] /\ J[pos] = blockInfo
    BY <1>1 DEF WalkInv, VisitOp
  <2>2. PICK ops : ops = code'[fn][block]
    OBVIOUS
  <2>3. PICK n : n = pos'
    OBVIOUS
  <2>4. PICK K : Annotates(K, ops, n) /\ K[1] = J[1] /\ K[n] = Visited.info
    BY <1>1, <2>1, <2>2, <2>3, WalkOn
  <2>5. /\ fn \in DOMAIN code /\ block \in DOMAIN code[fn] /\ fn \in Nat
        /\ DOMAIN code' = DOMAIN code /\ DOMAIN code'[fn] = DOMAIN code[fn]
        /\ UNCHANGED <<fences, fn, block, input, funcInfo>> /\ blockInfo' = Visited.info
    BY <1>1, VisitOpFacts DEF VisitOp
  <2>6. ProgramOK' /\ AnalysisOK'
    BY ProgramNext, AnalysisNext
  <2>7. ops \in Seq(Ops(fn)) /\ Len(ops) \in Nat /\ n \in 1 .. Len(ops) + 1
    <3>1. n \in 1 .. Len(ops) + 1
      BY <2>2, <2>3, <2>5, <2>6 DEF AnalysisOK
    <3> QED
      BY <1>1, <2>2, <3>1, VisitOpFacts, LenProperties
  <2>8. Annotates(K, ops, n)'
    BY <2>4, <2>5, <2>7, AnnotatesKept
  <2> QED
    BY <2>1, <2>2, <2>3, <2>4, <2>5, <2>8 DEF Walked
<1>2. CASE StartBlock
  <2>1. PICK info : info = blockInfo'
    OBVIOUS
  <2>2. info \in Infos /\ pos' = 1 /\ blockInfo' = info /\ (input[block])' = info
    <3>1. AnalysisOK' /\ Analysing'
      BY AnalysisNext
    <3> QED
      BY <1>2, <2>1, <3>1 DEF StartBlock, AnalysisOK
  <2>3. Annotates([i \in 1 .. 1 |-> info], Walked, pos)'
    BY <2>2 DEF Annotates
  <2> QED
    BY <2>2, <2>3
<1>3. CASE EndBlock \/ FinishFunction
  BY <1>3 DEF EndBlock, FinishFunction, walk
<1>4. CASE Execute \/ Call \/ Branch \/ Return
  BY <1>4 DEF Execute, Call, Branch, Return, AtOp, Running, AnalysisOK, Analysing, Functions_
<1>5. CASE UNCHANGED vars
  <2>1. PICK ops : ops = Walked
    OBVIOUS
  <2>2. PICK n : n = pos
    OBVIOUS
  <2>3. PICK J : Annotates(J, ops, n) /\ J[1] = input[block] /\ J[n] = blockInfo
    BY <1>5, <2>1, <2>2 DEF WalkInv, vars, walk, Analysing, Functions_
  <2>4. /\ fn \in DOMAIN code /\ fn \in Nat /\ block \in DOMAIN code[fn] /\ n \in 1 .. Len(ops) + 1
        /\ Walked' = Walked
    BY <1>5, <2>1, <2>2 DEF AnalysisOK, vars, walk, Analysing, Functions_, Walked
  <2>5. Len(ops) \in Nat
    BY <2>1, <2>4, BlockFacts DEF Walked
  <2>6. Annotates(J, ops, n)'
    BY <1>5, <2>3, <2>4, <2>5, AnnotatesKept DEF vars
  <2> QED
    BY <1>5, <2>1, <2>2, <2>3, <2>4, <2>6 DEF vars, walk
<1> QED
  BY <1>1, <1>2, <1>3, <1>4, <1>5 DEF Next, Analyse, Done

LEMMA StillSettled ==
  ASSUME ProgramOK, AnalysisOK, fences' = fences, \A g \in 1 .. fn - 1 : funcInfo'[g] = funcInfo[g],
         NEW f \in DOMAIN code, f <= fn, NEW b \in DOMAIN code[f], code'[f][b] = code[f][b],
         NEW in, NEW out, Settled(f, b, in, out)
  PROVE  Settled(f, b, in, out)'
<1>1. Len(code[f][b]) \in Nat
  BY BlockFacts
<1>2. \A i \in 1 .. Len(code[f][b]) : code[f][b][i].kind = "call" =>
         funcInfo'[code[f][b][i].callee] = funcInfo[code[f][b][i].callee]
  BY CallsKept
<1> QED
  BY <1>1, <1>2, SettledKept

-----------------------------------------------------------------------------
(* The work list.  A block that is not listed has been walked since its    *)
(* input last changed.                                                     *)

Listed == ToSet(blockList) \cup ({block} \ {0})

ListInv ==
  Analysing =>
    /\ 1 \in DOMAIN output \cup Listed
    /\ \A b \in DOMAIN output : b \notin Listed => Settled(fn, b, input[b], output[b])
    /\ \A b \in DOMAIN output : \A s \in Successors(fn, b) :
         s \in DOMAIN output \cup Listed /\ Within(output[b], input[s])

LEMMA ListKept ==
  ASSUME ProgramOK, AnalysisOK, ListInv, Analysing,
         UNCHANGED <<fences, succ, fn, input, output, funcInfo>>, Listed \subseteq Listed',
         \A b \in DOMAIN code[fn] : b \in Listed \/ code'[fn][b] = code[fn][b]
  PROVE  ListInv'
<1>1. fn \in DOMAIN code /\ fn \in Nat /\ DOMAIN output \subseteq DOMAIN code[fn]
  BY DEF AnalysisOK, Analysing, Functions_
<1>2. ASSUME NEW b \in DOMAIN output, b \notin Listed'
      PROVE  Settled(fn, b, input[b], output[b])'
  <2>1. Settled(fn, b, input[b], output[b])
    BY <1>2 DEF ListInv
  <2>2. code'[fn][b] = code[fn][b] /\ b \in DOMAIN code[fn]
    BY <1>1, <1>2
  <2> QED
    BY <1>1, <2>1, <2>2, StillSettled
<1>3. \A b : Successors(fn, b)' = Successors(fn, b)
  BY DEF Successors
<1> QED
  BY <1>2, <1>3 DEF ListInv

LEMMA ListEnd ==
  ASSUME ProgramOK, AnalysisOK, WalkInv, ListInv, EndBlock
  PROVE  ListInv'
<1>1. /\ fn \in DOMAIN code /\ fn \in Nat /\ DOMAIN output \subseteq DOMAIN code[fn]
      /\ block \in DOMAIN code[fn] /\ block # 0 /\ block' = 0
      /\ UNCHANGED <<fences, succ, code, fn, funcInfo>>
      /\ blockList \in Seq(DOMAIN code[fn]) /\ blockInfo \in Infos
      /\ input \in [DOMAIN code[fn] -> Infos]
  BY DEF AnalysisOK, Analysing, Functions_, EndBlock
<1>2. \A b : Successors(fn, b)' = Successors(fn, b)
  BY <1>1 DEF Successors
<1>3. Settled(fn, block, input[block], blockInfo)
  <2>1. pos = Len(code[fn][block]) + 1
    <3>1. pos \in 1 .. Len(code[fn][block]) + 1 /\ pos > Len(code[fn][block])
      BY <1>1 DEF AnalysisOK, Analysing, Functions_, EndBlock, Walked
    <3> QED
      BY <1>1, <3>1, BlockFacts
  <2> QED
    BY <1>1, <2>1 DEF WalkInv, Settled, Walked, Analysing, Functions_
<1>4. ASSUME NEW b \in DOMAIN code[fn], NEW in, NEW out, Settled(fn, b, in, out)
      PROVE  Settled(fn, b, in, out)'
  BY <1>1, <1>4, StillSettled
<1>5. Listed = ToSet(blockList) \cup {block} /\ Listed' = ToSet(blockList')
  BY <1>1 DEF Listed
<1>6. CASE Unchanged(block, blockInfo)
  <2>1. UNCHANGED <<blockList, input, output>> /\ block \in DOMAIN output /\ output[block] = blockInfo
    BY <1>6 DEF EndBlock, Unchanged, Known
  <2>2. ASSUME NEW b \in DOMAIN output, b \notin Listed'
        PROVE  Settled(fn, b, input[b], output[b])'
    <3>1. Settled(fn, b, input[b], output[b])
      BY <1>1, <1>3, <1>5, <2>1, <2>2 DEF ListInv, Analysing, Functions_
    <3> QED
      BY <1>1, <1>4, <2>1, <3>1
  <2> QED
    BY <1>1, <1>2, <1>5, <2>1, <2>2 DEF ListInv, Analysing, Functions_
<1>7. CASE ~ Unchanged(block, blockInfo)
  <2>1. /\ output' = [c \in DOMAIN output \cup {block} |-> IF c = block THEN blockInfo ELSE output[c]]
        /\ input' = [s \in DOMAIN input |->
                       IF s \in Successors(fn, block) THEN Join(input[s], blockInfo) ELSE input[s]]
        /\ blockList' = blockList \o succ[fn][block]
    BY <1>7 DEF EndBlock, JoinSuccessors
  <2>2. Listed' = ToSet(blockList) \cup Successors(fn, block)
    BY <1>1, <1>5, <2>1, BlockFacts, ToSetConcat DEF Successors
  <2>3. ASSUME NEW s \in DOMAIN code[fn]
        PROVE  /\ Within(input[s], input'[s])
               /\ s \in Successors(fn, block) => Within(blockInfo, input'[s])
               /\ s \notin Successors(fn, block) => input'[s] = input[s]
    BY <1>1, <2>1, InfoFacts
  <2>4. ASSUME NEW b \in DOMAIN output', b \notin Listed'
        PROVE  Settled(fn, b, input[b], output[b])'
    <3>1. b \notin Successors(fn, block) /\ b \notin ToSet(blockList) /\ b \in DOMAIN code[fn]
      BY <1>1, <2>1, <2>2, <2>4
    <3>2. input'[b] = input[b]
      BY <2>3, <3>1
    <3>3. Settled(fn, b, input[b], output'[b])
      <4>1. CASE b = block
        BY <1>3, <2>1, <4>1
      <4>2. CASE b # block
        BY <1>1, <1>5, <2>1, <2>4, <3>1, <4>2 DEF ListInv, Analysing, Functions_
      <4> QED
        BY <4>1, <4>2
    <3> QED
      BY <1>4, <3>1, <3>2, <3>3
  <2>5. ASSUME NEW b \in DOMAIN output', NEW s \in Successors(fn, b)
        PROVE  s \in DOMAIN output' \cup Listed' /\ Within(output'[b], input'[s])
    <3>1. b \in DOMAIN code[fn] /\ s \in DOMAIN code[fn]
      BY <1>1, <2>1, BlockFacts
    <3>2. CASE b = block
      BY <2>1, <2>2, <2>3, <3>1, <3>2
    <3>3. CASE b # block
      <4>1. b \in DOMAIN output /\ output'[b] = output[b]
        BY <2>1, <2>5, <3>3
      <4>2. s \in DOMAIN output \cup Listed /\ Within(output[b], input[s])
        BY <1>1, <4>1 DEF ListInv, Analysing, Functions_
      <4> QED
        BY <1>5, <2>1, <2>2, <2>3, <3>1, <4>1, <4>2, WithinFacts
    <3> QED
      BY <3>2, <3>3
  <2>6. 1 \in DOMAIN output' \cup Listed'
    <3>1. 1 \in DOMAIN output \cup Listed
      BY <1>1 DEF ListInv, Analysing, Functions_
    <3> QED
      BY <1>5, <2>1, <2>2, <3>1
  <2> QED
    BY <1>1, <1>2, <2>4, <2>5, <2>6 DEF ListInv
<1> QED
  BY <1>6, <1>7

LEMMA ListNext == ProgramOK /\ AnalysisOK /\ WalkInv /\ ListInv /\ [Next]_vars => ListInv'
<1> SUFFICES ASSUME ProgramOK, AnalysisOK, WalkInv, ListInv, [Next]_vars PROVE ListInv'
  OBVIOUS
<1>1. CASE VisitOp
  <2>1. Listed' = Listed
    BY <1>1 DEF VisitOp, Listed
  <2>2. \A b \in DOMAIN code[fn] : b \in Listed \/ code'[fn][b] = code[fn][b]
    <3>1. block \in Listed
      BY <1>1 DEF Listed, VisitOp
    <3> QED
      BY <1>1, <3>1, VisitOpFacts
  <2> QED
    BY <1>1, <2>1, <2>2, ListKept DEF VisitOp
<1>2. CASE StartBlock
  <2>1. blockList \in Seq(DOMAIN code[fn]) /\ blockList # <<>> /\ DOMAIN code[fn] \subseteq Nat \ {0}
    BY <1>2 DEF StartBlock, AnalysisOK, ProgramOK, Analysing, Functions_
  <2>2. /\ Head(blockList) \in DOMAIN code[fn]
        /\ ToSet(blockList) \subseteq {Head(blockList)} \cup ToSet(Tail(blockList))
    BY <2>1, ToSetFacts
  <2>3. Listed \subseteq Listed'
    BY <1>2, <2>1, <2>2 DEF Listed, StartBlock
  <2> QED
    BY <1>2, <2>3, ListKept DEF StartBlock
<1>3. CASE EndBlock
  BY <1>3, ListEnd
<1>4. CASE FinishFunction
  <2>1. output' = <<>> /\ DOMAIN output' = {}
    BY <1>4, EmptyOutput DEF FinishFunction
  <2>2. Analysing' => blockList' = <<1>>
    BY <1>4 DEF FinishFunction, Analysing, Functions_
  <2>3. 1 \in ToSet(<<1>>)
    BY ShortSequences DEF ToSet
  <2> QED
    BY <2>1, <2>2, <2>3 DEF ListInv, Listed
<1>5. CASE Execute \/ Call \/ Branch \/ Return
  BY <1>5 DEF Execute, Call, Branch, Return, AtOp, Running, AnalysisOK, Analysing, Functions_, ListInv
<1>6. CASE UNCHANGED vars
  <2>1. CASE Analysing
    BY <1>6, <2>1, ListKept DEF vars, walk, Listed
  <2>2. CASE ~ Analysing
    BY <1>6, <2>2 DEF vars, walk, Analysing, Functions_, ListInv
  <2> QED
    BY <2>1, <2>2
<1> QED
  BY <1>1, <1>2, <1>3, <1>4, <1>5, <1>6 DEF Next, Analyse, Done

-----------------------------------------------------------------------------
(* What is left of the analysis of a function: an annotation of every      *)
(* block it reaches, that its branches respect, and its summary.           *)

Analysed(f, In, Out) ==
  /\ 1 \in DOMAIN Out /\ DOMAIN Out \subseteq DOMAIN code[f]
  /\ \A b \in DOMAIN Out : Settled(f, b, In[b], Out[b])
  /\ \A b \in DOMAIN Out : \A s \in Successors(f, b) : s \in DOMAIN Out /\ Within(Out[b], In[s])
  /\ \A b \in DOMAIN Out : b \in Returns(f) => Within(Out[b], funcInfo[f])

SummaryInv == \A f \in DOMAIN funcInfo : \E In, Out : Analysed(f, In, Out)

LEMMA AnalysedKept ==
  ASSUME ProgramOK, AnalysisOK, UNCHANGED <<fences, succ>>, NEW f \in DOMAIN code, f < fn,
         \A g \in 1 .. fn - 1 : funcInfo'[g] = funcInfo[g], code'[f] = code[f],
         NEW In, NEW Out, Analysed(f, In, Out)
  PROVE  Analysed(f, In, Out)'
<1>1. f \in 1 .. fn - 1 /\ f <= fn
  BY DEF ProgramOK, AnalysisOK
<1>2. ASSUME NEW b \in DOMAIN Out PROVE Settled(f, b, In[b], Out[b])'
  <2>1. Settled(f, b, In[b], Out[b]) /\ b \in DOMAIN code[f] /\ code'[f][b] = code[f][b]
    BY <1>2 DEF Analysed
  <2> QED
    BY <1>1, <2>1, StillSettled
<1>3. Returns(f)' = Returns(f) /\ \A b : Successors(f, b)' = Successors(f, b)
  BY DEF Returns, Successors
<1>4. funcInfo'[f] = funcInfo[f]
  BY <1>1
<1> QED
  BY <1>2, <1>3, <1>4 DEF Analysed

LEMMA FinishFacts ==
  ASSUME ProgramOK, AnalysisOK, FinishFunction
  PROVE  /\ fn \in DOMAIN code /\ fn \in Nat /\ fn' = fn + 1 /\ UNCHANGED <<fences, succ, code, pending>>
         /\ Dangling \in Infos
         /\ DOMAIN funcInfo' = 1 .. fn /\ \A g \in 1 .. fn - 1 : funcInfo'[g] = funcInfo[g]
         /\ funcInfo'[fn] = Dangling
<1>1. fn \in DOMAIN code /\ fn \in Nat \ {0} /\ fn' = fn + 1 /\ UNCHANGED <<fences, succ, code, pending>>
  BY DEF AnalysisOK, FinishFunction, Analysing, Functions_
<1>2. Dangling \in Infos
  BY <1>1 DEF Dangling, Infos, AnalysisOK, Analysing, Functions_, Known
<1>3. /\ funcInfo \in Seq(Infos) /\ Len(funcInfo) = fn - 1
      /\ funcInfo' = Append(funcInfo, Dangling)
  BY DEF AnalysisOK, FinishFunction
<1>4. /\ funcInfo' \in Seq(Infos) /\ Len(funcInfo') = fn
      /\ \A g \in 1 .. fn - 1 : funcInfo'[g] = funcInfo[g] /\ funcInfo'[fn] = Dangling
  BY <1>1, <1>2, <1>3, AppendProperties
<1>5. funcInfo'[fn] = Dangling
  BY <1>1, <1>2, <1>3, AppendProperties
<1>6. DOMAIN funcInfo' = 1 .. fn
  BY <1>4, LenProperties
<1> QED
  BY <1>1, <1>2, <1>4, <1>5, <1>6

LEMMA SummaryFinish ==
  ASSUME ProgramOK, AnalysisOK, ListInv, SummaryInv, FinishFunction
  PROVE  SummaryInv'
<1>1. /\ fn \in DOMAIN code /\ fn \in Nat /\ UNCHANGED <<fences, succ, code>>
      /\ DOMAIN funcInfo' = 1 .. fn /\ \A g \in 1 .. fn - 1 : funcInfo'[g] = funcInfo[g]
      /\ funcInfo'[fn] = Dangling
  BY FinishFacts
<1>2. ASSUME NEW f \in 1 .. fn - 1 PROVE \E In, Out : Analysed(f, In, Out)'
  <2>1. f \in DOMAIN funcInfo
    BY FuncInfoFacts
  <2>2. PICK In, Out : Analysed(f, In, Out)
    BY <2>1 DEF SummaryInv
  <2>3. f \in DOMAIN code /\ f < fn
    BY <1>1 DEF ProgramOK
  <2> QED
    BY <1>1, <2>2, <2>3, AnalysedKept
<1>3. PICK f : f = fn
  OBVIOUS
<1>4. PICK In, Out : In = input /\ Out = output
  OBVIOUS
<1>5. /\ Analysing /\ Listed = {} /\ DOMAIN output \subseteq DOMAIN code[fn]
  <2>1. ToSet(blockList) = {}
    BY EmptySeq, LenProperties DEF FinishFunction, ToSet
  <2> QED
    BY <2>1 DEF FinishFunction, Listed, AnalysisOK
<1>6. /\ 1 \in DOMAIN Out /\ DOMAIN Out \subseteq DOMAIN code[f]
      /\ \A b \in DOMAIN Out : Settled(f, b, In[b], Out[b])
      /\ \A b \in DOMAIN Out : \A s \in Successors(f, b) : s \in DOMAIN Out /\ Within(Out[b], In[s])
  BY <1>3, <1>4, <1>5 DEF ListInv
<1>7. ASSUME NEW b \in DOMAIN Out PROVE Settled(f, b, In[b], Out[b])'
  <2>1. b \in DOMAIN code[f] /\ code'[f][b] = code[f][b] /\ f \in DOMAIN code /\ f <= fn
    BY <1>1, <1>3, <1>6
  <2> QED
    BY <1>1, <1>6, <2>1, StillSettled
<1>8. Returns(f)' = Returns(f) /\ \A b : Successors(f, b)' = Successors(f, b)
  BY <1>1 DEF Returns, Successors
<1>9. \A b \in DOMAIN Out : b \in Returns(f) => Within(Out[b], funcInfo'[f])
  BY <1>1, <1>3, <1>4 DEF Dangling, Within, Known
<1>10. Analysed(f, In, Out)'
  BY <1>1, <1>6, <1>7, <1>8, <1>9 DEF Analysed
<1>11. ASSUME NEW g \in 1 .. fn PROVE \E i, o : Analysed(g, i, o)'
  BY <1>1, <1>2, <1>3, <1>10
<1> QED
  BY <1>1, <1>11 DEF SummaryInv

LEMMA SummaryNext == ProgramOK /\ AnalysisOK /\ ListInv /\ SummaryInv /\ [Next]_vars => SummaryInv'
<1> SUFFICES ASSUME ProgramOK, AnalysisOK, ListInv, SummaryInv, [Next]_vars PROVE SummaryInv'
  OBVIOUS
<1>1. ASSUME UNCHANGED <<fences, succ, funcInfo>>, \A f \in 1 .. fn - 1 : code'[f] = code[f]
      PROVE  SummaryInv'
  <2>1. ASSUME NEW f \in 1 .. fn - 1 PROVE \E In, Out : Analysed(f, In, Out)'
    <3>1. f \in DOMAIN funcInfo
      BY FuncInfoFacts
    <3>2. PICK In, Out : Analysed(f, In, Out)
      BY <3>1 DEF SummaryInv
    <3>3. f \in DOMAIN code /\ f < fn
      BY DEF ProgramOK, AnalysisOK
    <3> QED
      BY <1>1, <3>2, <3>3, AnalysedKept
  <2>2. DOMAIN funcInfo' = 1 .. fn - 1
    BY <1>1, FuncInfoFacts
  <2> QED
    BY <2>1, <2>2 DEF SummaryInv
<1>2. CASE VisitOp
  <2>1. \A f \in 1 .. fn - 1 : f # fn /\ f \in DOMAIN code
    BY DEF ProgramOK, AnalysisOK
  <2>2. code' = [code EXCEPT ![fn][block] = Splice(Walked, pos, Visited.ops)]
    BY <1>2 DEF VisitOp, Walked
  <2>3. \A f \in 1 .. fn - 1 : code'[f] = code[f]
    BY <2>1, <2>2
  <2> QED
    BY <1>1, <1>2, <2>3 DEF VisitOp
<1>3. CASE StartBlock
  BY <1>1, <1>3 DEF StartBlock
<1>4. CASE EndBlock
  BY <1>1, <1>4 DEF EndBlock
<1>5. CASE FinishFunction
  BY <1>5, SummaryFinish
<1>6. CASE Execute \/ Call \/ Branch \/ Return \/ UNCHANGED vars
  BY <1>1, <1>6 DEF Execute, Call, Branch, Return, vars
<1> QED
  BY <1>2, <1>3, <1>4, <1>5, <1>6 DEF Next, Analyse, Done

-----------------------------------------------------------------------------
(* Execution.  Every frame runs along the annotations of its function.     *)

Frames == [fn : Nat, block : Nat, at : Nat, base : Nat]

Follows(frame, J) ==
  LET ops == code[frame.fn][frame.block]
  IN  \E In, Out :
        /\ Analysed(frame.fn, In, Out) /\ frame.block \in DOMAIN Out
        /\ Annotates(J, ops, Len(ops) + 1)
        /\ J[1] = In[frame.block] /\ J[Len(ops) + 1] = Out[frame.block]

(* The frame that runs, with what its annotation says is pending;          *)
AtTop(frame, e) ==
  LET ops == code[frame.fn][frame.block]
  IN  /\ frame.fn \in DOMAIN code
      /\ frame.at \in 1 .. Len(ops) + 1
      /\ \E J : Follows(frame, J) /\ e = J[frame.at]

(* a frame behind a call, with what was pending before the call.           *)
InCall(frame, callee, e) ==
  LET ops == code[frame.fn][frame.block]
  IN  /\ frame.fn \in DOMAIN code
      /\ frame.at - 1 \in 1 .. Len(ops)
      /\ ops[frame.at - 1].kind = "call" /\ ops[frame.at - 1].callee = callee
      /\ \E J : Follows(frame, J) /\ e = J[frame.at - 1]

LEMMA AllAnalysed ==
  ASSUME ProgramOK, AnalysisOK, ~ Analysing, NEW f \in DOMAIN code
  PROVE  f < fn /\ f \in 1 .. fn - 1 /\ f \in Nat /\ f \in DOMAIN funcInfo
<1>1. f < fn /\ f \in 1 .. fn - 1 /\ f \in Nat
  BY DEF ProgramOK, AnalysisOK, Analysing, Functions_
<1> QED
  BY <1>1, FuncInfoFacts

LEMMA FollowsFacts ==
  ASSUME ProgramOK, NEW frame \in Frames, frame.fn \in DOMAIN code, NEW J, Follows(frame, J)
  PROVE  LET ops == code[frame.fn][frame.block]
         IN  /\ frame.block \in DOMAIN code[frame.fn] /\ ops \in Seq(Ops(frame.fn)) /\ Len(ops) \in Nat
             /\ \A i \in 1 .. Len(ops) : ops[i] \in Ops(frame.fn)
             /\ J \in [1 .. Len(ops) + 1 -> Infos]
             /\ \A i \in 1 .. Len(ops) : Passes(J[i], ops[i], KindAt(ops, i + 1), J[i + 1])
<1>1. frame.block \in DOMAIN code[frame.fn]
  BY DEF Follows, Analysed
<1>2. /\ code[frame.fn][frame.block] \in Seq(Ops(frame.fn)) /\ Len(code[frame.fn][frame.block]) \in Nat
      /\ \A i \in 1 .. Len(code[frame.fn][frame.block]) : code[frame.fn][frame.block][i] \in Ops(frame.fn)
  BY <1>1, BlockFacts
<1>3. PICK ops : ops = code[frame.fn][frame.block]
  OBVIOUS
<1>4. Annotates(J, ops, Len(ops) + 1)
  BY <1>3 DEF Follows
<1>5. Len(ops) + 1 - 1 = Len(ops)
  BY <1>2, <1>3
<1>6. J \in [1 .. Len(ops) + 1 -> Infos]
  BY <1>4 DEF Annotates
<1>7. \A i \in 1 .. Len(ops) + 1 - 1 : Passes(J[i], ops[i], KindAt(ops, i + 1), J[i + 1])
  BY <1>4 DEF Annotates
<1>8. \A i \in 1 .. Len(ops) : Passes(J[i], ops[i], KindAt(ops, i + 1), J[i + 1])
  BY <1>5, <1>7
<1> QED
  BY <1>1, <1>2, <1>3, <1>6, <1>8

LEMMA FollowsKept ==
  ASSUME ProgramOK, AnalysisOK, UNCHANGED <<fences, succ, code, funcInfo>>, ~ Analysing,
         NEW frame \in Frames, frame.fn \in DOMAIN code, NEW J, Follows(frame, J)
  PROVE  Follows(frame, J)'
<1>1. PICK ops : ops = code[frame.fn][frame.block]
  OBVIOUS
<1>2. PICK In, Out : /\ Analysed(frame.fn, In, Out) /\ frame.block \in DOMAIN Out
                     /\ Annotates(J, ops, Len(ops) + 1)
                     /\ J[1] = In[frame.block] /\ J[Len(ops) + 1] = Out[frame.block]
  BY <1>1 DEF Follows
<1>3. Len(ops) \in Nat
  BY <1>1, FollowsFacts
<1>4. Annotates(J, ops, Len(ops) + 1)'
  BY <1>2, <1>3, AnnotatesKept
<1>5. Analysed(frame.fn, In, Out)'
  BY <1>2, AllAnalysed, AnalysedKept
<1> QED
  BY <1>1, <1>2, <1>4, <1>5 DEF Follows

LEMMA FramesKept ==
  ASSUME ProgramOK, AnalysisOK, UNCHANGED <<fences, succ, code, funcInfo>>, ~ Analysing,
         NEW frame \in Frames, NEW e
  PROVE  /\ AtTop(frame, e) => AtTop(frame, e)'
         /\ \A callee : InCall(frame, callee, e) => InCall(frame, callee, e)'
<1>1. ASSUME frame.fn \in DOMAIN code, NEW J, Follows(frame, J) PROVE Follows(frame, J)'
  BY <1>1, FollowsKept
<1> QED
  BY <1>1 DEF AtTop, InCall

(* A step of the frame that runs.                                          *)
LEMMA TopExecutes ==
  ASSUME ProgramOK, NEW frame \in Frames, NEW e, AtTop(frame, e),
         NEW ops, ops = code[frame.fn][frame.block], frame.at <= Len(ops)
  PROVE  /\ e \in Infos /\ ops[frame.at] \in Ops(frame.fn)
         /\ \E after \in Infos : /\ AtTop([frame EXCEPT !.at = @ + 1], after)
                                 /\ Passes(e, ops[frame.at], KindAt(ops, frame.at + 1), after)
         /\ ops[frame.at].kind = "call" =>
              InCall([frame EXCEPT !.at = @ + 1], ops[frame.at].callee, e)
<1> DEFINE next == [frame EXCEPT !.at = @ + 1]
<1>1. PICK J : Follows(frame, J) /\ e = J[frame.at]
  BY DEF AtTop
<1>2. /\ frame.fn \in DOMAIN code /\ frame.at \in 1 .. Len(ops) /\ Len(ops) \in Nat
      /\ J \in [1 .. Len(ops) + 1 -> Infos]
      /\ \A i \in 1 .. Len(ops) : ops[i] \in Ops(frame.fn)
      /\ \A i \in 1 .. Len(ops) : Passes(J[i], ops[i], KindAt(ops, i + 1), J[i + 1])
  BY <1>1, FollowsFacts DEF AtTop
<1>3. next.fn = frame.fn /\ next.block = frame.block /\ next.at = frame.at + 1
  BY DEF Frames
<1> HIDE DEF next
<1>4. Follows(next, J)
  BY <1>1, <1>3 DEF Follows
<1>5. next.at \in 1 .. Len(ops) + 1 /\ next.at - 1 = frame.at
  BY <1>2, <1>3
<1>6. AtTop(next, J[frame.at + 1]) /\ J[frame.at + 1] \in Infos /\ e \in Infos
  BY <1>1, <1>2, <1>3, <1>4, <1>5 DEF AtTop
<1>7. ops[frame.at].kind = "call" => InCall(next, ops[frame.at].callee, e)
  BY <1>1, <1>2, <1>3, <1>4, <1>5 DEF InCall
<1> QED
  BY <1>1, <1>2, <1>6, <1>7 DEF next

LEMMA TopBranches ==
  ASSUME ProgramOK, NEW frame \in Frames, NEW e, AtTop(frame, e),
         frame.at > Len(code[frame.fn][frame.block])
  PROVE  /\ e \in Infos
         /\ \A b \in Successors(frame.fn, frame.block) :
              /\ b \in Nat
              /\ \E after \in Infos : /\ AtTop([frame EXCEPT !.block = b, !.at = 1], after)
                                      /\ Within(e, after)
         /\ frame.block \in Returns(frame.fn) => Within(e, funcInfo[frame.fn])
<1>1. PICK J : Follows(frame, J) /\ e = J[frame.at]
  BY DEF AtTop
<1>2. PICK ops : ops = code[frame.fn][frame.block]
  OBVIOUS
<1>3. /\ frame.fn \in DOMAIN code /\ frame.at = Len(ops) + 1 /\ Len(ops) \in Nat
      /\ J \in [1 .. Len(ops) + 1 -> Infos]
  BY <1>1, <1>2, FollowsFacts DEF AtTop
<1>4. PICK In, Out : /\ Analysed(frame.fn, In, Out) /\ frame.block \in DOMAIN Out
                     /\ J[Len(ops) + 1] = Out[frame.block]
  BY <1>1, <1>2 DEF Follows
<1>5. e \in Infos /\ e = Out[frame.block]
  BY <1>1, <1>3, <1>4
<1>6. ASSUME NEW b \in Successors(frame.fn, frame.block)
      PROVE  /\ b \in Nat
             /\ \E after \in Infos : /\ AtTop([frame EXCEPT !.block = b, !.at = 1], after)
                                     /\ Within(e, after)
  <2> DEFINE next == [frame EXCEPT !.block = b, !.at = 1]
  <2>1. b \in DOMAIN Out /\ b \in DOMAIN code[frame.fn] /\ Within(Out[frame.block], In[b])
    BY <1>4 DEF Analysed
  <2>2. b \in Nat
    BY <1>3, <2>1 DEF ProgramOK
  <2>3. next.fn = frame.fn /\ next.block = b /\ next.at = 1 /\ next \in Frames
    BY <2>2 DEF Frames
  <2> HIDE DEF next
  <2>4. PICK K : /\ Annotates(K, code[frame.fn][b], Len(code[frame.fn][b]) + 1)
                 /\ K[1] = In[b] /\ K[Len(code[frame.fn][b]) + 1] = Out[b]
    BY <1>4, <2>1 DEF Analysed, Settled
  <2>5. Follows(next, K)
    BY <1>4, <2>1, <2>3, <2>4 DEF Follows
  <2>6. Len(code[frame.fn][b]) \in Nat /\ K \in [1 .. Len(code[frame.fn][b]) + 1 -> Infos]
    BY <1>3, <2>3, <2>5, FollowsFacts
  <2>7. 1 \in 1 .. Len(code[frame.fn][b]) + 1
    BY <2>6
  <2>8. AtTop(next, K[1])
    BY <1>3, <2>3, <2>5, <2>7 DEF AtTop
  <2>9. K[1] \in Infos /\ Within(e, K[1])
    BY <1>5, <2>1, <2>4, <2>6, <2>7
  <2> QED
    BY <2>2, <2>8, <2>9 DEF next
<1>7. frame.block \in Returns(frame.fn) => Within(e, funcInfo[frame.fn])
  BY <1>4, <1>5 DEF Analysed
<1> QED
  BY <1>5, <1>6, <1>7

(* A call begins where the callee's annotation does,                       *)
LEMMA CalleeStarts ==
  ASSUME ProgramOK, AnalysisOK, SummaryInv, ~ Analysing, NEW f \in DOMAIN code, NEW base \in Nat
  PROVE  Frame(f, base) \in Frames /\ \E e \in Infos : AtTop(Frame(f, base), e)
<1>1. PICK In, Out : Analysed(f, In, Out)
  BY AllAnalysed DEF SummaryInv
<1>2. 1 \in DOMAIN Out /\ 1 \in DOMAIN code[f] /\ f \in Nat
  BY <1>1, AllAnalysed DEF Analysed
<1>3. PICK K : /\ Annotates(K, code[f][1], Len(code[f][1]) + 1)
               /\ K[1] = In[1] /\ K[Len(code[f][1]) + 1] = Out[1]
  BY <1>1, <1>2 DEF Analysed, Settled
<1> DEFINE frame == Frame(f, base)
<1>4. frame.fn = f /\ frame.block = 1 /\ frame.at = 1 /\ frame \in Frames
  BY <1>2 DEF Frame, Frames
<1> HIDE DEF frame
<1>5. Follows(frame, K)
  BY <1>1, <1>2, <1>3, <1>4 DEF Follows
<1>6. Len(code[f][1]) \in Nat /\ K \in [1 .. Len(code[f][1]) + 1 -> Infos]
  BY <1>4, <1>5, FollowsFacts
<1>7. 1 \in 1 .. Len(code[f][1]) + 1
  BY <1>6
<1>8. AtTop(frame, K[1]) /\ K[1] \in Infos
  BY <1>4, <1>5, <1>6, <1>7 DEF AtTop
<1> QED
  BY <1>4, <1>8 DEF frame

(* and when it returns the caller knows its summary.                       *)
LEMMA CallerGoesOn ==
  ASSUME ProgramOK, NEW frame \in Frames, NEW callee, NEW e, InCall(frame, callee, e)
  PROVE  /\ e \in Infos
         /\ InOrder(e, code[frame.fn][frame.block][frame.at - 1],
                    KindAt(code[frame.fn][frame.block], frame.at))
         /\ \E after \in Infos :
              AtTop(frame, after) /\ Within(e, after) /\ Within(funcInfo[callee], after)
<1>1. PICK ops : ops = code[frame.fn][frame.block]
  OBVIOUS
<1>2. PICK J : Follows(frame, J) /\ e = J[frame.at - 1]
  BY DEF InCall
<1>3. PICK i : i = frame.at - 1
  OBVIOUS
<1>4. /\ frame.fn \in DOMAIN code /\ i \in 1 .. Len(ops) /\ Len(ops) \in Nat
      /\ J \in [1 .. Len(ops) + 1 -> Infos]
      /\ Passes(J[i], ops[i], KindAt(ops, i + 1), J[i + 1])
      /\ ops[i] \in Ops(frame.fn) /\ ops[i].kind = "call" /\ ops[i].callee = callee
  BY <1>1, <1>2, <1>3, FollowsFacts DEF InCall
<1>5. frame.at = i + 1 /\ frame.at \in 1 .. Len(ops) + 1
  BY <1>3, <1>4 DEF Frames
<1>6. AtTop(frame, J[i + 1]) /\ J[i + 1] \in Infos /\ J[i] \in Infos
  BY <1>1, <1>2, <1>4, <1>5 DEF AtTop
<1>7. Within(J[i], J[i + 1]) /\ Within(funcInfo[callee], J[i + 1])
  <2>1. PICK op : op = ops[i]
    OBVIOUS
  <2>2. op.kind = "call" /\ op.callee = callee /\ Leaves(J[i], op, J[i + 1])
    BY <1>4, <2>1 DEF Passes
  <2>3. op.proxy # "write"
    BY <1>4, <2>1, <2>2, OpFacts
  <2>4. CurrentInfo(op) = funcInfo[callee] /\ FenceInfo(op) = funcInfo[callee]
    BY <2>2, <2>3 DEF CurrentInfo, FenceInfo, Scratches
  <2> QED
    BY <2>2, <2>4 DEF Leaves
<1>8. InOrder(J[i], ops[i], KindAt(ops, i + 1))
  BY <1>4 DEF Passes
<1>9. InOrder(e, ops[frame.at - 1], KindAt(ops, frame.at))
  BY <1>2, <1>3, <1>5, <1>8
<1>10. e = J[i]
  BY <1>2, <1>3
<1>11. e \in Infos /\ Within(e, J[i + 1])
  BY <1>6, <1>7, <1>10
<1> QED
  BY <1>1, <1>6, <1>7, <1>9, <1>11

-----------------------------------------------------------------------------
(* What is really pending is among what the annotations of the frames say. *)

Stands(a, i) == a.at = i /\ ~ (fences /\ a.ignored)

NotedWrites(info) == IF fences THEN info.reads \cup info.writes ELSE info.writes

Covered(p, E, n) ==
  /\ \A i \in p.reads : \E k \in 1 .. n : \E a \in E[k].reads : Stands(a, i)
  /\ \A i \in p.writes : \E k \in 1 .. n : \E a \in NotedWrites(E[k]) : Stands(a, i)

LEMMA NothingCovered == ASSUME NEW E, NEW n PROVE Covered(Nothing, E, n)
BY DEF Covered, Nothing

LEMMA JoinCovered ==
  ASSUME NEW p, NEW q, NEW E, NEW n, Covered(p, E, n), Covered(q, E, n)
  PROVE  Covered(Join(p, q), E, n)
BY DEF Covered, Join

(* Another annotation covers as much when it notes as much.                *)
LEMMA CoverMoves ==
  ASSUME NEW p, NEW E, NEW n, NEW D, NEW m, Covered(p, E, n),
         \A k \in 1 .. n : \E j \in 1 .. m : Within(E[k], D[j])
  PROVE  Covered(p, D, m)
<1>1. ASSUME NEW i \in p.reads PROVE \E j \in 1 .. m : \E a \in D[j].reads : Stands(a, i)
  <2>1. PICK k \in 1 .. n : \E a \in E[k].reads : Stands(a, i)
    BY DEF Covered
  <2>2. PICK j \in 1 .. m : Within(E[k], D[j])
    OBVIOUS
  <2> QED
    BY <2>1, <2>2 DEF Within
<1>2. ASSUME NEW i \in p.writes PROVE \E j \in 1 .. m : \E a \in NotedWrites(D[j]) : Stands(a, i)
  <2>1. PICK k \in 1 .. n : \E a \in NotedWrites(E[k]) : Stands(a, i)
    BY DEF Covered
  <2>2. PICK j \in 1 .. m : Within(E[k], D[j])
    OBVIOUS
  <2>3. NotedWrites(E[k]) \subseteq NotedWrites(D[j])
    BY <2>2 DEF Within, NotedWrites
  <2> QED
    BY <2>1, <2>3
<1> QED
  BY <1>1, <1>2 DEF Covered

LEMMA ShiftedNowhere ==
  ASSUME Here.base = 0, NEW is \in SUBSET Intervals
  PROVE  Shift(is) = is
<1>1. ASSUME NEW i \in is PROVE <<i[1] + Here.base, i[2] + Here.base>> = i
  BY ProgramAssumption DEF Intervals
<1> QED
  BY <1>1 DEF Shift

LEMMA OwnCovered ==
  ASSUME NEW f, NEW op \in Ops(f), op.kind # "call", NEW before, NEW next, NEW after, Passes(before, op, next, after),
         IF fences THEN op.kind # "fence" /\ ~ op.ignored ELSE op.kind \notin {"barrier", "wait"},
         NEW E, NEW n \in Nat \ {0}, E[1] = after
  PROVE  Covered([reads |-> op.reads, writes |-> op.writes], E, n)
<1>0. ~ (fences /\ op.ignored)
  OBVIOUS
<1>1. /\ op.ignored \in BOOLEAN
      /\ op.kind \in Scratches => op.reads = op.writes
      /\ op.proxy = "write" => op.ignored
  BY OpFacts
<1>2. ASSUME NEW is, NEW noted, Accesses(op, is) \subseteq noted
      PROVE  \A i \in is : \E a \in noted : Stands(a, i)
  <2> TAKE i \in is
  <2>1. PICK a : a = [at |-> i, ignored |-> op.ignored]
    OBVIOUS
  <2>2. a \in noted
    BY <1>2, <2>1 DEF Accesses
  <2>3. Stands(a, i)
    BY <1>0, <2>1 DEF Stands
  <2> QED
    BY <2>2, <2>3
<1>3. /\ \A i \in op.reads : \E a \in after.reads : Stands(a, i)
      /\ \A i \in op.writes : \E a \in NotedWrites(after) : Stands(a, i)
  <2>1. CASE fences
    <3>1. Within(FenceInfo(op), after) /\ op.proxy # "write" /\ ~ op.ignored
      BY <1>1, <2>1 DEF Passes, Leaves
    <3>2. CASE op.kind \in Scratches
      <4>1. FenceInfo(op) = [reads |-> Accesses(op, op.reads), writes |-> {}]
        BY <3>1, <3>2 DEF FenceInfo, Scratches
      <4>2. Accesses(op, op.reads) \subseteq after.reads /\ op.writes = op.reads
        BY <1>1, <3>1, <3>2, <4>1 DEF Within
      <4> QED
        BY <1>2, <2>1, <4>2 DEF NotedWrites
    <3>3. CASE op.kind \notin Scratches
      <4>1. FenceInfo(op) = Effects(op)
        BY <3>1, <3>3 DEF FenceInfo
      <4>2. Accesses(op, op.reads) \subseteq after.reads /\ Accesses(op, op.writes) \subseteq after.writes
        BY <3>1, <4>1 DEF Within, Effects
      <4> QED
        BY <1>2, <2>1, <4>2 DEF NotedWrites
    <3> QED
      BY <3>2, <3>3
  <2>2. CASE ~ fences
    <3>1. Within(CurrentInfo(op), after)
      BY <2>2 DEF Passes, Leaves
    <3>2. Accesses(op, op.reads) \subseteq CurrentInfo(op).reads /\ Accesses(op, op.writes) \subseteq CurrentInfo(op).writes
      BY DEF CurrentInfo, Effects, Accesses
    <3>3. Accesses(op, op.reads) \subseteq after.reads /\ Accesses(op, op.writes) \subseteq after.writes
      BY <3>1, <3>2 DEF Within
    <3> QED
      BY <1>2, <2>2, <3>3 DEF NotedWrites
  <2> QED
    BY <2>1, <2>2
<1>4. 1 \in 1 .. n
  OBVIOUS
<1> QED
  BY <1>3, <1>4 DEF Covered

LEMMA CoverStep ==
  ASSUME NEW f, NEW op \in Ops(f), op.kind # "call", Here.base = 0,
         NEW n \in Nat \ {0}, NEW E \in [1 .. n -> Infos], NEW D \in [1 .. n -> Infos],
         \A k \in 2 .. n : D[k] = E[k],
         NEW next, Passes(E[1], op, next, D[1]),
         Covered(pending, E, n) \/ Orders(op), ~ fences => op.kind # "wait"
  PROVE  Covered(PendingAfter(op), D, n)
<1> DEFINE own == [reads |-> op.reads, writes |-> op.writes]
<1>1. Shift(op.reads) = op.reads /\ Shift(op.writes) = op.writes
  BY OpFacts, ShiftedNowhere
<1>2. CASE Orders(op)
  BY <1>2, NothingCovered DEF PendingAfter, Orders
<1>3. ASSUME Within(E[1], D[1]), Covered(pending, E, n) PROVE Covered(pending, D, n)
  <2>1. ASSUME NEW k \in 1 .. n PROVE Within(E[k], D[k])
    <3>1. k = 1 \/ k \in 2 .. n
      OBVIOUS
    <3> QED
      BY <1>3, <3>1 DEF Within
  <2>2. \A k \in 1 .. n : \E j \in 1 .. n : Within(E[k], D[j])
    BY <2>1
  <2> QED
    BY <1>3, <2>2, CoverMoves
<1>4. ASSUME IF fences THEN op.kind # "fence" /\ ~ op.ignored ELSE op.kind \notin {"barrier", "wait"}
      PROVE  Covered(own, D, n)
  BY <1>4, OwnCovered
<1>5. CASE fences /\ ~ Orders(op)
  <2>1. Within(E[1], D[1]) /\ op.kind # "fence"
    BY <1>5 DEF Passes, Leaves, Orders
  <2>2. PendingAfter(op) = IF op.ignored THEN pending ELSE Join(pending, own)
    BY <1>1, <1>5 DEF PendingAfter
  <2> HIDE DEF own
  <2> QED
    BY <1>3, <1>4, <1>5, <2>1, <2>2, JoinCovered
<1>6. CASE ~ fences /\ ~ Orders(op) /\ op.kind = "scratch"
  <2>1. PendingAfter(op) = [own EXCEPT !.writes = {}]
    BY <1>1, <1>6 DEF PendingAfter
  <2>2. Covered(own, D, n)
    BY <1>4, <1>6
  <2>3. PendingAfter(op).reads = own.reads /\ PendingAfter(op).writes = {}
    BY <2>1
  <2> QED
    BY <2>2, <2>3 DEF Covered
<1>7. CASE ~ fences /\ ~ Orders(op) /\ op.kind # "scratch"
  <2>1. op.kind \notin {"barrier", "wait", "scratch"}
    BY <1>7 DEF Orders
  <2>2. Within(E[1], D[1])
    BY <1>7, <2>1 DEF Passes, Leaves
  <2>3. PendingAfter(op) = Join(pending, own)
    BY <1>1, <1>7, <2>1 DEF PendingAfter
  <2> HIDE DEF own
  <2> QED
    BY <1>3, <1>4, <1>7, <2>1, <2>2, <2>3, JoinCovered
<1> QED
  BY <1>2, <1>5, <1>6, <1>7

-----------------------------------------------------------------------------
(* The stack.                                                              *)

LEMMA StackFacts ==
  ASSUME NEW S, NEW s \in Seq(S), s # <<>>, NEW x \in S
  PROVE  /\ Len(s) \in Nat \ {0} /\ Head(s) = s[1] /\ \A k \in 1 .. Len(s) : s[k] \in S
         /\ Tail(s) \in Seq(S) /\ Len(Tail(s)) = Len(s) - 1
         /\ \A k \in 1 .. Len(s) - 1 : Tail(s)[k] = s[k + 1]
         /\ <<x>> \o Tail(s) \in Seq(S) /\ Len(<<x>> \o Tail(s)) = Len(s) /\ (<<x>> \o Tail(s))[1] = x
         /\ \A k \in 2 .. Len(s) : (<<x>> \o Tail(s))[k] = s[k]
<1>1. Len(s) \in Nat \ {0} /\ Head(s) = s[1] /\ \A k \in 1 .. Len(s) : s[k] \in S
  BY EmptySeq, LenProperties, ElementOfSeq
<1>2. /\ Tail(s) \in Seq(S) /\ Len(Tail(s)) = Len(s) - 1
      /\ \A k \in 1 .. Len(s) - 1 : Tail(s)[k] = s[k + 1]
  BY HeadTailProperties
<1>3. PICK t : t = <<x>> \o Tail(s)
  OBVIOUS
<1>4. /\ t \in Seq(S) /\ Len(t) = 1 + Len(Tail(s))
      /\ \A k \in 1 .. 1 + Len(Tail(s)) : t[k] = IF k <= 1 THEN <<x>>[k] ELSE Tail(s)[k - 1]
  BY <1>2, <1>3, ShortSequences, ConcatProperties
<1>5. Len(t) = Len(s) /\ t[1] = x
  BY <1>1, <1>2, <1>4
<1>6. ASSUME NEW k \in 2 .. Len(s) PROVE t[k] = s[k]
  <2>1. k - 1 \in 1 .. Len(s) - 1 /\ k \in 1 .. 1 + Len(Tail(s)) /\ ~ (k <= 1) /\ (k - 1) + 1 = k
    BY <1>1, <1>2
  <2>2. Tail(s)[k - 1] = s[k]
    BY <1>2, <2>1
  <2> QED
    BY <1>4, <2>1, <2>2
<1> QED
  BY <1>1, <1>2, <1>3, <1>4, <1>5, <1>6

LEMMA PushFacts ==
  ASSUME NEW S, NEW s \in Seq(S), NEW x \in S
  PROVE  /\ <<x>> \o s \in Seq(S) /\ Len(<<x>> \o s) = Len(s) + 1 /\ (<<x>> \o s)[1] = x
         /\ \A k \in 2 .. Len(s) + 1 : (<<x>> \o s)[k] = s[k - 1]
<1>1. Len(s) \in Nat
  BY LenProperties
<1>2. PICK t : t = <<x>> \o s
  OBVIOUS
<1>3. /\ t \in Seq(S) /\ Len(t) = 1 + Len(s)
      /\ \A k \in 1 .. 1 + Len(s) : t[k] = IF k <= 1 THEN <<x>>[k] ELSE s[k - 1]
  BY <1>2, ShortSequences, ConcatProperties
<1>4. t[1] = x
  BY <1>1, <1>3
<1>5. \A k \in 2 .. Len(s) + 1 : t[k] = s[k - 1]
  BY <1>1, <1>3
<1> QED
  BY <1>1, <1>2, <1>3, <1>4, <1>5

Runs(E) == /\ AtTop(stack[1], E[1])
           /\ \A k \in 2 .. Len(stack) : InCall(stack[k], stack[k - 1].fn, E[k])

AtBarrier == ~ fences /\ AtOp /\ CurrentOp.kind = "barrier"

Covers(E) == /\ \A k \in 1 .. Len(stack) : stack[k].base = 0
             /\ AtBarrier \/ Covered(pending, E, Len(stack))

(* An asynchronous wait leaves more pending than is noted, until the       *)
(* barrier behind it.                                                      *)
ExecInv ==
  Running =>
    /\ ~ Analysing /\ stack \in Seq(Frames)
    /\ \E E \in [1 .. Len(stack) -> Infos] : Runs(E) /\ (CallsInPlace => Covers(E))

(* What the frame that runs does.                                          *)
LEMMA TopFacts ==
  ASSUME ProgramOK, AnalysisOK, ExecInv, Running, NEW E, Runs(E)
  PROVE  /\ ~ Analysing /\ Here = stack[1] /\ Here \in Frames /\ AtTop(Here, E[1])
         /\ stack \in Seq(Frames) /\ Len(stack) \in Nat \ {0}
         /\ \A k \in 1 .. Len(stack) : stack[k] \in Frames
         /\ Here.fn \in DOMAIN code /\ Here.at \in 1 .. Len(OpsHere) + 1 /\ Len(OpsHere) \in Nat
<1>1. ~ Analysing /\ stack \in Seq(Frames) /\ stack # <<>>
  BY DEF ExecInv, Running
<1>2. PICK x \in Frames : x = [fn |-> 0, block |-> 0, at |-> 0, base |-> 0]
  BY DEF Frames
<1>3. /\ Here = stack[1] /\ Here \in Frames /\ Len(stack) \in Nat \ {0}
      /\ \A k \in 1 .. Len(stack) : stack[k] \in Frames
  BY <1>1, <1>2, StackFacts DEF Here
<1>4. AtTop(Here, E[1])
  BY <1>3 DEF Runs
<1>5. Here.fn \in DOMAIN code /\ Here.at \in 1 .. Len(OpsHere) + 1
  BY <1>4 DEF AtTop, OpsHere
<1>6. Len(OpsHere) \in Nat
  <2>1. PICK J : Follows(Here, J)
    BY <1>4 DEF AtTop
  <2> QED
    BY <1>3, <1>5, <2>1, FollowsFacts DEF OpsHere
<1> QED
  BY <1>1, <1>3, <1>4, <1>5, <1>6

LEMMA ExecFrom ==
  ASSUME ProgramOK, AnalysisOK, ~ Analysing, UNCHANGED <<fences, succ, code, fn, funcInfo>>,
         stack' \in Seq(Frames), NEW D \in [1 .. Len(stack') -> Infos],
         Running' => AtTop(stack'[1], D[1]),
         \A k \in 2 .. Len(stack') : InCall(stack'[k], stack'[k - 1].fn, D[k]),
         CallsInPlace /\ Running' =>
           /\ \A k \in 1 .. Len(stack') : stack'[k].base = 0
           /\ AtBarrier' \/ Covered(pending', D, Len(stack'))
  PROVE  ExecInv'
<1>1. CASE Running'
  <2>1. Len(stack') \in Nat \ {0} /\ \A k \in 1 .. Len(stack') : stack'[k] \in Frames
    BY <1>1, EmptySeq, LenProperties, ElementOfSeq DEF Running
  <2>2. ~ Analysing'
    BY DEF Analysing, Functions_
  <2>3. AtTop(stack[1], D[1])'
    BY <1>1, <2>1, FramesKept
  <2>4. ASSUME NEW k \in 2 .. Len(stack') PROVE InCall(stack[k], stack[k - 1].fn, D[k])'
    <3>1. PICK frame, callee : frame = stack'[k] /\ callee = stack'[k - 1].fn
      OBVIOUS
    <3>2. frame \in Frames /\ InCall(frame, callee, D[k])
      BY <2>1, <3>1
    <3>3. InCall(frame, callee, D[k])'
      BY <3>2, FramesKept
    <3> QED
      BY <3>1, <3>3
  <2>5. Runs(D)'
    BY <2>3, <2>4 DEF Runs
  <2>6. CallsInPlace' <=> CallsInPlace
    BY DEF CallsInPlace, Calls, Functions_
  <2>7. Covered(pending', D, Len(stack')) => Covered(pending, D, Len(stack))'
    BY DEF Covered, Stands, NotedWrites
  <2>8. CallsInPlace' => Covers(D)'
    BY <1>1, <2>6, <2>7 DEF Covers
  <2> QED
    BY <2>2, <2>5, <2>8 DEF ExecInv
<1>2. CASE ~ Running'
  BY <1>2 DEF ExecInv
<1> QED
  BY <1>1, <1>2

LEMMA ExecExecute ==
  ASSUME ProgramOK, AnalysisOK, ExecInv, Execute
  PROVE  ExecInv'
<1>1. PICK E \in [1 .. Len(stack) -> Infos] : Runs(E) /\ (CallsInPlace => Covers(E))
  BY DEF ExecInv, Execute, AtOp
<1>2. /\ ~ Analysing /\ Here = stack[1] /\ Here \in Frames /\ AtTop(Here, E[1])
      /\ stack \in Seq(Frames) /\ Len(stack) \in Nat \ {0} /\ stack # <<>>
      /\ Here.at <= Len(OpsHere) /\ CurrentOp.kind # "call" /\ Here.fn \in DOMAIN code
      /\ Here.at \in Nat
  BY <1>1, TopFacts DEF Execute, AtOp, Running, Frames
<1>3. PICK n : n = Len(stack)
  OBVIOUS
<1>4. PICK ops : ops = code[Here.fn][Here.block]
  OBVIOUS
<1>5. PICK op : op = ops[Here.at]
  OBVIOUS
<1>6. PICK next : next = [Here EXCEPT !.at = @ + 1]
  OBVIOUS
<1>7. PICK after \in Infos : AtTop(next, after) /\ Passes(E[1], op, KindAt(ops, Here.at + 1), after)
  BY <1>2, <1>4, <1>5, <1>6, TopExecutes DEF OpsHere
<1>8. op \in Ops(Here.fn) /\ CurrentOp = op /\ OpsHere = ops
  BY <1>2, <1>4, <1>5, TopExecutes DEF OpsHere, CurrentOp
<1>9. /\ next \in Frames /\ next.fn = Here.fn /\ next.block = Here.block /\ next.at = Here.at + 1
      /\ next.base = Here.base
  <2>1. PICK h \in Frames : h = Here
    BY <1>2
  <2>2. next = [h EXCEPT !.at = @ + 1]
    BY <1>6, <2>1
  <2>3. /\ next \in Frames /\ next.fn = h.fn /\ next.block = h.block /\ next.at = h.at + 1
        /\ next.base = h.base
    BY <2>2 DEF Frames
  <2> QED
    BY <2>1, <2>3
<1>10. /\ stack' = <<next>> \o Tail(stack) /\ pending' = PendingAfter(op)
       /\ UNCHANGED <<fences, succ, code, fn, funcInfo>>
  BY <1>6, <1>8 DEF Execute, Advance
<1>11. /\ stack' \in Seq(Frames) /\ Len(stack') = n /\ stack'[1] = next
       /\ \A k \in 2 .. n : stack'[k] = stack[k]
  BY <1>2, <1>3, <1>9, <1>10, StackFacts
<1> DEFINE D == [k \in 1 .. n |-> IF k = 1 THEN after ELSE E[k]]
<1>12. D \in [1 .. n -> Infos] /\ D[1] = after /\ \A k \in 2 .. n : D[k] = E[k]
  BY <1>2, <1>3
<1> HIDE DEF D
<1>13. ASSUME NEW k \in 2 .. n PROVE InCall(stack'[k], stack'[k - 1].fn, D[k])
  <2>1. InCall(stack[k], stack[k - 1].fn, E[k])
    BY <1>1, <1>3 DEF Runs
  <2>2. stack'[k - 1].fn = stack[k - 1].fn
    <3>1. k - 1 = 1 \/ k - 1 \in 2 .. n
      BY <1>2, <1>3
    <3> QED
      BY <1>2, <1>9, <1>11, <3>1
  <2> QED
    BY <1>11, <1>12, <2>1, <2>2
<1>14. ASSUME CallsInPlace
       PROVE  /\ \A k \in 1 .. n : stack'[k].base = 0
              /\ AtBarrier' \/ Covered(pending', D, n)
  <2>1. (\A k \in 1 .. n : stack[k].base = 0) /\ (AtBarrier \/ Covered(pending, E, n))
    BY <1>1, <1>3, <1>14 DEF Covers
  <2>2. Here.base = 0
    BY <1>2, <1>3, <2>1
  <2>3. ASSUME NEW k \in 1 .. n PROVE stack'[k].base = 0
    <3>1. k = 1 \/ k \in 2 .. n
      OBVIOUS
    <3> QED
      BY <1>9, <1>11, <2>1, <2>2, <3>1
  <2>4. CASE ~ fences /\ op.kind = "wait"
    <3>1. KindAt(ops, Here.at + 1) = "barrier"
      BY <1>7, <2>4 DEF Passes, InOrder
    <3>2. ~ (Here.at + 1 > Len(ops)) /\ ops[Here.at + 1].kind = "barrier"
      BY <3>1 DEF KindAt
    <3>3. Here' = next /\ OpsHere' = ops /\ Running'
      <4>1. stack' # <<>> /\ Head(stack') = stack'[1]
        BY <1>2, <1>3, <1>9, <1>11, EmptySeq, StackFacts
      <4>2. Here' = next
        BY <1>11, <4>1 DEF Here
      <4> QED
        BY <1>4, <1>9, <1>10, <4>1, <4>2 DEF OpsHere, Running
    <3>4. next.at <= Len(ops)
      BY <1>2, <1>8, <1>9, <3>2, TopFacts, <1>1 DEF Execute, AtOp
    <3>5. AtBarrier'
      BY <1>9, <1>10, <2>4, <3>2, <3>3, <3>4 DEF AtBarrier, AtOp, CurrentOp
    <3> QED
      BY <2>3, <3>5
  <2>5. CASE ~ fences => op.kind # "wait"
    <3>1. Covered(pending, E, n) \/ Orders(op)
      BY <1>8, <2>1 DEF AtBarrier, Orders
    <3>2. E \in [1 .. n -> Infos] /\ n \in Nat \ {0} /\ op.kind # "call" /\ Passes(E[1], op, KindAt(ops, Here.at + 1), D[1])
      BY <1>2, <1>3, <1>7, <1>8, <1>12
    <3>3. Covered(PendingAfter(op), D, n)
      BY <1>8, <1>12, <2>2, <2>5, <3>1, <3>2, CoverStep
    <3> QED
      BY <1>10, <2>3, <3>3
  <2> QED
    BY <2>4, <2>5
<1> QED
  BY <1>2, <1>7, <1>10, <1>11, <1>12, <1>13, <1>14, ExecFrom

LEMMA CallsFacts ==
  ASSUME ProgramOK, NEW f \in DOMAIN code, NEW b \in DOMAIN code[f], NEW i \in 1 .. Len(code[f][b]),
         code[f][b][i].kind = "call"
  PROVE  code[f][b][i] \in Calls /\ code[f][b][i].callee \in DOMAIN code /\ code[f][b][i].base \in Nat
<1>1. code[f][b][i] \in ToSet(code[f][b])
  BY BlockFacts DEF ToSet
<1>2. code[f][b][i].callee \in 1 .. f - 1 /\ code[f][b][i].base \in Nat
  BY BlockFacts, OpFacts
<1>3. 1 .. f - 1 \subseteq DOMAIN code
  BY DEF ProgramOK
<1> QED
  BY <1>1, <1>2, <1>3 DEF Calls, Functions_

LEMMA ExecCall ==
  ASSUME ProgramOK, AnalysisOK, SummaryInv, ExecInv, Call
  PROVE  ExecInv'
<1>1. PICK E \in [1 .. Len(stack) -> Infos] : Runs(E) /\ (CallsInPlace => Covers(E))
  BY DEF ExecInv, Call, AtOp
<1>2. /\ ~ Analysing /\ Here = stack[1] /\ Here \in Frames /\ AtTop(Here, E[1])
      /\ stack \in Seq(Frames) /\ Len(stack) \in Nat \ {0} /\ stack # <<>>
      /\ Here.at <= Len(OpsHere) /\ Here.at \in 1 .. Len(OpsHere) + 1 /\ CurrentOp.kind = "call"
      /\ Here.fn \in DOMAIN code /\ Here.base \in Nat /\ Len(OpsHere) \in Nat
  BY <1>1, TopFacts DEF Call, AtOp, Running, Frames
<1>3. PICK n : n = Len(stack)
  OBVIOUS
<1>4. PICK h \in Frames : h = Here
  BY <1>2
<1>5. PICK op : op = CurrentOp
  OBVIOUS
<1>6. PICK next : next = [h EXCEPT !.at = @ + 1]
  OBVIOUS
<1>7. /\ next \in Frames /\ next.fn = h.fn /\ next.base = h.base
  BY <1>6 DEF Frames
<1>8. InCall(next, op.callee, E[1])
  BY <1>2, <1>4, <1>5, <1>6, TopExecutes DEF OpsHere, CurrentOp
<1>9. op \in Calls /\ op.callee \in DOMAIN code /\ op.base \in Nat
  <2>1. Here.block \in DOMAIN code[Here.fn]
    <3>1. PICK J : Follows(h, J)
      BY <1>2, <1>4 DEF AtTop
    <3> QED
      BY <1>2, <1>4, <3>1, FollowsFacts
  <2>2. Here.at \in 1 .. Len(OpsHere)
    BY <1>2
  <2> QED
    BY <1>2, <1>5, <2>1, <2>2, CallsFacts DEF OpsHere, CurrentOp
<1>10. PICK in : in = Frame(op.callee, h.base + op.base)
  OBVIOUS
<1>11. PICK e \in Infos : in \in Frames /\ AtTop(in, e)
  <2>1. h.base + op.base \in Nat
    BY <1>2, <1>4, <1>9
  <2> QED
    BY <1>2, <1>9, <1>10, <2>1, CalleeStarts
<1>12. in.fn = op.callee /\ in.base = h.base + op.base
  BY <1>10 DEF Frame
<1>13. /\ stack' = <<in>> \o (<<next>> \o Tail(stack)) /\ pending' = pending
       /\ UNCHANGED <<fences, succ, code, fn, funcInfo>>
  BY <1>4, <1>5, <1>6, <1>10 DEF Call, Advance
<1>14. PICK rest : rest = <<next>> \o Tail(stack)
  OBVIOUS
<1>15. /\ rest \in Seq(Frames) /\ Len(rest) = n /\ rest[1] = next
       /\ \A k \in 2 .. n : rest[k] = stack[k]
  BY <1>2, <1>3, <1>7, <1>14, StackFacts
<1>16. /\ stack' \in Seq(Frames) /\ Len(stack') = n + 1 /\ stack'[1] = in
       /\ \A k \in 2 .. n + 1 : stack'[k] = rest[k - 1]
  BY <1>11, <1>13, <1>14, <1>15, PushFacts
<1> DEFINE D == [k \in 1 .. n + 1 |-> IF k = 1 THEN e ELSE E[k - 1]]
<1>17. D \in [1 .. n + 1 -> Infos] /\ D[1] = e /\ \A k \in 2 .. n + 1 : D[k] = E[k - 1]
  <2>1. ASSUME NEW k \in 1 .. n + 1, k # 1 PROVE k - 1 \in 1 .. n
    BY <1>2, <1>3, <2>1
  <2>2. n \in Nat /\ E \in [1 .. n -> Infos]
    BY <1>2, <1>3
  <2>3. \A k \in 1 .. n + 1 : D[k] \in Infos
    BY <2>1, <2>2
  <2> QED
    BY <2>2, <2>3
<1> HIDE DEF D
<1>18. ASSUME NEW k \in 2 .. n + 1 PROVE InCall(stack'[k], stack'[k - 1].fn, D[k])
  <2>1. CASE k = 2
    <3>1. stack'[2] = next /\ stack'[1].fn = op.callee /\ D[2] = E[1]
      BY <1>12, <1>15, <1>16, <1>17, <2>1
    <3> QED
      BY <1>8, <2>1, <3>1
  <2>2. CASE k # 2
    <3>1. k - 1 \in 2 .. n /\ k - 1 \in 2 .. n + 1 /\ (k - 1) - 1 \in 1 .. n
      BY <1>2, <1>3, <2>2
    <3>2. stack'[k] = stack[k - 1] /\ D[k] = E[k - 1]
      BY <1>15, <1>16, <1>17, <3>1
    <3>3. stack'[k - 1].fn = stack[(k - 1) - 1].fn
      <4>1. stack'[k - 1] = rest[(k - 1) - 1]
        BY <1>16, <3>1
      <4>2. (k - 1) - 1 = 1 \/ (k - 1) - 1 \in 2 .. n
        BY <3>1
      <4> QED
        BY <1>2, <1>4, <1>7, <1>15, <4>1, <4>2
    <3>4. InCall(stack[k - 1], stack[(k - 1) - 1].fn, E[k - 1])
      BY <1>1, <1>3, <3>1 DEF Runs
    <3> QED
      BY <3>2, <3>3, <3>4
  <2> QED
    BY <2>1, <2>2
<1>19. ASSUME CallsInPlace
       PROVE  (\A k \in 1 .. n + 1 : stack'[k].base = 0) /\ Covered(pending', D, n + 1)
  <2>1. (\A k \in 1 .. n : stack[k].base = 0) /\ (AtBarrier \/ Covered(pending, E, n))
    BY <1>1, <1>3, <1>19 DEF Covers
  <2>2. ~ AtBarrier
    BY <1>2 DEF AtBarrier
  <2>3. h.base = 0 /\ op.base = 0 /\ in.base = 0
    BY <1>2, <1>3, <1>4, <1>9, <1>12, <1>19, <2>1 DEF CallsInPlace
  <2>4. ASSUME NEW k \in 1 .. n + 1 PROVE stack'[k].base = 0
    <3>1. CASE k = 1
      BY <1>16, <2>3, <3>1
    <3>2. CASE k # 1
      <4>1. k \in 2 .. n + 1 /\ (k - 1 = 1 \/ k - 1 \in 2 .. n)
        BY <1>2, <1>3, <3>2
      <4> QED
        BY <1>7, <1>15, <1>16, <2>1, <2>3, <4>1
    <3> QED
      BY <3>1, <3>2
  <2>5. ASSUME NEW k \in 1 .. n PROVE \E j \in 1 .. n + 1 : Within(E[k], D[j])
    <3>1. k + 1 \in 2 .. n + 1 /\ k + 1 \in 1 .. n + 1 /\ (k + 1) - 1 = k
      BY <1>2, <1>3
    <3>2. Within(E[k], D[k + 1])
      BY <1>17, <3>1 DEF Within
    <3> QED
      BY <3>1, <3>2
  <2>6. Covered(pending, D, n + 1)
    BY <2>1, <2>2, <2>5, CoverMoves
  <2> QED
    BY <1>13, <2>4, <2>6
<1> QED
  BY <1>2, <1>11, <1>13, <1>16, <1>17, <1>18, <1>19, ExecFrom

LEMMA ExecBranch ==
  ASSUME ProgramOK, AnalysisOK, ExecInv, Branch
  PROVE  ExecInv'
<1>1. PICK E \in [1 .. Len(stack) -> Infos] : Runs(E) /\ (CallsInPlace => Covers(E))
  BY DEF ExecInv, Branch
<1>2. /\ ~ Analysing /\ Here = stack[1] /\ Here \in Frames /\ AtTop(Here, E[1])
      /\ stack \in Seq(Frames) /\ Len(stack) \in Nat \ {0} /\ stack # <<>>
      /\ Here.at > Len(OpsHere) /\ Here.fn \in DOMAIN code
  <2>1. Running /\ ~ AtOp
    BY DEF Branch
  <2>2. /\ ~ Analysing /\ Here = stack[1] /\ Here \in Frames /\ AtTop(Here, E[1])
        /\ stack \in Seq(Frames) /\ Len(stack) \in Nat \ {0} /\ stack # <<>>
        /\ Here.at \in 1 .. Len(OpsHere) + 1 /\ Len(OpsHere) \in Nat /\ Here.fn \in DOMAIN code
    BY <1>1, <2>1, TopFacts DEF Running
  <2>3. Here.at > Len(OpsHere)
    BY <2>1, <2>2 DEF AtOp
  <2> QED
    BY <2>2, <2>3
<1>3. PICK n : n = Len(stack)
  OBVIOUS
<1>4. PICK h \in Frames : h = Here
  BY <1>2
<1>5. PICK b \in Successors(Here.fn, Here.block) :
        stack' = <<[Here EXCEPT !.block = b, !.at = 1]>> \o Tail(stack)
  BY DEF Branch
<1>6. PICK next : next = [h EXCEPT !.block = b, !.at = 1]
  OBVIOUS
<1>7. b \in Nat /\ \E after \in Infos : AtTop(next, after) /\ Within(E[1], after)
  BY <1>2, <1>4, <1>5, <1>6, TopBranches DEF OpsHere
<1>8. PICK after \in Infos : AtTop(next, after) /\ Within(E[1], after)
  BY <1>7
<1>9. next \in Frames /\ next.fn = h.fn /\ next.base = h.base
  BY <1>6, <1>7 DEF Frames
<1>10. /\ stack' = <<next>> \o Tail(stack) /\ pending' = pending
       /\ UNCHANGED <<fences, succ, code, fn, funcInfo>>
  BY <1>4, <1>5, <1>6 DEF Branch
<1>11. /\ stack' \in Seq(Frames) /\ Len(stack') = n /\ stack'[1] = next
       /\ \A k \in 2 .. n : stack'[k] = stack[k]
  BY <1>2, <1>3, <1>9, <1>10, StackFacts
<1> DEFINE D == [k \in 1 .. n |-> IF k = 1 THEN after ELSE E[k]]
<1>12. D \in [1 .. n -> Infos] /\ D[1] = after /\ \A k \in 2 .. n : D[k] = E[k]
  BY <1>2, <1>3
<1> HIDE DEF D
<1>13. ASSUME NEW k \in 2 .. n PROVE InCall(stack'[k], stack'[k - 1].fn, D[k])
  <2>1. InCall(stack[k], stack[k - 1].fn, E[k])
    BY <1>1, <1>3 DEF Runs
  <2>2. stack'[k - 1].fn = stack[k - 1].fn
    <3>1. k - 1 = 1 \/ k - 1 \in 2 .. n
      BY <1>2, <1>3
    <3> QED
      BY <1>2, <1>4, <1>9, <1>11, <3>1
  <2> QED
    BY <1>11, <1>12, <2>1, <2>2
<1>14. ASSUME CallsInPlace
       PROVE  (\A k \in 1 .. n : stack'[k].base = 0) /\ Covered(pending', D, n)
  <2>1. (\A k \in 1 .. n : stack[k].base = 0) /\ Covered(pending, E, n)
    BY <1>1, <1>3, <1>14 DEF Covers, AtBarrier, Branch
  <2>2. ASSUME NEW k \in 1 .. n PROVE stack'[k].base = 0
    <3>1. k = 1 \/ k \in 2 .. n
      OBVIOUS
    <3> QED
      BY <1>2, <1>3, <1>4, <1>9, <1>11, <2>1, <3>1
  <2>3. ASSUME NEW k \in 1 .. n PROVE Within(E[k], D[k])
    <3>1. k = 1 \/ k \in 2 .. n
      OBVIOUS
    <3> QED
      BY <1>8, <1>12, <3>1 DEF Within
  <2>4. \A k \in 1 .. n : \E j \in 1 .. n : Within(E[k], D[j])
    BY <2>3
  <2>5. Covered(pending, D, n)
    BY <2>1, <2>4, CoverMoves
  <2> QED
    BY <1>10, <2>2, <2>5
<1> QED
  BY <1>2, <1>8, <1>10, <1>11, <1>12, <1>13, <1>14, ExecFrom

LEMMA ExecReturn ==
  ASSUME ProgramOK, AnalysisOK, ExecInv, Return
  PROVE  ExecInv'
<1>1. PICK E \in [1 .. Len(stack) -> Infos] : Runs(E) /\ (CallsInPlace => Covers(E))
  BY DEF ExecInv, Return
<1>2. /\ ~ Analysing /\ Here = stack[1] /\ Here \in Frames /\ AtTop(Here, E[1])
      /\ stack \in Seq(Frames) /\ Len(stack) \in Nat \ {0} /\ stack # <<>>
      /\ \A k \in 1 .. Len(stack) : stack[k] \in Frames
      /\ Here.at > Len(OpsHere) /\ Here.fn \in DOMAIN code
  <2>1. Running /\ ~ AtOp
    BY DEF Return
  <2>2. /\ ~ Analysing /\ Here = stack[1] /\ Here \in Frames /\ AtTop(Here, E[1])
        /\ stack \in Seq(Frames) /\ Len(stack) \in Nat \ {0} /\ stack # <<>>
        /\ \A k \in 1 .. Len(stack) : stack[k] \in Frames
        /\ Here.at \in 1 .. Len(OpsHere) + 1 /\ Len(OpsHere) \in Nat /\ Here.fn \in DOMAIN code
    BY <1>1, <2>1, TopFacts DEF Running
  <2>3. Here.at > Len(OpsHere)
    BY <2>1, <2>2 DEF AtOp
  <2> QED
    BY <2>2, <2>3
<1>3. PICK n : n = Len(stack)
  OBVIOUS
<1>4. PICK h \in Frames : h = Here
  BY <1>2
<1>5. Within(E[1], funcInfo[h.fn])
  BY <1>2, <1>4, TopBranches DEF OpsHere, Return
<1>6. /\ stack' = Tail(stack) /\ pending' = pending /\ UNCHANGED <<fences, succ, code, fn, funcInfo>>
  BY DEF Return
<1>7. /\ stack' \in Seq(Frames) /\ Len(stack') = n - 1
      /\ \A k \in 1 .. n - 1 : stack'[k] = stack[k + 1]
  BY <1>2, <1>3, <1>4, <1>6, StackFacts
<1>8. CASE n = 1
  <2>1. Len(stack') = 0 /\ stack' = <<>> /\ ~ Running'
    BY <1>7, <1>8, EmptySeq DEF Running
  <2> DEFINE D == [k \in 1 .. 0 |-> Nothing]
  <2>2. D \in [1 .. Len(stack') -> Infos]
    BY <2>1
  <2>3. \A k \in 2 .. Len(stack') : InCall(stack'[k], stack'[k - 1].fn, D[k])
    BY <2>1
  <2> HIDE DEF D
  <2> QED
    BY <1>2, <1>6, <1>7, <2>1, <2>2, <2>3, ExecFrom
<1>9. CASE n # 1
  <2>1. PICK f \in Frames : f = stack[2]
    BY <1>2, <1>3, <1>9
  <2>2. InCall(f, h.fn, E[2])
    BY <1>1, <1>2, <1>3, <1>4, <1>9, <2>1 DEF Runs
  <2>3. PICK after \in Infos : AtTop(f, after) /\ Within(E[2], after) /\ Within(funcInfo[h.fn], after)
    <3>1. \E after : AtTop(f, after) /\ Within(E[2], after) /\ Within(funcInfo[h.fn], after)
      BY <2>2, CallerGoesOn
    <3>2. ASSUME NEW after, AtTop(f, after) PROVE after \in Infos
      <4>1. PICK J : Follows(f, J) /\ after = J[f.at]
        BY <3>2 DEF AtTop
      <4>2. PICK len : len = Len(code[f.fn][f.block]) + 1
        OBVIOUS
      <4>3. J \in [1 .. len -> Infos]
        BY <3>2, <4>1, <4>2, FollowsFacts DEF AtTop
      <4> QED
        BY <3>2, <4>1, <4>2, <4>3 DEF AtTop
    <3> QED
      BY <3>1, <3>2
  <2> DEFINE D == [k \in 1 .. n - 1 |-> IF k = 1 THEN after ELSE E[k + 1]]
  <2>4. D \in [1 .. n - 1 -> Infos] /\ D[1] = after /\ \A k \in 2 .. n - 1 : D[k] = E[k + 1]
    <3>1. n \in Nat /\ n > 1 /\ E \in [1 .. n -> Infos]
      BY <1>2, <1>3, <1>9
    <3> QED
      BY <3>1
  <2> HIDE DEF D
  <2>5. AtTop(stack'[1], D[1])
    <3>1. stack'[1] = f
      BY <1>2, <1>3, <1>7, <1>9, <2>1
    <3> QED
      BY <2>3, <2>4, <3>1
  <2>6. ASSUME NEW k \in 2 .. n - 1 PROVE InCall(stack'[k], stack'[k - 1].fn, D[k])
    <3>1. k + 1 \in 2 .. n /\ k \in 1 .. n - 1 /\ k - 1 \in 1 .. n - 1 /\ (k - 1) + 1 = k /\ (k + 1) - 1 = k
      BY <1>2, <1>3
    <3>2. InCall(stack[k + 1], stack[(k + 1) - 1].fn, E[k + 1])
      BY <1>1, <1>3, <3>1 DEF Runs
    <3>3. stack'[k] = stack[k + 1] /\ stack'[k - 1] = stack[k] /\ D[k] = E[k + 1]
      BY <1>7, <2>4, <3>1
    <3> QED
      BY <3>1, <3>2, <3>3
  <2>7. ASSUME CallsInPlace
        PROVE  (\A k \in 1 .. n - 1 : stack'[k].base = 0) /\ Covered(pending', D, n - 1)
    <3>1. (\A k \in 1 .. n : stack[k].base = 0) /\ Covered(pending, E, n)
      BY <1>1, <1>3, <2>7 DEF Covers, AtBarrier, Return
    <3>2. \A k \in 1 .. n - 1 : stack'[k].base = 0
      BY <1>2, <1>3, <1>7, <3>1
    <3>3. ASSUME NEW k \in 1 .. n PROVE \E j \in 1 .. n - 1 : Within(E[k], D[j])
      <4>0. n \in Nat /\ 1 \in 1 .. n - 1
        BY <1>2, <1>3, <1>9
      <4>1. CASE k = 1
        <5>1. Within(E[1], D[1])
          BY <1>5, <2>3, <2>4, WithinFacts
        <5> QED
          BY <4>0, <4>1, <5>1
      <4>2. CASE k = 2
        BY <2>3, <2>4, <4>0, <4>2
      <4>3. CASE k > 2
        <5>1. k - 1 \in 2 .. n - 1 /\ k - 1 \in 1 .. n - 1 /\ (k - 1) + 1 = k
          BY <4>0, <4>3
        <5>2. Within(E[k], D[k - 1])
          BY <2>4, <5>1 DEF Within
        <5> QED
          BY <5>1, <5>2
      <4> QED
        BY <4>0, <4>1, <4>2, <4>3
    <3>4. Covered(pending, D, n - 1)
      BY <3>1, <3>3, CoverMoves
    <3> QED
      BY <1>6, <3>2, <3>4
  <2> QED
    BY <1>2, <1>6, <1>7, <2>4, <2>5, <2>6, <2>7, ExecFrom
<1> QED
  BY <1>8, <1>9

Startable == \A f \in DOMAIN code : Frame(f, 0) \in Frames /\ \E e \in Infos : AtTop(Frame(f, 0), e)

LEMMA CanStart == ProgramOK /\ AnalysisOK /\ SummaryInv /\ ~ Analysing => Startable
BY CalleeStarts DEF Startable

LEMMA CanStartNext == (ProgramOK /\ AnalysisOK /\ SummaryInv /\ ~ Analysing)' => Startable'
BY CanStart, PTL

LEMMA ExecNext ==
  ProgramOK /\ AnalysisOK /\ ListInv /\ SummaryInv /\ ExecInv /\ [Next]_vars => ExecInv'
<1> SUFFICES ASSUME ProgramOK, AnalysisOK, ListInv, SummaryInv, ExecInv, [Next]_vars PROVE ExecInv'
  OBVIOUS
<1>1. CASE Execute
  BY <1>1, ExecExecute
<1>2. CASE Call
  BY <1>2, ExecCall
<1>3. CASE Branch
  BY <1>3, ExecBranch
<1>4. CASE Return
  BY <1>4, ExecReturn
<1>5. CASE StartBlock \/ VisitOp \/ EndBlock
  <2>1. stack' = <<>>
    BY <1>5 DEF StartBlock, VisitOp, EndBlock, AnalysisOK
  <2> QED
    BY <2>1 DEF ExecInv, Running
<1>6. CASE FinishFunction
  <2>1. CASE fn + 1 \in DOMAIN code
    <3>1. stack' = <<>>
      BY <1>6, <2>1 DEF FinishFunction, AnalysisOK, Functions_
    <3> QED
      BY <3>1 DEF ExecInv, Running
  <2>2. CASE fn + 1 \notin DOMAIN code
    <3>1. PICK s : s = Frame(fn, 0)
      OBVIOUS
    <3>2. stack' = <<s>> /\ pending' = Nothing /\ UNCHANGED <<fences, succ, code>> /\ fn' = fn + 1 /\ fn \in DOMAIN code
      BY <1>6, <2>2, <3>1 DEF FinishFunction, Functions_, Analysing, AnalysisOK
    <3>3. ProgramOK' /\ AnalysisOK' /\ SummaryInv'
      <4>1. SummaryInv'
        BY <1>6, SummaryFinish
      <4> QED
        BY <4>1, ProgramNext, AnalysisNext
    <3>4. ~ Analysing' /\ fn \in DOMAIN code'
      BY <2>2, <3>2 DEF Analysing, Functions_
    <3>5. s \in Frames /\ \E e \in Infos : AtTop(s, e)'
      <4>1. Startable'
        BY <3>3, <3>4, CanStartNext
      <4> QED
        BY <3>1, <3>4, <4>1 DEF Startable
    <3>6. PICK e \in Infos : AtTop(s, e)'
      BY <3>5
    <3>7. /\ Len(stack') = 1 /\ stack'[1] = s /\ stack' \in Seq(Frames)
      BY <3>2, <3>5, ShortSequences
    <3> DEFINE D == [k \in 1 .. 1 |-> e]
    <3>8. D \in [1 .. Len(stack') -> Infos] /\ D[1] = e
      BY <3>7
    <3> HIDE DEF D
    <3>9. Runs(D)'
      BY <3>6, <3>7, <3>8 DEF Runs
    <3>10. Covered(Nothing, D, 1)'
      BY NothingCovered DEF Covered, Nothing
    <3>11. Covers(D)'
      BY <3>1, <3>2, <3>7, <3>10 DEF Covers, Frame
    <3> QED
      BY <3>4, <3>7, <3>8, <3>9, <3>11 DEF ExecInv
  <2> QED
    BY <2>1, <2>2
<1>7. CASE UNCHANGED vars
  <2>1. CASE Running
    <3>1. PICK E \in [1 .. Len(stack) -> Infos] : Runs(E) /\ (CallsInPlace => Covers(E))
      BY <2>1 DEF ExecInv
    <3>2. UNCHANGED <<fences, succ, code, fn, funcInfo, stack, pending>>
      BY <1>7 DEF vars
    <3>3. ~ Analysing /\ stack \in Seq(Frames)
      BY <2>1 DEF ExecInv
    <3>4. /\ AtTop(stack'[1], E[1])
          /\ \A k \in 2 .. Len(stack') : InCall(stack'[k], stack'[k - 1].fn, E[k])
      BY <3>1, <3>2 DEF Runs
    <3>5. AtBarrier' <=> AtBarrier
      BY <3>2 DEF AtBarrier, AtOp, CurrentOp, OpsHere, Here, Running
    <3>6. CallsInPlace => /\ \A k \in 1 .. Len(stack') : stack'[k].base = 0
                          /\ AtBarrier' \/ Covered(pending', E, Len(stack'))
      BY <3>1, <3>2, <3>5 DEF Covers
    <3>7. stack' \in Seq(Frames) /\ E \in [1 .. Len(stack') -> Infos]
      BY <3>2, <3>3
    <3> QED
      BY <3>2, <3>3, <3>4, <3>6, <3>7, ExecFrom
  <2>2. CASE ~ Running
    BY <1>7, <2>2 DEF ExecInv, Running, vars
  <2> QED
    BY <2>1, <2>2
<1> QED
  BY <1>1, <1>2, <1>3, <1>4, <1>5, <1>6, <1>7 DEF Next, Analyse, Done

-----------------------------------------------------------------------------
(* Nested calls: each callee's summary tells what its own callees do.      *)

NestInv ==
  CallsTold /\ ~ fences /\ Running =>
    \A k \in 1 .. Len(stack) - 1 : \A j \in 1 .. k :
      Within(funcInfo[stack[j].fn], funcInfo[stack[k].fn])

LEMMA FrameCalled ==
  ASSUME ProgramOK, AnalysisOK, ExecInv, Running, NEW k \in 2 .. Len(stack)
  PROVE  \E op \in Calls : op.callee = stack[k - 1].fn
<1>1. PICK E \in [1 .. Len(stack) -> Infos] : Runs(E)
  BY DEF ExecInv
<1>2. k \in 1 .. Len(stack) /\ Len(stack) \in Nat
  BY <1>1, TopFacts
<1>3. PICK f \in Frames : f = stack[k]
  BY <1>1, <1>2, TopFacts
<1>4. InCall(f, stack[k - 1].fn, E[k])
  BY <1>1, <1>3 DEF Runs
<1>5. /\ f.fn \in DOMAIN code /\ f.at - 1 \in 1 .. Len(code[f.fn][f.block])
      /\ code[f.fn][f.block][f.at - 1].kind = "call"
      /\ code[f.fn][f.block][f.at - 1].callee = stack[k - 1].fn
  BY <1>4 DEF InCall
<1>6. f.block \in DOMAIN code[f.fn]
  BY <1>4, <1>5, FollowsFacts DEF InCall
<1> QED
  BY <1>5, <1>6, CallsFacts

LEMMA OpHere ==
  ASSUME ProgramOK, AnalysisOK, ExecInv, AtOp
  PROVE  /\ Here.fn \in DOMAIN code /\ Here.block \in DOMAIN code[Here.fn] /\ Here.at \in 1 .. Len(OpsHere)
         /\ CurrentOp \in ToSet(code[Here.fn][Here.block]) /\ CurrentOp \in Ops(Here.fn)
<1>1. Running
  BY DEF AtOp
<1>2. PICK E \in [1 .. Len(stack) -> Infos] : Runs(E)
  BY <1>1 DEF ExecInv
<1>3. PICK h \in Frames : h = Here
  BY <1>1, <1>2, TopFacts
<1>4. h.fn \in DOMAIN code /\ h.at \in 1 .. Len(OpsHere) /\ AtTop(h, E[1])
  BY <1>1, <1>2, <1>3, TopFacts DEF AtOp
<1>5. h.block \in DOMAIN code[h.fn]
  BY <1>4, FollowsFacts DEF AtTop
<1>6. CurrentOp \in ToSet(code[h.fn][h.block]) /\ CurrentOp \in Ops(h.fn)
  BY <1>3, <1>4, <1>5, BlockFacts DEF CurrentOp, OpsHere, ToSet
<1> QED
  BY <1>3, <1>4, <1>5, <1>6

LEMMA ToldHere ==
  ASSUME ProgramOK, AnalysisOK, ExecInv, CallsTold, AtOp, 2 \in 1 .. Len(stack)
  PROVE  Told(CurrentOp, Here.fn)
<1>1. Running
  BY DEF AtOp
<1>2. Here = stack[1]
  <2>1. PICK E \in [1 .. Len(stack) -> Infos] : Runs(E)
    BY <1>1 DEF ExecInv
  <2> QED
    BY <1>1, <2>1, TopFacts
<1>3. PICK op \in Calls : op.callee = Here.fn
  <2>1. 2 \in 2 .. Len(stack) /\ 2 - 1 = 1
    OBVIOUS
  <2> QED
    BY <1>1, <1>2, <2>1, FrameCalled
<1> QED
  BY <1>1, <1>3, OpHere DEF CallsTold

LEMMA FnsStay ==
  ASSUME ProgramOK, AnalysisOK, ExecInv, Execute \/ Branch
  PROVE  Len(stack') = Len(stack) /\ \A k \in 1 .. Len(stack) : stack'[k].fn = stack[k].fn
<1>1. Running
  BY DEF Execute, Branch, AtOp
<1>2. PICK E \in [1 .. Len(stack) -> Infos] : Runs(E)
  BY <1>1 DEF ExecInv
<1>3. /\ Here = stack[1] /\ Here \in Frames /\ stack \in Seq(Frames) /\ Len(stack) \in Nat \ {0} /\ stack # <<>>
      /\ Here.fn \in DOMAIN code /\ AtTop(Here, E[1]) /\ ~ Analysing
  BY <1>1, <1>2, TopFacts DEF Running
<1>4. PICK h \in Frames : h = Here
  BY <1>3
<1>5. \E x \in Frames : x.fn = h.fn /\ stack' = <<x>> \o Tail(stack)
  <2>1. CASE Execute
    <3>1. PICK x : x = [h EXCEPT !.at = @ + 1]
      OBVIOUS
    <3>2. x \in Frames /\ x.fn = h.fn
      BY <3>1 DEF Frames
    <3>3. stack' = <<x>> \o Tail(stack)
      BY <1>4, <2>1, <3>1 DEF Execute, Advance
    <3> QED
      BY <3>2, <3>3
  <2>2. CASE Branch
    <3>1. PICK b \in Successors(Here.fn, Here.block) :
            stack' = <<[Here EXCEPT !.block = b, !.at = 1]>> \o Tail(stack)
      BY <2>2 DEF Branch
    <3>2. Here.at > Len(OpsHere)
      <4>1. Here.at \in 1 .. Len(OpsHere) + 1 /\ Len(OpsHere) \in Nat
        BY <1>1, <1>2, TopFacts
      <4>2. ~ (Here.at <= Len(OpsHere))
        BY <1>1, <2>2 DEF Branch, AtOp
      <4> QED
        BY <4>1, <4>2
    <3>3. b \in Nat
      BY <1>3, <1>4, <3>1, <3>2, TopBranches DEF OpsHere
    <3>4. PICK x : x = [h EXCEPT !.block = b, !.at = 1]
      OBVIOUS
    <3>5. x \in Frames /\ x.fn = h.fn
      BY <3>3, <3>4 DEF Frames
    <3>6. stack' = <<x>> \o Tail(stack)
      BY <1>4, <3>1, <3>4
    <3> QED
      BY <3>5, <3>6
  <2> QED
    BY <2>1, <2>2
<1>6. PICK x \in Frames : x.fn = h.fn /\ stack' = <<x>> \o Tail(stack)
  BY <1>5
<1>7. Len(stack') = Len(stack) /\ stack'[1] = x /\ \A k \in 2 .. Len(stack) : stack'[k] = stack[k]
  BY <1>3, <1>6, StackFacts
<1>8. \A k \in 1 .. Len(stack) : k = 1 \/ k \in 2 .. Len(stack)
  BY <1>3
<1> QED
  BY <1>3, <1>4, <1>6, <1>7, <1>8

LEMMA FnsCall ==
  ASSUME ProgramOK, AnalysisOK, ExecInv, Call
  PROVE  /\ Len(stack') = Len(stack) + 1 /\ stack'[1].fn = CurrentOp.callee
         /\ \A k \in 2 .. Len(stack) + 1 : stack'[k].fn = stack[k - 1].fn
<1>1. Running /\ AtOp
  BY DEF Call, AtOp
<1>2. PICK E \in [1 .. Len(stack) -> Infos] : Runs(E)
  BY <1>1 DEF ExecInv
<1>3. /\ Here = stack[1] /\ Here \in Frames /\ stack \in Seq(Frames) /\ Len(stack) \in Nat \ {0} /\ stack # <<>>
      /\ Here.fn \in DOMAIN code
  BY <1>1, <1>2, TopFacts DEF Running
<1>4. PICK h \in Frames : h = Here
  BY <1>3
<1>5. PICK next : next = [h EXCEPT !.at = @ + 1]
  OBVIOUS
<1>6. next \in Frames /\ next.fn = h.fn
  BY <1>5 DEF Frames
<1>7. PICK rest : rest = <<next>> \o Tail(stack)
  OBVIOUS
<1>8. /\ rest \in Seq(Frames) /\ Len(rest) = Len(stack) /\ rest[1] = next
      /\ \A k \in 2 .. Len(stack) : rest[k] = stack[k]
  BY <1>3, <1>6, <1>7, StackFacts
<1>9. PICK in : in = Frame(CurrentOp.callee, Here.base + CurrentOp.base)
  OBVIOUS
<1>10. in \in Frames /\ in.fn = CurrentOp.callee
  <2>1. PICK callee, base : callee = CurrentOp.callee /\ base = Here.base + CurrentOp.base
    OBVIOUS
  <2>2. CurrentOp.callee \in 1 .. Here.fn - 1 /\ CurrentOp.base \in Nat
    BY <1>1, OpHere, OpFacts DEF Call
  <2>3. h.fn \in Nat /\ h.base \in Nat
    BY DEF Frames
  <2>4. callee \in Nat /\ base \in Nat
    BY <1>4, <2>1, <2>2, <2>3
  <2> QED
    BY <1>9, <2>1, <2>4 DEF Frame, Frames
<1>11. stack' = <<in>> \o rest
  BY <1>4, <1>5, <1>7, <1>9 DEF Call, Advance
<1>12. /\ Len(stack') = Len(stack) + 1 /\ stack'[1] = in
       /\ \A k \in 2 .. Len(stack) + 1 : stack'[k] = rest[k - 1]
  BY <1>8, <1>10, <1>11, PushFacts
<1>13. ASSUME NEW k \in 2 .. Len(stack) + 1 PROVE stack'[k].fn = stack[k - 1].fn
  <2>1. k - 1 = 1 \/ k - 1 \in 2 .. Len(stack)
    BY <1>3
  <2> QED
    BY <1>3, <1>4, <1>6, <1>8, <1>12, <2>1
<1> QED
  BY <1>10, <1>12, <1>13

LEMMA FnsReturn ==
  ASSUME ProgramOK, AnalysisOK, ExecInv, Return
  PROVE  /\ Len(stack') = Len(stack) - 1
         /\ \A k \in 1 .. Len(stack) - 1 : stack'[k] = stack[k + 1]
<1>1. Running
  BY DEF Return
<1>2. PICK E \in [1 .. Len(stack) -> Infos] : Runs(E)
  BY <1>1 DEF ExecInv
<1>3. stack \in Seq(Frames) /\ stack # <<>> /\ Here \in Frames
  BY <1>1, <1>2, TopFacts DEF Running
<1> QED
  BY <1>3, StackFacts DEF Return

LEMMA NestNext ==
  ProgramOK /\ AnalysisOK /\ ExecInv /\ NestInv /\ [Next]_vars => NestInv'
<1> SUFFICES ASSUME ProgramOK, AnalysisOK, ExecInv, NestInv, [Next]_vars, (CallsTold /\ ~ fences /\ Running)',
                    NEW k \in 1 .. Len(stack') - 1, NEW j \in 1 .. k
             PROVE  Within(funcInfo'[stack'[j].fn], funcInfo'[stack'[k].fn])
  BY DEF NestInv
<1>1. CASE StartBlock \/ VisitOp \/ EndBlock
  BY <1>1 DEF StartBlock, VisitOp, EndBlock, AnalysisOK, Running
<1>2. CASE FinishFunction
  <2>1. PICK s : s = Frame(fn, 0)
    OBVIOUS
  <2>2. stack' = <<>> \/ stack' = <<s>>
    BY <1>2, <2>1 DEF FinishFunction, AnalysisOK
  <2>3. stack' = <<s>> /\ Len(stack') = 1
    BY <2>2, ShortSequences DEF Running
  <2> QED
    BY <2>3
<1>3. ASSUME UNCHANGED <<fences, code, funcInfo>>, Running
      PROVE  /\ CallsTold /\ ~ fences /\ Len(stack) \in Nat \ {0} /\ Here = stack[1]
             /\ \A m \in 1 .. Len(stack) - 1 : \A i \in 1 .. m :
                  Within(funcInfo[stack[i].fn], funcInfo[stack[m].fn])
  <2>1. CallsTold /\ ~ fences
    BY <1>3 DEF CallsTold, Calls, Told, CurrentInfo, Functions_
  <2>2. PICK E \in [1 .. Len(stack) -> Infos] : Runs(E)
    BY <1>3 DEF ExecInv
  <2>3. Len(stack) \in Nat \ {0} /\ Here = stack[1]
    BY <1>3, <2>2, TopFacts
  <2> QED
    BY <1>3, <2>1, <2>3 DEF NestInv
<1>4. CASE Execute \/ Branch
  <2>1. UNCHANGED <<fences, code, funcInfo>> /\ Running
    BY <1>4 DEF Execute, Branch, AtOp
  <2>2. Len(stack') = Len(stack) /\ \A m \in 1 .. Len(stack) : stack'[m].fn = stack[m].fn
    BY <1>4, FnsStay
  <2>3. k \in 1 .. Len(stack) - 1 /\ j \in 1 .. Len(stack) /\ k \in 1 .. Len(stack)
    BY <1>3, <2>1, <2>2
  <2> QED
    BY <1>3, <2>1, <2>2, <2>3
<1>5. CASE Return
  <2>1. UNCHANGED <<fences, code, funcInfo>> /\ Running
    BY <1>5 DEF Return
  <2>2. Len(stack') = Len(stack) - 1 /\ \A m \in 1 .. Len(stack) - 1 : stack'[m] = stack[m + 1]
    BY <1>5, FnsReturn
  <2>3. /\ k + 1 \in 1 .. Len(stack) - 1 /\ j + 1 \in 1 .. k + 1
        /\ k \in 1 .. Len(stack) - 1 /\ j \in 1 .. Len(stack) - 1
    BY <1>3, <2>1, <2>2
  <2>4. Within(funcInfo[stack[j + 1].fn], funcInfo[stack[k + 1].fn])
    BY <1>3, <2>1, <2>3
  <2>5. stack'[j] = stack[j + 1] /\ stack'[k] = stack[k + 1]
    BY <2>2, <2>3
  <2> QED
    BY <2>1, <2>4, <2>5
<1>6. CASE Call
  <2>1. UNCHANGED <<fences, code, funcInfo>> /\ Running /\ AtOp /\ CurrentOp.kind = "call"
    BY <1>6 DEF Call, AtOp
  <2>2. /\ Len(stack') = Len(stack) + 1 /\ stack'[1].fn = CurrentOp.callee
        /\ \A m \in 2 .. Len(stack) + 1 : stack'[m].fn = stack[m - 1].fn
    BY <1>6, FnsCall
  <2>3. Len(stack) \in Nat \ {0} /\ k \in 1 .. Len(stack)
    BY <1>3, <2>1, <2>2
  <2>4. CASE k = 1
    BY <2>4 DEF Within
  <2>5. CASE k # 1
    <3>1. k - 1 \in 1 .. Len(stack) - 1 /\ k \in 2 .. Len(stack) + 1 /\ 1 \in 1 .. k - 1 /\ 2 \in 1 .. Len(stack)
      BY <2>3, <2>5
    <3>2. stack'[k].fn = stack[k - 1].fn
      BY <2>2, <3>1
    <3>3. CASE j # 1
      <4>1. j - 1 \in 1 .. k - 1 /\ j \in 2 .. Len(stack) + 1
        BY <2>3, <3>3
      <4>2. stack'[j].fn = stack[j - 1].fn
        BY <2>2, <4>1
      <4>3. Within(funcInfo[stack[j - 1].fn], funcInfo[stack[k - 1].fn])
        BY <1>3, <2>1, <3>1, <4>1
      <4> QED
        BY <2>1, <3>2, <4>2, <4>3
    <3>4. CASE j = 1
      <4>1. Told(CurrentOp, Here.fn)
        BY <1>3, <2>1, <3>1, ToldHere
      <4>2. PICK op : op = CurrentOp
        OBVIOUS
      <4>3. CurrentInfo(op) = funcInfo[op.callee]
        BY <2>1, <4>2 DEF CurrentInfo
      <4>4. Within(funcInfo[op.callee], funcInfo[stack[1].fn])
        BY <1>3, <2>1, <4>1, <4>2, <4>3 DEF Told
      <4>5. Within(funcInfo[stack[1].fn], funcInfo[stack[k - 1].fn])
        BY <1>3, <2>1, <3>1
      <4>6. Within(funcInfo[op.callee], funcInfo[stack[k - 1].fn])
        BY <4>4, <4>5, WithinFacts
      <4> QED
        BY <2>1, <2>2, <3>2, <3>4, <4>2, <4>6
    <3> QED
      BY <3>3, <3>4
  <2> QED
    BY <2>4, <2>5
<1>7. CASE UNCHANGED vars
  <2>1. UNCHANGED <<fences, code, funcInfo, stack>> /\ Running
    BY <1>7 DEF vars, Running
  <2> QED
    BY <1>3, <2>1
<1> QED
  BY <1>1, <1>2, <1>4, <1>5, <1>6, <1>7 DEF Next, Analyse, Done

-----------------------------------------------------------------------------
(* No annotation, no frame of the stack, has anything to clash with.       *)

ApartFrom(op, e) ==
  /\ \A a \in e.writes : \A j \in op.reads \cup op.writes : ~ Overlap(a.at, j)
  /\ \A a \in e.reads : \A j \in op.writes : ~ Overlap(a.at, j)
  /\ op.kind = "arrive" => e = Nothing

LEMMA OverlapsAll == \A i \in Intervals : Overlap(i, Everything)
BY ProgramAssumption DEF Overlap, Everything, Intervals

LEMMA AccessOf ==
  ASSUME NEW op, NEW is, NEW j \in is
  PROVE  \E a \in Accesses(op, is) : a.at = j
<1>1. PICK a : a = [at |-> j, ignored |-> op.ignored]
  OBVIOUS
<1>2. a \in Accesses(op, is)
  BY <1>1 DEF Accesses
<1>3. a.at = j
  BY <1>1
<1> QED
  BY <1>2, <1>3

LEMMA ApartKept ==
  ASSUME ~ fences, NEW f, NEW op \in Ops(f), op.kind # "call", NEW e \in Infos,
         NEW other, ~ IsIntersected(e, other), Within(CurrentInfo(op), other)
  PROVE  ApartFrom(op, e)
<1>1. /\ \A a \in e.writes : \A b \in other.reads \cup other.writes : ~ Overlap(a.at, b.at)
      /\ \A a \in e.reads : \A b \in other.writes : ~ Overlap(a.at, b.at)
  BY DEF IsIntersected, AnyOverlap
<1>2. ASSUME NEW is, NEW j \in is, NEW noted, Accesses(op, is) \subseteq noted
      PROVE  \E b \in noted : b.at = j
  BY <1>2, AccessOf
<1>3. /\ Accesses(op, op.reads) \subseteq other.reads /\ Accesses(op, op.writes) \subseteq other.writes
  BY DEF CurrentInfo, Effects, Accesses, Within
<1>4. ASSUME op.kind = "arrive" PROVE e = Nothing
  <2>1. /\ Accesses(op, op.reads \cup {Everything}) \subseteq other.reads
        /\ Accesses(op, op.writes \cup {Everything}) \subseteq other.writes
    BY <1>4 DEF CurrentInfo, Within
  <2>2. PICK b \in other.writes : b.at = Everything
    <3>1. Everything \in op.writes \cup {Everything}
      OBVIOUS
    <3> QED
      BY <1>2, <2>1, <3>1
  <2>3. \A a \in e.reads \cup e.writes : a.at \in Intervals
    BY DEF Infos, Access
  <2>4. e.reads = {} /\ e.writes = {}
    BY <1>1, <2>2, <2>3, OverlapsAll
  <2> QED
    BY <2>4 DEF Infos, Nothing
<1>5. \A j \in op.reads : \E b \in other.reads : b.at = j
  BY <1>2, <1>3
<1>6. \A j \in op.writes : \E b \in other.writes : b.at = j
  BY <1>2, <1>3
<1> QED
  BY <1>1, <1>4, <1>5, <1>6 DEF ApartFrom

LEMMA ApartHere ==
  ASSUME ~ fences, NEW f, NEW op \in Ops(f), op.kind \notin {"call", "barrier", "wait"}, NEW e \in Infos,
         NEW next, InOrder(e, op, next)
  PROVE  ApartFrom(op, e)
<1>1. CASE op.kind \in Scratches
  <2>1. op.reads = op.writes /\ ~ IsIntersected(e, Written(op))
    BY <1>1, OpFacts DEF InOrder
  <2>2. /\ \A a \in e.writes : \A b \in Accesses(op, op.writes) : ~ Overlap(a.at, b.at)
        /\ \A a \in e.reads : \A b \in Accesses(op, op.writes) : ~ Overlap(a.at, b.at)
    BY <2>1 DEF IsIntersected, AnyOverlap, Written
  <2>3. \A j \in op.writes : \E b \in Accesses(op, op.writes) : b.at = j
    BY AccessOf
  <2>4. op.kind # "arrive"
    BY <1>1 DEF Scratches
  <2> QED
    BY <2>1, <2>2, <2>3, <2>4 DEF ApartFrom
<1>2. CASE op.kind \notin Scratches
  <2>1. ~ IsIntersected(e, CurrentInfo(op))
    BY <1>2 DEF InOrder
  <2>2. Within(CurrentInfo(op), CurrentInfo(op))
    BY DEF Within
  <2> QED
    BY <2>1, <2>2, ApartKept
<1> QED
  BY <1>1, <1>2

LEMMA AllApart ==
  ASSUME ProgramOK, AnalysisOK, ExecInv, NestInv, CallsTold, ~ fences, AtOp,
         CurrentOp.kind \notin {"call", "barrier", "wait"},
         NEW E \in [1 .. Len(stack) -> Infos], Runs(E), NEW k \in 1 .. Len(stack)
  PROVE  ApartFrom(CurrentOp, E[k])
<1>1. /\ ~ Analysing /\ Here = stack[1] /\ Here \in Frames /\ AtTop(Here, E[1]) /\ Running
      /\ Len(stack) \in Nat \ {0} /\ stack[k] \in Frames
  BY TopFacts DEF AtOp
<1>2. PICK op : op = CurrentOp
  OBVIOUS
<1>3. op \in Ops(Here.fn) /\ op.kind \notin {"call", "barrier", "wait"}
  BY <1>2, OpHere
<1>4. CASE k = 1
  <2>1. \E after \in Infos : Passes(E[1], op, KindAt(OpsHere, Here.at + 1), after)
    <3>1. PICK h \in Frames : h = Here
      BY <1>1
    <3>2. PICK ops : ops = code[h.fn][h.block]
      OBVIOUS
    <3>3. h.at <= Len(ops) /\ op = ops[h.at] /\ OpsHere = ops
      BY <1>2, <3>1, <3>2 DEF AtOp, CurrentOp, OpsHere
    <3> QED
      BY <1>1, <3>1, <3>2, <3>3, TopExecutes
  <2>2. InOrder(E[1], op, KindAt(OpsHere, Here.at + 1))
    BY <2>1 DEF Passes
  <2> QED
    BY <1>1, <1>2, <1>3, <1>4, <2>2, ApartHere
<1>5. CASE k # 1
  <2>1. k \in 2 .. Len(stack) /\ k - 1 \in 1 .. Len(stack) - 1 /\ 1 \in 1 .. k - 1 /\ 2 \in 1 .. Len(stack)
    BY <1>1, <1>5
  <2>2. PICK f \in Frames : f = stack[k]
    BY <1>1
  <2>3. PICK callee : callee = stack[k - 1].fn
    OBVIOUS
  <2>4. InCall(f, callee, E[k])
    BY <2>1, <2>2, <2>3 DEF Runs
  <2>5. PICK call : call = code[f.fn][f.block][f.at - 1]
    OBVIOUS
  <2>6. call.kind = "call" /\ call.callee = callee
    BY <2>4, <2>5 DEF InCall
  <2>7. ~ IsIntersected(E[k], funcInfo[callee])
    <3>1. InOrder(E[k], call, KindAt(code[f.fn][f.block], f.at))
      BY <2>4, <2>5, CallerGoesOn
    <3>2. CurrentInfo(call) = funcInfo[callee]
      BY <2>6 DEF CurrentInfo
    <3> QED
      BY <2>6, <3>1, <3>2 DEF InOrder, Scratches
  <2>8. Within(CurrentInfo(op), funcInfo[stack[1].fn])
    BY <1>1, <1>2, <2>1, ToldHere DEF Told
  <2>9. Within(funcInfo[stack[1].fn], funcInfo[callee])
    BY <1>1, <2>1, <2>3 DEF NestInv
  <2>10. Within(CurrentInfo(op), funcInfo[callee])
    BY <2>8, <2>9, WithinFacts
  <2>11. E[k] \in Infos
    OBVIOUS
  <2> QED
    BY <1>2, <1>3, <2>7, <2>10, <2>11, ApartKept
<1> QED
  BY <1>4, <1>5

PendingOK == pending = [reads |-> pending.reads, writes |-> pending.writes]

LEMMA PendingNext == PendingOK /\ [Next]_vars => PendingOK'
<1> SUFFICES ASSUME PendingOK, [Next]_vars PROVE PendingOK'
  OBVIOUS
<1>1. ASSUME UNCHANGED pending PROVE PendingOK'
  BY <1>1 DEF PendingOK
<1>2. CASE Execute
  <2>1. PICK op : op = CurrentOp
    OBVIOUS
  <2>2. PICK p : p = PendingAfter(op)
    OBVIOUS
  <2>3. \E r, w : p = [reads |-> r, writes |-> w]
    <3>1. PICK own : own = [reads |-> Shift(op.reads), writes |-> Shift(op.writes)]
      OBVIOUS
    <3>2. CASE Orders(op)
      BY <2>2, <3>2 DEF PendingAfter, Nothing, Orders
    <3>3. CASE fences /\ ~ Orders(op)
      <4>1. p = IF op.ignored THEN pending ELSE Join(pending, own)
        BY <2>2, <3>1, <3>3 DEF PendingAfter
      <4> QED
        BY <4>1 DEF PendingOK, Join
    <3>4. CASE ~ fences /\ ~ Orders(op) /\ op.kind = "wait"
      <4>1. p = [pending EXCEPT !.writes = @ \cup {Everything}]
        BY <2>2, <3>4 DEF PendingAfter
      <4> QED
        BY <4>1 DEF PendingOK
    <3>5. CASE ~ fences /\ ~ Orders(op) /\ op.kind = "scratch"
      <4>1. p = [own EXCEPT !.writes = {}]
        BY <2>2, <3>1, <3>5 DEF PendingAfter
      <4> QED
        BY <3>1, <4>1
    <3>6. CASE ~ fences /\ ~ Orders(op) /\ op.kind \notin {"wait", "scratch"}
      <4>1. p = Join(pending, own)
        BY <2>2, <3>1, <3>6 DEF PendingAfter
      <4> QED
        BY <4>1 DEF Join
    <3> QED
      BY <3>2, <3>3, <3>4, <3>5, <3>6
  <2>4. PICK r, w : p = [reads |-> r, writes |-> w]
    BY <2>3
  <2>5. p = [reads |-> p.reads, writes |-> p.writes]
    BY <2>4
  <2>6. pending' = p
    BY <1>2, <2>1, <2>2 DEF Execute
  <2> QED
    BY <2>5, <2>6 DEF PendingOK
<1>3. CASE StartBlock \/ VisitOp \/ EndBlock \/ FinishFunction
  BY <1>1, <1>3 DEF StartBlock, VisitOp, EndBlock, FinishFunction
<1>4. CASE Call \/ Branch \/ Return \/ UNCHANGED vars
  BY <1>1, <1>4 DEF Call, Branch, Return, vars
<1> QED
  BY <1>2, <1>3, <1>4 DEF Next, Analyse, Done

LEMMA RaceFree ==
  ProgramOK /\ AnalysisOK /\ ExecInv /\ NestInv /\ PendingOK => (CallsInPlace /\ CallsTold => NoRace)
<1> SUFFICES ASSUME ProgramOK, AnalysisOK, ExecInv, NestInv, PendingOK, CallsInPlace, CallsTold, AtOp, ~ fences,
                    Clash(CurrentOp)
             PROVE  FALSE
  BY DEF NoRace
<1>1. PICK E \in [1 .. Len(stack) -> Infos] : Runs(E) /\ Covers(E)
  BY DEF ExecInv, AtOp
<1>2. Len(stack) \in Nat \ {0} /\ Here = stack[1]
  BY <1>1, TopFacts DEF AtOp
<1>3. PICK op : op = CurrentOp
  OBVIOUS
<1>4. op \in Ops(Here.fn) /\ op.reads \subseteq Intervals /\ op.writes \subseteq Intervals
  BY <1>3, OpHere, OpFacts
<1>5. Shift(op.reads) = op.reads /\ Shift(op.writes) = op.writes
  <2>1. Here.base = 0
    BY <1>1, <1>2 DEF Covers
  <2> QED
    BY <1>4, <2>1, ShiftedNowhere
<1>6. \/ \E i \in pending.writes : \E j \in op.reads \cup op.writes : Overlap(i, j)
      \/ \E i \in pending.reads : \E j \in op.writes : Overlap(i, j)
      \/ op.kind = "arrive" /\ pending # Nothing
  BY <1>3, <1>5 DEF Clash
<1>7. op.kind \notin {"call", "barrier", "wait"}
  <2>1. op.kind \in {"call", "barrier", "wait"} => op.reads = {} /\ op.writes = {}
    BY <1>4, OpFacts
  <2> QED
    BY <1>6, <2>1
<1>8. Covered(pending, E, Len(stack))
  BY <1>1, <1>3, <1>7 DEF Covers, AtBarrier
<1>9. ASSUME NEW k \in 1 .. Len(stack) PROVE ApartFrom(op, E[k])
  BY <1>1, <1>3, <1>7, AllApart
<1>10. ASSUME NEW i \in pending.writes, NEW j \in op.reads \cup op.writes PROVE ~ Overlap(i, j)
  <2>1. PICK k \in 1 .. Len(stack) : \E a \in E[k].writes : a.at = i
    BY <1>8 DEF Covered, Stands, NotedWrites
  <2> QED
    BY <1>9, <2>1 DEF ApartFrom
<1>11. ASSUME NEW i \in pending.reads, NEW j \in op.writes PROVE ~ Overlap(i, j)
  <2>1. PICK k \in 1 .. Len(stack) : \E a \in E[k].reads : a.at = i
    BY <1>8 DEF Covered, Stands
  <2> QED
    BY <1>9, <2>1 DEF ApartFrom
<1>12. ASSUME op.kind = "arrive" PROVE pending = Nothing
  <2>1. \A k \in 1 .. Len(stack) : E[k] = Nothing
    BY <1>9, <1>12 DEF ApartFrom
  <2>2. pending.reads = {}
    BY <1>8, <2>1 DEF Covered, Nothing
  <2>3. pending.writes = {}
    BY <1>8, <2>1 DEF Covered, NotedWrites, Nothing
  <2>4. pending = [reads |-> pending.reads, writes |-> pending.writes]
    BY DEF PendingOK
  <2> QED
    BY <2>2, <2>3, <2>4 DEF Nothing
<1> QED
  BY <1>6, <1>10, <1>11, <1>12

LEMMA ProxyRaceFree ==
  ProgramOK /\ AnalysisOK /\ ExecInv => (CallsInPlace /\ CallsTold => NoProxyRace)
<1> SUFFICES ASSUME ProgramOK, AnalysisOK, ExecInv, CallsInPlace, CallsTold, AtOp, fences,
                    CurrentOp.proxy = "write",
                    NEW i \in Shift(CurrentOp.writes), NEW j \in pending.reads \cup pending.writes
             PROVE  ~ Overlap(i, j)
  BY DEF NoProxyRace
<1>1. PICK E \in [1 .. Len(stack) -> Infos] : Runs(E) /\ Covers(E)
  BY DEF ExecInv, AtOp
<1>2. /\ Len(stack) \in Nat \ {0} /\ Here = stack[1] /\ AtTop(Here, E[1]) /\ Here \in Frames
  BY <1>1, TopFacts DEF AtOp
<1>3. PICK op : op = CurrentOp
  OBVIOUS
<1>4. op \in Ops(Here.fn) /\ op.writes \subseteq Intervals
  BY <1>3, OpHere, OpFacts
<1>5. Shift(op.writes) = op.writes
  <2>1. Here.base = 0
    BY <1>1, <1>2 DEF Covers
  <2> QED
    BY <1>4, <2>1, ShiftedNowhere
<1>6. Len(stack) = 1
  <2>1. ~ Told(CurrentOp, Here.fn)
    BY DEF Told
  <2>2. 2 \notin 1 .. Len(stack)
    BY <2>1, ToldHere
  <2>3. PICK n : n = Len(stack)
    OBVIOUS
  <2>4. n \in Nat \ {0} /\ 2 \notin 1 .. n
    BY <1>2, <2>2, <2>3
  <2>5. n = 1
    BY <2>4
  <2> QED
    BY <2>3, <2>5
<1>7. Covered(pending, E, 1)
  BY <1>1, <1>6 DEF Covers, AtBarrier
<1>8. ~ IsIntersected(Written(op), E[1])
  <2>1. PICK h \in Frames : h = Here
    BY <1>2
  <2>2. PICK ops : ops = code[h.fn][h.block]
    OBVIOUS
  <2>3. h.at <= Len(ops) /\ op = ops[h.at] /\ OpsHere = ops
    BY <1>3, <2>1, <2>2 DEF AtOp, CurrentOp, OpsHere
  <2>4. \E after \in Infos : Passes(E[1], op, KindAt(ops, h.at + 1), after)
    BY <1>2, <2>1, <2>2, <2>3, TopExecutes
  <2> QED
    BY <1>3, <2>4 DEF Passes, InOrder
<1>9. \A a \in E[1].reads \cup E[1].writes : ~ a.ignored =>
        \A b \in Accesses(op, op.writes) : ~ Overlap(b.at, a.at)
  BY <1>8 DEF IsIntersected, AnyOverlap, Written
<1>10. PICK a \in E[1].reads \cup E[1].writes : a.at = j /\ ~ a.ignored
  <2>1. \A k \in 1 .. 1 : k = 1
    OBVIOUS
  <2> QED
    BY <1>7, <2>1 DEF Covered, Stands, NotedWrites
<1>11. PICK b \in Accesses(op, op.writes) : b.at = i
  BY <1>3, <1>5, AccessOf
<1> QED
  BY <1>9, <1>10, <1>11

LEMMA DanglingFacts ==
  ProgramOK /\ AnalysisOK /\ ExecInv => (CallsInPlace => DanglingCovered)
<1> SUFFICES ASSUME ProgramOK, AnalysisOK, ExecInv, CallsInPlace, Running, ~ AtOp, Len(stack) = 1,
                    Here.block \in Returns(Here.fn)
             PROVE  LET info == funcInfo[Here.fn]
                        reads == {a.at : a \in info.reads}
                        writes == {a.at : a \in info.writes}
                    IN  /\ pending.writes \subseteq (IF fences THEN reads \cup writes ELSE writes)
                        /\ pending.reads \subseteq reads
  BY DEF DanglingCovered
<1>1. PICK E \in [1 .. Len(stack) -> Infos] : Runs(E) /\ Covers(E)
  BY DEF ExecInv
<1>2. /\ Here = stack[1] /\ AtTop(Here, E[1]) /\ Here \in Frames
      /\ Here.at \in 1 .. Len(OpsHere) + 1 /\ Len(OpsHere) \in Nat
  BY <1>1, TopFacts
<1>3. Here.at > Len(OpsHere)
  BY <1>2 DEF AtOp
<1>4. Within(E[1], funcInfo[Here.fn])
  BY <1>2, <1>3, TopBranches DEF OpsHere
<1>5. Covered(pending, E, 1)
  BY <1>1 DEF Covers, AtBarrier
<1>6. \A k \in 1 .. 1 : k = 1
  OBVIOUS
<1>7. ASSUME NEW i \in pending.reads PROVE \E a \in funcInfo[Here.fn].reads : a.at = i
  BY <1>4, <1>5, <1>6 DEF Covered, Stands, Within
<1>8. ASSUME NEW i \in pending.writes
      PROVE  \E a \in (IF fences THEN funcInfo[Here.fn].reads \cup funcInfo[Here.fn].writes
                                 ELSE funcInfo[Here.fn].writes) : a.at = i
  BY <1>4, <1>5, <1>6 DEF Covered, Stands, NotedWrites, Within
<1> QED
  BY <1>7, <1>8

MembarInv ==
  ProgramOK /\ AnalysisOK /\ WalkInv /\ ListInv /\ SummaryInv /\ ExecInv /\ NestInv /\ PendingOK

LEMMA MembarInit == Init => MembarInv
<1> SUFFICES ASSUME Init PROVE MembarInv
  OBVIOUS
<1>1. ProgramOK /\ AnalysisOK
  BY ProgramInit, AnalysisInit
<1>2. WalkInv
  BY DEF Init, WalkInv
<1>3. ListInv
  <2>1. DOMAIN output = {}
    BY EmptyOutput DEF Init
  <2>2. 1 \in Listed
    BY ShortSequences DEF Init, Listed, ToSet
  <2> QED
    BY <2>1, <2>2 DEF ListInv
<1>4. SummaryInv
  <2>1. DOMAIN funcInfo = {}
    BY EmptyOutput DEF Init
  <2> QED
    BY <2>1 DEF SummaryInv
<1>5. ExecInv /\ NestInv /\ PendingOK
  BY DEF Init, ExecInv, NestInv, PendingOK, Running, Nothing
<1> QED
  BY <1>1, <1>2, <1>3, <1>4, <1>5 DEF MembarInv

LEMMA MembarNext == MembarInv /\ [Next]_vars => MembarInv'
BY ProgramNext, AnalysisNext, WalkNext, ListNext, SummaryNext, ExecNext, NestNext, PendingNext
DEF MembarInv

(* MembarAnalysis inserts enough barriers: on no path do two threads meet  *)
(* on a byte between two barriers, one of them writing it, whatever the    *)
(* graphs and the operations, if every call is one its callee's summary    *)
(* is right about.                                                         *)
THEOREM NoThreadRaces == Spec => [](CallsInPlace /\ CallsTold => NoRace)
<1>1. MembarInv => (CallsInPlace /\ CallsTold => NoRace)
  BY RaceFree DEF MembarInv
<1> QED
  BY <1>1, MembarInit, MembarNext, PTL DEF Spec

(* ProxyFenceAnalysis inserts enough fences: on no path does a TMA copy    *)
(* write bytes that have been accessed since the last fence, if calls are  *)
(* in place and callees start no copies.                                   *)
THEOREM NoProxyRaces == Spec => [](CallsInPlace /\ CallsTold => NoProxyRace)
<1>1. MembarInv => (CallsInPlace /\ CallsTold => NoProxyRace)
  BY ProxyRaceFree DEF MembarInv
<1> QED
  BY <1>1, MembarInit, MembarNext, PTL DEF Spec

(* What funcBlockInfoMap tells callers covers what is pending when the     *)
(* outermost function returns; callees may hold barriers and copies.       *)
THEOREM SummariesCover == Spec => [](CallsInPlace => DanglingCovered)
<1>1. MembarInv => (CallsInPlace => DanglingCovered)
  BY DanglingFacts DEF MembarInv
<1> QED
  BY <1>1, MembarInit, MembarNext, PTL DEF Spec

-----------------------------------------------------------------------------
(* Programs whose calls the analyses are right about.                      *)

Conflicting(a, b) ==
  \/ \E i \in a.writes : \E j \in b.reads \cup b.writes : Overlap(i, j)
  \/ \E i \in a.reads : \E j \in b.writes : Overlap(i, j)

(* One block of accesses that need no barrier between them; a scratch      *)
(* buffer, which brings one, at its beginning only.                        *)
Unsynchronised(g) ==
  /\ DOMAIN g.code = {1} /\ g.succ[1] = <<>>
  /\ \A i \in 1 .. Len(g.code[1]) :
       /\ g.code[1][i].kind \in {"access", "fence", "warpscratch", "scratch"}
       /\ g.code[1][i].kind = "scratch" => i = 1
       /\ \A j \in 1 .. i - 1 : ~ Conflicting(g.code[1][j], g.code[1][i])

WithoutCopies(g) ==
  \A b \in DOMAIN g.code : \A op \in ToSet(g.code[b]) : op.proxy # "write"

PlainCalls ==
  \A p \in Programs : \A f \in DOMAIN p.functions : \A b \in DOMAIN p.functions[f].code :
    \A op \in ToSet(p.functions[f].code[b]) :
      op.kind = "call" =>
        /\ op.base = 0
        /\ IF p.fences THEN WithoutCopies(p.functions[op.callee])
                       ELSE Unsynchronised(p.functions[op.callee])

(* info tells just what the first n operations do.                         *)
Sums(info, ops, n) ==
  /\ \A i \in 1 .. n : Within(Effects(ops[i]), info)
  /\ \A a \in info.reads : \E i \in 1 .. n : a \in Effects(ops[i]).reads
  /\ \A a \in info.writes : \E i \in 1 .. n : a \in Effects(ops[i]).writes

Untouched(f, ops) ==
  /\ code[f][1] = ops
  /\ fn = f => /\ input[1] = Nothing
               /\ block # 0 => Sums(blockInfo, ops, pos - 1)
               /\ 1 \in DOMAIN output => Sums(output[1], ops, Len(ops))
  /\ f \in DOMAIN funcInfo => Sums(funcInfo[f], ops, Len(ops))

(* The code is that of p, with barriers and fences inserted.               *)
FromProgram(p) ==
  /\ fences = p.fences /\ DOMAIN p.functions = DOMAIN code
  /\ \A f \in DOMAIN code : /\ DOMAIN p.functions[f].code = DOMAIN code[f]
                            /\ p.functions[f].succ = succ[f]
  /\ \A f \in DOMAIN code : \A b \in DOMAIN code[f] :
       ToSet(code[f][b]) \subseteq ToSet(p.functions[f].code[b]) \cup {Barrier, Fence}
  /\ \A f \in DOMAIN code :
       ~ fences /\ Unsynchronised(p.functions[f]) => Untouched(f, p.functions[f].code[1])

LEMMA FromInit == Init => \E p \in Programs : FromProgram(p)
<1> SUFFICES ASSUME Init PROVE \E p \in Programs : FromProgram(p)
  OBVIOUS
<1>1. PICK p \in Programs :
        /\ fences = p.fences
        /\ succ = [f \in DOMAIN p.functions |-> p.functions[f].succ]
        /\ code = [f \in DOMAIN p.functions |-> p.functions[f].code]
  BY DEF Init
<1>2. /\ DOMAIN code = DOMAIN p.functions
      /\ \A f \in DOMAIN code : code[f] = p.functions[f].code /\ succ[f] = p.functions[f].succ
  BY <1>1
<1>3. ASSUME NEW f \in DOMAIN code, Unsynchronised(p.functions[f])
      PROVE  Untouched(f, p.functions[f].code[1])
  <2>1. fn = f => input[1] = Nothing
    <3>1. 1 \in DOMAIN code[f]
      BY <1>2, <1>3 DEF Unsynchronised
    <3> QED
      BY <3>1 DEF Init, EmptyInput
  <2>2. block = 0 /\ DOMAIN output = {} /\ DOMAIN funcInfo = {}
    BY EmptyOutput DEF Init
  <2> QED
    BY <1>2, <2>1, <2>2 DEF Untouched
<1>4. FromProgram(p)
  BY <1>1, <1>2, <1>3 DEF FromProgram
<1> QED
  BY <1>4

(* The walk over such a callee inserts nothing.                            *)
LEMMA VisitPlain ==
  ASSUME ProgramOK, AnalysisOK, VisitOp, ~ fences, NEW p, FromProgram(p), Unsynchronised(p.functions[fn])
  PROVE  /\ block = 1 /\ code' = code /\ pos' = pos + 1 /\ pos \in 1 .. Len(code[fn][1])
         /\ blockInfo' = Join(blockInfo, Effects(code[fn][1][pos]))
         /\ Effects(code[fn][1][pos]) \in Infos
<1>1. /\ fn \in DOMAIN code /\ block \in DOMAIN code[fn] /\ block # 0
      /\ Analysing /\ pos <= Len(Walked) /\ blockInfo \in Infos
  BY DEF VisitOp, AnalysisOK, Analysing, Functions_
<1>2. block = 1
  BY <1>1 DEF FromProgram, Unsynchronised
<1>3. PICK ops : ops = code[fn][1]
  OBVIOUS
<1>4. /\ ops \in Seq(Ops(fn)) /\ pos \in 1 .. Len(ops) /\ Walked = ops /\ Len(ops) \in Nat
      /\ \A i \in 1 .. Len(ops) : ops[i] \in Ops(fn)
  BY <1>1, <1>2, <1>3, BlockFacts, VisitedFacts DEF Walked
<1>5. /\ ops = p.functions[fn].code[1]
      /\ Sums(blockInfo, ops, pos - 1)
  BY <1>1, <1>3 DEF FromProgram, Untouched
<1>6. PICK op : op = ops[pos]
  OBVIOUS
<1>7. /\ op.kind \in {"access", "fence", "warpscratch", "scratch"}
      /\ op.kind = "scratch" => pos = 1
  BY <1>4, <1>5, <1>6 DEF Unsynchronised
<1>7a. \A j \in 1 .. pos - 1 : ~ Conflicting(ops[j], op)
  BY <1>4, <1>5, <1>6 DEF Unsynchronised
<1>8. op \in Ops(fn) /\ Effects(op) \in Infos
  <2>1. op \in Ops(fn)
    BY <1>4, <1>6
  <2>2. FuncInfoOK
    BY FuncInfoFacts
  <2> QED
    BY <1>7, <2>1, <2>2, CurrentInfoFacts
<1>9. ~ IsIntersected(blockInfo, Effects(op)) /\ ~ IsIntersected(blockInfo, Written(op))
  <2>1. ASSUME NEW a \in blockInfo.writes, NEW b \in Accesses(op, op.reads) \cup Accesses(op, op.writes)
        PROVE  ~ Overlap(a.at, b.at)
    <3>1. PICK i \in 1 .. pos - 1 : a \in Effects(ops[i]).writes
      BY <1>5 DEF Sums
    <3>2. a.at \in ops[i].writes
      BY <3>1 DEF Effects, Accesses
    <3>3. b.at \in op.reads \cup op.writes
      BY DEF Accesses
    <3> QED
      BY <1>7a, <3>2, <3>3 DEF Conflicting
  <2>2. ASSUME NEW a \in blockInfo.reads, NEW b \in Accesses(op, op.writes)
        PROVE  ~ Overlap(a.at, b.at)
    <3>1. PICK i \in 1 .. pos - 1 : a \in Effects(ops[i]).reads
      BY <1>5 DEF Sums
    <3>2. a.at \in ops[i].reads
      BY <3>1 DEF Effects, Accesses
    <3>3. b.at \in op.writes
      BY DEF Accesses
    <3> QED
      BY <1>7a, <3>2, <3>3 DEF Conflicting
  <2> QED
    BY <2>1, <2>2 DEF IsIntersected, AnyOverlap, Effects, Written
<1>10. op.kind = "scratch" => blockInfo = Nothing
  <2>1. op.kind = "scratch" => blockInfo.reads = {} /\ blockInfo.writes = {}
    BY <1>5, <1>7 DEF Sums
  <2> QED
    BY <1>1, <2>1 DEF Infos, Nothing
<1>11. Visited = Step(Join(blockInfo, Effects(op)), <<op>>)
  <2>1. Visited = Update(blockInfo, op, NextKind)
    BY <1>4, <1>6 DEF Visited
  <2>2. CASE op.kind \in Scratches
    <3>1. Update(blockInfo, op, NextKind) = UpdateScratch(blockInfo, op)
      BY <2>2 DEF Update, Scratches
    <3> QED
      BY <1>9, <1>10, <2>1, <3>1 DEF UpdateScratch
  <2>3. CASE op.kind \notin Scratches
    <3>1. Update(blockInfo, op, NextKind) = UpdateAccess(blockInfo, op)
      BY <1>7, <2>3 DEF Update, Scratches
    <3>2. CurrentInfo(op) = Effects(op)
      BY <1>7, <2>3 DEF CurrentInfo
    <3> QED
      BY <1>9, <2>1, <3>1, <3>2 DEF UpdateAccess
  <2> QED
    BY <2>2, <2>3
<1>12. Visited.ops = <<op>> /\ Visited.info = Join(blockInfo, Effects(op))
  BY <1>11 DEF Step
<1>13. Splice(ops, pos, <<op>>) = ops
  <2>1. PICK S, at : S = Ops(fn) /\ at = pos
    OBVIOUS
  <2>2. ops \in Seq(S) /\ at \in 1 .. Len(ops) /\ op = ops[at]
    BY <1>4, <1>6, <2>1
  <2>3. Splice(ops, at, <<ops[at]>>) = ops
    BY <2>2, SpliceSame
  <2> QED
    BY <2>1, <2>2, <2>3
<1>14. code' = code
  <2>1. code' = [code EXCEPT ![fn][block] = Splice(Walked, pos, Visited.ops)]
    BY DEF VisitOp, Walked
  <2>2. Splice(Walked, pos, Visited.ops) = code[fn][block]
    BY <1>2, <1>3, <1>4, <1>12, <1>13
  <2>3. code = [f \in DOMAIN code |-> code[f]] /\ code[fn] = [b \in DOMAIN code[fn] |-> code[fn][b]]
    BY <1>1 DEF ProgramOK
  <2> QED
    BY <1>1, <2>1, <2>2, <2>3
<1>15. pos' = pos + 1 /\ blockInfo' = Join(blockInfo, Effects(op))
  <2>1. Len(<<op>>) = 1
    BY <1>8, ShortSequences
  <2> QED
    BY <1>12, <2>1 DEF VisitOp
<1> QED
  BY <1>2, <1>3, <1>4, <1>6, <1>8, <1>14, <1>15

LEMMA SumsMore ==
  ASSUME NEW info \in Infos, NEW ops, NEW n \in Nat \ {0}, Sums(info, ops, n - 1), Effects(ops[n]) \in Infos
  PROVE  Sums(Join(info, Effects(ops[n])), ops, n)
<1>1. PICK e \in Infos : e = Effects(ops[n])
  OBVIOUS
<1>2. PICK sum : sum = Join(info, e)
  OBVIOUS
<1>3. Within(info, sum) /\ Within(e, sum)
  BY <1>2 DEF Join, Within
<1>4. ASSUME NEW i \in 1 .. n PROVE Within(Effects(ops[i]), sum)
  <2>1. i = n \/ i \in 1 .. n - 1
    OBVIOUS
  <2> QED
    BY <1>1, <1>3, <2>1, WithinFacts DEF Sums
<1>5. ASSUME NEW a \in sum.reads PROVE \E i \in 1 .. n : a \in Effects(ops[i]).reads
  <2>1. CASE a \in info.reads
    <3>1. PICK i \in 1 .. n - 1 : a \in Effects(ops[i]).reads
      BY <2>1 DEF Sums
    <3>2. i \in 1 .. n
      OBVIOUS
    <3> QED
      BY <3>1, <3>2
  <2>2. CASE a \in e.reads
    <3>1. n \in 1 .. n
      OBVIOUS
    <3> QED
      BY <1>1, <2>2, <3>1
  <2> QED
    BY <1>2, <2>1, <2>2 DEF Join
<1>6. ASSUME NEW a \in sum.writes PROVE \E i \in 1 .. n : a \in Effects(ops[i]).writes
  <2>1. CASE a \in info.writes
    <3>1. PICK i \in 1 .. n - 1 : a \in Effects(ops[i]).writes
      BY <2>1 DEF Sums
    <3>2. i \in 1 .. n
      OBVIOUS
    <3> QED
      BY <3>1, <3>2
  <2>2. CASE a \in e.writes
    <3>1. n \in 1 .. n
      OBVIOUS
    <3> QED
      BY <1>1, <2>2, <3>1
  <2> QED
    BY <1>2, <2>1, <2>2 DEF Join
<1> QED
  BY <1>1, <1>2, <1>4, <1>5, <1>6 DEF Sums

LEMMA SumsNone == ASSUME NEW ops PROVE Sums(Nothing, ops, 0)
BY DEF Sums, Nothing

(* The summary of such a callee tells all it does.                         *)
LEMMA UntouchedNext ==
  ASSUME ProgramOK, AnalysisOK, ListInv, [Next]_vars, ~ fences, NEW p, FromProgram(p),
         NEW f \in DOMAIN code, Unsynchronised(p.functions[f])
  PROVE  Untouched(f, p.functions[f].code[1])'
<1>1. PICK ops : ops = p.functions[f].code[1]
  OBVIOUS
<1>2. Untouched(f, ops) /\ DOMAIN code[f] = {1} /\ succ[f][1] = <<>> /\ Successors(f, 1) = {}
  <2>1. Untouched(f, ops) /\ DOMAIN code[f] = {1} /\ succ[f][1] = <<>>
    BY <1>1 DEF FromProgram, Unsynchronised
  <2>2. Successors(f, 1) = {}
    BY <2>1, EmptyOutput DEF Successors, ToSet
  <2> QED
    BY <2>1, <2>2
<1>3. fn = f => fn \in DOMAIN code /\ Analysing
  BY DEF Analysing, Functions_
<1>4. SUFFICES Untouched(f, ops)'
  BY <1>1
<1>5. CASE VisitOp
  <2>1. UNCHANGED <<fn, block, input, output, funcInfo>>
    BY <1>5 DEF VisitOp
  <2>2. CASE fn # f
    <3>1. code'[f][1] = code[f][1]
      BY <1>2, <1>5, <2>2, VisitOpFacts
    <3> QED
      BY <1>2, <2>1, <2>2, <3>1 DEF Untouched
  <2>3. CASE fn = f
    <3>1. /\ block = 1 /\ code' = code /\ pos' = pos + 1 /\ pos \in 1 .. Len(code[fn][1])
          /\ blockInfo' = Join(blockInfo, Effects(code[fn][1][pos]))
          /\ Effects(code[fn][1][pos]) \in Infos
      BY <1>5, <2>3, VisitPlain
    <3>2. code[fn][1] = ops /\ Len(ops) \in Nat
      <4>1. 1 \in DOMAIN code[fn]
        BY <1>2, <2>3
      <4> QED
        BY <1>2, <2>3, <4>1, BlockFacts DEF Untouched
    <3>3. PICK n : n = pos
      OBVIOUS
    <3>4. n \in Nat \ {0} /\ Sums(blockInfo, ops, n - 1) /\ blockInfo \in Infos
      BY <1>2, <1>3, <2>3, <3>1, <3>2, <3>3 DEF Untouched, AnalysisOK
    <3>5. Sums(blockInfo', ops, n)
      BY <3>1, <3>2, <3>3, <3>4, SumsMore
    <3>6. pos' - 1 = n
      BY <3>1, <3>3, <3>4
    <3> QED
      BY <1>2, <2>1, <3>1, <3>5, <3>6 DEF Untouched
  <2> QED
    BY <2>2, <2>3
<1>6. CASE StartBlock
  <2>1. UNCHANGED <<code, fn, input, output, funcInfo>> /\ pos' = 1 /\ blockInfo' = input[block']
    BY <1>6 DEF StartBlock
  <2>2. fn = f => blockInfo' = Nothing
    <3>1. fn = f => block' \in DOMAIN code[f]
      BY <1>3, <1>6, ToSetFacts DEF StartBlock, AnalysisOK
    <3> QED
      BY <1>2, <2>1, <3>1 DEF Untouched
  <2>3. Sums(Nothing, ops, 1 - 1)
    BY SumsNone
  <2> QED
    BY <1>2, <2>1, <2>2, <2>3 DEF Untouched
<1>7. CASE EndBlock
  <2>1. UNCHANGED <<code, fn, funcInfo>> /\ block' = 0
    BY <1>7 DEF EndBlock
  <2>2. ASSUME fn = f
        PROVE  /\ input'[1] = Nothing
               /\ 1 \in DOMAIN output' => Sums(output'[1], ops, Len(ops))
    <3>1. /\ block = 1 /\ 1 \in DOMAIN code[fn] /\ fn \in DOMAIN code
          /\ pos \in 1 .. Len(code[fn][1]) + 1 /\ pos > Len(code[fn][1]) /\ input[1] = Nothing
          /\ input \in [{1} -> Infos]
      BY <1>2, <1>3, <1>7, <2>2 DEF EndBlock, AnalysisOK, Untouched, Walked
    <3>2. code[fn][1] = ops /\ Len(ops) \in Nat
      BY <1>2, <2>2, <3>1, BlockFacts DEF Untouched
    <3>3. Sums(blockInfo, ops, Len(ops))
      <4>1. pos - 1 = Len(ops)
        BY <3>1, <3>2
      <4> QED
        BY <1>2, <2>2, <3>1, <4>1 DEF Untouched
    <3>4. input'[1] = Nothing
      BY <1>2, <1>7, <2>2, <3>1 DEF EndBlock, JoinSuccessors
    <3>5. 1 \in DOMAIN output' => Sums(output'[1], ops, Len(ops))
      BY <1>2, <1>7, <2>2, <3>1, <3>3 DEF EndBlock, Untouched
    <3> QED
      BY <3>4, <3>5
  <2> QED
    BY <1>2, <2>1, <2>2 DEF Untouched
<1>8. CASE FinishFunction
  <2>1. /\ fn \in DOMAIN code /\ fn \in Nat /\ fn' = fn + 1 /\ code' = code
        /\ DOMAIN funcInfo' = 1 .. fn /\ \A g \in 1 .. fn - 1 : funcInfo'[g] = funcInfo[g]
        /\ funcInfo'[fn] = Dangling /\ block' = 0
    BY <1>8, FinishFacts DEF FinishFunction, walk
  <2>2. DOMAIN funcInfo = 1 .. fn - 1 /\ f \in Nat
    BY FuncInfoFacts DEF ProgramOK
  <2>3. output' = <<>> /\ DOMAIN output' = {}
    BY <1>8, EmptyOutput DEF FinishFunction
  <2>4. fn' = f => input'[1] = Nothing
    <3>1. fn' = f => input' = EmptyInput(f)
      BY <1>8, <2>1 DEF FinishFunction, Functions_
    <3> QED
      BY <1>2, <3>1 DEF EmptyInput
  <2>5. CASE f = fn
    <3>1. 1 \in DOMAIN output /\ DOMAIN output \subseteq {1}
      <4>1. ToSet(blockList) = {} /\ Listed = {}
        BY <1>8, EmptyOutput DEF FinishFunction, ToSet, Listed
      <4> QED
        BY <1>2, <1>3, <2>5, <4>1 DEF ListInv, AnalysisOK
    <3>2. {c \in Returns(fn) : Known(c)} = {1}
      <4>1. 1 \in DOMAIN succ[fn]
        <5>1. DOMAIN succ[fn] = DOMAIN code[fn]
          BY <2>1 DEF ProgramOK
        <5> QED
          BY <1>2, <2>5, <5>1
      <4> QED
        BY <1>2, <2>5, <3>1, <4>1 DEF Returns, Known
    <3>3. Dangling.reads = output[1].reads /\ Dangling.writes = output[1].writes
      BY <3>2 DEF Dangling
    <3>4. Sums(output[1], ops, Len(ops))
      BY <1>2, <2>5, <3>1 DEF Untouched
    <3>5. Sums(Dangling, ops, Len(ops))
      BY <3>3, <3>4 DEF Sums, Within
    <3> QED
      BY <1>2, <2>1, <2>3, <2>5, <3>5 DEF Untouched
  <2>6. CASE f # fn
    <3>1. f \in DOMAIN funcInfo' => f \in DOMAIN funcInfo /\ funcInfo'[f] = funcInfo[f]
      BY <2>1, <2>2, <2>6
    <3> QED
      BY <1>2, <2>1, <2>3, <2>4, <3>1 DEF Untouched
  <2> QED
    BY <2>5, <2>6
<1>9. CASE Execute \/ Call \/ Branch \/ Return \/ UNCHANGED vars
  BY <1>2, <1>9 DEF Execute, Call, Branch, Return, vars, walk, Untouched
<1> QED
  BY <1>5, <1>6, <1>7, <1>8, <1>9 DEF Next, Analyse, Done

LEMMA SeqNarrowed ==
  ASSUME NEW T, NEW s \in Seq(T), NEW S, ToSet(s) \subseteq S
  PROVE  s \in Seq(S)
<1>1. Len(s) \in Nat /\ DOMAIN s = 1 .. Len(s) /\ s \in [1 .. Len(s) -> T]
  BY LenProperties
<1>2. \A i \in 1 .. Len(s) : s[i] \in S
  BY <1>1 DEF ToSet
<1>3. s \in [1 .. Len(s) -> S]
  BY <1>1, <1>2
<1> QED
  BY <1>1, <1>3, SeqDef

LEMMA VisitInserts ==
  ASSUME ProgramOK, AnalysisOK, VisitOp
  PROVE  ToSet(code'[fn][block]) \subseteq ToSet(code[fn][block]) \cup {Barrier, Fence}
<1>1. /\ fn \in DOMAIN code /\ block \in DOMAIN code[fn] /\ Analysing /\ block # 0 /\ pos <= Len(Walked)
      /\ code'[fn][block] = Splice(Walked, pos, Visited.ops)
  BY VisitOpFacts DEF VisitOp
<1>2. PICK ops, one, at, S :
        /\ ops = code[fn][block] /\ one = Visited.ops /\ at = pos
        /\ S = ToSet(code[fn][block]) \cup {Barrier, Fence}
  OBVIOUS
<1>3. ops \in Seq(Ops(fn)) /\ at \in 1 .. Len(ops)
  BY <1>1, <1>2, VisitedFacts DEF Walked
<1>4. one = <<ops[at]>> \/ one = <<Barrier, ops[at]>> \/ one = <<Fence, ops[at]>> \/ one = <<ops[at], Barrier>>
  BY <1>1, <1>2, VisitedFacts DEF Walked
<1>5. ops \in Seq(S) /\ ops[at] \in S /\ Barrier \in S /\ Fence \in S
  <2>1. ToSet(ops) \subseteq S /\ Barrier \in S /\ Fence \in S
    BY <1>2
  <2>2. ops \in Seq(S)
    BY <1>3, <2>1, SeqNarrowed
  <2> QED
    BY <1>3, <2>1, <2>2, ElementOfSeq
<1>6. one \in Seq(S)
  BY <1>4, <1>5, ShortSequences
<1>7. Splice(ops, at, one) \in Seq(S)
  BY <1>3, <1>5, <1>6, SpliceFacts
<1>8. PICK new : new = Splice(ops, at, one)
  OBVIOUS
<1>9. ToSet(new) \subseteq S
  BY <1>7, <1>8, ToSetFacts
<1> QED
  BY <1>1, <1>2, <1>8, <1>9 DEF Walked

LEMMA FromNext ==
  ASSUME ProgramOK, AnalysisOK, ListInv, [Next]_vars, NEW p, FromProgram(p)
  PROVE  FromProgram(p)'
<1>1. UNCHANGED <<fences, succ>>
  BY DEF Next, Analyse, StartBlock, VisitOp, EndBlock, FinishFunction, Execute, Call, Branch, Return, Done, vars
<1>2. /\ DOMAIN code' = DOMAIN code
      /\ \A f \in DOMAIN code :
           /\ DOMAIN code'[f] = DOMAIN code[f]
           /\ \A b \in DOMAIN code[f] :
                ToSet(code'[f][b]) \subseteq ToSet(code[f][b]) \cup {Barrier, Fence}
  <2>1. CASE VisitOp
    <3>1. ASSUME NEW f \in DOMAIN code, NEW b \in DOMAIN code[f]
          PROVE  ToSet(code'[f][b]) \subseteq ToSet(code[f][b]) \cup {Barrier, Fence}
      <4>1. CASE f = fn /\ b = block
        BY <2>1, <4>1, VisitInserts
      <4>2. CASE ~ (f = fn /\ b = block)
        <5>1. code'[f][b] = code[f][b]
          BY <2>1, <4>2, VisitOpFacts
        <5> QED
          BY <5>1
      <4> QED
        BY <4>1, <4>2
    <3> QED
      BY <2>1, <3>1, VisitOpFacts
  <2>2. CASE code' = code
    BY <2>2
  <2> QED
    BY <2>1, <2>2 DEF Next, Analyse, StartBlock, EndBlock, FinishFunction, Execute, Call, Branch, Return, Done, vars
<1>3. ASSUME NEW f \in DOMAIN code, ~ fences, Unsynchronised(p.functions[f])
      PROVE  Untouched(f, p.functions[f].code[1])'
  BY <1>3, UntouchedNext
<1>4. \A f \in DOMAIN code : \A b \in DOMAIN code[f] :
        ToSet(code'[f][b]) \subseteq ToSet(p.functions[f].code[b]) \cup {Barrier, Fence}
  BY <1>2 DEF FromProgram
<1> QED
  BY <1>1, <1>2, <1>3, <1>4 DEF FromProgram

FromPrograms == \E p \in Programs : FromProgram(p)

LEMMA FromProgramsNext == MembarInv /\ FromPrograms /\ [Next]_vars => FromPrograms'
<1> SUFFICES ASSUME MembarInv, FromPrograms, [Next]_vars PROVE FromPrograms'
  OBVIOUS
<1>1. PICK p \in Programs : FromProgram(p)
  BY DEF FromPrograms
<1>2. FromProgram(p)'
  BY <1>1, FromNext DEF MembarInv
<1> QED
  BY <1>2 DEF FromPrograms

(* A call is one of the program's, and so is what stands in the callee.    *)
LEMMA CallsRight == PlainCalls /\ MembarInv /\ FromPrograms => CallsInPlace /\ CallsTold
<1> SUFFICES ASSUME PlainCalls, MembarInv, FromPrograms PROVE CallsInPlace /\ CallsTold
  OBVIOUS
<1>1. PICK p \in Programs : FromProgram(p)
  BY DEF FromPrograms
<1>2. ASSUME NEW op \in Calls
      PROVE  /\ op.callee \in DOMAIN code /\ op.base = 0
             /\ IF fences THEN WithoutCopies(p.functions[op.callee])
                          ELSE Unsynchronised(p.functions[op.callee])
  <2>1. PICK f \in DOMAIN code : \E b \in DOMAIN code[f] : op \in ToSet(code[f][b]) /\ op.kind = "call"
    BY DEF Calls, Functions_
  <2>2. PICK b \in DOMAIN code[f] : op \in ToSet(code[f][b]) /\ op.kind = "call"
    BY <2>1
  <2>3. op \in ToSet(p.functions[f].code[b])
    BY <1>1, <2>2 DEF FromProgram, Barrier, Fence, Op
  <2>4. op.callee \in DOMAIN code
    <3>1. ProgramOK
      BY DEF MembarInv
    <3>2. PICK i \in 1 .. Len(code[f][b]) : op = code[f][b][i]
      BY <2>2, <3>1, BlockFacts DEF ToSet
    <3> QED
      BY <2>2, <3>1, <3>2, CallsFacts
  <2> QED
    BY <1>1, <2>2, <2>3, <2>4 DEF PlainCalls, FromProgram
<1>3. ASSUME Running, NEW op \in Calls, NEW b \in DOMAIN code[op.callee], NEW c \in ToSet(code[op.callee][b])
      PROVE  Told(c, op.callee)
  <2>1. PICK g : g = op.callee
    OBVIOUS
  <2>2. g \in DOMAIN code /\ b \in DOMAIN code[g] /\ c \in ToSet(code[g][b])
    BY <1>2, <1>3, <2>1
  <2>3. CASE fences
    <3>1. b \in DOMAIN p.functions[g].code /\ c \in ToSet(p.functions[g].code[b]) \cup {Barrier, Fence}
      BY <1>1, <2>2 DEF FromProgram
    <3>2. c.proxy # "write"
      BY <1>2, <2>1, <2>3, <3>1 DEF WithoutCopies, Barrier, Fence, Op
    <3> QED
      BY <2>3, <3>2 DEF Told
  <2>4. CASE ~ fences
    <3>1. PICK ops : ops = p.functions[g].code[1]
      OBVIOUS
    <3>2. Untouched(g, ops) /\ DOMAIN p.functions[g].code = {1} /\ Unsynchronised(p.functions[g])
      BY <1>1, <1>2, <2>1, <2>2, <2>4, <3>1 DEF FromProgram, Unsynchronised
    <3>3. code[g][b] = ops /\ b = 1
      BY <1>1, <2>2, <3>2 DEF FromProgram, Untouched
    <3>4. ops \in Seq(Ops(g))
      BY <2>2, <3>3, BlockFacts DEF MembarInv
    <3>5. PICK i \in 1 .. Len(ops) : c = ops[i]
      BY <2>2, <3>3, <3>4, LenProperties DEF ToSet
    <3>6. c.kind \in {"access", "fence", "warpscratch", "scratch"}
      BY <3>1, <3>2, <3>5 DEF Unsynchronised
    <3>7. CurrentInfo(c) = Effects(c)
      BY <3>6 DEF CurrentInfo
    <3>8. g \in DOMAIN funcInfo
      <4>1. ~ Analysing
        BY <1>3 DEF MembarInv, ExecInv
      <4> QED
        BY <2>2, <4>1, AllAnalysed DEF MembarInv
    <3>9. Within(Effects(c), funcInfo[g])
      BY <3>2, <3>5, <3>8 DEF Untouched, Sums
    <3> QED
      BY <2>1, <2>4, <3>7, <3>9 DEF Told
  <2> QED
    BY <2>3, <2>4
<1> QED
  BY <1>2, <1>3 DEF CallsInPlace, CallsTold

LEMMA PlainInvariant == ASSUME PlainCalls PROVE Spec => [](MembarInv /\ CallsInPlace /\ CallsTold)
<1>1. Init => MembarInv /\ FromPrograms
  BY MembarInit, FromInit DEF FromPrograms
<1>2. (MembarInv /\ FromPrograms) /\ [Next]_vars => (MembarInv /\ FromPrograms)'
  BY MembarNext, FromProgramsNext
<1>3. MembarInv /\ FromPrograms => MembarInv /\ CallsInPlace /\ CallsTold
  BY CallsRight
<1> QED
  BY <1>1, <1>2, <1>3, PTL DEF Spec

(* In a program whose callees are called in place and need no barrier      *)
(* inside, all of the hypotheses above hold: no two threads race on a      *)
(* byte between two barriers.  Programs without calls are such programs.   *)
THEOREM PlainNoRace == ASSUME PlainCalls PROVE Spec => []NoRace
BY PlainInvariant, NoThreadRaces, PTL

(* In such a program no TMA copy overtakes an access since the last fence. *)
THEOREM PlainNoProxyRace == ASSUME PlainCalls PROVE Spec => []NoProxyRace
BY PlainInvariant, NoProxyRaces, PTL

(* In such a program the summary of the outermost function covers what is  *)
(* pending when it returns.                                                *)
THEOREM PlainDanglingCovered == ASSUME PlainCalls PROVE Spec => []DanglingCovered
BY PlainInvariant, SummariesCover, PTL

=============================================================================
