---------------------------- MODULE AsyncCopies ----------------------------
(***************************************************************************)
(* What the code the software pipeliner emits does to shared memory: the   *)
(* copies LoopLowering has made of loads, run as LoopExpander runs them,   *)
(* with the wait counts updateWaits (WGMMAPipeline.cpp) gives the waits    *)
(* and the waits asyncLaunchDots gives warp-group dots.                    *)
(*                                                                         *)
(* A copy has arrived only when something has waited for it: a wait with   *)
(* number w for all commit groups but the last w, a wait on a barrier for  *)
(* the phase of the parity it asks for.  A masked copy fills its buffer    *)
(* with zeros; commits, waits and reads are never masked.                  *)
(***************************************************************************)
EXTENDS LoopExpander

VARIABLES
  prologueWaits,  \* what is left of the waits after updateWaits: <<operation, iteration>> -> number
  kernelWaits,
  filled,         \* load -> buffer -> [iter, ticket]: what was copied last, and as which group or phase
  groups,         \* commit groups so far
  arrived,        \* those known to have arrived
  begun,          \* barriers: load -> buffer -> phases armed
  over,           \* and phases known to be over
  reading,        \* the buffers dots in flight read, oldest dot first
  mishaps         \* history: <<what, load>>

waitVars == <<prologueWaits, kernelWaits>>
memVars == <<filled, groups, arrived, begun, over, reading, mishaps>>

allVars == <<vars, waitVars, memVars>>

MemInit ==
  /\ prologueWaits = <<>> /\ kernelWaits = <<>>
  /\ filled = <<>> /\ groups = 0 /\ arrived = 0 /\ begun = <<>> /\ over = <<>>
  /\ reading = <<>> /\ mishaps = {}

Zeros == -1
PerBuffer(loads, x) == [k \in loads |-> [i \in 0 .. buffers[k] - 1 |-> x]]

AllocBuffers ==
  /\ filled' = PerBuffer(DOMAIN buffers, [iter |-> Zeros, ticket |-> 0])
  /\ begun' = PerBuffer(Range(barrierOf), 0)
  /\ over' = PerBuffer(Range(barrierOf), 0)
  /\ UNCHANGED <<groups, arrived, reading, mishaps>>

(*----------------------------- wait numbers ------------------------------*)

(* The emitted code: entries <<operation, iteration>> of the prologue; of  *)
(* the kernel, in which the iteration is not known.                        *)
PrologueCode(order) ==
  FlattenSeq([p \in 1 .. maxStage |->
    LET ops == PrologueOps(order, p - 1)
    IN  [x \in DOMAIN ops |-> <<ops[x], p - 1 - stages[ops[x]]>>]])

KernelCode(order) == [x \in DOMAIN order |-> <<order[x], 0>>]

IsCommit(entry) == role[entry[1]][1] = "commit"
IsWait(entry) == role[entry[1]][1] = "wait"
IsBranch(entry) == loop.kind[entry[1]] = "if"

PlaceIn(code, entry) == CHOOSE x \in DOMAIN code : code[x] = entry
CommitOf(w) == CHOOSE c \in Body(loop) : role[c] = <<"commit", role[w][2]>>

Commits(code, from, to) == Cardinality({x \in from .. to : IsCommit(code[x])})

(* minNumInterleavedCommitOps in the prologue: both are of one iteration.  *)
PrologueWaitNum(prologue, w, n) ==
  Commits(prologue, PlaceIn(prologue, <<CommitOf(w), n>>) + 1, PlaceIn(prologue, <<w, n>>) - 1)

(* In the kernel: the least over all histories of the awaited token, which *)
(* came round `age' turns or, some turns ago, from the prologue.           *)
KernelWaitNum(prologue, kernel, w) ==
  LET here == PlaceIn(kernel, <<w, 0>>)
      commit == PlaceIn(kernel, <<CommitOf(w), 0>>)
      age == stages[w] - stages[CommitOf(w)]
      Since(turns) == Commits(kernel, 1, here - 1) + turns * Commits(kernel, 1, Len(kernel))
      FromPrologue(turns) ==
        Commits(prologue, PlaceIn(prologue, <<CommitOf(w), maxStage - stages[w] + turns>>) + 1, Len(prologue))
  IN  IF age = 0 THEN Commits(kernel, commit + 1, here - 1)
      ELSE Min({Since(turns) + FromPrologue(turns) : turns \in 0 .. age - 1}
               \cup {Since(age - 1) + Commits(kernel, commit + 1, Len(kernel))})

(* combineRedundantWaitOps: waits with neither a commit nor a branch       *)
(* between them become one, at the first of them, with the least number.   *)
WaitsTogether(code, x) ==
  {y \in DOMAIN code :
     /\ IsWait(code[y])
     /\ \A z \in DOMAIN code :
          (x < z /\ z < y) \/ (y < z /\ z < x) => ~IsCommit(code[z]) /\ ~IsBranch(code[z])}

(* Mutant: the first wait keeps its number.                                *)
CombinedWaitsOfFirst(code, num) ==
  [entry \in {code[x] : x \in {x \in DOMAIN code : IsWait(code[x]) /\ x = Min(WaitsTogether(code, x))}} |->
     num[entry]]

CombinedWaits(code, num) ==
  [entry \in {code[x] : x \in {x \in DOMAIN code : IsWait(code[x]) /\ x = Min(WaitsTogether(code, x))}} |->
     Min({num[code[y]] : y \in WaitsTogether(code, PlaceIn(code, entry))})]

UpdateWaits(order) ==
  \E prologue \in {PrologueCode(order)} : \E kernel \in {KernelCode(order)} :
    LET WaitsIn(code) == {entry \in Range(code) : IsWait(entry)}
    IN  /\ prologueWaits' =
             CombinedWaits(prologue, [w \in WaitsIn(prologue) |-> PrologueWaitNum(prologue, w[1], w[2])])
        /\ kernelWaits' =
             CombinedWaits(kernel, [w \in WaitsIn(kernel) |-> KernelWaitNum(prologue, kernel, w[1])])

AwaitGroups(waits, entry) ==
  /\ arrived' = IF entry \in DOMAIN waits THEN Max({arrived, groups - waits[entry]}) ELSE arrived
  /\ UNCHANGED <<filled, groups, begun, over, reading, mishaps>>

(*------------------------------- accesses --------------------------------*)

Buffer(k, n) == n % buffers[k]

Mishap(what, loads) == mishaps' = mishaps \cup {<<what, k>> : k \in loads}

HasArrived(k, i) ==
  IF k \in DOMAIN barrierOf THEN over[barrierOf[k]][i] >= filled[k][i].ticket
  ELSE arrived >= filled[k][i].ticket

Fresh(k, n) == filled[k][Buffer(k, n)].iter = n /\ HasArrived(k, Buffer(k, n))

BeingRead(k, n) == \E d \in DOMAIN reading : <<k, Buffer(k, n)>> \in reading[d]

Copy(k, n, on) ==
  /\ LET ticket == IF k \in DOMAIN barrierOf THEN begun[barrierOf[k]][Buffer(k, n)] ELSE groups + 1
     IN  filled' = [filled EXCEPT ![k][Buffer(k, n)] = [iter |-> IF on THEN n ELSE Zeros, ticket |-> ticket]]
  /\ Mishap("overwritten", IF BeingRead(k, n) THEN {k} ELSE {})
  /\ UNCHANGED <<groups, arrived, begun, over, reading>>

Commit ==
  /\ groups' = groups + 1
  /\ UNCHANGED <<filled, arrived, begun, over, reading, mishaps>>

(* A read of a masked iteration is never used.                             *)
Read(k, n, on) ==
  /\ Mishap("stale", IF on /\ ~Fresh(k, n) THEN {k} ELSE {})
  /\ UNCHANGED <<filled, groups, arrived, begun, over, reading>>

(* A barrier must not be armed before its phase is known to be over.       *)
Expect(k, n) ==
  /\ begun' = [begun EXCEPT ![k][Buffer(k, n)] = @ + 1]
  /\ Mishap("rearmed", IF begun[k][Buffer(k, n)] > over[k][Buffer(k, n)] THEN {k} ELSE {})
  /\ UNCHANGED <<filled, groups, arrived, over, reading>>

(* The phase counter of iteration n changes when the buffers wrap.         *)
Phase(k, n) == (n \div buffers[k]) % 2

(* Such a wait ends when the phase of its parity is over, which it is from *)
(* the start for the other parity.                                         *)
AwaitPhase(k, n) ==
  LET i == Buffer(k, n)
      ended == IF over[k][i] % 2 # Phase(k, n) THEN over[k][i] ELSE over[k][i] + 1
  IN  /\ over' = [over EXCEPT ![k][i] = ended]
      /\ Mishap("stuck", IF ended > begun[k][i] THEN {k} ELSE {})
      /\ UNCHANGED <<filled, groups, arrived, begun, reading>>

(* A read that dots alone use is a view, and no access.                    *)
IsView(r) == InShared(loop, r)

(* dotCanBeProperlyAsync: a dot of the kernel that reads only buffers and  *)
(* whose result is used as the operand dots accumulate into, no other way. *)
AsyncDot(j) ==
  /\ loop.kind[j] = "dot" /\ stages[j] = maxStage /\ Users(loop, j) = {}
  /\ \A r \in Producers(loop, j) : role[r][1] = "read" /\ IsView(r)
  /\ \E a \in Args(loop) :
       /\ {b \in Args(loop) : loop.yield[b] = Op(j)} = {a}
       /\ \A u \in Body(loop) : Arg(a) \in loop.uses[u] => loop.kind[u] = "dot"

Dots == {j \in Body(loop) : loop.kind[j] = "dot"}
AsyncDots == {j \in Dots : AsyncDot(j)}
LastAsyncDot(j) == \A d \in AsyncDots : PlaceIn(opOrder, d) <= PlaceIn(opOrder, j)

InBuffers(j) ==
  {k \in DOMAIN buffers : \E r \in Producers(loop, j) : role[r] = <<"read", k>> /\ IsView(r)}

(* asyncLaunchDots: a dot that is not properly async is awaited at once,   *)
(* with all before it; else the last one awaits those of the turn before.  *)
LaunchDot(j, n) ==
  /\ Mishap("stale", {k \in InBuffers(j) : ~Fresh(k, n)})
  /\ LET launched == Append(reading, {<<k, Buffer(k, n)>> : k \in InBuffers(j)})
         pendings == Cardinality(AsyncDots)
     IN  reading' = IF j \notin AsyncDots THEN <<>>
                    ELSE IF AsyncDots # Dots \/ ~LastAsyncDot(j) \/ Len(launched) <= pendings THEN launched
                    ELSE SubSeq(launched, Len(launched) - pendings + 1, Len(launched))
  /\ UNCHANGED <<filled, groups, arrived, begun, over>>

(* Operation j of iteration n, which the code has as `entry'.              *)
Access(j, n, on, waits, entry) ==
  LET k == role[j][2]
      what == role[j][1]
  IN  \/ what = "copy" /\ (on \/ k \notin DOMAIN barrierOf) /\ Copy(k, n, on)
      \/ what = "commit" /\ Commit
      \/ what = "wait" /\ AwaitGroups(waits, entry)
      \/ what = "read" /\ ~IsView(j) /\ Read(k, n, on)
      \/ what = "expect" /\ on /\ Expect(k, n)
      \/ what = "barrier" /\ on /\ AwaitPhase(k, n)
      \/ what = "op" /\ loop.kind[j] = "dot" /\ LaunchDot(j, n)
      \/ /\ \/ what \in {"insert", "extract", "phase"}
            \/ what = "op" /\ loop.kind[j] # "dot"
            \/ what = "read" /\ IsView(j)
            \/ what \in {"expect", "barrier"} /\ ~on
            \/ what = "copy" /\ ~on /\ k \in DOMAIN barrierOf
         /\ UNCHANGED memVars

(*----------------------------- composition -------------------------------*)

RunPrologueOp ==
  /\ EmitPrologueOp
  /\ UNCHANGED waitVars
  /\ \E j \in {Head(rest)} : \E n \in {part - stages[j]} :
       Access(j, n, ~dynamicLoop \/ loop.lb + n * loop.step < loop.ub, prologueWaits, <<j, n>>)

RunKernelOp ==
  /\ KernelOp
  /\ UNCHANGED waitVars
  /\ \E j \in {Head(rest)} :
       Access(j, (iv - loop.lb) \div loop.step + maxStage - stages[j], StageRuns(stages[j]), kernelWaits, <<j, 0>>)

(* Behind the loop nothing is left in flight.                              *)
AwaitAll ==
  /\ arrived' = groups
  /\ reading' = <<>>
  /\ UNCHANGED <<filled, groups, begun, over, mishaps>>

Next ==
  \/ ScheduleNext /\ UNCHANGED <<loweringVars, expandVars, waitVars, memVars>>
  \/ LoweringNext /\ UNCHANGED <<expandVars, waitVars, memVars>>
  \/ InitializeLoopInfo /\ UpdateWaits(opOrder') /\ AllocBuffers
  \/ RunPrologueOp
  \/ RunKernelOp
  \/ KernelDone /\ AwaitAll /\ UNCHANGED waitVars
  \/ (Reject \/ NextProloguePart \/ CreateKernelLoop \/ NextTurn \/ EmitEpilogueOp \/ NextEpiloguePart)
     /\ UNCHANGED <<waitVars, memVars>>

(*----------------------------- properties --------------------------------*)

(* Whatever is read from a buffer is the copy of the same iteration, and   *)
(* it has been waited for: no wait number lets a copy through that may     *)
(* still be under way, no phase is taken for another, no copy overwrites   *)
(* what is still to be read.  When the buffers are given up, nothing is    *)
(* on its way to them.                                                     *)
CopiesArrive ==
  /\ \A m \in mishaps : m[1] \notin {"stale", "rearmed", "stuck"}
  /\ phase = "done" => \A k \in DOMAIN filled : \A i \in DOMAIN filled[k] : HasArrived(k, i)

(* No copy goes to a buffer a dot of this turn or the one before may still *)
(* be reading.                                                             *)
DotsKeepOperands == \A m \in mishaps : m[1] # "overwritten"

(* Scheduling, lowering and running a loop ends.                           *)
PipelineTerminates == <>(phase \in {"kept", "done"})

(*----------------------------- specification -----------------------------*)

PipelineInit == Init /\ LoweringInit /\ ExpandInit /\ MemInit

Finished == phase \in {"kept", "done"} /\ UNCHANGED allVars

Spec == PipelineInit /\ [][Next \/ Finished]_allVars /\ WF_allVars(Next)
=============================================================================
