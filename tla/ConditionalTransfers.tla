------------------------ MODULE ConditionalTransfers ------------------------
(***************************************************************************)
(* The program of SSBuffer together with the transfer flags SplitDataflow  *)
(* has put into its blocks.  AddControlFlowCondition wraps a block with    *)
(* its waits and sets, so a core that has entered one still waits for the  *)
(* flags of its transfers - and holds flag 15 while it waits, so that the  *)
(* core that would have to set them cannot move.  The conditions, which    *)
(* count items, have to see to it that the flags, one for each buffer, are *)
(* always there.                                                           *)
(*                                                                         *)
(* Ahead of each execution of the loop a consumer declares its buffers     *)
(* empty, behind it a producer takes that back (TransferSync has a single  *)
(* execution); a core may declare for the next one before the other has    *)
(* taken back the last.                                                    *)
(***************************************************************************)
EXTENDS SSBuffer

(* A loop without rounds makes no transfers.                               *)
ASSUME RoundsAssumption == Rounds > 0

VARIABLES
  at,        \* at[c]: where core c is between the steps of SSBuffer
  todo,      \* todo[c]: transfers c has still to start in this block
  current,   \* current[c]: the transfer c is making, as a set of at most one
  filled,    \* filled[d][i][s]: flag of buffer i of d, producer to consumer
  empty      \* empty[d][i][s]: the same flag id, consumer to producer

transferVars == <<at, todo, current, filled, empty>>
allVars == <<vars, transferVars>>

Buffers(d) == 0 .. d.cap - 1

Sent(c)     == {d \in Cross : Produces(c, d)}
Received(c) == Cross \ Sent(c)

(* The buffer whose turn it is for transfer d in the block c is in.        *)
Turn(c) == [d \in Cross |-> {CrossIndex(c, blk[c], d)}]
All == [d \in Cross |-> Buffers(d)]

Ready(flag, ds, is, c) == \A d \in ds : \A i \in is[d], s \in View(c) : flag[d][i][s] > 0

Change(flag, ds, is, c, k) ==
  [d \in Cross |-> [i \in Buffers(d) |-> [s \in Sub |->
     flag[d][i][s] + (IF d \in ds /\ i \in is[d] /\ s \in View(c) THEN k ELSE 0)]]]

Set(flag, ds, is, c)  == Change(flag, ds, is, c, 1)
Take(flag, ds, is, c) == Change(flag, ds, is, c, -1)

Goto(c, place) == at' = [at EXCEPT ![c] = place]

-----------------------------------------------------------------------------

TransferInit ==
  /\ Init
  /\ at = [c \in Core |-> "ahead"]
  /\ todo = [c \in Core |-> {}]
  /\ current = [c \in Core |-> {}]
  /\ filled = [d \in Cross |-> [i \in Buffers(d) |-> [s \in Sub |-> 0]]]
  /\ empty = filled

(* The steps of SSBuffer outside of blocks, and the way in and out.        *)
Opening(c) ==
  /\ at[c] = "ahead"
  /\ ZeroSSBuffer(c) \/ (c \in Sub /\ OpenScope(c))
  /\ UNCHANGED transferVars

(* Mutant: only the first buffer is declared empty.                        *)
DeclareFirst(c) ==
  /\ at[c] = "ahead" /\ pc[c] = "wait"
  /\ empty' = Set(empty, Received(c), [d \in Cross |-> {0}], c)
  /\ Goto(c, "loop")
  /\ UNCHANGED <<vars, todo, current, filled>>

(* setOpForStart.                                                          *)
Declare(c) ==
  /\ at[c] = "ahead" /\ pc[c] = "wait"
  /\ empty' = Set(empty, Received(c), All, c)
  /\ Goto(c, "loop")
  /\ UNCHANGED <<vars, todo, current, filled>>

Going(c) ==
  /\ at[c] = "loop"
  /\ Wait(c) \/ SkipBlock(c) \/ NextRound(c)
  /\ UNCHANGED transferVars

Enter(c) ==
  /\ at[c] = "loop"
  /\ EnterBlock(c)
  /\ Goto(c, "await")
  /\ UNCHANGED <<todo, current, filled, empty>>

(* waitOpForRead; the transfers of the block follow its computation.       *)
AwaitInputs(c) ==
  LET ds == Inputs(c, blk[c]) IN
  /\ at[c] = "await"
  /\ Ready(filled, ds, Turn(c), c)
  /\ filled' = Take(filled, ds, Turn(c), c)
  /\ todo' = [todo EXCEPT ![c] = Outputs(c, blk[c])]
  /\ Goto(c, IF c = Cube THEN "release" ELSE "send")
  /\ UNCHANGED <<vars, current, empty>>

(* Mutant: both buffers of an input are released.                          *)
ReleaseBothInputs(c) ==
  /\ at[c] = "release"
  /\ empty' = Set(empty, Inputs(c, blk[c]), All, c)
  /\ Goto(c, IF c = Cube THEN "send" ELSE "store")
  /\ UNCHANGED <<vars, todo, current, filled>>

(* setOpForWrite: a cube block releases its inputs before it sends.        *)
ReleaseInputs(c) ==
  /\ at[c] = "release"
  /\ empty' = Set(empty, Inputs(c, blk[c]), Turn(c), c)
  /\ Goto(c, IF c = Cube THEN "send" ELSE "store")
  /\ UNCHANGED <<vars, todo, current, filled>>

(* waitOpForWrite, ahead of the copy.                                      *)
AwaitRoom(c) ==
  /\ at[c] = "send" /\ current[c] = {}
  /\ \E d \in todo[c] :
       /\ Ready(empty, {d}, Turn(c), c)
       /\ empty' = Take(empty, {d}, Turn(c), c)
       /\ current' = [current EXCEPT ![c] = {d}]
       /\ todo' = [todo EXCEPT ![c] = @ \ {d}]
  /\ UNCHANGED <<vars, at, filled>>

(* setOpForRead, behind it.                                                *)
SignalData(c) ==
  /\ at[c] = "send" /\ current[c] # {}
  /\ filled' = Set(filled, current[c], Turn(c), c)
  /\ current' = [current EXCEPT ![c] = {}]
  /\ UNCHANGED <<vars, at, todo, empty>>

SendsDone(c) ==
  /\ at[c] = "send" /\ todo[c] = {} /\ current[c] = {}
  /\ Goto(c, IF c = Cube THEN "store" ELSE "release")
  /\ UNCHANGED <<vars, todo, current, filled, empty>>

(* What the conditions have appended to the block.                         *)
LoadWords(c) ==
  /\ at[c] = "store"
  /\ RunBody(c)
  /\ UNCHANGED transferVars

StoreWords(c) ==
  /\ at[c] = "store"
  /\ Publish(c)
  /\ Goto(c, "loop")
  /\ UNCHANGED <<todo, current, filled, empty>>

LeaveLoop(c) ==
  /\ at[c] = "loop"
  /\ EndPass(c)
  /\ Goto(c, "behind")
  /\ UNCHANGED <<todo, current, filled, empty>>

(* waitOpForEnd.                                                           *)
Drain(c) ==
  /\ at[c] = "behind"
  /\ Ready(empty, Sent(c), All, c)
  /\ empty' = Take(empty, Sent(c), All, c)
  /\ Goto(c, IF pass[c] < Passes THEN "ahead" ELSE "through")
  /\ UNCHANGED <<vars, todo, current, filled>>

Closing ==
  /\ at[Cube] = "through"
  /\ CloseScope
  /\ UNCHANGED transferVars

Move(c) ==
  \/ Opening(c) \/ Declare(c)
  \/ Going(c) \/ Enter(c)
  \/ AwaitInputs(c) \/ ReleaseInputs(c)
  \/ AwaitRoom(c) \/ SignalData(c) \/ SendsDone(c)
  \/ LoadWords(c) \/ StoreWords(c)
  \/ LeaveLoop(c) \/ Drain(c)
  \/ c = Cube /\ Closing

Through == Terminated /\ \A c \in Core : at[c] = "through"

TransferNext ==
  \/ \E c \in Core : Move(c)
  \/ Through /\ UNCHANGED allVars

TransferSpec ==
  TransferInit /\ [][TransferNext]_allVars /\ \A c \in Core : WF_allVars(Move(c))

-----------------------------------------------------------------------------

From(d, s) == IF d.toVector THEN Cube ELSE s
To(d, s)   == IF d.toVector THEN s ELSE Cube

(* A block whose condition holds finds the flags of its transfers: what    *)
(* counts the items and what guards the buffers agree, whichever of two    *)
(* buffers it is, in every execution of the loop.  The only wait there is  *)
(* for the "empty" of a consumer that is still between two executions and  *)
(* comes to declare it without flag 15.                                    *)
BlocksNeverStall ==
  \A c \in Core :
    /\ at[c] = "await" => Ready(filled, Inputs(c, blk[c]), Turn(c), c)
    /\ at[c] = "send" =>
         \A d \in todo[c], s \in View(c) :
           at[To(d, s)] \in {"ahead", "behind"} \/ \A i \in Turn(c)[d] : empty[d][i][s] > 0

InBlock(c) == pc[c] \in {"body", "publish"}

(* How often c has declared its inputs empty, or taken back its outputs.   *)
Declared(c) == pass[c] + (IF at[c] \in {"ahead", "behind", "through"} THEN 0 ELSE 1)
Drained(c) == pass[c] - (IF at[c] = "behind" THEN 1 ELSE 0)

Pending(flag, d, s) == flag[d][0][s] + (IF d.cap = 2 THEN flag[d][1][s] ELSE 0)

(* Whenever neither end of a transfer is inside a block, the word the      *)
(* conditions read is the number of its "filled" flags, and "empty" are    *)
(* the other buffers; a consumer that has declared for an execution the    *)
(* producer has not yet come to has added one flag for each buffer.  Once  *)
(* both are through, nothing is left.                                      *)
FlagsMatchCounts ==
  \A d \in Cross, s \in Sub :
    LET p == From(d, s)
        q == To(d, s)
    IN  Zeroed /\ ~InBlock(p) /\ ~InBlock(q) =>
          /\ Pending(filled, d, s) = stat[d][s]
          /\ Pending(empty, d, s) = d.cap * (Declared(q) - Drained(p)) - stat[d][s]

(* With the flags the program still is the one of SSBuffer, with the same  *)
(* progress: no core is held up inside a block, between two executions of  *)
(* the loop or behind the last.                                            *)
FlagsAreTransparent == Spec

=============================================================================
