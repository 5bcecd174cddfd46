------------------------ MODULE TransferSyncProofs ------------------------
(***************************************************************************)
(* For every kernel, every number of blocks and sub-blocks, every loop and *)
(* one or two buffers: each buffer has one owner, no flag is left over and *)
(* every block reads the values of its own iteration.                      *)
(*                                                                         *)
(* The argument.  A buffer's flags and the cores' places in their loops    *)
(* add up to one owner, which is inductive.  A full buffer holds the one   *)
(* iteration its producer has signalled, with that buffer's turn, and its  *)
(* consumer has not awaited; only the owner of a buffer changes it.  Both  *)
(* cores take the turns in the same order, whatever that order is.         *)
(***************************************************************************)
EXTENDS TransferSync, FiniteSetTheorems, TLAPS

States == {"start", "reads", "body", "release", "send", "copy", "signal", "drain", "done"}

FlagType == [kernel -> [Buffer -> [Sub -> Nat]]]

(* The types, without the bound on the size of current.                    *)
Types ==
  /\ kernel \in Kernels /\ mode \in Modes /\ trips \in Nat
  /\ pc \in [Core -> States]
  /\ iter \in [Core -> 0 .. trips]
  /\ blk \in [Core -> Nat \ {0}] /\ \A c \in Core : blk[c] <= NumBlocks(c)
  /\ todo \in [Core -> SUBSET kernel] /\ current \in [Core -> SUBSET kernel]
  /\ filled \in FlagType /\ empty \in FlagType
  /\ data \in [kernel -> [Buffer -> [Sub -> 0 .. trips]]]

(* What a core has in hand at each place of its loop.                      *)
Place(c) ==
  /\ todo[c] \subseteq SentBy(c, blk[c])
  /\ pc[c] \in {"start", "reads", "body", "drain", "done"} => todo[c] = {}
  /\ c # Cube /\ pc[c] = "release" => todo[c] = {}
  /\ pc[c] \notin {"copy", "signal"} => current[c] = {}
  /\ pc[c] \in {"copy", "signal"} => \E d \in SentBy(c, blk[c]) \ todo[c] : current[c] = {d}
  /\ pc[c] \in {"start", "drain", "done"} => blk[c] = 1
  /\ pc[c] = "start" => iter[c] = 0
  /\ pc[c] \in {"drain", "done"} => iter[c] = trips
  /\ pc[c] \notin {"start", "drain", "done"} => iter[c] < trips

PlaceInv == Types /\ \A c \in Core : Place(c)

LEMMA CoreFacts ==
  /\ Cube \in Core /\ Sub \subseteq Core /\ Cube \notin Sub
  /\ \A c \in Core : c # Cube => c \in Sub
  /\ \A c \in Core : NumBlocks(c) \in Nat \ {0} /\ View(c) \subseteq Sub
BY TransferAssumption DEF Core, NumBlocks, View

LEMMA ChangeFacts ==
  ASSUME NEW flag, NEW ds, NEW is, NEW c, NEW k, NEW d \in kernel, NEW i \in Buffer, NEW s \in Sub
  PROVE  Change(flag, ds, is, c, k)[d][i][s] =
           IF d \in ds /\ i \in is /\ s \in View(c) THEN flag[d][i][s] + k ELSE flag[d][i][s]
BY DEF Change

LEMMA SetType ==
  ASSUME NEW flag \in FlagType, NEW ds, NEW is, NEW c
  PROVE  Set(flag, ds, is, c) \in FlagType
<1>1. \A d \in kernel, i \in Buffer, s \in Sub : flag[d][i][s] \in Nat
  BY DEF FlagType
<1> QED
  BY <1>1 DEF Set, Change, FlagType

LEMMA TakeType ==
  ASSUME NEW flag \in FlagType, NEW ds, NEW is, NEW c, Ready(flag, ds, is, c)
  PROVE  Take(flag, ds, is, c) \in FlagType
<1>1. \A d \in kernel, i \in Buffer, s \in Sub : flag[d][i][s] \in Nat
  BY DEF FlagType
<1>2. \A d \in ds, i \in is, s \in View(c) : flag[d][i][s] > 0
  BY DEF Ready
<1> QED
  BY <1>1, <1>2 DEF Take, Change, FlagType

LEMMA SameKernel ==
  ASSUME UNCHANGED <<kernel, mode>>
  PROVE  /\ FlagType' = FlagType /\ Buffer' = Buffer
         /\ \A c : Received(c)' = Received(c) /\ Sent(c)' = Sent(c)
         /\ \A c, b : SentBy(c, b)' = SentBy(c, b) /\ ReceivedBy(c, b)' = ReceivedBy(c, b)
BY DEF FlagType, Buffer, Received, Sent, SentBy, ReceivedBy

LEMMA NextBlockPlace ==
  ASSUME Types, NEW c \in Core, NextBlock(c), iter[c] < trips
  PROVE  /\ pc' \in [Core -> States] /\ iter' \in [Core -> 0 .. trips]
         /\ blk' \in [Core -> Nat \ {0}] /\ \A e \in Core : blk'[e] <= NumBlocks(e)
         /\ \A e \in Core : e # c => pc'[e] = pc[e] /\ iter'[e] = iter[e] /\ blk'[e] = blk[e]
         /\ pc'[c] \in {"reads", "drain"}
         /\ pc'[c] = "drain" => blk'[c] = 1 /\ iter'[c] = trips
         /\ pc'[c] = "reads" => iter'[c] < trips
<1>1. blk[c] \in Nat \ {0} /\ NumBlocks(c) \in Nat \ {0} /\ iter[c] \in 0 .. trips /\ trips \in Nat
  BY CoreFacts DEF Types
<1>2. CASE blk[c] < NumBlocks(c)
  <2>1. blk' = [blk EXCEPT ![c] = blk[c] + 1] /\ pc' = [pc EXCEPT ![c] = "reads"] /\ iter' = iter
    BY <1>2 DEF NextBlock
  <2>2. blk[c] + 1 \in Nat \ {0} /\ blk[c] + 1 <= NumBlocks(c)
    BY <1>1, <1>2
  <2> QED
    BY <2>1, <2>2 DEF Types, States
<1>3. CASE ~ (blk[c] < NumBlocks(c))
  <2>1. /\ blk' = [blk EXCEPT ![c] = 1] /\ iter' = [iter EXCEPT ![c] = iter[c] + 1]
        /\ pc' = [pc EXCEPT ![c] = LoopHead(iter[c] + 1)]
    BY <1>3 DEF NextBlock
  <2>2. iter[c] + 1 \in 0 .. trips
    BY <1>1
  <2>3. LoopHead(iter[c] + 1) = IF iter[c] + 1 < trips THEN "reads" ELSE "drain"
    BY DEF LoopHead
  <2>4. LoopHead(iter[c] + 1) = "drain" => iter[c] + 1 = trips
    BY <1>1, <2>2, <2>3
  <2> QED
    BY <1>1, <2>1, <2>2, <2>3, <2>4 DEF Types, States
<1> QED
  BY <1>2, <1>3

(* The places of the other cores stay.                                     *)
LEMMA OtherPlaces ==
  ASSUME PlaceInv, NEW c \in Core, UNCHANGED <<kernel, mode, trips>>, Types', Place(c)',
         \A e \in Core : e # c =>
           /\ pc'[e] = pc[e] /\ iter'[e] = iter[e] /\ blk'[e] = blk[e]
           /\ todo'[e] = todo[e] /\ current'[e] = current[e]
  PROVE  PlaceInv'
<1>1. ASSUME NEW e \in Core, e # c PROVE Place(e)'
  BY <1>1, SameKernel DEF PlaceInv, Place
<1> QED
  BY <1>1 DEF PlaceInv

LEMMA PlaceInit == Init => PlaceInv
<1> SUFFICES ASSUME Init PROVE PlaceInv
  OBVIOUS
<1>1. mode.trips \in Nat
  BY TransferAssumption DEF Init
<1>2. trips \in Nat /\ 0 \in 0 .. trips
  BY <1>1 DEF Init
<1>3. filled \in FlagType /\ empty \in FlagType
  BY DEF Init, FlagType
<1>4. data \in [kernel -> [Buffer -> [Sub -> 0 .. trips]]]
  BY <1>2 DEF Init
<1>5. Types
  BY <1>2, <1>3, <1>4, CoreFacts DEF Init, Types, States
<1>6. \A c \in Core : Place(c)
  BY DEF Init, Place
<1> QED
  BY <1>5, <1>6 DEF PlaceInv

LEMMA PlaceStep ==
  ASSUME PlaceInv, NEW c \in Core, CoreStep(c)
  PROVE  PlaceInv'
<1> USE CoreFacts
<1>0. Types /\ Place(c) /\ UNCHANGED <<kernel, mode, trips>>
  BY DEF PlaceInv, CoreStep, Start, AwaitInputs, ComputeBlock, ReleaseInputs, AwaitRoom,
         Transfer, SignalData, SendsDone, Drain
<1>1. CASE Start(c)
  <2>1. empty' \in FlagType'
    BY <1>0, <1>1, SetType, SameKernel DEF Start, Types
  <2>2. Types' /\ Place(c)'
    BY <1>0, <1>1, <2>1, SameKernel DEF Start, Types, Place, States, LoopHead
  <2> QED
    BY <1>0, <1>1, <2>2, OtherPlaces DEF Start, Types
<1>2. CASE AwaitInputs(c)
  <2>1. filled' \in FlagType'
    BY <1>0, <1>2, TakeType, SameKernel DEF AwaitInputs, Types
  <2>2. Types' /\ Place(c)'
    BY <1>0, <1>2, <2>1, SameKernel DEF AwaitInputs, Types, Place, States
  <2> QED
    BY <1>0, <1>2, <2>2, OtherPlaces DEF AwaitInputs, Types
<1>3. CASE ComputeBlock(c)
  <2>1. SentBy(c, blk[c]) \subseteq kernel
    BY DEF SentBy, Sent
  <2>2. Types' /\ Place(c)'
    BY <1>0, <1>3, <2>1, SameKernel DEF ComputeBlock, Types, Place, States
  <2> QED
    BY <1>0, <1>3, <2>2, OtherPlaces DEF ComputeBlock, Types
<1>4. CASE ReleaseInputs(c)
  <2>1. empty' \in FlagType'
    BY <1>0, <1>4, SetType, SameKernel DEF ReleaseInputs, Types
  <2>2. CASE c = Cube
    <3>1. Types' /\ Place(c)'
      BY <1>0, <1>4, <2>1, <2>2, SameKernel DEF ReleaseInputs, Types, Place, States
    <3> QED
      BY <1>0, <1>4, <2>2, <3>1, OtherPlaces DEF ReleaseInputs, Types
  <2>3. CASE c # Cube
    <3>1. NextBlock(c) /\ iter[c] < trips
      BY <1>0, <1>4, <2>3 DEF ReleaseInputs, Place
    <3>2. Types' /\ Place(c)'
      BY <1>0, <1>4, <2>1, <2>3, <3>1, NextBlockPlace, SameKernel DEF ReleaseInputs, Types, Place
    <3> QED
      BY <1>0, <1>4, <3>1, <3>2, NextBlockPlace, OtherPlaces DEF ReleaseInputs
  <2> QED
    BY <2>2, <2>3
<1>5. CASE AwaitRoom(c)
  <2>1. PICK d \in todo[c] :
          /\ Ready(empty, {d}, {Turn(c)}, c)
          /\ empty' = Take(empty, {d}, {Turn(c)}, c)
          /\ todo' = [todo EXCEPT ![c] = @ \ {d}]
          /\ current' = [current EXCEPT ![c] = {d}]
    BY <1>5 DEF AwaitRoom
  <2>2. d \in kernel /\ d \in SentBy(c, blk[c])
    BY <1>0 DEF Types, Place
  <2>3. empty' \in FlagType'
    BY <1>0, <2>1, TakeType, SameKernel DEF Types
  <2>4. Types' /\ Place(c)'
    BY <1>0, <1>5, <2>1, <2>2, <2>3, SameKernel DEF AwaitRoom, Types, Place, States
  <2> QED
    BY <1>0, <1>5, <2>1, <2>4, OtherPlaces DEF AwaitRoom, Types
<1>6. CASE Transfer(c)
  <2>1. iter[c] + 1 \in 0 .. trips
    BY <1>0, <1>6 DEF Transfer, Types, Place
  <2>2. data' \in [kernel -> [Buffer -> [Sub -> 0 .. trips]]]
    BY <1>0, <1>6, <2>1 DEF Transfer, Types
  <2>3. Types' /\ Place(c)'
    BY <1>0, <1>6, <2>2, SameKernel DEF Transfer, Types, Place, States
  <2> QED
    BY <1>0, <1>6, <2>3, OtherPlaces DEF Transfer, Types
<1>7. CASE SignalData(c)
  <2>1. filled' \in FlagType'
    BY <1>0, <1>7, SetType, SameKernel DEF SignalData, Types
  <2>2. Types' /\ Place(c)'
    BY <1>0, <1>7, <2>1, SameKernel DEF SignalData, Types, Place, States
  <2> QED
    BY <1>0, <1>7, <2>2, OtherPlaces DEF SignalData, Types
<1>8. CASE SendsDone(c)
  <2>1. CASE c = Cube
    <3>1. NextBlock(c) /\ iter[c] < trips
      BY <1>0, <1>8, <2>1 DEF SendsDone, Place
    <3>2. Types' /\ Place(c)'
      BY <1>0, <1>8, <2>1, <3>1, NextBlockPlace, SameKernel DEF SendsDone, Types, Place
    <3> QED
      BY <1>0, <1>8, <3>1, <3>2, NextBlockPlace, OtherPlaces DEF SendsDone
  <2>2. CASE c # Cube
    <3>1. Types' /\ Place(c)'
      BY <1>0, <1>8, <2>2, SameKernel DEF SendsDone, Types, Place, States
    <3> QED
      BY <1>0, <1>8, <2>2, <3>1, OtherPlaces DEF SendsDone, Types
  <2> QED
    BY <2>1, <2>2
<1>9. CASE Drain(c)
  <2>1. empty' \in FlagType'
    BY <1>0, <1>9, TakeType, SameKernel DEF Drain, Types
  <2>2. Types' /\ Place(c)'
    BY <1>0, <1>9, <2>1, SameKernel DEF Drain, Types, Place, States
  <2> QED
    BY <1>0, <1>9, <2>2, OtherPlaces DEF Drain, Types
<1> QED
  BY <1>1, <1>2, <1>3, <1>4, <1>5, <1>6, <1>7, <1>8, <1>9 DEF CoreStep

LEMMA PlaceNext == PlaceInv /\ [Next]_vars => PlaceInv'
<1> SUFFICES ASSUME PlaceInv, [Next]_vars PROVE PlaceInv'
  OBVIOUS
<1>1. CASE UNCHANGED vars
  BY <1>1, SameKernel DEF vars, PlaceInv, Types, Place
<1> QED
  BY <1>1, PlaceStep DEF Next

LEMMA PlaceTypes == PlaceInv => TypeOK
<1> SUFFICES ASSUME PlaceInv PROVE TypeOK
  OBVIOUS
<1>1. ASSUME NEW c \in Core PROVE Cardinality(current[c]) <= 1
  <2>1. CASE current[c] = {}
    <3>1. Cardinality(current[c]) = 0
      BY <2>1, FS_EmptySet
    <3> QED
      BY <3>1
  <2>2. CASE current[c] # {}
    <3>1. PICK d : current[c] = {d}
      BY <2>2 DEF PlaceInv, Place
    <3>2. Cardinality(current[c]) = 1
      BY <3>1, FS_Singleton
    <3> QED
      BY <3>2
  <2> QED
    BY <2>1, <2>2
<1>2. \A c \in Core : iter[c] \in 0 .. trips /\ blk[c] \in 1 .. NumBlocks(c)
  BY CoreFacts DEF PlaceInv, Types
<1> QED
  BY <1>1, <1>2 DEF PlaceInv, Place, Types, TypeOK, States, FlagType

(* Every variable keeps its type: a flag is only taken where one is set, a *)
(* core makes one transfer at a time.                                      *)
THEOREM TypeCorrect == Spec => []TypeOK
BY PlaceInit, PlaceNext, PlaceTypes, PTL DEF Spec

---------------------------------------------------------------------------
(* One owner for each buffer.                                              *)

LEMMA Sides ==
  ASSUME Types, NEW d \in kernel, NEW s \in Sub, NEW c \in Core
  PROVE  /\ Producer(d, s) \in Core /\ Consumer(d, s) \in Core
         /\ Producer(d, s) # Consumer(d, s)
         /\ d \in Sent(c) /\ s \in View(c) <=> c = Producer(d, s)
         /\ d \in Received(c) /\ s \in View(c) <=> c = Consumer(d, s)
<1>1. d.toVector \in BOOLEAN
  BY TransferAssumption DEF Types
<1>2. CASE d.toVector
  BY <1>2, CoreFacts DEF Producer, Consumer, Sent, Received, Produces, View
<1>3. CASE ~ d.toVector
  BY <1>3, CoreFacts DEF Producer, Consumer, Sent, Received, Produces, View
<1> QED
  BY <1>1, <1>2, <1>3

(* From the wait ahead of a block to its release.                          *)
InHand(c) ==
  \/ pc[c] = "body"
  \/ c = Cube /\ pc[c] = "release"
  \/ c # Cube /\ pc[c] \in {"send", "copy", "signal", "release"}

LEMMA ReadingFacts ==
  ASSUME NEW c, NEW d
  PROVE  d \in Reading(c) <=> InHand(c) /\ d \in ReceivedBy(c, blk[c])
BY DEF Reading, InHand

(* A core's step leaves the other cores where they are.                    *)
LEMMA StepsApart ==
  ASSUME PlaceInv, NEW c \in Core, CoreStep(c)
  PROVE  /\ UNCHANGED <<kernel, mode, trips>>
         /\ \A e \in Core : e # c =>
              /\ pc'[e] = pc[e] /\ iter'[e] = iter[e] /\ blk'[e] = blk[e]
              /\ todo'[e] = todo[e] /\ current'[e] = current[e]
<1>1. UNCHANGED <<kernel, mode, trips>>
  BY DEF CoreStep, Start, AwaitInputs, ComputeBlock, ReleaseInputs, AwaitRoom,
         Transfer, SignalData, SendsDone, Drain
<1>2. ASSUME NEW e \in Core, e # c
      PROVE  todo'[e] = todo[e] /\ current'[e] = current[e]
  BY <1>2 DEF PlaceInv, Types, CoreStep, Start, AwaitInputs, ComputeBlock, ReleaseInputs, AwaitRoom,
              Transfer, SignalData, SendsDone, Drain
<1>3. ASSUME NEW e \in Core, e # c
      PROVE  pc'[e] = pc[e] /\ iter'[e] = iter[e] /\ blk'[e] = blk[e]
  BY <1>3 DEF PlaceInv, Types, CoreStep, Start, AwaitInputs, ComputeBlock, ReleaseInputs, AwaitRoom,
              Transfer, SignalData, SendsDone, Drain, NextBlock
<1> QED
  BY <1>1, <1>2, <1>3

LEMMA Undisturbed ==
  ASSUME PlaceInv, NEW c \in Core, CoreStep(c), NEW e \in Core, e # c
  PROVE  /\ Turn(e)' = Turn(e)
         /\ (InHand(e)' <=> InHand(e))
         /\ Reading(e)' = Reading(e)
BY StepsApart, SameKernel DEF Turn, InHand, Reading

Copying(d, i, s) == d \in current[Producer(d, s)] /\ i = Turn(Producer(d, s))
Using(d, i, s) == d \in Reading(Consumer(d, s)) /\ i = Turn(Consumer(d, s))
Ahead(d, s) == pc[Consumer(d, s)] = "start"
Over(d, s) == pc[Producer(d, s)] = "done"

Owners(d, i, s) ==
  filled[d][i][s] + empty[d][i][s]
    + One(Copying(d, i, s)) + One(Using(d, i, s)) + One(Ahead(d, s)) + One(Over(d, s))

OwnerInv == \A d \in kernel, i \in Buffer, s \in Sub : Owners(d, i, s) = 1

LEMMA OwnersAre == OneOwner <=> OwnerInv
BY DEF OneOwner, OwnerInv, Owners, Copying, Using, Ahead, Over

LEMMA FlagTypes ==
  ASSUME Types, NEW d \in kernel, NEW i \in Buffer, NEW s \in Sub
  PROVE  filled[d][i][s] \in Nat /\ empty[d][i][s] \in Nat
BY DEF Types, FlagType

(* A step of a core that is neither side of a transfer.                    *)
LEMMA Bystander ==
  ASSUME PlaceInv, NEW c \in Core, CoreStep(c), NEW d \in kernel, NEW i \in Buffer, NEW s \in Sub,
         c # Producer(d, s), c # Consumer(d, s)
  PROVE  /\ filled'[d][i][s] = filled[d][i][s] /\ empty'[d][i][s] = empty[d][i][s]
         /\ Owners(d, i, s)' = Owners(d, i, s)
<1> DEFINE p == Producer(d, s)
           q == Consumer(d, s)
<1>1. p \in Core /\ q \in Core
  BY Sides DEF PlaceInv
<1>2. ~ (d \in Sent(c) /\ s \in View(c)) /\ ~ (d \in Received(c) /\ s \in View(c))
  BY Sides DEF PlaceInv
<1>3. \A e \in current[c] : e \in Sent(c)
  BY DEF PlaceInv, Place, SentBy
<1>4. \A e \in todo[c] : e \in Sent(c)
  BY DEF PlaceInv, Place, SentBy
<1>5. filled'[d][i][s] = filled[d][i][s]
  BY <1>2, <1>3, ChangeFacts
     DEF CoreStep, Start, AwaitInputs, ComputeBlock, ReleaseInputs, AwaitRoom,
         Transfer, SignalData, SendsDone, Drain, Set, Take, ReceivedBy
<1>6. empty'[d][i][s] = empty[d][i][s]
  <2>1. CASE AwaitRoom(c)
    <3>1. PICK e \in todo[c] : empty' = Take(empty, {e}, {Turn(c)}, c)
      BY <2>1 DEF AwaitRoom
    <3> QED
      BY <1>2, <1>4, <3>1, ChangeFacts DEF Take
  <2>2. CASE ~ AwaitRoom(c)
    BY <1>2, <2>2, ChangeFacts
       DEF CoreStep, Start, AwaitInputs, ComputeBlock, ReleaseInputs,
           Transfer, SignalData, SendsDone, Drain, Set, Take, ReceivedBy
  <2> QED
    BY <2>1, <2>2
<1>7. /\ (Copying(d, i, s)' <=> Copying(d, i, s)) /\ (Using(d, i, s)' <=> Using(d, i, s))
      /\ (Ahead(d, s)' <=> Ahead(d, s)) /\ (Over(d, s)' <=> Over(d, s))
  BY <1>1, StepsApart, Undisturbed DEF Copying, Using, Ahead, Over, Producer, Consumer
<1> QED
  BY <1>5, <1>6, <1>7 DEF Owners, One

LEMMA OwnerInit == Init => OwnerInv
BY DEF Init, OwnerInv, Owners, Copying, Using, Ahead, Over, One, Reading, Producer, Consumer, Core

(* A step of the producer, buffer by buffer.                               *)
LEMMA ProducerStep ==
  ASSUME PlaceInv, OwnerInv, NEW d \in kernel, NEW i \in Buffer, NEW s \in Sub,
         CoreStep(Producer(d, s))
  PROVE  Owners(d, i, s)' = 1
<1> DEFINE c == Producer(d, s)
           q == Consumer(d, s)
<1>1. /\ c \in Core /\ q \in Core /\ c # q /\ d \in Sent(c) /\ s \in View(c) /\ d \notin Received(c)
  <2>1. Types /\ c \in Core /\ q \in Core /\ c # q
    BY Sides, CoreFacts DEF PlaceInv
  <2> QED
    BY <2>1, Sides
<1>2. /\ PlaceInv' /\ Place(c) /\ Place(c)'
  BY <1>1, PlaceStep DEF PlaceInv
<1>3. /\ filled[d][i][s] \in Nat /\ empty[d][i][s] \in Nat
      /\ filled'[d][i][s] \in Nat /\ empty'[d][i][s] \in Nat
  BY <1>1, <1>2, FlagTypes, StepsApart, SameKernel DEF PlaceInv, Types, FlagType
<1>4. /\ (Using(d, i, s)' <=> Using(d, i, s)) /\ (Ahead(d, s)' <=> Ahead(d, s))
  BY <1>1, Undisturbed, StepsApart DEF Using, Ahead, Consumer
<1>5. Owners(d, i, s) = 1
  BY DEF OwnerInv
<1>6. SUFFICES filled'[d][i][s] + empty'[d][i][s] + One(Copying(d, i, s)') + One(Over(d, s)') =
               filled[d][i][s] + empty[d][i][s] + One(Copying(d, i, s)) + One(Over(d, s))
  BY <1>3, <1>4, <1>5 DEF Owners, One
<1>7. /\ One(Copying(d, i, s)) = IF d \in current[c] /\ i = Turn(c) THEN 1 ELSE 0
      /\ One(Copying(d, i, s)') = IF d \in current'[c] /\ i = Turn(c)' THEN 1 ELSE 0
      /\ One(Over(d, s)) = IF pc[c] = "done" THEN 1 ELSE 0
      /\ One(Over(d, s)') = IF pc'[c] = "done" THEN 1 ELSE 0
  BY DEF Copying, Over, Producer, One
<1> HIDE DEF c, q
<1>8. CASE Start(c) \/ AwaitInputs(c) \/ ComputeBlock(c) \/ ReleaseInputs(c) \/ SendsDone(c)
  <2>1. current[c] = {} /\ current'[c] = {} /\ pc[c] # "done" /\ pc'[c] # "done"
    <3>1. CASE Start(c) \/ AwaitInputs(c) \/ ComputeBlock(c)
      BY <1>1, <1>2, <3>1 DEF Place, PlaceInv, Types, Start, AwaitInputs, ComputeBlock, LoopHead
    <3>2. CASE ReleaseInputs(c)
      BY <1>1, <1>2, <3>2 DEF Place, PlaceInv, Types, ReleaseInputs, NextBlock, LoopHead
    <3>3. CASE SendsDone(c)
      BY <1>1, <1>2, <3>3 DEF Place, PlaceInv, Types, SendsDone, NextBlock, LoopHead
    <3> QED
      BY <1>8, <3>1, <3>2, <3>3
  <2>2. filled'[d][i][s] = filled[d][i][s] /\ empty'[d][i][s] = empty[d][i][s]
    BY <1>1, <1>8, ChangeFacts
       DEF Start, AwaitInputs, ComputeBlock, ReleaseInputs, SendsDone, Set, Take, ReceivedBy
  <2> QED
    BY <1>7, <2>1, <2>2
<1>9. CASE AwaitRoom(c)
  <2>1. PICK e \in todo[c] :
          /\ empty' = Take(empty, {e}, {Turn(c)}, c)
          /\ current' = [current EXCEPT ![c] = {e}]
    BY <1>9 DEF AwaitRoom
  <2>2. current[c] = {} /\ current'[c] = {e} /\ pc[c] # "done" /\ pc'[c] # "done"
    BY <1>1, <1>2, <1>9, <2>1, ZenonT(60) DEF Place, PlaceInv, Types, AwaitRoom
  <2>3. Turn(c)' = Turn(c) /\ filled'[d][i][s] = filled[d][i][s]
    BY <1>9 DEF Turn, AwaitRoom, c
  <2>4. empty'[d][i][s] = IF d = e /\ i = Turn(c) THEN empty[d][i][s] - 1 ELSE empty[d][i][s]
    BY <1>1, <1>3, <2>1, ChangeFacts DEF Take
  <2> QED
    BY <1>3, <1>7, <2>2, <2>3, <2>4
<1>10. CASE Transfer(c)
  <2>1. current' = current /\ pc[c] # "done" /\ pc'[c] # "done" /\ Turn(c)' = Turn(c)
    BY <1>1, <1>2, <1>10 DEF PlaceInv, Types, Transfer, Turn, c
  <2> QED
    BY <1>7, <1>10, <2>1 DEF Transfer
<1>11. CASE SignalData(c)
  <2>1. current'[c] = {} /\ pc[c] # "done" /\ pc'[c] # "done" /\ empty' = empty
    BY <1>1, <1>2, <1>11 DEF PlaceInv, Types, SignalData
  <2>2. filled'[d][i][s] = IF d \in current[c] /\ i = Turn(c) THEN filled[d][i][s] + 1 ELSE filled[d][i][s]
    BY <1>1, <1>11, ChangeFacts DEF SignalData, Set
  <2> QED
    BY <1>3, <1>7, <2>1, <2>2
<1>12. CASE Drain(c)
  <2>1. current[c] = {} /\ current'[c] = {} /\ pc[c] # "done" /\ pc'[c] = "done" /\ filled' = filled
    BY <1>1, <1>2, <1>12 DEF Place, PlaceInv, Types, Drain
  <2>2. empty'[d][i][s] = empty[d][i][s] - 1
    BY <1>1, <1>3, <1>12, ChangeFacts DEF Drain, Take
  <2> QED
    BY <1>3, <1>7, <2>1, <2>2
<1> QED
  BY <1>8, <1>9, <1>10, <1>11, <1>12 DEF CoreStep, c

(* A step of the consumer.                                                 *)
LEMMA ConsumerStep ==
  ASSUME PlaceInv, OwnerInv, NEW d \in kernel, NEW i \in Buffer, NEW s \in Sub,
         CoreStep(Consumer(d, s))
  PROVE  Owners(d, i, s)' = 1
<1> DEFINE c == Consumer(d, s)
           p == Producer(d, s)
<1>1. /\ c \in Core /\ p \in Core /\ c # p /\ d \in Received(c) /\ s \in View(c) /\ d \notin Sent(c)
  <2>1. Types /\ c \in Core /\ p \in Core /\ c # p
    BY Sides, CoreFacts DEF PlaceInv
  <2> QED
    BY <2>1, Sides
<1>2. /\ PlaceInv' /\ Place(c) /\ Place(c)'
  BY <1>1, PlaceStep DEF PlaceInv
<1>3. /\ filled[d][i][s] \in Nat /\ empty[d][i][s] \in Nat
      /\ filled'[d][i][s] \in Nat /\ empty'[d][i][s] \in Nat
  BY <1>1, <1>2, FlagTypes, StepsApart, SameKernel DEF PlaceInv, Types, FlagType
<1>4. /\ (Copying(d, i, s)' <=> Copying(d, i, s)) /\ (Over(d, s)' <=> Over(d, s))
  BY <1>1, Undisturbed, StepsApart DEF Copying, Over, Producer
<1>5. Owners(d, i, s) = 1
  BY DEF OwnerInv
<1>6. SUFFICES filled'[d][i][s] + empty'[d][i][s] + One(Using(d, i, s)') + One(Ahead(d, s)') =
               filled[d][i][s] + empty[d][i][s] + One(Using(d, i, s)) + One(Ahead(d, s))
  BY <1>3, <1>4, <1>5 DEF Owners, One
<1>7. /\ One(Using(d, i, s)) = IF InHand(c) /\ d \in ReceivedBy(c, blk[c]) /\ i = Turn(c) THEN 1 ELSE 0
      /\ One(Using(d, i, s)') =
           IF InHand(c)' /\ d \in ReceivedBy(c, blk'[c]) /\ i = Turn(c)' THEN 1 ELSE 0
      /\ One(Ahead(d, s)) = IF pc[c] = "start" THEN 1 ELSE 0
      /\ One(Ahead(d, s)') = IF pc'[c] = "start" THEN 1 ELSE 0
  <2>1. UNCHANGED <<kernel, mode>>
    BY <1>1, StepsApart
  <2>2. d \in Reading(c) <=> InHand(c) /\ d \in ReceivedBy(c, blk[c])
    BY ReadingFacts
  <2>3. d \in Reading(c)' <=> InHand(c)' /\ d \in ReceivedBy(c, blk'[c])
    BY <2>1, SameKernel DEF Reading, InHand, Consumer, Received, ReceivedBy, Produces
  <2> QED
    BY <2>2, <2>3 DEF Using, Ahead, Consumer, One
<1> HIDE DEF c, p
<1>8. CASE Start(c)
  <2>1. pc[c] = "start" /\ pc'[c] \in {"reads", "drain"} /\ filled' = filled
    BY <1>1, <1>2, <1>8 DEF PlaceInv, Types, Start, LoopHead
  <2>2. ~ InHand(c) /\ ~ InHand(c)'
    BY <2>1 DEF InHand, c, Consumer
  <2>3. empty'[d][i][s] = empty[d][i][s] + 1
    BY <1>1, <1>8, ChangeFacts DEF Start, Set
  <2> QED
    BY <1>3, <1>7, <2>1, <2>2, <2>3
<1>9. CASE AwaitInputs(c)
  <2>1. pc[c] = "reads" /\ pc'[c] = "body" /\ empty' = empty /\ blk' = blk
    BY <1>1, <1>2, <1>9 DEF PlaceInv, Types, AwaitInputs
  <2>2. ~ InHand(c) /\ InHand(c)' /\ Turn(c)' = Turn(c)
    BY <1>9, <2>1 DEF InHand, Turn, AwaitInputs, c, Consumer
  <2>3. filled'[d][i][s] =
          IF d \in ReceivedBy(c, blk[c]) /\ i = Turn(c) THEN filled[d][i][s] - 1 ELSE filled[d][i][s]
    BY <1>1, <1>3, <1>9, ChangeFacts DEF AwaitInputs, Take
  <2> QED
    BY <1>3, <1>7, <2>1, <2>2, <2>3
<1>10. CASE ComputeBlock(c)
  <2>1. pc[c] = "body" /\ pc'[c] = (IF c = Cube THEN "release" ELSE "send") /\ blk' = blk
    BY <1>1, <1>2, <1>10 DEF PlaceInv, Types, ComputeBlock
  <2>2. InHand(c) /\ InHand(c)' /\ Turn(c)' = Turn(c)
    BY <1>10, <2>1 DEF InHand, Turn, ComputeBlock, c, Consumer
  <2> QED
    BY <1>7, <1>10, <2>1, <2>2 DEF ComputeBlock
<1>11. CASE ReleaseInputs(c)
  <2>1. pc[c] = "release" /\ pc'[c] \in {"reads", "drain", "send"} /\ (pc'[c] = "send" => c = Cube)
    BY <1>1, <1>2, <1>11 DEF PlaceInv, Types, ReleaseInputs, NextBlock, LoopHead
  <2>2. InHand(c) /\ ~ InHand(c)' /\ filled' = filled
    BY <1>11, <2>1 DEF InHand, ReleaseInputs, c, Consumer
  <2>3. empty'[d][i][s] =
          IF d \in ReceivedBy(c, blk[c]) /\ i = Turn(c) THEN empty[d][i][s] + 1 ELSE empty[d][i][s]
    BY <1>1, <1>3, <1>11, ChangeFacts DEF ReleaseInputs, Set
  <2> QED
    BY <1>3, <1>7, <2>1, <2>2, <2>3
<1>12. CASE AwaitRoom(c)
  <2>1. PICK e \in todo[c] : empty' = Take(empty, {e}, {Turn(c)}, c)
    BY <1>12 DEF AwaitRoom
  <2>2. e \in Sent(c)
    BY <1>2 DEF Place, SentBy
  <2>3. pc[c] = "send" /\ pc'[c] = "copy" /\ blk' = blk /\ filled' = filled
    BY <1>1, <1>2, <1>12 DEF PlaceInv, Types, AwaitRoom
  <2>4. (InHand(c)' <=> InHand(c)) /\ Turn(c)' = Turn(c)
    BY <1>12, <2>3 DEF InHand, Turn, AwaitRoom, c, Consumer
  <2>5. empty'[d][i][s] = empty[d][i][s]
    BY <1>1, <2>1, <2>2, ChangeFacts DEF Take
  <2> QED
    BY <1>7, <2>3, <2>4, <2>5
<1>13. CASE Transfer(c)
  <2>1. pc[c] = "copy" /\ pc'[c] = "signal" /\ blk' = blk
    BY <1>1, <1>2, <1>13 DEF PlaceInv, Types, Transfer
  <2>2. (InHand(c)' <=> InHand(c)) /\ Turn(c)' = Turn(c)
    BY <1>13, <2>1 DEF InHand, Turn, Transfer, c, Consumer
  <2> QED
    BY <1>7, <1>13, <2>1, <2>2 DEF Transfer
<1>14. CASE SignalData(c)
  <2>1. pc[c] = "signal" /\ pc'[c] = "send" /\ blk' = blk /\ empty' = empty
    BY <1>1, <1>2, <1>14 DEF PlaceInv, Types, SignalData
  <2>2. (InHand(c)' <=> InHand(c)) /\ Turn(c)' = Turn(c)
    BY <1>14, <2>1 DEF InHand, Turn, SignalData, c, Consumer
  <2>3. d \notin current[c]
    BY <1>1, <1>2, <2>1 DEF Place, SentBy
  <2>4. filled'[d][i][s] = filled[d][i][s]
    BY <1>14, <2>3, ChangeFacts DEF SignalData, Set
  <2> QED
    BY <1>7, <2>1, <2>2, <2>4
<1>15. CASE SendsDone(c)
  <2>1. CASE c = Cube
    <3>1. pc[c] = "send" /\ pc'[c] \in {"reads", "drain"}
      BY <1>1, <1>2, <1>15, <2>1 DEF PlaceInv, Types, SendsDone, NextBlock, LoopHead
    <3>2. ~ InHand(c) /\ ~ InHand(c)'
      BY <2>1, <3>1 DEF InHand, c, Consumer
    <3> QED
      BY <1>7, <1>15, <3>1, <3>2 DEF SendsDone
  <2>2. CASE c # Cube
    <3>1. pc[c] = "send" /\ pc'[c] = "release" /\ blk' = blk /\ iter' = iter
      BY <1>1, <1>2, <1>15, <2>2 DEF PlaceInv, Types, SendsDone
    <3>2. InHand(c) /\ InHand(c)' /\ Turn(c)' = Turn(c)
      BY <1>15, <2>2, <3>1 DEF InHand, Turn, SendsDone, c, Consumer
    <3> QED
      BY <1>7, <1>15, <3>1, <3>2 DEF SendsDone
  <2> QED
    BY <2>1, <2>2
<1>16. CASE Drain(c)
  <2>1. pc[c] = "drain" /\ pc'[c] = "done" /\ filled' = filled
    BY <1>1, <1>2, <1>16 DEF PlaceInv, Types, Drain
  <2>2. ~ InHand(c) /\ ~ InHand(c)'
    BY <2>1 DEF InHand, c, Consumer
  <2>3. empty'[d][i][s] = empty[d][i][s]
    BY <1>1, <1>16, ChangeFacts DEF Drain, Take
  <2> QED
    BY <1>7, <2>1, <2>2, <2>3
<1> QED
  BY <1>8, <1>9, <1>10, <1>11, <1>12, <1>13, <1>14, <1>15, <1>16 DEF CoreStep, c

LEMMA OwnerStep ==
  ASSUME PlaceInv, OwnerInv, NEW c \in Core, CoreStep(c)
  PROVE  OwnerInv'
<1>1. kernel' = kernel /\ Buffer' = Buffer
  BY StepsApart, SameKernel
<1>2. ASSUME NEW d \in kernel, NEW i \in Buffer, NEW s \in Sub
      PROVE  Owners(d, i, s)' = 1
  <2>1. CASE c = Producer(d, s)
    BY <2>1, ProducerStep
  <2>2. CASE c = Consumer(d, s)
    BY <2>2, ConsumerStep
  <2>3. CASE c # Producer(d, s) /\ c # Consumer(d, s)
    BY <2>3, Bystander DEF OwnerInv
  <2> QED
    BY <2>1, <2>2, <2>3
<1> QED
  BY <1>1, <1>2 DEF OwnerInv

LEMMA OwnerNext == PlaceInv /\ OwnerInv /\ [Next]_vars => OwnerInv'
<1> SUFFICES ASSUME PlaceInv, OwnerInv, [Next]_vars PROVE OwnerInv'
  OBVIOUS
<1>1. CASE UNCHANGED vars
  BY <1>1 DEF vars, OwnerInv, Owners, Copying, Using, Ahead, Over, Reading, Turn,
              Buffer, Received, ReceivedBy, Producer, Consumer
<1> QED
  BY <1>1, OwnerStep DEF Next

(* At any time a buffer belongs to exactly one side, or to the flag that   *)
(* hands it over: neither side touches a buffer the other has, and no flag *)
(* is set twice.                                                           *)
THEOREM BuffersHaveOneOwner == Spec => []OneOwner
BY PlaceInit, PlaceNext, OwnerInit, OwnerNext, OwnersAre, PTL DEF Spec

LEMMA OwnerDrained == PlaceInv /\ OwnerInv => FlagsDrained
<1> SUFFICES ASSUME PlaceInv, OwnerInv, Terminated, NEW d \in kernel, NEW i \in Buffer, NEW s \in Sub
             PROVE  filled[d][i][s] = 0 /\ empty[d][i][s] = 0
  BY DEF FlagsDrained
<1>1. Owners(d, i, s) = 1 /\ Over(d, s)
  BY Sides, CoreFacts DEF OwnerInv, Over, Terminated, PlaceInv
<1> QED
  BY <1>1, FlagTypes DEF Owners, One, PlaceInv

(* When every core is done no flag of a transfer is set.                   *)
THEOREM FlagsAreDrained == Spec => []FlagsDrained
BY PlaceInit, PlaceNext, OwnerInit, OwnerNext, OwnerDrained, PTL DEF Spec

---------------------------------------------------------------------------
(* The value in a buffer.  SentCount and TakenCount number the iterations  *)
(* whose value a core has signalled and awaited; TurnAt is the buffer of   *)
(* the iteration after k others.                                           *)

TurnAt(k) ==
  IF mode.buffers = 1 \/ DivSI(mode.lb + k * mode.step, mode.step) % 2 = 0 THEN 0 ELSE 1

InBlock == {"body", "release", "send", "copy", "signal"}

SentYet(c, d) ==
  \/ blk[c] > d.src
  \/ blk[c] = d.src /\ pc[c] \in InBlock \ {"body"} /\ d \notin todo[c] /\ d \notin current[c]

TakenYet(c, d) == blk[c] > d.dst \/ (blk[c] = d.dst /\ pc[c] \in InBlock)

SentCount(c, d) == iter[c] + One(SentYet(c, d))
TakenCount(c, d) == iter[c] + One(TakenYet(c, d))

LEMMA TurnFacts ==
  /\ \A c : Turn(c) = TurnAt(iter[c])
  /\ Types => \A k : TurnAt(k) \in Buffer
<1>1. Types => mode.buffers \in {1, 2}
  BY TransferAssumption DEF Types
<1> QED
  BY <1>1 DEF Turn, TurnAt, Buffer

LEMMA BlockBounds ==
  ASSUME Types, NEW d \in kernel
  PROVE  /\ \A c \in Core : d \in Sent(c) => d.src \in Nat \ {0} /\ d.src <= NumBlocks(c)
         /\ \A c \in Core : d \in Received(c) => d.dst \in Nat \ {0} /\ d.dst <= NumBlocks(c)
<1>1. \/ d.toVector = TRUE /\ d.src \in 1 .. CubeBlocks /\ d.dst \in 1 .. VectorBlocks
      \/ d.toVector = FALSE /\ d.src \in 1 .. VectorBlocks /\ d.dst \in 1 .. CubeBlocks
  BY TransferAssumption DEF Types
<1>2. CubeBlocks \in Nat /\ VectorBlocks \in Nat
  BY TransferAssumption
<1> QED
  BY <1>1, <1>2 DEF Sent, Received, Produces, NumBlocks

(* The counts grow with the flags only.                                    *)
LEMMA SentStep ==
  ASSUME PlaceInv, NEW c \in Core, CoreStep(c), NEW d \in kernel, d \in Sent(c)
  PROVE  IF SignalData(c) /\ d \in current[c]
           THEN SentCount(c, d) = iter[c] /\ SentCount(c, d)' = iter[c] + 1
           ELSE SentCount(c, d)' = SentCount(c, d)
<1>1. /\ Types /\ Place(c) /\ d.src \in Nat \ {0} /\ d.src <= NumBlocks(c)
      /\ iter[c] \in Nat /\ blk[c] \in Nat \ {0} /\ NumBlocks(c) \in Nat
  BY BlockBounds, CoreFacts DEF PlaceInv, Types
<1>2. d \in SentBy(c, blk[c]) <=> blk[c] = d.src
  BY DEF SentBy
<1>3. CASE SignalData(c)
  <2>1. pc[c] = "signal" /\ pc'[c] = "send" /\ current'[c] = {} /\ UNCHANGED <<iter, blk, todo>>
    BY <1>1, <1>3 DEF SignalData, Types
  <2>2. PICK e \in SentBy(c, blk[c]) \ todo[c] : current[c] = {e}
    BY <1>1, <2>1 DEF Place
  <2>3. CASE d = e
    BY <1>1, <1>2, <1>3, <2>1, <2>2, <2>3 DEF SentCount, SentYet, InBlock, One
  <2>4. CASE d # e
    BY <1>1, <1>2, <1>3, <2>1, <2>2, <2>4 DEF SentCount, SentYet, InBlock, One
  <2> QED
    BY <2>3, <2>4
<1>4. CASE Start(c) \/ AwaitInputs(c) \/ Drain(c)
  <2>1. /\ pc[c] \notin InBlock /\ (pc'[c] \notin InBlock \/ pc'[c] = "body")
        /\ UNCHANGED <<iter, blk>>
    BY <1>1, <1>4 DEF Start, AwaitInputs, Drain, Types, LoopHead, InBlock
  <2> QED
    BY <1>4, <2>1 DEF SentCount, SentYet, InBlock, Start, AwaitInputs, Drain, SignalData
<1>5. CASE ComputeBlock(c)
  <2>1. /\ pc[c] = "body" /\ UNCHANGED <<iter, blk>> /\ todo'[c] = SentBy(c, blk[c])
    BY <1>1, <1>5 DEF ComputeBlock, Types
  <2> QED
    BY <1>2, <2>1 DEF SentCount, SentYet, InBlock, SignalData
<1>6. CASE AwaitRoom(c)
  <2>1. PICK e \in todo[c] : todo' = [todo EXCEPT ![c] = @ \ {e}] /\ current' = [current EXCEPT ![c] = {e}]
    BY <1>6 DEF AwaitRoom
  <2>2. /\ pc[c] = "send" /\ pc'[c] = "copy" /\ UNCHANGED <<iter, blk>> /\ current[c] = {}
        /\ todo'[c] = todo[c] \ {e} /\ current'[c] = {e}
    BY <1>1, <1>6, <2>1 DEF AwaitRoom, Types, Place
  <2> QED
    BY <2>1, <2>2 DEF SentCount, SentYet, InBlock, SignalData
<1>7. CASE Transfer(c)
  <2>1. pc[c] = "copy" /\ pc'[c] = "signal" /\ UNCHANGED <<iter, blk, todo, current>>
    BY <1>1, <1>7 DEF Transfer, Types
  <2> QED
    BY <2>1 DEF SentCount, SentYet, InBlock, SignalData
<1>8. CASE (ReleaseInputs(c) /\ c = Cube) \/ (SendsDone(c) /\ c # Cube)
  <2>1. /\ pc[c] \in {"release", "send"} /\ pc'[c] \in {"release", "send"}
        /\ UNCHANGED <<iter, blk, todo, current>>
    BY <1>1, <1>8 DEF ReleaseInputs, SendsDone, Types
  <2> QED
    BY <2>1 DEF SentCount, SentYet, InBlock, SignalData
<1>9. CASE (ReleaseInputs(c) /\ c # Cube) \/ (SendsDone(c) /\ c = Cube)
  <2>1. /\ pc[c] \in {"release", "send"} /\ todo[c] = {} /\ current[c] = {} /\ NextBlock(c) /\ iter[c] < trips
    BY <1>1, <1>9 DEF ReleaseInputs, SendsDone, Place
  <2>2. pc'[c] \in {"reads", "drain"}
    BY <1>1, <2>1, NextBlockPlace
  <2>3. CASE blk[c] < NumBlocks(c)
    <3>1. iter'[c] = iter[c] /\ blk'[c] = blk[c] + 1
      BY <1>1, <2>1, <2>3 DEF NextBlock, Types
    <3>2. SentYet(c, d) <=> SentYet(c, d)'
      BY <1>1, <2>1, <2>2, <3>1 DEF SentYet, InBlock
    <3> QED
      BY <2>1, <3>1, <3>2 DEF SentCount, One, SignalData
  <2>4. CASE ~ (blk[c] < NumBlocks(c))
    <3>1. iter'[c] = iter[c] + 1 /\ blk'[c] = 1
      BY <1>1, <2>1, <2>4 DEF NextBlock, Types
    <3>2. SentYet(c, d) /\ ~ SentYet(c, d)'
      BY <1>1, <2>1, <2>2, <2>4, <3>1 DEF SentYet, InBlock
    <3> QED
      BY <1>1, <2>1, <3>1, <3>2 DEF SentCount, One, SignalData
  <2> QED
    BY <2>3, <2>4
<1> QED
  BY <1>3, <1>4, <1>5, <1>6, <1>7, <1>8, <1>9 DEF CoreStep

LEMMA TakenStep ==
  ASSUME PlaceInv, NEW c \in Core, CoreStep(c), NEW d \in kernel, d \in Received(c)
  PROVE  IF AwaitInputs(c) /\ d \in ReceivedBy(c, blk[c])
           THEN TakenCount(c, d) = iter[c] /\ TakenCount(c, d)' = iter[c] + 1 /\ iter'[c] = iter[c]
           ELSE TakenCount(c, d)' = TakenCount(c, d)
<1>1. /\ Types /\ Place(c) /\ d.dst \in Nat \ {0} /\ d.dst <= NumBlocks(c)
      /\ iter[c] \in Nat /\ blk[c] \in Nat \ {0} /\ NumBlocks(c) \in Nat
  BY BlockBounds, CoreFacts DEF PlaceInv, Types
<1>2. d \in ReceivedBy(c, blk[c]) <=> blk[c] = d.dst
  BY DEF ReceivedBy
<1>3. CASE AwaitInputs(c)
  <2>1. pc[c] = "reads" /\ pc'[c] = "body" /\ UNCHANGED <<iter, blk>>
    BY <1>1, <1>3 DEF AwaitInputs, Types
  <2> QED
    BY <1>1, <1>2, <1>3, <2>1 DEF TakenCount, TakenYet, InBlock, One
<1>4. CASE Start(c) \/ Drain(c)
  <2>1. pc[c] \notin InBlock /\ pc'[c] \notin InBlock /\ UNCHANGED <<iter, blk>> /\ pc[c] # "reads"
    BY <1>1, <1>4 DEF Start, Drain, Types, LoopHead, InBlock
  <2> QED
    BY <2>1 DEF TakenCount, TakenYet, AwaitInputs
<1>5. CASE \/ ComputeBlock(c) \/ AwaitRoom(c) \/ Transfer(c) \/ SignalData(c)
           \/ ReleaseInputs(c) /\ c = Cube
           \/ SendsDone(c) /\ c # Cube
  <2>1. pc[c] \in InBlock /\ pc'[c] \in InBlock /\ UNCHANGED <<iter, blk>>
    BY <1>1, <1>5 DEF ComputeBlock, AwaitRoom, Transfer, SignalData, ReleaseInputs, SendsDone, Types, InBlock
  <2> QED
    BY <2>1 DEF TakenCount, TakenYet, AwaitInputs, InBlock
<1>6. CASE (ReleaseInputs(c) /\ c # Cube) \/ (SendsDone(c) /\ c = Cube)
  <2>1. /\ pc[c] \in {"release", "send"} /\ NextBlock(c) /\ iter[c] < trips
    BY <1>1, <1>6 DEF ReleaseInputs, SendsDone, Place
  <2>2. pc'[c] \in {"reads", "drain"}
    BY <1>1, <2>1, NextBlockPlace
  <2>3. CASE blk[c] < NumBlocks(c)
    <3>1. iter'[c] = iter[c] /\ blk'[c] = blk[c] + 1
      BY <1>1, <2>1, <2>3 DEF NextBlock, Types
    <3>2. TakenYet(c, d) <=> TakenYet(c, d)'
      BY <1>1, <2>1, <2>2, <3>1 DEF TakenYet, InBlock
    <3> QED
      BY <2>1, <3>1, <3>2 DEF TakenCount, One, AwaitInputs
  <2>4. CASE ~ (blk[c] < NumBlocks(c))
    <3>1. iter'[c] = iter[c] + 1 /\ blk'[c] = 1
      BY <1>1, <2>1, <2>4 DEF NextBlock, Types
    <3>2. TakenYet(c, d) /\ ~ TakenYet(c, d)'
      BY <1>1, <2>1, <2>2, <2>4, <3>1 DEF TakenYet, InBlock
    <3> QED
      BY <1>1, <2>1, <3>1, <3>2 DEF TakenCount, One, AwaitInputs
  <2> QED
    BY <2>3, <2>4
<1> QED
  BY <1>3, <1>4, <1>5, <1>6 DEF CoreStep

(* The events of a transfer.                                               *)
Signals(c, d, s) == c = Producer(d, s) /\ SignalData(c) /\ d \in current[c]
Copies(c, d, s) == c = Producer(d, s) /\ Transfer(c) /\ d \in current[c]
Awaits(c, d, s) == c = Consumer(d, s) /\ AwaitInputs(c) /\ d \in ReceivedBy(c, blk[c])

(* Nothing else changes the full flags and the data of a transfer.         *)
LEMMA Events ==
  ASSUME PlaceInv, NEW c \in Core, CoreStep(c), NEW d \in kernel, NEW i \in Buffer, NEW s \in Sub
  PROVE  /\ Signals(c, d, s) => filled'[d][i][s] = IF i = Turn(c) THEN filled[d][i][s] + 1 ELSE filled[d][i][s]
         /\ Awaits(c, d, s) => filled'[d][i][s] = IF i = Turn(c) THEN filled[d][i][s] - 1 ELSE filled[d][i][s]
         /\ ~ Signals(c, d, s) /\ ~ Awaits(c, d, s) => filled'[d][i][s] = filled[d][i][s]
         /\ Copies(c, d, s) => data'[d][i][s] = IF i = Turn(c) THEN iter[c] + 1 ELSE data[d][i][s]
         /\ ~ Copies(c, d, s) => data'[d][i][s] = data[d][i][s]
<1>1. Types /\ Place(c) /\ filled[d][i][s] \in Nat
  BY FlagTypes DEF PlaceInv
<1>2. /\ d \in Sent(c) /\ s \in View(c) <=> c = Producer(d, s)
      /\ d \in Received(c) /\ s \in View(c) <=> c = Consumer(d, s)
  BY <1>1, Sides
<1>3. CASE SignalData(c)
  <2>1. filled'[d][i][s] =
          IF d \in current[c] /\ i = Turn(c) /\ s \in View(c) THEN filled[d][i][s] + 1 ELSE filled[d][i][s]
    BY <1>3, ChangeFacts DEF SignalData, Set
  <2>2. d \in current[c] => d \in Sent(c)
    BY <1>1 DEF Place, SentBy
  <2>3. data' = data /\ ~ AwaitInputs(c) /\ ~ Transfer(c)
    BY <1>3 DEF SignalData, AwaitInputs, Transfer
  <2> QED
    BY <1>2, <1>3, <2>1, <2>2, <2>3 DEF Signals, Awaits, Copies
<1>4. CASE AwaitInputs(c)
  <2>1. filled'[d][i][s] =
          IF d \in ReceivedBy(c, blk[c]) /\ i = Turn(c) /\ s \in View(c)
            THEN filled[d][i][s] - 1 ELSE filled[d][i][s]
    BY <1>1, <1>4, ChangeFacts DEF AwaitInputs, Take
  <2>2. d \in ReceivedBy(c, blk[c]) => d \in Received(c)
    BY DEF ReceivedBy
  <2>3. data' = data /\ ~ SignalData(c) /\ ~ Transfer(c)
    BY <1>4 DEF SignalData, AwaitInputs, Transfer
  <2> QED
    BY <1>2, <1>4, <2>1, <2>2, <2>3 DEF Signals, Awaits, Copies
<1>5. CASE Transfer(c)
  <2>1. data'[d][i][s] =
          IF d \in current[c] /\ i = Turn(c) /\ s \in View(c) THEN iter[c] + 1 ELSE data[d][i][s]
    BY <1>5 DEF Transfer
  <2>2. d \in current[c] => d \in Sent(c)
    BY <1>1 DEF Place, SentBy
  <2>3. filled' = filled /\ ~ SignalData(c) /\ ~ AwaitInputs(c)
    BY <1>5 DEF SignalData, AwaitInputs, Transfer
  <2> QED
    BY <1>2, <1>5, <2>1, <2>2, <2>3 DEF Signals, Awaits, Copies
<1>6. CASE ~ SignalData(c) /\ ~ AwaitInputs(c) /\ ~ Transfer(c)
  <2>1. filled' = filled /\ data' = data
    BY <1>6 DEF CoreStep, Start, ComputeBlock, ReleaseInputs, AwaitRoom, SendsDone, Drain
  <2> QED
    BY <1>6, <2>1 DEF Signals, Awaits, Copies
<1> QED
  BY <1>3, <1>4, <1>5, <1>6

(* The iterations whose value for sub-block s is signalled, and awaited.   *)
Made(d, s) == SentCount(Producer(d, s), d)
Used(d, s) == TakenCount(Consumer(d, s), d)

LEMMA CountTypes ==
  ASSUME Types, NEW d \in kernel, NEW s \in Sub
  PROVE  Made(d, s) \in Nat /\ Used(d, s) \in Nat
<1>1. iter[Producer(d, s)] \in Nat /\ iter[Consumer(d, s)] \in Nat
  BY Sides, CoreFacts DEF Types
<1> QED
  BY <1>1 DEF Made, Used, SentCount, TakenCount, One

LEMMA CountStep ==
  ASSUME PlaceInv, NEW c \in Core, CoreStep(c), NEW d \in kernel, NEW s \in Sub
  PROVE  /\ Signals(c, d, s) => Made(d, s) = iter[c] /\ Made(d, s)' = iter[c] + 1
         /\ ~ Signals(c, d, s) => Made(d, s)' = Made(d, s)
         /\ Awaits(c, d, s) => /\ Used(d, s) = iter[c] /\ Used(d, s)' = iter[c] + 1
                               /\ iter'[c] = iter[c]
         /\ ~ Awaits(c, d, s) => Used(d, s)' = Used(d, s)
<1>1. PICK p \in Core : p = Producer(d, s)
  BY Sides, CoreFacts DEF PlaceInv
<1>2. PICK q \in Core : q = Consumer(d, s)
  BY Sides, CoreFacts DEF PlaceInv
<1>3. d \in Sent(p) /\ d \in Received(q) /\ p # q
  BY <1>1, <1>2, Sides DEF PlaceInv
<1>4. /\ Made(d, s) = SentCount(p, d) /\ Made(d, s)' = SentCount(p, d)'
      /\ Used(d, s) = TakenCount(q, d) /\ Used(d, s)' = TakenCount(q, d)'
  BY <1>1, <1>2 DEF Made, Used, Producer, Consumer, SentCount, TakenCount, SentYet, TakenYet
<1>5. c # p => SentCount(p, d)' = SentCount(p, d)
  BY StepsApart DEF SentCount, SentYet
<1>6. c # q => TakenCount(q, d)' = TakenCount(q, d)
  BY StepsApart DEF TakenCount, TakenYet
<1>7. /\ Signals(c, d, s) => SentCount(p, d) = iter[c] /\ SentCount(p, d)' = iter[c] + 1
      /\ ~ Signals(c, d, s) => SentCount(p, d)' = SentCount(p, d)
  BY <1>1, <1>3, <1>5, SentStep DEF Signals
<1>8. /\ Awaits(c, d, s) => /\ TakenCount(q, d) = iter[c] /\ TakenCount(q, d)' = iter[c] + 1
                            /\ iter'[c] = iter[c]
      /\ ~ Awaits(c, d, s) => TakenCount(q, d)' = TakenCount(q, d)
  BY <1>2, <1>3, <1>6, TakenStep DEF Awaits
<1> QED
  BY <1>4, <1>7, <1>8

(* A block only comes to read an input by awaiting it.                     *)
LEMMA ReadingStep ==
  ASSUME PlaceInv, NEW c \in Core, CoreStep(c), NEW d,
         d \in Reading(c)', ~ (AwaitInputs(c) /\ d \in ReceivedBy(c, blk[c]))
  PROVE  d \in Reading(c) /\ Turn(c)' = Turn(c) /\ iter'[c] = iter[c]
<1>1. InHand(c)' /\ d \in ReceivedBy(c, blk[c])'
  BY ReadingFacts DEF Reading, InHand
<1>2. pc \in [Core -> States] /\ UNCHANGED <<kernel, mode, trips>>
  BY StepsApart DEF PlaceInv, Types
<1>3. CASE Start(c) \/ Drain(c)
  BY <1>1, <1>2, <1>3 DEF Start, Drain, InHand, LoopHead
<1>4. CASE AwaitInputs(c)
  <2>1. blk' = blk /\ kernel' = kernel
    BY <1>4 DEF AwaitInputs
  <2> QED
    BY <1>1, <1>4, <2>1 DEF ReceivedBy, Received
<1>5. CASE /\ \/ ComputeBlock(c) \/ AwaitRoom(c) \/ Transfer(c) \/ SignalData(c)
              \/ ReleaseInputs(c) /\ c = Cube
              \/ SendsDone(c) /\ c # Cube
  <2>1. UNCHANGED <<iter, blk, mode, kernel>>
    BY <1>5 DEF ComputeBlock, AwaitRoom, Transfer, SignalData, ReleaseInputs, SendsDone
  <2>2. InHand(c)
    BY <1>1, <1>2, <1>5 DEF ComputeBlock, AwaitRoom, Transfer, SignalData, ReleaseInputs, SendsDone, InHand
  <2> QED
    BY <1>1, <2>1, <2>2, ReadingFacts DEF Turn, ReceivedBy, Received
<1>6. CASE (ReleaseInputs(c) /\ c # Cube) \/ (SendsDone(c) /\ c = Cube)
  <2>1. NextBlock(c)
    BY <1>6 DEF ReleaseInputs, SendsDone
  <2>2. pc'[c] \in {"reads", "drain"}
    BY <1>2, <2>1 DEF NextBlock, LoopHead
  <2> QED
    BY <1>1, <2>2 DEF InHand
<1> QED
  BY <1>3, <1>4, <1>5, <1>6 DEF CoreStep

(* The producer is never behind its consumer.                              *)
InOrder(d, s) == Used(d, s) <= Made(d, s)

(* A full buffer holds an iteration signalled and not awaited, at its turn *)
FullIsMade(d, s) ==
  \A i \in Buffer : filled[d][i][s] > 0 =>
    \E k \in Nat : /\ Used(d, s) <= k /\ k < Made(d, s)
                   /\ TurnAt(k) = i /\ data[d][i][s] = k + 1

(* and every such iteration is in its buffer.                              *)
MadeIsFull(d, s) ==
  \A k \in Nat : Used(d, s) <= k /\ k < Made(d, s) =>
    filled[d][TurnAt(k)][s] > 0 /\ data[d][TurnAt(k)][s] = k + 1

CopyIsNew(d, s) ==
  LET p == Producer(d, s) IN
  pc[p] = "signal" /\ d \in current[p] => data[d][Turn(p)][s] = iter[p] + 1

ReadIsNew(d, s) ==
  LET q == Consumer(d, s) IN
  d \in Reading(q) => data[d][Turn(q)][s] = iter[q] + 1

FreshInv ==
  \A d \in kernel, s \in Sub :
    /\ InOrder(d, s) /\ FullIsMade(d, s) /\ MadeIsFull(d, s)
    /\ CopyIsNew(d, s) /\ ReadIsNew(d, s)

LEMMA FreshInit == Init => FreshInv
<1> SUFFICES ASSUME Init, NEW d \in kernel, NEW s \in Sub
             PROVE  /\ InOrder(d, s) /\ FullIsMade(d, s) /\ MadeIsFull(d, s)
                    /\ CopyIsNew(d, s) /\ ReadIsNew(d, s)
  BY DEF FreshInv
<1>1. PlaceInv /\ Types
  BY PlaceInit DEF PlaceInv
<1>2. Producer(d, s) \in Core /\ Consumer(d, s) \in Core
  BY <1>1, Sides, CoreFacts
<1>3. d \in Sent(Producer(d, s)) /\ d \in Received(Consumer(d, s))
  BY <1>1, <1>2, Sides
<1>4. d.src \in Nat \ {0} /\ d.dst \in Nat \ {0}
  BY <1>1, <1>2, <1>3, BlockBounds
<1>5. \A c \in Core : iter[c] = 0 /\ blk[c] = 1 /\ pc[c] = "start" /\ current[c] = {}
  BY DEF Init
<1>6. Made(d, s) = 0 /\ Used(d, s) = 0
  BY <1>2, <1>4, <1>5 DEF Made, Used, SentCount, TakenCount, SentYet, TakenYet, One, InBlock
<1>7. \A i \in Buffer : filled[d][i][s] = 0
  BY DEF Init
<1>8. ~ InHand(Consumer(d, s))
  BY <1>2, <1>5 DEF InHand
<1>9. InOrder(d, s) /\ FullIsMade(d, s) /\ MadeIsFull(d, s)
  BY <1>6, <1>7 DEF InOrder, FullIsMade, MadeIsFull
<1>10. CopyIsNew(d, s) /\ ReadIsNew(d, s)
  BY <1>2, <1>5, <1>8, ReadingFacts DEF CopyIsNew, ReadIsNew
<1> QED
  BY <1>9, <1>10

(* One transfer of one sub-block, in a step of a core.                     *)
LEMMA FreshStep ==
  ASSUME PlaceInv, OwnerInv, FreshInv, NEW c \in Core, CoreStep(c), NEW d \in kernel, NEW s \in Sub
  PROVE  /\ InOrder(d, s)' /\ FullIsMade(d, s)' /\ MadeIsFull(d, s)'
         /\ CopyIsNew(d, s)' /\ ReadIsNew(d, s)'
<1>1. Types /\ UNCHANGED <<kernel, mode, trips>> /\ Buffer' = Buffer
  BY StepsApart, SameKernel DEF PlaceInv
<1>2. PICK p \in Core : p = Producer(d, s)
  BY <1>1, Sides, CoreFacts
<1>3. PICK q \in Core : q = Consumer(d, s)
  BY <1>1, Sides, CoreFacts
<1>4. p # q /\ iter[p] \in Nat /\ iter[q] \in Nat
  BY <1>1, <1>2, <1>3, Sides DEF Types
<1>5. PICK R \in Nat : R = Used(d, s)
  BY <1>1, CountTypes
<1>6. PICK S \in Nat : S = Made(d, s)
  BY <1>1, CountTypes
<1>7. \A k : TurnAt(k)' = TurnAt(k) /\ TurnAt(k) \in Buffer
  BY <1>1, TurnFacts DEF TurnAt
<1>8. /\ R <= S
      /\ \A i \in Buffer : filled[d][i][s] > 0 =>
           \E k \in Nat : R <= k /\ k < S /\ TurnAt(k) = i /\ data[d][i][s] = k + 1
      /\ \A k \in Nat : R <= k /\ k < S =>
           filled[d][TurnAt(k)][s] > 0 /\ data[d][TurnAt(k)][s] = k + 1
      /\ pc[p] = "signal" /\ d \in current[p] => data[d][Turn(p)][s] = iter[p] + 1
      /\ d \in Reading(q) => data[d][Turn(q)][s] = iter[q] + 1
  BY <1>2, <1>3, <1>5, <1>6
     DEF FreshInv, InOrder, FullIsMade, MadeIsFull, CopyIsNew, ReadIsNew
<1>9. \A i \in Buffer : /\ filled[d][i][s] \in 0 .. 1
                        /\ d \in current[p] /\ i = Turn(p) => filled[d][i][s] = 0
                        /\ d \in current[p] /\ i = Turn(p) /\ i = Turn(q) => d \notin Reading(q)
  <2> SUFFICES ASSUME NEW i \in Buffer
               PROVE  /\ filled[d][i][s] \in 0 .. 1
                      /\ d \in current[p] /\ i = Turn(p) => filled[d][i][s] = 0
                      /\ d \in current[p] /\ i = Turn(p) /\ i = Turn(q) => d \notin Reading(q)
    OBVIOUS
  <2>1. filled[d][i][s] \in Nat /\ empty[d][i][s] \in Nat
    BY <1>1, FlagTypes
  <2>2. Owners(d, i, s) = 1
    BY DEF OwnerInv
  <2>3. /\ Copying(d, i, s) <=> d \in current[p] /\ i = Turn(p)
        /\ Using(d, i, s) <=> d \in Reading(q) /\ i = Turn(q)
    BY <1>2, <1>3 DEF Copying, Using
  <2> QED
    BY <2>1, <2>2, <2>3 DEF Owners, One
<1>10. Turn(p) = TurnAt(iter[p]) /\ Turn(q) = TurnAt(iter[q])
  BY TurnFacts
<1>11. SUFFICES
      /\ Used(d, s)' <= Made(d, s)'
      /\ \A i \in Buffer : filled'[d][i][s] > 0 =>
           \E k \in Nat : /\ Used(d, s)' <= k /\ k < Made(d, s)'
                          /\ TurnAt(k) = i /\ data'[d][i][s] = k + 1
      /\ \A k \in Nat : Used(d, s)' <= k /\ k < Made(d, s)' =>
           filled'[d][TurnAt(k)][s] > 0 /\ data'[d][TurnAt(k)][s] = k + 1
      /\ pc'[p] = "signal" /\ d \in current'[p] => data'[d][Turn(p)'][s] = iter'[p] + 1
      /\ d \in Reading(q)' => data'[d][Turn(q)'][s] = iter'[q] + 1
  <2>1. p = Producer(d, s)' /\ q = Consumer(d, s)'
    BY <1>2, <1>3 DEF Producer, Consumer
  <2>2. InOrder(d, s)'
    BY <1>11 DEF InOrder
  <2>3. FullIsMade(d, s)' /\ MadeIsFull(d, s)'
    BY <1>1, <1>7, <1>11 DEF FullIsMade, MadeIsFull
  <2>4. CopyIsNew(d, s)' /\ ReadIsNew(d, s)'
    BY <1>11, <2>1 DEF CopyIsNew, ReadIsNew
  <2> QED
    BY <2>2, <2>3, <2>4
<1>12. c # p => pc'[p] = pc[p] /\ current'[p] = current[p] /\ iter'[p] = iter[p] /\ Turn(p)' = Turn(p)
  BY StepsApart, Undisturbed
<1>13. c # q => Reading(q)' = Reading(q) /\ iter'[q] = iter[q] /\ Turn(q)' = Turn(q)
  BY StepsApart, Undisturbed
<1>14. CASE Signals(c, d, s)
  <2>1. c = p /\ SignalData(c) /\ d \in current[p] /\ pc[p] = "signal" /\ pc'[p] = "send"
    BY <1>1, <1>2, <1>14 DEF Signals, SignalData, Types
  <2>2. ~ Awaits(c, d, s) /\ ~ Copies(c, d, s)
    BY <2>1 DEF Awaits, Copies, SignalData, AwaitInputs, Transfer
  <2>3. S = iter[p] /\ Made(d, s)' = S + 1 /\ Used(d, s)' = R
    BY <1>5, <1>6, <1>14, <2>1, <2>2, CountStep
  <2>4. \A i \in Buffer : /\ filled'[d][i][s] = IF i = Turn(p) THEN filled[d][i][s] + 1 ELSE filled[d][i][s]
                          /\ data'[d][i][s] = data[d][i][s]
    BY <1>14, <2>1, <2>2, Events
  <2>5. data[d][Turn(p)][s] = S + 1 /\ Turn(p) = TurnAt(S)
    BY <1>8, <1>10, <2>1, <2>3
  <2>6. ASSUME NEW i \in Buffer, filled'[d][i][s] > 0
        PROVE  \E k \in Nat : R <= k /\ k < S + 1 /\ TurnAt(k) = i /\ data'[d][i][s] = k + 1
    <3>1. CASE i = Turn(p)
      BY <1>8, <2>4, <2>5, <3>1
    <3>2. CASE i # Turn(p)
      BY <1>8, <2>4, <2>6, <3>2
    <3> QED
      BY <3>1, <3>2
  <2>7. ASSUME NEW k \in Nat, R <= k, k < S + 1
        PROVE  filled'[d][TurnAt(k)][s] > 0 /\ data'[d][TurnAt(k)][s] = k + 1
    <3>1. TurnAt(k) \in Buffer /\ filled[d][TurnAt(k)][s] \in 0 .. 1
      BY <1>7, <1>9
    <3>2. CASE k = S
      BY <2>4, <2>5, <3>1, <3>2
    <3>3. CASE k # S
      <4>1. k < S
        BY <2>7, <3>3
      <4>2. filled[d][TurnAt(k)][s] > 0 /\ data[d][TurnAt(k)][s] = k + 1
        BY <1>8, <2>7, <4>1
      <4> QED
        BY <2>4, <3>1, <4>2
    <3> QED
      BY <3>2, <3>3
  <2>8. d \in Reading(q)' => data'[d][Turn(q)'][s] = iter'[q] + 1
    <3>1. Turn(q) \in Buffer
      BY <1>7, <1>10
    <3> QED
      BY <1>4, <1>8, <1>13, <2>1, <2>4, <3>1
  <2>9. R <= S + 1
    BY <1>8
  <2> QED
    BY <2>1, <2>3, <2>6, <2>7, <2>8, <2>9
<1>15. CASE Awaits(c, d, s)
  <2>1. c = q /\ AwaitInputs(c) /\ d \in ReceivedBy(c, blk[c])
    BY <1>3, <1>15 DEF Awaits
  <2>2. ~ Signals(c, d, s) /\ ~ Copies(c, d, s)
    BY <2>1 DEF Signals, Copies, SignalData, AwaitInputs, Transfer
  <2>3. R = iter[q] /\ Used(d, s)' = R + 1 /\ Made(d, s)' = S /\ iter'[q] = R
    BY <1>5, <1>6, <1>15, <2>1, <2>2, CountStep
  <2>4. \A i \in Buffer : /\ filled'[d][i][s] = IF i = Turn(q) THEN filled[d][i][s] - 1 ELSE filled[d][i][s]
                          /\ data'[d][i][s] = data[d][i][s]
    BY <1>15, <2>1, <2>2, Events
  <2>5. s \in View(q)
    BY <1>1, <1>3, Sides
  <2>6. Turn(q) \in Buffer /\ Turn(q) = TurnAt(R) /\ Turn(q)' = Turn(q)
    BY <1>7, <1>10, <2>1, <2>3 DEF AwaitInputs, Turn
  <2>7. filled[d][Turn(q)][s] > 0
    BY <2>1, <2>5 DEF AwaitInputs, Ready
  <2>8. R < S
    BY <1>8, <2>6, <2>7
  <2>9. data[d][Turn(q)][s] = R + 1 /\ filled'[d][Turn(q)][s] = 0
    BY <1>8, <1>9, <2>4, <2>6, <2>7, <2>8
  <2>10. ASSUME NEW i \in Buffer, filled'[d][i][s] > 0
         PROVE  \E k \in Nat : R + 1 <= k /\ k < S /\ TurnAt(k) = i /\ data'[d][i][s] = k + 1
    <3>1. i # Turn(q) /\ filled[d][i][s] > 0 /\ data'[d][i][s] = data[d][i][s]
      BY <2>4, <2>9, <2>10
    <3>2. PICK k \in Nat : R <= k /\ k < S /\ TurnAt(k) = i /\ data[d][i][s] = k + 1
      BY <1>8, <3>1
    <3>3. k # R
      BY <2>6, <3>1, <3>2
    <3>4. R + 1 <= k
      BY <3>2, <3>3
    <3> QED
      BY <3>1, <3>2, <3>4
  <2>11. ASSUME NEW k \in Nat, R + 1 <= k, k < S
         PROVE  filled'[d][TurnAt(k)][s] > 0 /\ data'[d][TurnAt(k)][s] = k + 1
    <3>1. filled[d][TurnAt(k)][s] > 0 /\ data[d][TurnAt(k)][s] = k + 1
      BY <1>8, <2>11
    <3>2. TurnAt(k) # Turn(q)
      BY <2>9, <2>11, <3>1
    <3> QED
      BY <1>7, <2>4, <3>1, <3>2
  <2>12. pc'[p] = "signal" /\ d \in current'[p] => data'[d][Turn(p)'][s] = iter'[p] + 1
    <3>1. Turn(p) \in Buffer
      BY <1>7, <1>10
    <3> QED
      BY <1>4, <1>8, <1>12, <2>1, <2>4, <3>1
  <2>13. data'[d][Turn(q)'][s] = iter'[q] + 1
    BY <2>3, <2>4, <2>6, <2>9
  <2>14. R + 1 <= S
    BY <2>8
  <2> QED
    BY <2>3, <2>10, <2>11, <2>12, <2>13, <2>14
<1>16. CASE Copies(c, d, s)
  <2>1. c = p /\ Transfer(c) /\ d \in current[p]
    BY <1>2, <1>16 DEF Copies
  <2>2. ~ Signals(c, d, s) /\ ~ Awaits(c, d, s)
    BY <2>1 DEF Signals, Awaits, SignalData, AwaitInputs, Transfer
  <2>3. Made(d, s)' = S /\ Used(d, s)' = R
    BY <1>5, <1>6, <2>2, CountStep
  <2>4. \A i \in Buffer : /\ filled'[d][i][s] = filled[d][i][s]
                          /\ data'[d][i][s] = IF i = Turn(p) THEN iter[p] + 1 ELSE data[d][i][s]
    BY <1>16, <2>1, <2>2, Events
  <2>5. Turn(p) \in Buffer /\ Turn(q) \in Buffer
    BY <1>7, <1>10
  <2>6. filled[d][Turn(p)][s] = 0 /\ iter'[p] = iter[p] /\ Turn(p)' = Turn(p)
    BY <1>9, <2>1, <2>5 DEF Transfer, Turn
  <2>7. \A i \in Buffer : filled'[d][i][s] > 0 =>
          \E k \in Nat : R <= k /\ k < S /\ TurnAt(k) = i /\ data'[d][i][s] = k + 1
    BY <1>8, <2>4, <2>6
  <2>8. \A k \in Nat : R <= k /\ k < S =>
          filled'[d][TurnAt(k)][s] > 0 /\ data'[d][TurnAt(k)][s] = k + 1
    BY <1>7, <1>8, <2>4, <2>6
  <2>9. data'[d][Turn(p)'][s] = iter'[p] + 1
    BY <2>4, <2>5, <2>6
  <2>10. d \in Reading(q)' => data'[d][Turn(q)'][s] = iter'[q] + 1
    BY <1>4, <1>8, <1>9, <1>13, <2>1, <2>4, <2>5
  <2> QED
    BY <1>8, <2>3, <2>7, <2>8, <2>9, <2>10
<1>17. CASE ~ Signals(c, d, s) /\ ~ Awaits(c, d, s) /\ ~ Copies(c, d, s)
  <2>1. Made(d, s)' = S /\ Used(d, s)' = R
    BY <1>5, <1>6, <1>17, CountStep
  <2>2. \A i \in Buffer : filled'[d][i][s] = filled[d][i][s] /\ data'[d][i][s] = data[d][i][s]
    BY <1>17, Events
  <2>3. Turn(p) \in Buffer /\ Turn(q) \in Buffer
    BY <1>7, <1>10
  <2>4. \A i \in Buffer : filled'[d][i][s] > 0 =>
          \E k \in Nat : R <= k /\ k < S /\ TurnAt(k) = i /\ data'[d][i][s] = k + 1
    BY <1>8, <2>2
  <2>5. \A k \in Nat : R <= k /\ k < S =>
          filled'[d][TurnAt(k)][s] > 0 /\ data'[d][TurnAt(k)][s] = k + 1
    BY <1>7, <1>8, <2>2
  <2>6. pc'[p] = "signal" /\ d \in current'[p] => data'[d][Turn(p)'][s] = iter'[p] + 1
    <3>1. CASE c = p
      <4> SUFFICES ASSUME pc'[p] = "signal", d \in current'[p] PROVE FALSE
        OBVIOUS
      <4>1. Transfer(c)
        BY <1>1, <3>1 DEF Types, CoreStep, Start, AwaitInputs, ComputeBlock, ReleaseInputs, AwaitRoom,
                          SignalData, SendsDone, Drain, NextBlock, LoopHead
      <4>2. d \in current[c]
        BY <3>1, <4>1 DEF Transfer
      <4> QED
        BY <1>2, <1>17, <3>1, <4>1, <4>2 DEF Copies
    <3>2. CASE c # p
      BY <1>8, <1>12, <2>2, <2>3, <3>2
    <3> QED
      BY <3>1, <3>2
  <2>7. d \in Reading(q)' => data'[d][Turn(q)'][s] = iter'[q] + 1
    <3>1. CASE c = q
      <4> SUFFICES ASSUME d \in Reading(q)' PROVE data'[d][Turn(q)'][s] = iter'[q] + 1
        OBVIOUS
      <4>1. ~ (AwaitInputs(c) /\ d \in ReceivedBy(c, blk[c]))
        BY <1>3, <1>17, <3>1 DEF Awaits
      <4>2. d \in Reading(q) /\ Turn(q)' = Turn(q) /\ iter'[q] = iter[q]
        BY <3>1, <4>1, ReadingStep
      <4> QED
        BY <1>8, <2>2, <2>3, <4>2
    <3>2. CASE c # q
      BY <1>8, <1>13, <2>2, <2>3, <3>2
    <3> QED
      BY <3>1, <3>2
  <2> QED
    BY <1>8, <2>1, <2>4, <2>5, <2>6, <2>7
<1> QED
  BY <1>14, <1>15, <1>16, <1>17

LEMMA FreshNext == PlaceInv /\ OwnerInv /\ FreshInv /\ [Next]_vars => FreshInv'
<1> SUFFICES ASSUME PlaceInv, OwnerInv, FreshInv, [Next]_vars PROVE FreshInv'
  OBVIOUS
<1>1. CASE UNCHANGED vars
  <2>1. UNCHANGED <<kernel, mode, pc, iter, blk, todo, current, filled, data>>
    BY <1>1 DEF vars
  <2>2. /\ Buffer' = Buffer /\ \A k : TurnAt(k)' = TurnAt(k)
        /\ \A c : Turn(c)' = Turn(c) /\ Reading(c)' = Reading(c)
    BY <2>1, SameKernel DEF Turn, TurnAt, Reading
  <2>3. \A c, d : SentCount(c, d)' = SentCount(c, d) /\ TakenCount(c, d)' = TakenCount(c, d)
    BY <2>1 DEF SentCount, TakenCount, SentYet, TakenYet
  <2>4. \A d, s : Made(d, s)' = Made(d, s) /\ Used(d, s)' = Used(d, s)
    BY <2>3 DEF Made, Used, Producer, Consumer
  <2> SUFFICES ASSUME NEW d \in kernel, NEW s \in Sub
               PROVE  /\ InOrder(d, s)' /\ FullIsMade(d, s)' /\ MadeIsFull(d, s)'
                      /\ CopyIsNew(d, s)' /\ ReadIsNew(d, s)'
    BY <2>1 DEF FreshInv
  <2>5. InOrder(d, s)'
    BY <2>4 DEF FreshInv, InOrder
  <2>6. FullIsMade(d, s)'
    BY <2>1, <2>2, <2>4 DEF FreshInv, FullIsMade
  <2>7. MadeIsFull(d, s)'
    BY <2>1, <2>2, <2>4 DEF FreshInv, MadeIsFull
  <2>8. CopyIsNew(d, s)'
    BY <2>1, <2>2 DEF FreshInv, CopyIsNew, Producer
  <2>9. ReadIsNew(d, s)'
    BY <2>1, <2>2 DEF FreshInv, ReadIsNew, Consumer
  <2> QED
    BY <2>5, <2>6, <2>7, <2>8, <2>9
<1>2. ASSUME NEW c \in Core, CoreStep(c) PROVE FreshInv'
  BY <1>2, FreshStep, StepsApart DEF FreshInv
<1> QED
  BY <1>1, <1>2 DEF Next

LEMMA FreshReads == PlaceInv /\ FreshInv => FreshInput
<1> SUFFICES ASSUME PlaceInv, FreshInv, NEW c \in Core, NEW d \in Reading(c), NEW s \in View(c)
             PROVE  data[d][Turn(c)][s] = iter[c] + 1
  BY DEF FreshInput
<1>1. d \in kernel /\ d \in Received(c) /\ s \in Sub
  BY ReadingFacts, CoreFacts DEF ReceivedBy, Received
<1>2. c = Consumer(d, s)
  BY <1>1, Sides DEF PlaceInv
<1> QED
  BY <1>1, <1>2 DEF FreshInv, ReadIsNew

(* Every block reads the values its own iteration was sent, however far    *)
(* the two cores are apart.                                                *)
THEOREM InputsAreFresh == Spec => []FreshInput
BY PlaceInit, PlaceNext, OwnerInit, OwnerNext, FreshInit, FreshNext, FreshReads, PTL DEF Spec

===========================================================================
