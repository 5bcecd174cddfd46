----------------------- MODULE ConditionalLoopProofs -----------------------
(***************************************************************************)
(* The conditional main loop.  First SSBuffer, of which nothing but its    *)
(* own definitions and assumptions is used; then ConditionalTransfers, the *)
(* same loop with the flags of its transfers.                              *)
(*                                                                         *)
(* For every number of sub-blocks, every dependency graph, every loop and  *)
(* every number of passes.  In this order:                                 *)
(*                                                                         *)
(* - type correctness, exclusive use of the SSBuffer, the balance of its   *)
(*   flags, and the agreement of its words with the buffers they count;    *)
(*                                                                         *)
(* - no block runs more often than in the original loop, every block finds *)
(*   in its input buffers what was made for the same iteration, and the    *)
(*   compiled loop takes the steps of the bounded dataflow network it came *)
(*   from.  The argument: a block's counter stands for the number of its   *)
(*   runs in this pass.  The cube and a vector go through rounds and       *)
(*   passes in step, so that whoever works on a buffer is in the same pass *)
(*   as the other end.  Then the runs of the two ends differ by the items  *)
(*   in the buffers, and as the index alternates with the iteration, an    *)
(*   item is not overwritten before its run of the consumer.  That the     *)
(*   runs of a pass are complete does not matter to a kernel that runs its *)
(*   main loop once; for the passes of an outer loop these theorems say    *)
(*   what follows if they are;                                             *)
(*                                                                         *)
(* - in a steady kernel they are: the extended loop is long enough.        *)
(***************************************************************************)
EXTENDS ConditionalTransfers, LoopExtensionProofs

LEMMA CoreFacts ==
  /\ Cube \in Core /\ Sub \subseteq Core /\ Cube \notin Sub
  /\ \A c \in Core : c # Cube => c \in Sub
  /\ \A c \in Core : NumBlocks(c) \in Nat \ {0}
  /\ Lb \in Int /\ Step \in Int
<1>1. Lb \in Int /\ Step \in Int
  BY LoopAssumption DEF MachineInt
<1> QED
  BY <1>1, CoreAssumption, BlockAssumption DEF Core, NumBlocks

-----------------------------------------------------------------------------
(* Types.                                                                  *)

LEMMA TypeInit == Init => TypeOK
<1> SUFFICES ASSUME Init PROVE TypeOK
  OBVIOUS
<1> USE CoreFacts DEF Init
<1>1. stat \in [Cross -> [Sub -> Int]]
  OBVIOUS
<1>2. \A c \in Core : /\ blk[c] <= NumBlocks(c)
                      /\ counter[c] \in [1 .. NumBlocks(c) -> Int]
                      /\ runs[c] \in [1 .. NumBlocks(c) -> Nat]
  OBVIOUS
<1> QED
  BY <1>1, <1>2 DEF TypeOK, States

LEMMA AdvanceType ==
  ASSUME TypeOK, NEW c \in Core, Advance(c)
  PROVE  /\ pc' \in [Core -> States]
         /\ blk' \in [Core -> Nat \ {0}]
         /\ \A e \in Core : blk'[e] <= NumBlocks(e)
<1> USE CoreFacts
<1>1. blk[c] \in Nat \ {0} /\ NumBlocks(c) \in Nat \ {0}
  BY DEF TypeOK
<1>2. CASE blk[c] < NumBlocks(c)
  <2>1. /\ blk' = [blk EXCEPT ![c] = blk[c] + 1]
        /\ pc' = [pc EXCEPT ![c] = "test"]
    BY <1>2 DEF Advance
  <2>2. blk[c] + 1 \in Nat \ {0} /\ blk[c] + 1 <= NumBlocks(c)
    BY <1>1, <1>2
  <2> QED
    BY <2>1, <2>2 DEF TypeOK, States
<1>3. CASE ~(blk[c] < NumBlocks(c))
  <2>1. /\ blk' = [blk EXCEPT ![c] = 1]
        /\ pc' = [pc EXCEPT ![c] = "set"]
    BY <1>3 DEF Advance
  <2> QED
    BY <2>1, <1>1 DEF TypeOK, States
<1> QED
  BY <1>2, <1>3

LEMMA FlagsType ==
  ASSUME TypeOK, NEW c \in Core, TakeFlags(c) \/ GiveFlags(c)
  PROVE  toCube' \in [Sub -> Nat] /\ toVector' \in [Sub -> Nat]
<1> USE CoreFacts DEF TypeOK
<1>1. CASE TakeFlags(c) /\ c = Cube
  <2>1. \A s \in Sub : toCube[s] - 1 \in Nat
    BY <1>1 DEF TakeFlags
  <2>2. toCube' = [s \in Sub |-> toCube[s] - 1] /\ toVector' = toVector
    BY <1>1 DEF TakeFlags
  <2> QED
    BY <2>1, <2>2
<1>2. CASE TakeFlags(c) /\ c # Cube
  <2>1. c \in Sub /\ toVector[c] - 1 \in Nat
    BY <1>2 DEF TakeFlags
  <2>2. toVector' = [toVector EXCEPT ![c] = toVector[c] - 1] /\ toCube' = toCube
    BY <1>2 DEF TakeFlags
  <2> QED
    BY <2>1, <2>2
<1>3. CASE GiveFlags(c) /\ c = Cube
  BY <1>3 DEF GiveFlags
<1>4. CASE GiveFlags(c) /\ c # Cube
  <2>1. c \in Sub /\ toCube[c] + 1 \in Nat
    BY <1>4
  <2>2. toCube' = [toCube EXCEPT ![c] = toCube[c] + 1] /\ toVector' = toVector
    BY <1>4 DEF GiveFlags
  <2> QED
    BY <2>1, <2>2
<1> QED
  BY <1>1, <1>2, <1>3, <1>4

(* The change of a count is an integer.                                    *)
LEMMA DeltaType ==
  ASSUME NEW ins, NEW outs, NEW d
  PROVE  Delta(ins, outs, d) \in Int
BY DEF Delta

LEMMA PublishStatType ==
  ASSUME TypeOK, NEW c \in Core, Publish(c)
  PROVE  stat' \in [Cross -> [Sub -> Int]]
<1> DEFINE new(d, s) ==
      IF d \in Inputs(c, blk[c]) \cup Outputs(c, blk[c]) /\ s \in View(c)
      THEN held[c][d][s] + Delta(Inputs(c, blk[c]), Outputs(c, blk[c]), d)
      ELSE stat[d][s]
<1>1. stat' = [d \in Cross |-> [s \in Sub |-> new(d, s)]]
  BY DEF Publish
<1>2. ASSUME NEW d \in Cross, NEW s \in Sub PROVE new(d, s) \in Int
  <2>1. held[c][d][s] \in Int /\ stat[d][s] \in Int
    BY DEF TypeOK
  <2>2. Delta(Inputs(c, blk[c]), Outputs(c, blk[c]), d) \in Int
    BY DeltaType
  <2> HIDE DEF TypeOK
  <2> QED
    BY <2>1, <2>2
<1> HIDE DEF new
<1> QED
  BY <1>1, <1>2

LEMMA PublishVarType ==
  ASSUME TypeOK, NEW c \in Core, Publish(c)
  PROVE  var' \in [Sub -> [Intra -> Int]]
<1>1. var \in [Sub -> [Intra -> Int]]
  BY DEF TypeOK
<1>2. CASE c = Cube
  BY <1>1, <1>2 DEF Publish
<1>3. CASE c # Cube
  <2> DEFINE new(d) ==
        var[c][d] + Delta(IntraInputs(c, blk[c]), IntraOutputs(c, blk[c]), d)
  <2>1. var' = [var EXCEPT ![c] = [d \in Intra |-> new(d)]]
    BY <1>3 DEF Publish
  <2>2. c \in Sub
    BY <1>3, CoreFacts
  <2>3. ASSUME NEW d \in Intra PROVE new(d) \in Int
    <3>1. var[c][d] \in Int
      BY <1>1, <2>2
    <3>2. Delta(IntraInputs(c, blk[c]), IntraOutputs(c, blk[c]), d) \in Int
      BY DeltaType
    <3> QED
      BY <3>1, <3>2
  <2> HIDE DEF new
  <2>4. [d \in Intra |-> new(d)] \in [Intra -> Int]
    BY <2>3
  <2> QED
    BY <1>1, <2>1, <2>2, <2>4
<1> QED
  BY <1>2, <1>3

(* One entry of a table of blocks takes a new value.                       *)
LEMMA BlockUpdate ==
  ASSUME NEW f, NEW V, DOMAIN f = Core,
         \A e \in Core : f[e] \in [1 .. NumBlocks(e) -> V],
         NEW c \in Core, NEW b \in 1 .. NumBlocks(c), NEW v \in V,
         NEW g, g = [f EXCEPT ![c] = [f[c] EXCEPT ![b] = v]]
  PROVE  /\ DOMAIN g = Core
         /\ \A e \in Core : g[e] \in [1 .. NumBlocks(e) -> V]
         /\ \A e \in Core : e # c => g[e] = f[e]
         /\ \A n \in 1 .. NumBlocks(c) :
              g[c][n] = IF n = b THEN v ELSE f[c][n]
<1>1. [f[c] EXCEPT ![b] = v] \in [1 .. NumBlocks(c) -> V]
  OBVIOUS
<1>2. g[c] = [f[c] EXCEPT ![b] = v] /\ \A e \in Core : e # c => g[e] = f[e]
  OBVIOUS
<1>3. DOMAIN g = Core
  OBVIOUS
<1>4. \A n \in 1 .. NumBlocks(c) : g[c][n] = IF n = b THEN v ELSE f[c][n]
  BY <1>2
<1> QED
  BY <1>1, <1>2, <1>3, <1>4

LEMMA TypeNext == TypeOK /\ [Next]_vars => TypeOK'
<1> SUFFICES ASSUME TypeOK, [Next]_vars PROVE TypeOK'
  OBVIOUS
<1> USE CoreFacts
<1>1. ASSUME NEW c \in Core, ZeroSSBuffer(c) PROVE TypeOK'
  BY <1>1 DEF TypeOK, ZeroSSBuffer, EnterLoop, AfterLoop, States, flagVars
<1>2. ASSUME NEW s \in Sub, OpenScope(s) PROVE TypeOK'
  <2>1. PICK p \in States : pc' = [pc EXCEPT ![s] = p]
    BY <1>2 DEF OpenScope, EnterLoop, AfterLoop, States
  <2>2. toCube[s] + 1 \in Nat
    BY DEF TypeOK
  <2>3. toCube' = [toCube EXCEPT ![s] = toCube[s] + 1]
    BY <1>2 DEF OpenScope
  <2>4. toCube' \in [Sub -> Nat] /\ pc' \in [Core -> States]
    BY <2>1, <2>2, <2>3 DEF TypeOK
  <2> QED
    BY <1>2, <2>4 DEF TypeOK, OpenScope, dataVars
<1>3. ASSUME NEW c \in Core, Wait(c) PROVE TypeOK'
  BY <1>3, FlagsType DEF TypeOK, Wait, States, dataVars
<1>4. ASSUME NEW c \in Core, SkipBlock(c) PROVE TypeOK'
  BY <1>4, AdvanceType DEF TypeOK, SkipBlock, dataVars, flagVars
<1>5. ASSUME NEW c \in Core, EnterBlock(c) PROVE TypeOK'
  BY <1>5 DEF TypeOK, EnterBlock, States, dataVars, flagVars
<1>6. ASSUME NEW c \in Core, RunBody(c) PROVE TypeOK'
  BY <1>6 DEF TypeOK, RunBody, States, flagVars
<1>7. ASSUME NEW c \in Core, Publish(c) PROVE TypeOK'
  <2> DEFINE b == blk[c]
  <2>1. b \in 1 .. NumBlocks(c)
    BY DEF TypeOK
  <2>2. stat' \in [Cross -> [Sub -> Int]]
    BY <1>7, PublishStatType
  <2>3. var' \in [Sub -> [Intra -> Int]]
    BY <1>7, PublishVarType
  <2>4. held' \in [Core -> [Cross -> [Sub -> Int]]]
    BY <1>7 DEF TypeOK, Publish
  <2>5. DOMAIN counter' = Core /\ \A e \in Core : counter'[e] \in [1 .. NumBlocks(e) -> Int]
    <3>1. counter[c][b] + Step \in Int
      BY <2>1 DEF TypeOK
    <3>2. counter' = [counter EXCEPT ![c] =
                        [counter[c] EXCEPT ![b] = counter[c][b] + Step]]
      BY <1>7 DEF Publish
    <3>3. DOMAIN counter = Core
          /\ \A e \in Core : counter[e] \in [1 .. NumBlocks(e) -> Int]
      BY DEF TypeOK
    <3> HIDE DEF b
    <3> QED
      BY <2>1, <3>1, <3>2, <3>3, BlockUpdate
  <2>6. DOMAIN runs' = Core /\ \A e \in Core : runs'[e] \in [1 .. NumBlocks(e) -> Nat]
    <3>1. runs[c][b] + 1 \in Nat
      BY <2>1 DEF TypeOK
    <3>2. runs' = [runs EXCEPT ![c] = [runs[c] EXCEPT ![b] = runs[c][b] + 1]]
      BY <1>7 DEF Publish
    <3>3. DOMAIN runs = Core
          /\ \A e \in Core : runs[e] \in [1 .. NumBlocks(e) -> Nat]
      BY DEF TypeOK
    <3> HIDE DEF b
    <3> QED
      BY <2>1, <3>1, <3>2, <3>3, BlockUpdate
  <2> QED
    BY <1>7, <2>2, <2>3, <2>4, <2>5, <2>6, AdvanceType DEF TypeOK, Publish, flagVars
<1>8. ASSUME NEW c \in Core, NextRound(c) PROVE TypeOK'
  <2>1. toCube' \in [Sub -> Nat] /\ toVector' \in [Sub -> Nat]
    BY <1>8, FlagsType DEF NextRound
  <2>2. round' \in [Core -> Nat] /\ pc' \in [Core -> States]
    BY <1>8 DEF TypeOK, NextRound, States
  <2> QED
    BY <1>8, <2>1, <2>2 DEF TypeOK, NextRound, dataVars
<1>9. ASSUME NEW c \in Core, EndPass(c) PROVE TypeOK'
  <2>1. DOMAIN counter' = Core /\ \A e \in Core : counter'[e] \in [1 .. NumBlocks(e) -> Int]
    BY <1>9 DEF TypeOK, EndPass
  <2>2. var' \in [Sub -> [Intra -> Int]]
    BY <1>9 DEF TypeOK, EndPass
  <2>3. pc' \in [Core -> States] /\ pass' \in [Core -> Nat] /\ round' \in [Core -> Nat]
    BY <1>9 DEF TypeOK, EndPass, AfterLoop, States
  <2> QED
    BY <1>9, <2>1, <2>2, <2>3, FlagsType DEF TypeOK, EndPass
<1>10. CASE CloseScope
  BY <1>10, FlagsType DEF TypeOK, CloseScope, States, dataVars
<1>11. CASE UNCHANGED vars
  BY <1>11 DEF TypeOK, vars
<1> QED
  BY <1>1, <1>2, <1>3, <1>4, <1>5, <1>6, <1>7, <1>8, <1>9, <1>10, <1>11
     DEF Next, CoreStep, Terminating

(* Every variable of the compiled loop keeps its type.                     *)
THEOREM TypeCorrect == Spec => []TypeOK
BY TypeInit, TypeNext, PTL DEF Spec

-----------------------------------------------------------------------------
(* Exclusive use of the SSBuffer.  Flag 15 is a token per sub-block: either *)
(* one side holds it, or it is pending in one of the two directions.       *)

Holding == {"test", "body", "publish", "set"}

One(p) == IF p THEN 1 ELSE 0

Token ==
  \A s \in Sub :
    toCube[s] + toVector[s] + One(pc[Cube] \in Holding \cup {"done"})
      + One(pc[s] \in Holding \cup {"zero", "open"}) = 1

(* While some core has yet to clear the SSBuffer, no vector got the token  *)
(* back, and no block has run.                                             *)
BeforeAll ==
  (\E c \in Core : pc[c] = "zero") =>
    /\ \A s \in Sub : toVector[s] = 0 /\ pc[s] \notin Holding
    /\ \A c \in Core : \A b \in 1 .. NumBlocks(c) : runs[c][b] = 0

AccessInv == TypeOK /\ Token /\ BeforeAll

LEMMA AccessInit == Init => AccessInv
<1> SUFFICES ASSUME Init PROVE AccessInv
  OBVIOUS
<1> USE CoreFacts DEF Init
<1>1. Token
  BY DEF Token, One, Holding
<1>2. BeforeAll
  BY DEF BeforeAll, Holding
<1> QED
  BY <1>1, <1>2, TypeInit DEF AccessInv

(* A step that moves core c without touching the flags, and neither into   *)
(* nor out of the pcs at which c holds the token.                          *)
LEMMA TokenStays ==
  ASSUME AccessInv, NEW c \in Core, NEW p, UNCHANGED flagVars,
         pc' = [pc EXCEPT ![c] = p],
         IF c = Cube THEN pc[c] \in Holding \cup {"done"}
                            <=> p \in Holding \cup {"done"}
                     ELSE pc[c] \in Holding \cup {"zero", "open"}
                            <=> p \in Holding \cup {"zero", "open"}
  PROVE  Token'
BY CoreFacts DEF AccessInv, TypeOK, Token, One, flagVars

LEMMA AdvanceHolds ==
  ASSUME TypeOK, NEW c \in Core, Advance(c)
  PROVE  \E p \in {"test", "set"} : pc' = [pc EXCEPT ![c] = p]
BY DEF Advance

(* Whoever holds the token keeps every core from starting: once core c is  *)
(* past the opening, so are all the others.                                *)
LEMMA HolderIsAlone ==
  ASSUME AccessInv, NEW c \in Core, pc[c] \in Holding
  PROVE  /\ \A e \in Core : pc[e] # "zero"
         /\ \A s \in Sub : c = Cube => pc[s] \notin Holding
         /\ c # Cube => pc[Cube] \notin Holding
<1> USE CoreFacts DEF AccessInv, TypeOK
<1>1. CASE c = Cube
  <2>1. \A s \in Sub : pc[s] \notin Holding \cup {"zero", "open"}
    BY <1>1 DEF Token, One
  <2> QED
    BY <1>1, <2>1 DEF Holding
<1>2. CASE c # Cube
  <2>1. pc[Cube] \notin Holding
    BY <1>2 DEF Token, One
  <2> QED
    BY <1>2, <2>1 DEF BeforeAll
<1> QED
  BY <1>1, <1>2


LEMMA TokenTaken ==
  ASSUME AccessInv, NEW c \in Core, NEW p, TakeFlags(c),
         pc' = [pc EXCEPT ![c] = p],
         pc[c] \in {"wait", "close"}, p = "test" \/ (c = Cube /\ p = "done")
  PROVE  Token'
<1> USE CoreFacts DEF AccessInv, TypeOK
<1> SUFFICES ASSUME NEW s \in Sub
             PROVE  toCube'[s] + toVector'[s]
                      + One(pc'[Cube] \in Holding \cup {"done"})
                      + One(pc'[s] \in Holding \cup {"zero", "open"}) = 1
  BY DEF Token, One
<1>1. toCube[s] + toVector[s] + One(pc[Cube] \in Holding \cup {"done"})
        + One(pc[s] \in Holding \cup {"zero", "open"}) = 1
  BY DEF Token
<1>2. CASE c = Cube
  <2>1. toCube'[s] = toCube[s] - 1 /\ toVector'[s] = toVector[s]
    BY <1>2 DEF TakeFlags
  <2>2. pc'[s] = pc[s] /\ pc'[Cube] \in Holding \cup {"done"}
    BY <1>2 DEF Holding
  <2>3. pc[Cube] \notin Holding \cup {"done"}
    BY <1>2 DEF Holding
  <2> QED
    BY <1>1, <2>1, <2>2, <2>3 DEF One
<1>3. CASE c = s
  <2>1. toVector'[s] = toVector[s] - 1 /\ toCube'[s] = toCube[s]
    BY <1>3 DEF TakeFlags
  <2>2. pc'[Cube] = pc[Cube] /\ pc'[s] \in Holding \cup {"zero", "open"}
    BY <1>3 DEF Holding
  <2>3. pc[s] \notin Holding \cup {"zero", "open"}
    BY <1>3 DEF Holding
  <2> QED
    BY <1>1, <2>1, <2>2, <2>3 DEF One
<1>4. CASE c # Cube /\ c # s
  <2>1. toVector'[s] = toVector[s] /\ toCube'[s] = toCube[s]
    BY <1>4 DEF TakeFlags
  <2>2. pc'[Cube] = pc[Cube] /\ pc'[s] = pc[s]
    BY <1>4
  <2> QED
    BY <1>1, <2>1, <2>2
<1> QED
  BY <1>2, <1>3, <1>4

LEMMA TokenGiven ==
  ASSUME AccessInv, NEW c \in Core, NEW p, GiveFlags(c),
         pc' = [pc EXCEPT ![c] = p],
         pc[c] = "set", p \in {"wait", "close", "done"},
         c = Cube => p # "done"
  PROVE  Token'
<1> USE CoreFacts DEF AccessInv, TypeOK
<1> SUFFICES ASSUME NEW s \in Sub
             PROVE  toCube'[s] + toVector'[s]
                      + One(pc'[Cube] \in Holding \cup {"done"})
                      + One(pc'[s] \in Holding \cup {"zero", "open"}) = 1
  BY DEF Token, One
<1>1. toCube[s] + toVector[s] + One(pc[Cube] \in Holding \cup {"done"})
        + One(pc[s] \in Holding \cup {"zero", "open"}) = 1
  BY DEF Token
<1>2. CASE c = Cube
  <2>1. toVector'[s] = toVector[s] + 1 /\ toCube'[s] = toCube[s]
    BY <1>2 DEF GiveFlags
  <2>2. pc'[s] = pc[s] /\ pc'[Cube] \notin Holding \cup {"done"}
    BY <1>2 DEF Holding
  <2>3. pc[Cube] \in Holding \cup {"done"}
    BY <1>2 DEF Holding
  <2> QED
    BY <1>1, <2>1, <2>2, <2>3 DEF One
<1>3. CASE c = s
  <2>1. toCube'[s] = toCube[s] + 1 /\ toVector'[s] = toVector[s]
    BY <1>3 DEF GiveFlags
  <2>2. pc'[Cube] = pc[Cube] /\ pc'[s] \notin Holding \cup {"zero", "open"}
    BY <1>3 DEF Holding
  <2>3. pc[s] \in Holding \cup {"zero", "open"}
    BY <1>3 DEF Holding
  <2> QED
    BY <1>1, <2>1, <2>2, <2>3 DEF One
<1>4. CASE c # Cube /\ c # s
  <2>1. toVector'[s] = toVector[s] /\ toCube'[s] = toCube[s]
    BY <1>4 DEF GiveFlags
  <2>2. pc'[Cube] = pc[Cube] /\ pc'[s] = pc[s]
    BY <1>4
  <2> QED
    BY <1>1, <2>1, <2>2
<1> QED
  BY <1>2, <1>3, <1>4

(* A step of a core that holds the token ends no opening: it is over.      *)
LEMMA OpeningIsOver ==
  ASSUME AccessInv, NEW c \in Core, NEW p, pc[c] \in Holding,
         pc' = [pc EXCEPT ![c] = p], p # "zero"
  PROVE  BeforeAll'
BY HolderIsAlone, CoreFacts DEF AccessInv, TypeOK, BeforeAll

LEMMA AccessNext == AccessInv /\ [Next]_vars => AccessInv'
<1> SUFFICES ASSUME AccessInv, [Next]_vars PROVE Token' /\ BeforeAll'
  BY TypeNext DEF AccessInv
<1> USE CoreFacts
<1>1. ASSUME NEW c \in Core, ZeroSSBuffer(c) PROVE Token' /\ BeforeAll'
  <2>1. PICK p \in {"wait", "close", "open"} :
          pc' = [pc EXCEPT ![c] = p] /\ (c # Cube <=> p = "open")
    BY <1>1 DEF ZeroSSBuffer, EnterLoop, AfterLoop
  <2>2. Token'
    BY <1>1, <2>1, TokenStays DEF ZeroSSBuffer, Holding
  <2>3. BeforeAll'
    BY <1>1, <2>1 DEF ZeroSSBuffer, AccessInv, TypeOK, BeforeAll, Holding, flagVars
  <2> QED
    BY <2>2, <2>3
<1>2. ASSUME NEW s \in Sub, OpenScope(s) PROVE Token' /\ BeforeAll'
  <2>1. PICK p \in {"wait", "done"} : pc' = [pc EXCEPT ![s] = p]
    BY <1>2 DEF OpenScope, EnterLoop, AfterLoop
  <2>2. Token'
    <3> USE DEF AccessInv, TypeOK
    <3>1. /\ toCube' = [toCube EXCEPT ![s] = toCube[s] + 1]
          /\ toVector' = toVector /\ pc[s] = "open"
      BY <1>2 DEF OpenScope
    <3>2. ASSUME NEW e \in Sub
          PROVE  toCube'[e] + toVector'[e]
                   + One(pc'[Cube] \in Holding \cup {"done"})
                   + One(pc'[e] \in Holding \cup {"zero", "open"}) = 1
      <4>1. toCube[e] + toVector[e] + One(pc[Cube] \in Holding \cup {"done"})
              + One(pc[e] \in Holding \cup {"zero", "open"}) = 1
        BY DEF Token
      <4>2. pc'[Cube] = pc[Cube]
        BY <2>1
      <4>3. CASE e = s
        <5>1. pc'[s] \notin Holding \cup {"zero", "open"}
          BY <2>1 DEF Holding
        <5>2. toCube'[s] = toCube[s] + 1
          BY <3>1
        <5> QED
          BY <3>1, <4>1, <4>2, <4>3, <5>1, <5>2 DEF One
      <4>4. CASE e # s
        BY <2>1, <3>1, <4>1, <4>2, <4>4
      <4> QED
        BY <4>3, <4>4
    <3> QED
      BY <3>2 DEF Token, One
  <2>3. BeforeAll'
    <3>1. pc \in [Core -> States] /\ s \in Core
      BY DEF AccessInv, TypeOK
    <3>2. /\ \A e \in Core : pc'[e] = "zero" => pc[e] = "zero"
          /\ \A e \in Core : pc'[e] \in Holding => pc[e] \in Holding
      BY <2>1, <3>1 DEF Holding
    <3>3. toVector' = toVector /\ runs' = runs
      BY <1>2 DEF OpenScope, dataVars
    <3> QED
      BY <3>2, <3>3 DEF AccessInv, BeforeAll
  <2> QED
    BY <2>2, <2>3
<1>3. ASSUME NEW c \in Core, Wait(c) PROVE Token' /\ BeforeAll'
  <2>1. Token'
    BY <1>3, TokenTaken DEF Wait
  <2>2. \A e \in Core : pc[e] # "zero"
    <3>1. CASE c = Cube
      <4>1. pc[Cube] = "wait" /\ \A s \in Sub : toCube[s] > 0
        BY <1>3, <3>1 DEF Wait, TakeFlags
      <4>2. ASSUME NEW s \in Sub PROVE pc[s] # "zero"
        <5>1. toCube[s] + toVector[s]
                + One(pc[Cube] \in Holding \cup {"done"})
                + One(pc[s] \in Holding \cup {"zero", "open"}) = 1
          BY DEF AccessInv, Token
        <5>2. toCube[s] \in Nat /\ toVector[s] \in Nat /\ toCube[s] > 0
          BY <4>1 DEF AccessInv, TypeOK
        <5>3. One(pc[s] \in Holding \cup {"zero", "open"}) = 0
          BY <5>1, <5>2 DEF One
        <5> QED
          BY <5>3 DEF One
      <4> QED
        BY <4>1, <4>2
    <3>2. CASE c # Cube
      <4>1. c \in Sub /\ toVector[c] > 0
        BY <1>3, <3>2 DEF Wait, TakeFlags
      <4>2. toVector[c] # 0
        BY <4>1 DEF AccessInv, TypeOK
      <4> QED
        BY <4>1, <4>2 DEF AccessInv, BeforeAll
    <3> QED
      BY <3>1, <3>2
  <2>3. BeforeAll'
    BY <1>3, <2>2 DEF Wait, AccessInv, TypeOK, BeforeAll
  <2> QED
    BY <2>1, <2>3
<1>4. ASSUME NEW c \in Core, SkipBlock(c) PROVE Token' /\ BeforeAll'
  <2>1. PICK p \in {"test", "set"} : pc' = [pc EXCEPT ![c] = p]
    BY <1>4, AdvanceHolds DEF SkipBlock, AccessInv
  <2> QED
    BY <1>4, <2>1, TokenStays, OpeningIsOver DEF SkipBlock, Holding
<1>5. ASSUME NEW c \in Core, EnterBlock(c) PROVE Token' /\ BeforeAll'
  BY <1>5, TokenStays, OpeningIsOver DEF EnterBlock, Holding
<1>6. ASSUME NEW c \in Core, RunBody(c) PROVE Token' /\ BeforeAll'
  BY <1>6, TokenStays, OpeningIsOver DEF RunBody, Holding
<1>7. ASSUME NEW c \in Core, Publish(c) PROVE Token' /\ BeforeAll'
  <2>1. PICK p \in {"test", "set"} : pc' = [pc EXCEPT ![c] = p]
    BY <1>7, AdvanceHolds DEF Publish, AccessInv
  <2> QED
    BY <1>7, <2>1, TokenStays, OpeningIsOver DEF Publish, Holding
<1>8. ASSUME NEW c \in Core, NextRound(c) PROVE Token' /\ BeforeAll'
  <2>1. GiveFlags(c) /\ pc[c] = "set" /\ pc' = [pc EXCEPT ![c] = "wait"]
    BY <1>8 DEF NextRound
  <2>2. Token'
    BY <2>1, TokenGiven
  <2>3. pc[c] \in Holding /\ "wait" # "zero"
    BY <2>1 DEF Holding
  <2>4. BeforeAll'
    BY <2>1, <2>3, OpeningIsOver
  <2> QED
    BY <2>2, <2>4
<1>9. ASSUME NEW c \in Core, EndPass(c) PROVE Token' /\ BeforeAll'
  <2>1. PICK p \in {"wait", "close", "done"} :
          pc' = [pc EXCEPT ![c] = p] /\ (c = Cube => p # "done")
    BY <1>9 DEF EndPass, AfterLoop
  <2>2. GiveFlags(c) /\ pc[c] = "set"
    BY <1>9 DEF EndPass
  <2>3. Token'
    BY <2>1, <2>2, TokenGiven
  <2>4. pc[c] \in Holding /\ p # "zero"
    BY <2>2 DEF Holding
  <2>5. BeforeAll'
    BY <2>1, <2>4, OpeningIsOver
  <2> QED
    BY <2>3, <2>5
<1>10. ASSUME CloseScope PROVE Token' /\ BeforeAll'
  <2>1. Token'
    BY <1>10, TokenTaken DEF CloseScope
  <2>2. BeforeAll'
    BY <1>10 DEF CloseScope, TakeFlags, AccessInv, TypeOK, BeforeAll, Holding, dataVars
  <2> QED
    BY <2>1, <2>2
<1>11. CASE UNCHANGED vars
  BY <1>11 DEF vars, AccessInv, Token, BeforeAll
<1> QED
  BY <1>1, <1>2, <1>3, <1>4, <1>5, <1>6, <1>7, <1>8, <1>9, <1>10, <1>11
     DEF Next, CoreStep, Terminating

LEMMA AccessSafe == AccessInv => ExclusiveAccess
BY HolderIsAlone, CoreFacts DEF ExclusiveAccess, Using, Holding

(* Flag 15 alone makes the plain loads and stores of the SSBuffer safe.    *)
THEOREM AccessIsExclusive == Spec => []ExclusiveAccess
BY AccessInit, AccessNext, AccessSafe, PTL DEF Spec

(* At the end the cube keeps the token, and none is pending.               *)
LEMMA FlagsSafe == AccessInv => FlagsBalance
<1> SUFFICES ASSUME AccessInv, NEW s \in Sub
             PROVE  /\ toCube[s] + toVector[s] <= 1
                    /\ Terminated => toCube[s] = 0 /\ toVector[s] = 0
  BY DEF FlagsBalance
<1> DEFINE x == One(pc[Cube] \in Holding \cup {"done"})
           y == One(pc[s] \in Holding \cup {"zero", "open"})
<1>1. toCube[s] + toVector[s] + x + y = 1
  BY DEF AccessInv, Token
<1>2. toCube[s] \in Nat /\ toVector[s] \in Nat
  BY DEF AccessInv, TypeOK
<1>3. x \in {0, 1} /\ y \in {0, 1}
  BY DEF One
<1>4. Terminated => x = 1
  BY CoreFacts DEF Terminated, One
<1> HIDE DEF x, y
<1> QED
  BY <1>1, <1>2, <1>3, <1>4

(* Flag 15 never holds two tokens, and a kernel leaves none behind for the *)
(* next.                                                                   *)
THEOREM FlagsAreBalanced == Spec => []FlagsBalance
BY AccessInit, AccessNext, FlagsSafe, PTL DEF Spec

-----------------------------------------------------------------------------
(* The words of the SSBuffer count the buffers.                            *)

(* What a core loaded is still there when it stores, and so is what it     *)
(* based its condition on.                                                 *)
HeldIsCurrent ==
  \A c \in Core : pc[c] = "publish" =>
    \A d \in Cross, s \in View(c) : held[c][d][s] = stat[d][s]

StillEnabled ==
  \A c \in Core : pc[c] \in {"body", "publish"} => CrossCondition(c, blk[c])

CountInv == AccessInv /\ HeldIsCurrent /\ StillEnabled /\ CountsAreOccupancy

LEMMA CountInit == Init => CountInv
<1> SUFFICES ASSUME Init PROVE CountInv
  OBVIOUS
<1>1. HeldIsCurrent /\ StillEnabled
  BY DEF Init, HeldIsCurrent, StillEnabled
<1>2. CountsAreOccupancy
  BY DEF Init, CountsAreOccupancy, Zeroed
<1> QED
  BY <1>1, <1>2, AccessInit DEF CountInv

(* A step of core c that neither runs a block nor touches the SSBuffer.    *)
LEMMA CountStays ==
  ASSUME CountInv, NEW c \in Core, NEW p,
         pc[c] # "zero", pc' = [pc EXCEPT ![c] = p],
         p \notin {"zero", "body", "publish"},
         UNCHANGED <<stat, held, runs>>,
         \A e \in Core : e # c => blk'[e] = blk[e]
  PROVE  HeldIsCurrent' /\ StillEnabled' /\ CountsAreOccupancy'
<1> USE DEF CountInv, AccessInv, TypeOK
<1>1. HeldIsCurrent'
  BY DEF HeldIsCurrent
<1>2. StillEnabled'
  BY DEF StillEnabled, CrossCondition
<1>3. Zeroed
  BY DEF Zeroed
<1>4. CountsAreOccupancy'
  BY <1>3 DEF CountsAreOccupancy, Producer, Consumer
<1> QED
  BY <1>1, <1>2, <1>4

(* A copy of the SSBuffer is in view of its vector and of the cube, and    *)
(* each of them is at one end of every dependency.                         *)
LEMMA Ends ==
  ASSUME NEW c \in Core, NEW d \in Cross, NEW s \in Sub
  PROVE  /\ s \in View(c) /\ Produces(c, d)
              <=> c = IF d.toVector THEN Cube ELSE s
         /\ s \in View(c) /\ ~Produces(c, d)
              <=> c = IF d.toVector THEN s ELSE Cube
<1>1. d.toVector \in BOOLEAN
  BY CrossAssumption
<1>2. CASE d.toVector
  BY <1>2, CoreFacts DEF View, Produces
<1>3. CASE ~d.toVector
  BY <1>1, <1>3, CoreFacts DEF View, Produces
<1> QED
  BY <1>1, <1>2, <1>3

LEMMA CrossFacts ==
  ASSUME NEW d \in Cross, NEW s \in Sub
  PROVE  /\ d.cap \in {1, 2}
         /\ d.src \in 1 .. NumBlocks(IF d.toVector THEN Cube ELSE s)
         /\ d.dst \in 1 .. NumBlocks(IF d.toVector THEN s ELSE Cube)
<1>1. d.cap \in {1, 2} /\ d.src \in Nat \ {0} /\ d.dst \in Nat \ {0}
  BY CrossAssumption
<1> QED
  BY <1>1, CrossAssumption, BlockAssumption, CoreFacts DEF NumBlocks

(* While core c is in a block, the cores in a block with it are vectors    *)
(* too, and none of them sees its copy of the SSBuffer.                    *)
LEMMA OthersApart ==
  ASSUME AccessInv, NEW c \in Core, pc[c] \in Holding,
         NEW e \in Core, e # c, pc[e] \in Holding
  PROVE  View(c) \cap View(e) = {}
<1>1. c \in Sub /\ e \in Sub
  BY HolderIsAlone, CoreFacts
<1> QED
  BY <1>1, CoreFacts DEF View

LEMMA PublishStat ==
  ASSUME CountInv, NEW c \in Core, Publish(c), NEW d \in Cross, NEW s \in Sub
  PROVE  stat'[d][s] =
           IF s \in View(c) /\ Produces(c, d) /\ d.src = blk[c]
           THEN stat[d][s] + 1
           ELSE IF s \in View(c) /\ ~Produces(c, d) /\ d.dst = blk[c]
           THEN stat[d][s] - 1
           ELSE stat[d][s]
<1> DEFINE b == blk[c]
<1>1. stat'[d][s] = IF d \in Inputs(c, b) \cup Outputs(c, b) /\ s \in View(c)
                    THEN held[c][d][s] + Delta(Inputs(c, b), Outputs(c, b), d)
                    ELSE stat[d][s]
  BY DEF Publish
<1>2. s \in View(c) => held[c][d][s] = stat[d][s]
  BY DEF CountInv, HeldIsCurrent, Publish
<1>3. stat[d][s] \in Int
  BY DEF CountInv, AccessInv, TypeOK
<1>4. (d \in Outputs(c, b) <=> Produces(c, d) /\ d.src = b)
      /\ (d \in Inputs(c, b) <=> ~Produces(c, d) /\ d.dst = b)
  BY DEF Inputs, Outputs
<1>5. Delta(Inputs(c, b), Outputs(c, b), d) =
        (IF d \in Outputs(c, b) THEN 1 ELSE 0)
          - (IF d \in Inputs(c, b) THEN 1 ELSE 0)
  BY DEF Delta
<1> HIDE DEF b
<1>6. CASE s \notin View(c)
  BY <1>1, <1>6
<1>7. CASE s \in View(c) /\ d \in Outputs(c, b)
  BY <1>1, <1>2, <1>3, <1>4, <1>5, <1>7 DEF b
<1>8. CASE s \in View(c) /\ d \in Inputs(c, b)
  BY <1>1, <1>2, <1>3, <1>4, <1>5, <1>8 DEF b
<1>9. CASE s \in View(c) /\ d \notin Inputs(c, b) \cup Outputs(c, b)
  BY <1>1, <1>4, <1>9 DEF b
<1> QED
  BY <1>6, <1>7, <1>8, <1>9

LEMMA PublishEnds ==
  ASSUME CountInv, NEW c \in Core, Publish(c), NEW d \in Cross, NEW s \in Sub
  PROVE  /\ Producer(d, s)' = Producer(d, s)
              + (IF s \in View(c) /\ Produces(c, d) /\ d.src = blk[c]
                 THEN 1 ELSE 0)
         /\ Consumer(d, s)' = Consumer(d, s)
              + (IF s \in View(c) /\ ~Produces(c, d) /\ d.dst = blk[c]
                 THEN 1 ELSE 0)
         /\ Producer(d, s) \in Nat /\ Consumer(d, s) \in Nat
<1> USE CoreFacts DEF CountInv, AccessInv, TypeOK
<1> DEFINE from == IF d.toVector THEN Cube ELSE s
           to   == IF d.toVector THEN s ELSE Cube
<1>1. from \in Core /\ to \in Core
  OBVIOUS
<1>2. d.src \in 1 .. NumBlocks(from) /\ d.dst \in 1 .. NumBlocks(to)
  BY CrossFacts
<1>3. blk[c] \in 1 .. NumBlocks(c)
  <2>1. blk[c] \in Nat \ {0} /\ blk[c] <= NumBlocks(c)
    OBVIOUS
  <2>2. NumBlocks(c) \in Nat
    OBVIOUS
  <2> QED
    BY <2>1, <2>2
<1>4. ASSUME NEW e \in Core, NEW n \in 1 .. NumBlocks(e)
      PROVE  /\ runs'[e][n] = runs[e][n]
                  + (IF c = e /\ n = blk[c] THEN 1 ELSE 0)
             /\ runs[e][n] \in Nat
  <2>1. /\ DOMAIN runs = Core
        /\ runs[c] \in [1 .. NumBlocks(c) -> Nat]
        /\ runs[e] \in [1 .. NumBlocks(e) -> Nat]
    OBVIOUS
  <2>2. runs' = [runs EXCEPT ![c] =
                   [runs[c] EXCEPT ![blk[c]] = runs[c][blk[c]] + 1]]
    BY DEF Publish
  <2> HIDE DEF CountInv, AccessInv, TypeOK
  <2>3. /\ runs'[c] = [runs[c] EXCEPT ![blk[c]] = runs[c][blk[c]] + 1]
        /\ e # c => runs'[e] = runs[e]
    BY <2>1, <2>2
  <2>4. runs[e][n] \in Nat
    BY <2>1
  <2>5. CASE c # e
    BY <2>3, <2>4, <2>5
  <2>6. CASE c = e /\ n # blk[c]
    <3>1. n \in 1 .. NumBlocks(c) /\ runs[c] \in [1 .. NumBlocks(c) -> Nat]
      BY <2>1, <2>6
    <3>2. runs'[c][n] = runs[c][n]
      BY <2>3, <2>6, <3>1
    <3> QED
      BY <2>4, <2>6, <3>2
  <2>7. CASE c = e /\ n = blk[c]
    BY <2>1, <2>3, <2>4, <2>7
  <2> QED
    BY <2>4, <2>5, <2>6, <2>7
<1>5. (c = from <=> s \in View(c) /\ Produces(c, d))
      /\ (c = to <=> s \in View(c) /\ ~Produces(c, d))
  BY Ends
<1>6. Producer(d, s) = runs[from][d.src] /\ Consumer(d, s) = runs[to][d.dst]
  BY DEF Producer, Consumer
<1>7. Producer(d, s)' = runs'[from][d.src] /\ Consumer(d, s)' = runs'[to][d.dst]
  BY DEF Producer, Consumer
<1> HIDE DEF from, to
<1>8. /\ runs'[from][d.src] = runs[from][d.src]
            + (IF c = from /\ d.src = blk[c] THEN 1 ELSE 0)
      /\ runs'[to][d.dst] = runs[to][d.dst]
            + (IF c = to /\ d.dst = blk[c] THEN 1 ELSE 0)
      /\ runs[from][d.src] \in Nat /\ runs[to][d.dst] \in Nat
  BY <1>1, <1>2, <1>4
<1> QED
  BY <1>5, <1>6, <1>7, <1>8

LEMMA CountPublish ==
  ASSUME CountInv, NEW c \in Core, Publish(c)
  PROVE  HeldIsCurrent' /\ StillEnabled' /\ CountsAreOccupancy'
<1> USE CoreFacts DEF CountInv, AccessInv, TypeOK
<1>1. PICK p \in {"test", "set"} : pc' = [pc EXCEPT ![c] = p]
  BY AdvanceHolds DEF Publish
<1>2. pc[c] = "publish" /\ pc[c] \in Holding
  BY DEF Publish, Holding
<1>3. \A e \in Core : e # c =>
        /\ pc'[e] = pc[e] /\ blk'[e] = blk[e] /\ held'[e] = held[e]
  BY <1>1 DEF Publish, Advance
<1>4. ASSUME NEW e \in Core, pc'[e] \in {"body", "publish"}
      PROVE  /\ e # c /\ pc[e] = pc'[e]
             /\ \A d \in Cross, s \in View(e) : stat'[d][s] = stat[d][s]
  <2>1. pc'[c] \in {"test", "set"}
    BY <1>1
  <2>2. e # c /\ pc[e] = pc'[e]
    BY <1>3, <1>4, <2>1
  <2>3. View(c) \cap View(e) = {}
    BY <1>2, <1>4, <2>2, OthersApart DEF Holding
  <2>4. ASSUME NEW d \in Cross, NEW s \in View(e)
        PROVE  stat'[d][s] = stat[d][s]
    <3>1. s \in Sub
      BY CoreFacts DEF View
    <3>2. s \notin View(c)
      BY <2>3
    <3> HIDE DEF CountInv, AccessInv, TypeOK
    <3> QED
      BY <3>1, <3>2, PublishStat
  <2> QED
    BY <2>2, <2>4
<1>5. HeldIsCurrent'
  BY <1>3, <1>4 DEF HeldIsCurrent
<1>6. StillEnabled'
  <2> SUFFICES ASSUME NEW e \in Core, pc'[e] \in {"body", "publish"}
               PROVE  CrossCondition(e, blk[e])'
    BY DEF StillEnabled
  <2>1. e # c /\ CrossCondition(e, blk[e]) /\ blk'[e] = blk[e]
    BY <1>3, <1>4 DEF StillEnabled
  <2>2. \A d \in Inputs(e, blk[e]) \cup Outputs(e, blk[e]) : d \in Cross
    BY DEF Inputs, Outputs
  <2>3. \A d \in Cross, s \in View(e) : stat'[d][s] = stat[d][s]
    BY <1>4
  <2> HIDE DEF CountInv, AccessInv, TypeOK
  <2> QED
    BY <2>1, <2>2, <2>3 DEF CrossCondition, Inputs, Outputs
<1>7. CountsAreOccupancy'
  <2> SUFFICES ASSUME NEW d \in Cross, NEW s \in Sub
               PROVE  /\ stat'[d][s] = Producer(d, s)' - Consumer(d, s)'
                      /\ stat'[d][s] \in 0 .. d.cap
    BY DEF CountsAreOccupancy
  <2>1. stat[d][s] = Producer(d, s) - Consumer(d, s) /\ stat[d][s] \in 0 .. d.cap
    BY <1>2 DEF CountsAreOccupancy, Zeroed
  <2>2. CrossCondition(c, blk[c])
    BY <1>2 DEF StillEnabled
  <2>3. s \in View(c) /\ Produces(c, d) /\ d.src = blk[c] => stat[d][s] < d.cap
    BY <2>2 DEF CrossCondition, Outputs
  <2>4. s \in View(c) /\ ~Produces(c, d) /\ d.dst = blk[c] => stat[d][s] > 0
    BY <2>2 DEF CrossCondition, Inputs
  <2>5. d.cap \in {1, 2}
    BY CrossFacts
  <2> HIDE DEF CountInv, AccessInv, TypeOK
  <2> QED
    BY <2>1, <2>3, <2>4, <2>5, PublishStat, PublishEnds
<1> QED
  BY <1>5, <1>6, <1>7

LEMMA CountNext == CountInv /\ [Next]_vars => CountInv'
<1> DEFINE Goal == HeldIsCurrent' /\ StillEnabled' /\ CountsAreOccupancy'
<1> SUFFICES ASSUME CountInv, [Next]_vars PROVE Goal
  BY AccessNext DEF CountInv
<1> USE CoreFacts DEF CountInv, AccessInv, TypeOK
<1>1. ASSUME NEW c \in Core, ZeroSSBuffer(c) PROVE Goal
  <2>1. \A e \in Core : pc'[e] \notin {"body", "publish"}
    <3>1. \A e \in Core : pc[e] \notin Holding
      BY <1>1, HolderIsAlone DEF ZeroSSBuffer
    <3> QED
      BY <1>1, <3>1 DEF ZeroSSBuffer, Holding, EnterLoop, AfterLoop
  <2>2. HeldIsCurrent' /\ StillEnabled'
    BY <2>1 DEF HeldIsCurrent, StillEnabled
  <2>3. CountsAreOccupancy'
    <3> SUFFICES ASSUME NEW d \in Cross, NEW s \in Sub
                 PROVE  /\ stat'[d][s] = Producer(d, s)' - Consumer(d, s)'
                        /\ stat'[d][s] \in 0 .. d.cap
      BY DEF CountsAreOccupancy
    <3>1. stat'[d][s] = 0 /\ runs' = runs
      BY <1>1 DEF ZeroSSBuffer
    <3>2. \A e \in Core : \A b \in 1 .. NumBlocks(e) : runs[e][b] = 0
      BY <1>1 DEF ZeroSSBuffer, BeforeAll
    <3>3. Producer(d, s)' = 0 /\ Consumer(d, s)' = 0
      <4>1. /\ d.src \in 1 .. NumBlocks(IF d.toVector THEN Cube ELSE s)
            /\ d.dst \in 1 .. NumBlocks(IF d.toVector THEN s ELSE Cube)
        BY CrossFacts
      <4> HIDE DEF CountInv, AccessInv, TypeOK
      <4>2. Producer(d, s) = 0 /\ Consumer(d, s) = 0
        BY <3>2, <4>1 DEF Producer, Consumer
      <4> QED
        BY <3>1, <4>2 DEF Producer, Consumer
    <3>4. d.cap \in {1, 2}
      BY CrossFacts
    <3> HIDE DEF CountInv, AccessInv, TypeOK
    <3> QED
      BY <3>1, <3>3, <3>4
  <2> QED
    BY <2>2, <2>3
<1>2. ASSUME NEW s \in Sub, OpenScope(s) PROVE Goal
  BY <1>2, CountStays DEF OpenScope, EnterLoop, AfterLoop, dataVars
<1>3. ASSUME NEW c \in Core, Wait(c) PROVE Goal
  BY <1>3, CountStays DEF Wait, dataVars
<1>4. ASSUME NEW c \in Core, SkipBlock(c) PROVE Goal
  <2>1. PICK p \in {"test", "set"} : pc' = [pc EXCEPT ![c] = p]
    BY <1>4, AdvanceHolds DEF SkipBlock
  <2>2. \A e \in Core : e # c => blk'[e] = blk[e]
    BY <1>4 DEF SkipBlock, Advance
  <2> QED
    BY <1>4, <2>1, <2>2, CountStays DEF SkipBlock, dataVars
<1>5. ASSUME NEW c \in Core, EnterBlock(c) PROVE Goal
  <2>1. UNCHANGED <<stat, held, runs, blk>> /\ pc[c] = "test"
        /\ pc' = [pc EXCEPT ![c] = "body"] /\ CrossCondition(c, blk[c])
    BY <1>5 DEF EnterBlock, Condition, dataVars
  <2>2. HeldIsCurrent'
    BY <2>1 DEF HeldIsCurrent
  <2>3. StillEnabled'
    BY <2>1 DEF StillEnabled, CrossCondition
  <2>4. CountsAreOccupancy'
    BY <2>1 DEF CountsAreOccupancy, Zeroed, Producer, Consumer
  <2> QED
    BY <2>2, <2>3, <2>4
<1>6. ASSUME NEW c \in Core, RunBody(c) PROVE Goal
  <2>1. UNCHANGED <<stat, runs, blk>> /\ pc[c] = "body"
        /\ pc' = [pc EXCEPT ![c] = "publish"]
        /\ held' = [held EXCEPT ![c] = stat]
    BY <1>6 DEF RunBody
  <2>2. HeldIsCurrent'
    BY <2>1 DEF HeldIsCurrent
  <2>3. StillEnabled'
    BY <2>1 DEF StillEnabled, CrossCondition
  <2>4. CountsAreOccupancy'
    BY <2>1 DEF CountsAreOccupancy, Zeroed, Producer, Consumer
  <2> QED
    BY <2>2, <2>3, <2>4
<1>7. ASSUME NEW c \in Core, Publish(c) PROVE Goal
  BY <1>7, CountPublish
<1>8. ASSUME NEW c \in Core, NextRound(c) PROVE Goal
  BY <1>8, CountStays DEF NextRound, dataVars
<1>9. ASSUME NEW c \in Core, EndPass(c) PROVE Goal
  BY <1>9, CountStays DEF EndPass, AfterLoop
<1>10. ASSUME CloseScope PROVE Goal
  BY <1>10, CountStays DEF CloseScope, dataVars
<1>11. CASE UNCHANGED vars
  BY <1>11 DEF vars, HeldIsCurrent, StillEnabled, CrossCondition,
               CountsAreOccupancy, Zeroed, Producer, Consumer
<1> QED
  BY <1>1, <1>2, <1>3, <1>4, <1>5, <1>6, <1>7, <1>8, <1>9, <1>10, <1>11
     DEF Next, CoreStep, Terminating

LEMMA CountSafe == CountInv => CountsAreOccupancy
BY DEF CountInv

(* The unlocked words of the SSBuffer are always the occupancy of the      *)
(* buffers they stand for, and no buffer is filled beyond its capacity.    *)
THEOREM CountsNeverDrift == Spec => []CountsAreOccupancy
BY CountInit, CountNext, CountSafe, PTL DEF Spec

-----------------------------------------------------------------------------
Inside(c) == pc[c] \in {"body", "publish"}

Sender(d, s)   == IF d.toVector THEN Cube ELSE s
Receiver(d, s) == IF d.toVector THEN s ELSE Cube

(* The runs of all passes before this one, if they were complete.          *)
Base(c) == pass[c] * Iterations

(* Where a core is in its rounds and passes.                               *)
InLoop == {"wait", "test", "body", "publish", "set"}

LoopInv ==
  \A c \in Core :
    /\ pass[c] <= Passes
    /\ pc[c] \in InLoop => pass[c] < Passes /\ round[c] < Rounds
    /\ pc[c] \in {"zero", "open"} => pass[c] = 0 /\ round[c] = 0
    /\ pc[c] \notin InLoop => round[c] = 0

(* The counter of a block has counted k runs of this pass.  "exact": and   *)
(* there were no others missing before.                                    *)
CountedAs(exact, c, b, k) ==
  /\ counter[c][b] = Lb + Step * k
  /\ runs[c][b] <= Base(c) + k
  /\ exact => runs[c][b] = Base(c) + k

Counted(exact) ==
  \A c \in Core : pass[c] < Passes =>
    \A b \in 1 .. NumBlocks(c) :
      \E k \in 0 .. Iterations : CountedAs(exact, c, b, k)

StillBelow == \A c \in Core : Inside(c) => counter[c][blk[c]] < Ub

Limit == \A c \in Core : \A b \in 1 .. NumBlocks(c) : runs[c][b] <= Passes * Iterations

(* A core that has not begun the first round of a pass has run nothing.    *)
FreshStart ==
  \A c \in Core : pc[c] \notin Holding /\ round[c] = 0 =>
    \A b \in 1 .. NumBlocks(c) : counter[c][b] = Lb

(* The cube is one round ahead of the vector while the latter has the      *)
(* token or is about to get it.                                            *)
Lead(s) == toVector[s] + One(pc[s] \in Holding)

InStep ==
  \A s \in Sub :
    \/ pass[Cube] = pass[s] /\ round[Cube] = round[s] + Lead(s)
    \/ /\ pass[Cube] = pass[s] + 1 /\ Lead(s) = 1
       /\ round[Cube] = 0 /\ round[s] + 1 = Rounds

(* The buffer an item lies in, and the items that lie in the buffers of d. *)
IndexAt(d, n) == IF d.cap = 1 \/ DivSI(n, Step) % 2 = 0 THEN 0 ELSE 1

Written(c, b) == runs[c][b] + One(pc[c] = "publish" /\ blk[c] = b)

SlotInv ==
  \A d \in Cross, s \in Sub :
    LET p == Sender(d, s)
        q == Receiver(d, s)
    IN  pass[q] < Passes =>
          \A r \in Nat : runs[q][d.dst] < r /\ r <= Written(p, d.src) =>
            slot[d][s][IndexAt(d, Lb + Step * (r - 1 - Base(q)))] = r

(* The same inside a vector core.                                          *)
VarInv ==
  \A s \in Sub : pass[s] < Passes =>
    \A d \in Intra :
      /\ var[s][d] = runs[s][d.src] - runs[s][d.dst]
      /\ var[s][d] \in 0 .. d.cap

IntraStill == \A c \in Core : Inside(c) => IntraCondition(c, blk[c])

IslotInv ==
  \A s \in Sub : pass[s] < Passes =>
    \A d \in Intra :
      \A r \in Nat : runs[s][d.dst] < r /\ r <= Written(s, d.src) =>
        islot[d][s][(r - 1 - Base(s)) % d.cap] = r

-----------------------------------------------------------------------------
(* The loop, and one core's step at a time.                                *)

LEMMA LoopFacts ==
  /\ Rounds \in Nat /\ Iterations \in Nat /\ Passes \in Nat \ {0}
  /\ Lb \in Int /\ Ub \in Int /\ Step \in Nat \ {0}
  /\ \A k \in Int : Lb + Step * k < Ub => k < Iterations
<1>1. MachineInt \subseteq Int
  BY PowerFacts DEF MachineInt
<1>2. /\ Lb \in Int /\ Ub \in Int /\ Step \in MachineInt \cap (Nat \ {0})
      /\ Passes \in Nat \ {0}
  BY <1>1, LoopAssumption
<1>3. IfCount \in Nat
  BY BlockAssumption DEF IfCount
<1>4. IsChain(Intra)
  <2>1. 1 .. VectorBlocks \subseteq Nat
    BY BlockAssumption
  <2>2. Intra \subseteq [src : Nat, dst : Nat, cap : Nat \ {0}]
    BY <2>1, IntraAssumption
  <2> QED
    BY <2>2, IntraAssumption DEF IsChain
<1>5. CalculateFactor(Intra) \in [req : Nat \ {0}, x : Nat \ {0}]
  BY <1>4, CalculateFactorFacts
<1>6. Rounds \in Nat
  BY <1>2, <1>3, <1>5, NewTripCountType DEF Rounds
<1>7. /\ Iterations \in Nat
      /\ \A k \in Int : Lb + Step * k < Ub => k < Iterations
  BY <1>2, TripCountFacts DEF Iterations
<1> QED
  BY <1>2, <1>6, <1>7

StepOf(c) ==
  CoreStep(c) \/ (c \in Sub /\ OpenScope(c)) \/ (c = Cube /\ CloseScope)

LEMMA NextIsStep ==
  ASSUME [Next]_vars
  PROVE  (\E c \in Core : StepOf(c)) \/ UNCHANGED vars
BY CoreFacts DEF Next, Terminating, StepOf

(* A step of c leaves all the others where they are.                       *)
LEMMA OthersStay ==
  ASSUME TypeOK, NEW c \in Core, StepOf(c), NEW e \in Core, e # c
  PROVE  /\ pc'[e] = pc[e] /\ pass'[e] = pass[e] /\ round'[e] = round[e]
         /\ blk'[e] = blk[e] /\ counter'[e] = counter[e] /\ runs'[e] = runs[e]
         /\ e \in Sub => var'[e] = var[e]
<1> USE DEF TypeOK, dataVars, flagVars
<1>1. CASE ZeroSSBuffer(c) \/ (c \in Sub /\ OpenScope(c)) \/ (c = Cube /\ CloseScope)
  BY <1>1 DEF ZeroSSBuffer, OpenScope, CloseScope
<1>2. CASE Wait(c) \/ EnterBlock(c) \/ RunBody(c)
  BY <1>2 DEF Wait, EnterBlock, RunBody
<1>3. CASE SkipBlock(c)
  BY <1>3 DEF SkipBlock, Advance
<1>4. CASE Publish(c)
  BY <1>4 DEF Publish, Advance
<1>5. CASE NextRound(c) \/ EndPass(c)
  BY <1>5 DEF NextRound, EndPass
<1> QED
  BY <1>1, <1>2, <1>3, <1>4, <1>5 DEF StepOf, CoreStep

(* Where a step of c takes it: only the end of a round changes the place   *)
(* in rounds and passes, only Publish and the end of a pass the counters.  *)
LEMMA WhereTo ==
  ASSUME TypeOK, NEW c \in Core, StepOf(c)
  PROVE  \/ /\ pc[c] \in {"zero", "open"}
            /\ pc'[c] = "open" \/ pc'[c] = EnterLoop(c)
            /\ UNCHANGED <<pass, round, counter, runs>>
         \/ /\ pc[c] = "wait" /\ pc'[c] = "test"
            /\ UNCHANGED <<pass, round, counter, runs>>
         \/ /\ pc[c] \in {"test", "body"}
            /\ pc'[c] \in {"test", "body", "publish", "set"}
            /\ UNCHANGED <<pass, round, counter, runs>>
         \/ Publish(c) /\ pc'[c] \in {"test", "set"}
         \/ NextRound(c) /\ pc'[c] = "wait"
         \/ EndPass(c)
         \/ /\ pc[c] = "close" /\ pc'[c] = "done"
            /\ UNCHANGED <<pass, round, counter, runs>>
<1> USE DEF TypeOK, dataVars, flagVars
<1>1. CASE ZeroSSBuffer(c) \/ (c \in Sub /\ OpenScope(c))
  BY <1>1 DEF ZeroSSBuffer, OpenScope
<1>2. CASE (c = Cube /\ CloseScope) \/ Wait(c)
  BY <1>2 DEF CloseScope, Wait
<1>3. CASE EnterBlock(c) \/ RunBody(c)
  BY <1>3 DEF EnterBlock, RunBody
<1>4. CASE SkipBlock(c)
  BY <1>4 DEF SkipBlock, Advance
<1>5. CASE Publish(c)
  BY <1>5 DEF Publish, Advance
<1>6. CASE NextRound(c)
  BY <1>6 DEF NextRound
<1> QED
  BY <1>1, <1>2, <1>3, <1>4, <1>5, <1>6 DEF StepOf, CoreStep

LEMMA LoopInit == Init => LoopInv
BY LoopFacts, CoreFacts DEF Init, LoopInv, InLoop

LEMMA LoopStep ==
  ASSUME TypeOK, LoopInv, NEW c \in Core, StepOf(c)
  PROVE  LoopInv'
<1> DEFINE At(e) == /\ pass'[e] <= Passes
                    /\ pc'[e] \in InLoop => pass'[e] < Passes /\ round'[e] < Rounds
                    /\ pc'[e] \in {"zero", "open"} => pass'[e] = 0 /\ round'[e] = 0
                    /\ pc'[e] \notin InLoop => round'[e] = 0
<1>1. \A e \in Core : e # c => At(e)
  BY OthersStay DEF LoopInv
<1>2. pass[c] \in Nat /\ round[c] \in Nat /\ Passes \in Nat \ {0} /\ Rounds \in Nat
  BY LoopFacts DEF TypeOK
<1>3. At(c)
  <2>1. CASE /\ pc[c] \in {"zero", "open"}
             /\ pc'[c] = "open" \/ pc'[c] = EnterLoop(c)
             /\ UNCHANGED <<pass, round, counter, runs>>
    <3>1. pass[c] = 0 /\ round[c] = 0
      BY <2>1 DEF LoopInv
    <3>2. \/ pc'[c] = "open"
          \/ pc'[c] = "wait" /\ Rounds > 0
          \/ pc'[c] \in {"close", "done"}
      BY <2>1 DEF EnterLoop, AfterLoop
    <3> QED
      BY <1>2, <2>1, <3>1, <3>2 DEF InLoop
  <2>2. CASE /\ pc[c] \in {"wait", "test", "body"}
             /\ pc'[c] \in {"test", "body", "publish", "set"}
             /\ UNCHANGED <<pass, round>>
    BY <2>2 DEF LoopInv, InLoop
  <2>3. CASE Publish(c) /\ pc'[c] \in {"test", "set"}
    BY <2>3 DEF LoopInv, InLoop, Publish
  <2>4. CASE NextRound(c) /\ pc'[c] = "wait"
    <3>1. pc[c] = "set" /\ round'[c] = round[c] + 1 /\ round[c] + 1 < Rounds /\ pass'[c] = pass[c]
      BY <2>4 DEF NextRound, TypeOK
    <3> QED
      BY <1>2, <2>4, <3>1 DEF LoopInv, InLoop
  <2>5. CASE EndPass(c)
    <3>1. /\ pc[c] = "set" /\ round'[c] = 0 /\ pass'[c] = pass[c] + 1
          /\ pc'[c] = IF pass[c] + 1 < Passes THEN "wait" ELSE AfterLoop(c)
      BY <2>5 DEF EndPass, TypeOK
    <3>2. pass[c] < Passes /\ round[c] < Rounds
      BY <3>1 DEF LoopInv, InLoop
    <3> QED
      BY <1>2, <3>1, <3>2 DEF InLoop, AfterLoop
  <2>6. CASE /\ pc[c] = "close" /\ pc'[c] = "done"
             /\ UNCHANGED <<pass, round>>
    BY <2>6 DEF LoopInv, InLoop
  <2> QED
    BY <2>1, <2>2, <2>3, <2>4, <2>5, <2>6, WhereTo
<1> HIDE DEF At
<1>4. \A e \in Core : At(e)
  BY <1>1, <1>3
<1> QED
  BY <1>4 DEF At, LoopInv

-----------------------------------------------------------------------------
(* The counters.                                                           *)

LEMMA PublishCounts ==
  ASSUME TypeOK, NEW c \in Core, Publish(c),
         NEW e \in Core, NEW n \in 1 .. NumBlocks(e)
  PROVE  /\ runs'[e][n] = runs[e][n] + One(e = c /\ n = blk[c])
         /\ counter'[e][n] =
              IF e = c /\ n = blk[c] THEN counter[e][n] + Step ELSE counter[e][n]
<1>1. blk[c] \in 1 .. NumBlocks(c)
  <2>1. NumBlocks(c) \in Nat
    BY CoreFacts
  <2>2. blk[c] \in Nat \ {0} /\ blk[c] =< NumBlocks(c)
    BY DEF TypeOK
  <2> QED
    BY <2>1, <2>2
<1>2. DOMAIN runs = Core /\ \A a \in Core : runs[a] \in [1 .. NumBlocks(a) -> Nat]
  BY DEF TypeOK
<1>3. DOMAIN counter = Core /\ \A a \in Core : counter[a] \in [1 .. NumBlocks(a) -> Int]
  BY DEF TypeOK
<1>4. runs[c][blk[c]] + 1 \in Nat /\ runs[e][n] \in Nat
  <2>1. runs[c] \in [1 .. NumBlocks(c) -> Nat] /\ runs[e] \in [1 .. NumBlocks(e) -> Nat]
    BY <1>2
  <2>2. runs[c][blk[c]] \in Nat /\ runs[e][n] \in Nat
    BY <1>1, <2>1
  <2> QED
    BY <2>2
<1>5. counter[c][blk[c]] + Step \in Int
  <2>1. counter[c] \in [1 .. NumBlocks(c) -> Int]
    BY <1>3
  <2>2. counter[c][blk[c]] \in Int /\ Step \in Int
    BY <1>1, <2>1, CoreFacts
  <2> QED
    BY <2>2
<1>6. /\ runs' = [runs EXCEPT ![c] = [runs[c] EXCEPT ![blk[c]] = runs[c][blk[c]] + 1]]
      /\ counter' = [counter EXCEPT ![c] =
                       [counter[c] EXCEPT ![blk[c]] = counter[c][blk[c]] + Step]]
  BY DEF Publish
<1>7. /\ \A a \in Core : a # c => runs'[a] = runs[a]
      /\ \A m \in 1 .. NumBlocks(c) :
           runs'[c][m] = IF m = blk[c] THEN runs[c][blk[c]] + 1 ELSE runs[c][m]
  BY <1>1, <1>2, <1>4, <1>6, BlockUpdate, ZenonT(60)
<1>8. /\ \A a \in Core : a # c => counter'[a] = counter[a]
      /\ \A m \in 1 .. NumBlocks(c) :
           counter'[c][m] = IF m = blk[c] THEN counter[c][blk[c]] + Step ELSE counter[c][m]
  BY <1>1, <1>3, <1>5, <1>6, BlockUpdate, ZenonT(60)
<1> QED
  BY <1>4, <1>7, <1>8 DEF One

CounterInv(exact) == LoopInv /\ Counted(exact) /\ StillBelow /\ Limit /\ FreshStart

LEMMA CounterInit ==
  ASSUME Init, NEW exact \in BOOLEAN
  PROVE  CounterInv(exact)
<1> USE DEF Init
<1>1. LoopInv
  BY LoopInit
<1>2. Counted(exact)
  <2> SUFFICES ASSUME NEW c \in Core, NEW b \in 1 .. NumBlocks(c)
               PROVE  \E k \in 0 .. Iterations : CountedAs(exact, c, b, k)
    BY DEF Counted
  <2>1. counter[c][b] = Lb /\ runs[c][b] = 0 /\ pass[c] = 0
    OBVIOUS
  <2>2. Base(c) = 0 /\ Lb + Step * 0 = Lb
    BY <2>1, LoopFacts DEF Base
  <2> HIDE DEF Init
  <2>3. CountedAs(exact, c, b, 0)
    BY <2>1, <2>2 DEF CountedAs
  <2> QED
    BY <2>3, LoopFacts
<1>3. StillBelow /\ FreshStart
  BY DEF StillBelow, Inside, FreshStart
<1>4. Limit
  <2>1. Passes * Iterations \in Nat
    BY LoopFacts
  <2>2. \A c \in Core : \A b \in 1 .. NumBlocks(c) : runs[c][b] = 0
    OBVIOUS
  <2> QED
    BY <2>1, <2>2 DEF Limit
<1> QED
  BY <1>1, <1>2, <1>3, <1>4 DEF CounterInv

(* The runs of a pass are not more than its iterations.                    *)
LEMMA Products ==
  ASSUME NEW p \in Nat, NEW q \in Nat, NEW n \in Nat
  PROVE  /\ p * n \in Nat
         /\ (p + 1) * n = p * n + n
         /\ p < q => p * n + n <= q * n
<1>1. p * n \in Nat /\ q * n \in Nat /\ (p + 1) * n = p * n + n
  OBVIOUS
<1>2. ASSUME p < q PROVE p * n + n <= q * n
  <2>1. q - (p + 1) \in Nat
    BY <1>2
  <2>2. (q - (p + 1)) * n \in Nat
    BY <2>1
  <2>3. (q - (p + 1)) * n = q * n - (p + 1) * n
    BY <2>1
  <2> QED
    BY <1>1, <2>2, <2>3
<1> QED
  BY <1>1, <1>2

LEMMA LimitFollows ==
  ASSUME TypeOK, NEW exact \in BOOLEAN, Counted(exact),
         NEW c \in Core, pass[c] < Passes, NEW b \in 1 .. NumBlocks(c)
  PROVE  runs[c][b] <= pass[c] * Iterations + Iterations
         /\ runs[c][b] <= Passes * Iterations
<1>1. PICK k \in 0 .. Iterations : CountedAs(exact, c, b, k)
  BY DEF Counted
<1>2. runs[c][b] <= pass[c] * Iterations + k /\ runs[c][b] \in Nat
  BY <1>1 DEF CountedAs, Base, TypeOK
<1>3. pass[c] \in Nat /\ Passes \in Nat /\ Iterations \in Nat
  BY LoopFacts DEF TypeOK
<1>4. pass[c] * Iterations \in Nat /\ Passes * Iterations \in Nat
      /\ pass[c] * Iterations + Iterations <= Passes * Iterations
  BY <1>3, Products
<1> QED
  BY <1>2, <1>3, <1>4

(* Publish counts one run more; as the block was below the upper bound,    *)
(* there was one left.                                                     *)
LEMMA CountedPublish ==
  ASSUME TypeOK, NEW exact \in BOOLEAN, LoopInv, Counted(exact), StillBelow,
         NEW c \in Core, Publish(c), pass'[c] = pass[c], pass[c] < Passes,
         NEW b \in 1 .. NumBlocks(c)
  PROVE  \E k \in 0 .. Iterations : CountedAs(exact, c, b, k)'
<1>1. PICK k \in 0 .. Iterations : CountedAs(exact, c, b, k)
  BY DEF Counted
<1>2. /\ runs'[c][b] = runs[c][b] + One(b = blk[c])
      /\ counter'[c][b] = IF b = blk[c] THEN counter[c][b] + Step ELSE counter[c][b]
  BY PublishCounts
<1>3. Base(c)' = Base(c) /\ Base(c) \in Nat
  <2>1. pass[c] \in Nat
    BY DEF TypeOK
  <2>2. pass[c] * Iterations \in Nat
    BY <2>1, LoopFacts, Products
  <2> QED
    BY <2>2 DEF Base
<1>4. runs[c][b] \in Nat /\ counter[c][b] \in Int
  BY DEF TypeOK
<1>5. CASE b # blk[c]
  BY <1>1, <1>2, <1>3, <1>4, <1>5 DEF CountedAs, One
<1>6. CASE b = blk[c]
  <2>1. counter[c][b] < Ub
    BY <1>6 DEF StillBelow, Inside, Publish
  <2>2. counter[c][b] = Lb + Step * k
    BY <1>1 DEF CountedAs
  <2>3. k < Iterations
    BY <2>1, <2>2, LoopFacts
  <2>4. Lb + Step * (k + 1) = Lb + Step * k + Step
    BY LoopFacts
  <2>5. CountedAs(exact, c, b, k + 1)'
    BY <1>1, <1>2, <1>3, <1>4, <1>6, <2>2, <2>4 DEF CountedAs, One
  <2> QED
    BY <2>3, <2>5, LoopFacts
<1> QED
  BY <1>5, <1>6

LEMMA CountedStep ==
  ASSUME TypeOK, NEW exact \in BOOLEAN, CounterInv(exact), NEW c \in Core, StepOf(c),
         exact => Passes = 1 \/ OftenEnough'
  PROVE  Counted(exact)'
<1> SUFFICES ASSUME NEW e \in Core, pass'[e] < Passes, NEW b \in 1 .. NumBlocks(e)
             PROVE  \E k \in 0 .. Iterations : CountedAs(exact, e, b, k)'
  BY DEF Counted
<1> USE DEF CounterInv
<1>1. CASE pass'[e] = pass[e] /\ counter'[e] = counter[e] /\ runs'[e] = runs[e]
  <2>1. PICK k \in 0 .. Iterations : CountedAs(exact, e, b, k)
    BY <1>1 DEF Counted
  <2>2. CountedAs(exact, e, b, k)'
    BY <1>1, <2>1 DEF CountedAs, Base
  <2> QED
    BY <2>2
<1>2. CASE e = c /\ Publish(c)
  BY <1>2, CountedPublish DEF Publish
<1>3. CASE e = c /\ NextRound(c)
  BY <1>1, <1>3 DEF NextRound, dataVars
<1>4. CASE e = c /\ EndPass(c)
  <2>1. /\ pass'[c] = pass[c] + 1 /\ counter'[c][b] = Lb /\ runs' = runs
    <3>1. pass'[c] = pass[c] + 1 /\ runs' = runs
      BY <1>4 DEF EndPass, TypeOK
    <3>2. counter'[c] = [n \in 1 .. NumBlocks(c) |-> Lb]
      BY <1>4 DEF EndPass, TypeOK
    <3>3. b \in 1 .. NumBlocks(c)
      BY <1>4
    <3> QED
      BY <3>1, <3>2, <3>3
  <2>2. pass[c] \in Nat /\ pass[c] + 1 < Passes /\ Passes \in Nat /\ Iterations \in Nat
    BY <1>4, <2>1, LoopFacts DEF TypeOK
  <2>3. runs[c][b] <= pass[c] * Iterations + Iterations
    BY <1>4, <2>2, LimitFollows
  <2>4. exact => runs'[c][b] >= pass'[c] * Iterations
    BY <1>4, <2>2 DEF OftenEnough
  <2>5. pass'[c] * Iterations = pass[c] * Iterations + Iterations
        /\ pass[c] * Iterations \in Nat
    BY <2>1, <2>2, Products
  <2>6. runs[c][b] \in Nat
    BY <1>4 DEF TypeOK
  <2>7. Lb + Step * 0 = Lb
    BY LoopFacts
  <2>8. /\ counter'[c][b] = Lb + Step * 0
        /\ runs'[c][b] <= pass'[c] * Iterations + 0
        /\ exact => runs'[c][b] = pass'[c] * Iterations + 0
    <3> DEFINE m == pass[c] * Iterations  n == pass'[c] * Iterations  r == runs[c][b]
    <3>1. n = m + Iterations /\ m \in Nat /\ r \in Nat /\ r <= m + Iterations
      BY <2>3, <2>5, <2>6
    <3>2. runs'[c][b] = r /\ (exact => runs'[c][b] >= n)
      BY <2>1, <2>4
    <3> HIDE DEF m, n, r
    <3>3. runs'[c][b] <= n + 0 /\ (exact => runs'[c][b] = n + 0)
      BY <2>2, <3>1, <3>2
    <3> QED
      BY <2>1, <2>7, <3>3 DEF n
  <2>9. CountedAs(exact, c, b, 0)'
    BY <2>8 DEF CountedAs, Base
  <2> QED
    BY <1>4, <2>2, <2>9
<1>5. CASE e # c
  BY <1>1, <1>5, OthersStay
<1> QED
  BY <1>1, <1>2, <1>3, <1>4, <1>5, WhereTo

LEMMA StillBelowStep ==
  ASSUME TypeOK, StillBelow, NEW c \in Core, StepOf(c)
  PROVE  StillBelow'
<1> SUFFICES ASSUME NEW e \in Core, Inside(e)'
             PROVE  counter'[e][blk'[e]] < Ub
  BY DEF StillBelow
<1>1. CASE e # c
  BY <1>1, OthersStay DEF StillBelow, Inside
<1>2. CASE e = c /\ EnterBlock(c)
  BY <1>2 DEF EnterBlock, Condition, dataVars
<1>3. CASE e = c /\ RunBody(c)
  BY <1>3 DEF RunBody, StillBelow, Inside
<1>4. ASSUME e = c, ~EnterBlock(c), ~RunBody(c) PROVE FALSE
  <2> USE DEF TypeOK, Inside
  <2>1. CASE ZeroSSBuffer(c) \/ (c \in Sub /\ OpenScope(c)) \/ (c = Cube /\ CloseScope)
    BY <1>4, <2>1 DEF ZeroSSBuffer, OpenScope, CloseScope, EnterLoop, AfterLoop
  <2>2. CASE Wait(c) \/ NextRound(c) \/ EndPass(c)
    BY <1>4, <2>2 DEF Wait, NextRound, EndPass, AfterLoop
  <2>3. CASE SkipBlock(c) \/ Publish(c)
    BY <1>4, <2>3 DEF SkipBlock, Publish, Advance
  <2> QED
    BY <1>4, <2>1, <2>2, <2>3 DEF StepOf, CoreStep
<1> QED
  BY <1>1, <1>2, <1>3, <1>4

LEMMA LimitStep ==
  ASSUME TypeOK, TypeOK', NEW exact \in BOOLEAN, Counted(exact)', Limit, LoopInv,
         NEW c \in Core, StepOf(c)
  PROVE  Limit'
<1> SUFFICES ASSUME NEW e \in Core, NEW b \in 1 .. NumBlocks(e)
             PROVE  runs'[e][b] <= Passes * Iterations
  BY DEF Limit
<1>1. CASE runs'[e] = runs[e]
  BY <1>1 DEF Limit
<1>2. CASE pass'[e] < Passes
  <2>1. PICK k \in 0 .. Iterations : CountedAs(exact, e, b, k)'
    BY <1>2 DEF Counted
  <2>2. runs'[e][b] <= pass'[e] * Iterations + k /\ runs'[e][b] \in Nat
    BY <2>1 DEF CountedAs, Base, TypeOK
  <2>3. pass'[e] \in Nat /\ Passes \in Nat /\ Iterations \in Nat
    BY LoopFacts DEF TypeOK
  <2>4. pass'[e] * Iterations \in Nat /\ Passes * Iterations \in Nat
        /\ pass'[e] * Iterations + Iterations <= Passes * Iterations
    BY <1>2, <2>3, Products
  <2> QED
    BY <2>2, <2>3, <2>4
<1>3. CASE e = c /\ Publish(c)
  BY <1>2, <1>3 DEF Publish, LoopInv, InLoop
<1>4. CASE e = c /\ (NextRound(c) \/ EndPass(c))
  BY <1>1, <1>4 DEF NextRound, EndPass, dataVars
<1>5. CASE e # c
  BY <1>1, <1>5, OthersStay
<1> QED
  BY <1>1, <1>3, <1>4, <1>5, WhereTo

LEMMA FreshStartStep ==
  ASSUME TypeOK, FreshStart, NEW c \in Core, StepOf(c)
  PROVE  FreshStart'
<1> SUFFICES ASSUME NEW e \in Core, pc'[e] \notin Holding, round'[e] = 0,
                    NEW b \in 1 .. NumBlocks(e)
             PROVE  counter'[e][b] = Lb
  BY DEF FreshStart
<1>1. CASE e # c
  BY <1>1, OthersStay DEF FreshStart
<1>2. CASE /\ pc[c] \in {"zero", "open", "close"}
           /\ UNCHANGED <<round, counter>> /\ e = c
  BY <1>2 DEF FreshStart, Holding
<1>3. CASE e = c /\ NextRound(c)
  <2>1. round'[c] = round[c] + 1 /\ round[c] \in Nat
    BY <1>3 DEF NextRound, TypeOK
  <2> QED
    BY <1>3, <2>1
<1>4. CASE e = c /\ EndPass(c)
  BY <1>4 DEF EndPass, TypeOK
<1>5. CASE e = c /\ pc'[c] \in {"test", "body", "publish", "set"}
  BY <1>5 DEF Holding
<1> QED
  BY <1>1, <1>2, <1>3, <1>4, <1>5, WhereTo

LEMMA CounterStep ==
  ASSUME TypeOK, NEW exact \in BOOLEAN, CounterInv(exact), [Next]_vars,
         exact => Passes = 1 \/ OftenEnough'
  PROVE  CounterInv(exact)'
<1>1. CASE UNCHANGED vars
  BY <1>1 DEF vars, CounterInv, LoopInv, Counted, CountedAs, Base, StillBelow, Inside,
              Limit, FreshStart
<1>2. CASE \E c \in Core : StepOf(c)
  <2>1. PICK c \in Core : StepOf(c)
    BY <1>2
  <2>2. TypeOK'
    BY TypeNext
  <2>3. LoopInv' /\ Counted(exact)' /\ StillBelow' /\ FreshStart'
    BY <2>1, LoopStep, CountedStep, StillBelowStep, FreshStartStep DEF CounterInv
  <2>4. Limit'
    BY <2>1, <2>2, <2>3, LimitStep DEF CounterInv
  <2> QED
    BY <2>3, <2>4 DEF CounterInv
<1> QED
  BY <1>1, <1>2, NextIsStep

LEMMA CounterSafe == TypeOK /\ CounterInv(FALSE) => NeverTooOften
<1> SUFFICES ASSUME TypeOK, CounterInv(FALSE), NEW c \in Core, NEW b \in 1 .. NumBlocks(c)
             PROVE  runs[c][b] <= (IF pass[c] < Passes THEN pass[c] + 1 ELSE Passes) * Iterations
  BY DEF NeverTooOften
<1>1. CASE pass[c] < Passes
  <2>1. runs[c][b] <= pass[c] * Iterations + Iterations
    BY <1>1, LimitFollows DEF CounterInv
  <2>2. (pass[c] + 1) * Iterations = pass[c] * Iterations + Iterations
    BY LoopFacts, Products DEF TypeOK
  <2> QED
    BY <1>1, <2>1, <2>2
<1>2. CASE ~(pass[c] < Passes)
  BY <1>2 DEF CounterInv, Limit
<1> QED
  BY <1>1, <1>2

(* However long the extended loop is, in every pass the counters stop each *)
(* block after the iterations of the original loop.                        *)
THEOREM BlocksStopInTime == Spec => []NeverTooOften
<1>1. FALSE \in BOOLEAN
  OBVIOUS
<1>2. Init => CounterInv(FALSE)
  BY <1>1, CounterInit
<1>3. TypeOK /\ CounterInv(FALSE) /\ [Next]_vars => CounterInv(FALSE)'
  BY <1>1, CounterStep
<1> QED
  BY TypeInit, TypeNext, <1>2, <1>3, CounterSafe, PTL DEF Spec

-----------------------------------------------------------------------------
(* In step: at "set", the end of a round, the token passes on.             *)

LEMMA WhatItDoes ==
  ASSUME NEW c \in Core, StepOf(c)
  PROVE  /\ pc[c] = "body" => RunBody(c)
         /\ pc[c] = "publish" => Publish(c)
         /\ pc[c] = "set" => NextRound(c) \/ EndPass(c)
         /\ pc[c] \notin {"body", "publish", "set"} =>
              \/ ZeroSSBuffer(c) \/ (c \in Sub /\ OpenScope(c)) \/ Wait(c)
              \/ SkipBlock(c) \/ EnterBlock(c) \/ (c = Cube /\ CloseScope)
BY DEF StepOf, CoreStep, ZeroSSBuffer, OpenScope, Wait, SkipBlock, EnterBlock, RunBody,
       Publish, NextRound, EndPass, CloseScope

LEMMA TokenLead ==
  ASSUME AccessInv, NEW s \in Sub
  PROVE  /\ Lead(s) \in {0, 1} /\ toVector[s] \in Nat
         /\ pc[Cube] \in Holding => Lead(s) = 0
         /\ pc[s] \in Holding => Lead(s) = 1 /\ toVector[s] = 0
<1> DEFINE x == One(pc[Cube] \in Holding \cup {"done"})
           y == One(pc[s] \in Holding \cup {"zero", "open"})
           z == One(pc[s] \in Holding)
<1>1. toCube[s] + toVector[s] + x + y = 1 /\ toCube[s] \in Nat /\ toVector[s] \in Nat
  BY DEF AccessInv, Token, TypeOK
<1>2. /\ x \in {0, 1} /\ y \in {0, 1} /\ z \in {0, 1} /\ z <= y
      /\ pc[Cube] \in Holding => x = 1
      /\ pc[s] \in Holding => z = 1
  BY DEF One
<1>3. Lead(s) = toVector[s] + z
  BY DEF Lead
<1> HIDE DEF x, y, z
<1> QED
  BY <1>1, <1>2, <1>3

LEMMA LeadMoves ==
  ASSUME AccessInv, NEW c \in Core, StepOf(c), NEW s \in Sub
  PROVE  Lead(s)' = Lead(s) + One(c = Cube /\ pc[c] = "set") - One(c = s /\ pc[c] = "set")
<1> USE CoreFacts
<1>1. /\ TypeOK /\ toVector \in [Sub -> Nat] /\ pc \in [Core -> States]
      /\ toVector[s] \in Nat
  BY DEF AccessInv, TypeOK
<1>2. CASE c # Cube /\ c # s
  <2>1. pc'[s] = pc[s]
    BY <1>1, <1>2, OthersStay
  <2>2. toVector'[s] = toVector[s]
    <3>1. CASE ZeroSSBuffer(c) \/ OpenScope(c) \/ SkipBlock(c) \/ EnterBlock(c)
               \/ RunBody(c) \/ Publish(c)
      BY <3>1 DEF ZeroSSBuffer, OpenScope, SkipBlock, EnterBlock, RunBody, Publish, flagVars
    <3>2. CASE Wait(c) \/ NextRound(c) \/ EndPass(c)
      BY <1>1, <1>2, <3>2 DEF Wait, NextRound, EndPass, TakeFlags, GiveFlags
    <3> QED
      BY <1>2, <3>1, <3>2 DEF StepOf, CoreStep
  <2> QED
    BY <1>1, <1>2, <2>1, <2>2 DEF Lead, One
<1>3. CASE c = Cube
  <2>1. pc'[s] = pc[s]
    BY <1>1, <1>3, OthersStay
  <2>2. toVector'[s] = toVector[s] + One(pc[c] = "set")
    <3>1. CASE pc[c] = "set"
      <4>1. GiveFlags(c)
        BY <3>1, WhatItDoes DEF NextRound, EndPass
      <4> QED
        BY <1>1, <1>3, <3>1, <4>1 DEF GiveFlags, One
    <3>2. CASE ZeroSSBuffer(c) \/ SkipBlock(c) \/ EnterBlock(c) \/ RunBody(c) \/ Publish(c)
      BY <1>1, <3>2 DEF ZeroSSBuffer, SkipBlock, EnterBlock, RunBody, Publish, flagVars, One
    <3>3. CASE Wait(c) \/ CloseScope
      <4>1. pc[c] # "set" /\ TakeFlags(c)
        BY <1>3, <3>3 DEF Wait, CloseScope
      <4>2. toVector' = toVector
        BY <1>3, <4>1 DEF TakeFlags
      <4> QED
        BY <1>1, <4>1, <4>2 DEF One
    <3> QED
      BY <1>3, <3>1, <3>2, <3>3 DEF StepOf, CoreStep, NextRound, EndPass
  <2>3. c # s
    BY <1>3
  <2> QED
    BY <1>1, <1>3, <2>1, <2>2, <2>3 DEF Lead, One
<1>4. CASE c = s
  <2>1. CASE pc[s] = "set"
    <3>1. GiveFlags(s) /\ pc'[s] \notin Holding
      BY <1>1, <1>4, <2>1, WhatItDoes DEF NextRound, EndPass, AfterLoop, Holding
    <3>2. toVector' = toVector
      BY <3>1 DEF GiveFlags
    <3>3. One(pc'[s] \in Holding) = 0 /\ One(pc[s] \in Holding) = 1
      BY <2>1, <3>1 DEF One, Holding
    <3>4. One(c = Cube /\ pc[c] = "set") = 0 /\ One(c = s /\ pc[c] = "set") = 1
      BY <1>4, <2>1 DEF One
    <3> QED
      BY <1>1, <3>2, <3>3, <3>4 DEF Lead
  <2>2. CASE Wait(s)
    <3>1. toVector'[s] = toVector[s] - 1 /\ pc[s] = "wait" /\ pc'[s] = "test"
      BY <1>1, <2>2 DEF Wait, TakeFlags
    <3>2. One(pc'[s] \in Holding) = 1 /\ One(pc[s] \in Holding) = 0
      BY <3>1 DEF One, Holding
    <3>3. One(c = Cube /\ pc[c] = "set") = 0 /\ One(c = s /\ pc[c] = "set") = 0
      BY <1>4, <3>1 DEF One
    <3> QED
      BY <1>1, <3>1, <3>2, <3>3 DEF Lead
  <2>3. CASE ZeroSSBuffer(s) \/ OpenScope(s) \/ SkipBlock(s) \/ EnterBlock(s)
             \/ RunBody(s) \/ Publish(s)
    <3>1. toVector'[s] = toVector[s]
      BY <2>3 DEF ZeroSSBuffer, OpenScope, SkipBlock, EnterBlock, RunBody, Publish, flagVars
    <3>2. pc[s] # "set" /\ (pc'[s] \in Holding <=> pc[s] \in Holding)
      <4>1. CASE ZeroSSBuffer(s) \/ OpenScope(s)
        BY <1>1, <4>1 DEF ZeroSSBuffer, OpenScope, EnterLoop, AfterLoop, Holding
      <4>2. CASE SkipBlock(s) \/ EnterBlock(s) \/ RunBody(s) \/ Publish(s)
        BY <1>1, <4>2 DEF SkipBlock, EnterBlock, RunBody, Publish, Advance, Holding
      <4> QED
        BY <2>3, <4>1, <4>2
    <3> QED
      BY <1>1, <1>4, <3>1, <3>2 DEF Lead, One
  <2> QED
    BY <1>4, <2>1, <2>2, <2>3 DEF StepOf, CoreStep, NextRound, EndPass
<1> QED
  BY <1>2, <1>3, <1>4

LEMMA InStepInit == Init => InStep
BY CoreFacts DEF Init, InStep, Lead, One, Holding

(* Only at "set" does a core move on in rounds or passes.                  *)
LEMMA PlaceStays ==
  ASSUME TypeOK, NEW c \in Core, StepOf(c), pc[c] # "set"
  PROVE  UNCHANGED <<pass, round>>
BY WhereTo DEF Publish, NextRound, EndPass

LEMMA InStepStep ==
  ASSUME AccessInv, LoopInv, InStep, NEW c \in Core, StepOf(c)
  PROVE  InStep'
<1> USE CoreFacts
<1>1. TypeOK
  BY DEF AccessInv
<1> SUFFICES ASSUME NEW s \in Sub
             PROVE  \/ pass'[Cube] = pass'[s] /\ round'[Cube] = round'[s] + Lead(s)'
                    \/ /\ pass'[Cube] = pass'[s] + 1 /\ Lead(s)' = 1
                       /\ round'[Cube] = 0 /\ round'[s] + 1 = Rounds
  BY DEF InStep
<1>2. \/ pass[Cube] = pass[s] /\ round[Cube] = round[s] + Lead(s)
      \/ /\ pass[Cube] = pass[s] + 1 /\ Lead(s) = 1
         /\ round[Cube] = 0 /\ round[s] + 1 = Rounds
  BY DEF InStep
<1>3. /\ pass[Cube] \in Nat /\ pass[s] \in Nat /\ Rounds \in Nat
      /\ round[Cube] \in Nat /\ round[s] \in Nat /\ Lead(s) \in {0, 1}
  BY LoopFacts, TokenLead DEF AccessInv, TypeOK
<1>4. CASE pc[c] # "set" \/ c \notin {Cube, s}
  <2>1. pass'[Cube] = pass[Cube] /\ round'[Cube] = round[Cube]
        /\ pass'[s] = pass[s] /\ round'[s] = round[s]
    BY <1>1, <1>4, PlaceStays, OthersStay
  <2>2. Lead(s)' = Lead(s)
    BY <1>3, <1>4, LeadMoves DEF One
  <2> QED
    BY <1>2, <2>1, <2>2
<1>5. CASE pc[c] = "set" /\ c = Cube
  <2>1. Lead(s) = 0 /\ Lead(s)' = 1
    <3>1. Lead(s) = 0
      BY <1>5, TokenLead DEF Holding
    <3>2. Lead(s)' = Lead(s) + 1 - 0
      BY <1>5, LeadMoves DEF One
    <3> QED
      BY <3>1, <3>2
  <2>2. pass[Cube] = pass[s] /\ round[Cube] = round[s]
    BY <1>2, <1>3, <2>1
  <2>3. pass'[s] = pass[s] /\ round'[s] = round[s]
    BY <1>1, <1>5, OthersStay
  <2>4. CASE NextRound(Cube)
    <3>1. pass'[Cube] = pass[Cube] /\ round'[Cube] = round[Cube] + 1
      BY <1>1, <2>4 DEF NextRound, TypeOK
    <3> QED
      BY <2>1, <2>2, <2>3, <3>1
  <2>5. CASE EndPass(Cube)
    <3>1. /\ pass'[Cube] = pass[Cube] + 1 /\ round'[Cube] = 0
          /\ round[Cube] + 1 >= Rounds
      BY <1>1, <2>5 DEF EndPass, TypeOK
    <3>2. round[Cube] < Rounds
      BY <1>5 DEF LoopInv, InLoop
    <3> QED
      BY <1>3, <2>1, <2>2, <2>3, <3>1, <3>2
  <2> QED
    BY <1>5, <2>4, <2>5, WhatItDoes
<1>6. CASE pc[c] = "set" /\ c = s
  <2>1. Lead(s) = 1 /\ Lead(s)' = 0
    <3>1. Lead(s) = 1
      BY <1>6, TokenLead DEF Holding
    <3>2. Lead(s)' = Lead(s) + 0 - 1
      BY <1>6, LeadMoves DEF One
    <3> QED
      BY <3>1, <3>2
  <2>2. pass'[Cube] = pass[Cube] /\ round'[Cube] = round[Cube]
    BY <1>1, <1>6, OthersStay
  <2>3. round[s] < Rounds /\ (round[Cube] < Rounds \/ round[Cube] = 0)
    BY <1>6 DEF LoopInv, InLoop
  <2>4. CASE NextRound(s)
    <3>1. /\ pass'[s] = pass[s] /\ round'[s] = round[s] + 1
          /\ round[s] + 1 < Rounds
      BY <1>1, <2>4 DEF NextRound, TypeOK
    <3> QED
      BY <1>2, <1>3, <2>1, <2>2, <3>1
  <2>5. CASE EndPass(s)
    <3>1. /\ pass'[s] = pass[s] + 1 /\ round'[s] = 0
          /\ round[s] + 1 >= Rounds
      BY <1>1, <2>5 DEF EndPass, TypeOK
    <3> QED
      BY <1>2, <1>3, <2>1, <2>2, <2>3, <3>1
  <2> QED
    BY <1>6, <2>4, <2>5, WhatItDoes
<1> QED
  BY <1>4, <1>5, <1>6

(* Who works on a buffer is in the pass of the other end, or about to      *)
(* finish a pass that the cube has finished already.                       *)
LEMMA SamePass ==
  ASSUME AccessInv, InStep, FreshStart, NEW s \in Sub
  PROVE  /\ pc[Cube] \in Holding => pass[s] = pass[Cube] /\ pc[s] \notin Holding
         /\ pc[s] \in Holding =>
              /\ pc[Cube] \notin Holding
              /\ \/ pass[Cube] = pass[s]
                 \/ /\ pass[Cube] = pass[s] + 1
                    /\ \A b \in 1 .. NumBlocks(Cube) : counter[Cube][b] = Lb
<1>1. CASE pc[Cube] \in Holding
  BY <1>1, TokenLead, HolderIsAlone, CoreFacts DEF InStep
<1>2. CASE pc[s] \in Holding
  <2>1. pc[Cube] \notin Holding
    BY <1>2, HolderIsAlone, CoreFacts
  <2> QED
    BY <1>2, <2>1, CoreFacts DEF InStep, FreshStart
<1> QED
  BY <1>1, <1>2

-----------------------------------------------------------------------------
(* The index of a buffer.                                                  *)

(* The sign of the bounds matters where the quotient is rounded to zero:   *)
(* from Lb = -1 with Step = 2 the first two iterations use one buffer.     *)
Alternating == (\A d \in Cross : d.cap = 1) \/ Lb >= 0 \/ Lb % Step = 0

LEMMA DivSIMultiple ==
  ASSUME NEW m \in Int
  PROVE  DivSI(Step * m, Step) = m
<1> USE LoopFacts
<1>1. CASE Step * m < 0
  <2>1. -(Step * m) = Step * (-m) /\ (Step * (-m)) \div Step = -m
    BY Multiple
  <2> QED
    BY <1>1, <2>1 DEF DivSI
<1>2. CASE ~(Step * m < 0)
  <2>1. (Step * m) \div Step = m
    BY Multiple
  <2> QED
    BY <1>2, <2>1 DEF DivSI
<1> QED
  BY <1>1, <1>2

LEMMA DivSIFacts ==
  ASSUME Lb >= 0 \/ Lb % Step = 0
  PROVE  \E m \in Int : \A k \in Nat : DivSI(Lb + Step * k, Step) = m + k
<1> USE LoopFacts
<1> DEFINE m == Lb \div Step
<1>1. m \in Int
  BY Quotient
<1>2. CASE Lb >= 0
  <2>1. ASSUME NEW k \in Nat PROVE DivSI(Lb + Step * k, Step) = m + k
    <3>1. (Lb + Step * k) \div Step = m + k
      BY Multiple
    <3>2. Step * k \in Nat
      OBVIOUS
    <3>3. ~(Lb + Step * k < 0)
      BY <1>2, <3>2
    <3> HIDE DEF m
    <3> QED
      BY <3>1, <3>3 DEF DivSI
  <2> QED
    BY <1>1, <2>1
<1>3. CASE Lb % Step = 0
  <2>1. Lb = Step * m
    <3>1. Lb = Step * (Lb \div Step) + (Lb % Step)
      OBVIOUS
    <3>2. Step * m \in Int
      BY <1>1
    <3> QED
      BY <1>3, <3>1, <3>2
  <2> HIDE DEF m
  <2>2. ASSUME NEW k \in Nat PROVE DivSI(Lb + Step * k, Step) = m + k
    <3>1. Lb + Step * k = Step * (m + k)
      BY <1>1, <2>1
    <3> QED
      BY <1>1, <3>1, DivSIMultiple
  <2> QED
    BY <1>1, <2>2
<1> QED
  BY <1>2, <1>3

(* Two iterations in a row use different buffers.                          *)
LEMMA NextBuffer ==
  ASSUME Alternating, NEW d \in Cross, d.cap = 2, NEW k \in Nat
  PROVE  IndexAt(d, Lb + Step * k) # IndexAt(d, Lb + Step * (k + 1))
<1>1. Lb >= 0 \/ Lb % Step = 0
  BY DEF Alternating
<1>2. PICK m \in Int : \A j \in Nat : DivSI(Lb + Step * j, Step) = m + j
  BY <1>1, DivSIFacts
<1>3. /\ DivSI(Lb + Step * k, Step) = m + k
      /\ DivSI(Lb + Step * (k + 1), Step) = m + k + 1
  BY <1>2
<1>4. (m + k) % 2 = 0 <=> (m + k + 1) % 2 # 0
  OBVIOUS
<1> QED
  BY <1>3, <1>4 DEF IndexAt

LEMMA IndexInRange ==
  ASSUME NEW d \in Cross, NEW n \in Int
  PROVE  IndexAt(d, n) \in 0 .. d.cap - 1
<1>1. d.cap \in {1, 2}
  BY CrossAssumption
<1> QED
  BY <1>1 DEF IndexAt

(* Residues do not repeat within a period.                                 *)
LEMMA Residues ==
  ASSUME NEW a \in Int, NEW b \in Int, NEW c \in Nat \ {0}, a < b, b - a < c
  PROVE  (a % c) # (b % c)
<1> SUFFICES ASSUME a % c = b % c PROVE FALSE
  OBVIOUS
<1> DEFINE t == (b \div c) - (a \div c)
<1>1. a \div c \in Int /\ b \div c \in Int
  BY Quotient
<1>2. a = c * (a \div c) + (a % c) /\ b = c * (b \div c) + (b % c)
  OBVIOUS
<1>3. c * t = c * (b \div c) - c * (a \div c) /\ t \in Int
  BY <1>1
<1>4. c * (a \div c) \in Int /\ c * (b \div c) \in Int /\ a % c \in Int
  BY <1>1
<1>5. c * t = b - a
  BY <1>2, <1>3, <1>4
<1> HIDE DEF t
<1>6. t >= 1 => c * t >= c
  BY <1>3
<1>7. t <= 0 => c * t <= 0
  BY <1>3
<1> QED
  BY <1>3, <1>5, <1>6, <1>7

-----------------------------------------------------------------------------
(* What lies in the buffers between cores.                                 *)

SlotDomains ==
  /\ \A d \in Cross, s \in Sub : DOMAIN slot[d][s] = 0 .. d.cap - 1
  /\ \A d \in Intra, s \in Sub : DOMAIN islot[d][s] = 0 .. d.cap - 1

LEMMA EndFacts ==
  ASSUME TypeOK, NEW d \in Cross, NEW s \in Sub
  PROVE  /\ Sender(d, s) \in Core /\ Receiver(d, s) \in Core
         /\ d.src \in 1 .. NumBlocks(Sender(d, s))
         /\ d.dst \in 1 .. NumBlocks(Receiver(d, s))
         /\ Producer(d, s) = runs[Sender(d, s)][d.src] /\ Producer(d, s) \in Nat
         /\ Consumer(d, s) = runs[Receiver(d, s)][d.dst] /\ Consumer(d, s) \in Nat
         /\ d.cap \in {1, 2}
         /\ Sender(d, s) # Receiver(d, s)
         /\ {Sender(d, s), Receiver(d, s)} = {Cube, s}
<1>1. Sender(d, s) \in Core /\ Receiver(d, s) \in Core /\ Sender(d, s) # Receiver(d, s)
      /\ {Sender(d, s), Receiver(d, s)} = {Cube, s}
  BY CoreFacts DEF Sender, Receiver
<1>2. /\ d.src \in 1 .. NumBlocks(Sender(d, s))
      /\ d.dst \in 1 .. NumBlocks(Receiver(d, s)) /\ d.cap \in {1, 2}
  BY CrossFacts DEF Sender, Receiver
<1>3. /\ Producer(d, s) = runs[Sender(d, s)][d.src]
      /\ Consumer(d, s) = runs[Receiver(d, s)][d.dst]
  BY DEF Producer, Consumer, Sender, Receiver
<1>4. /\ runs[Sender(d, s)] \in [1 .. NumBlocks(Sender(d, s)) -> Nat]
      /\ runs[Receiver(d, s)] \in [1 .. NumBlocks(Receiver(d, s)) -> Nat]
  BY <1>1 DEF TypeOK
<1>5. runs[Sender(d, s)][d.src] \in Nat /\ runs[Receiver(d, s)][d.dst] \in Nat
  BY <1>2, <1>4
<1> QED
  BY <1>1, <1>2, <1>3, <1>5

(* A block that runs is at iteration k of its pass.                        *)
LEMMA Iteration ==
  ASSUME TypeOK, CounterInv(TRUE), NEW c \in Core, Inside(c)
  PROVE  /\ pass[c] < Passes
         /\ \E k \in Nat : /\ k < Iterations
                          /\ counter[c][blk[c]] = Lb + Step * k
                          /\ runs[c][blk[c]] = Base(c) + k
<1>1. pass[c] < Passes
  BY DEF CounterInv, LoopInv, InLoop, Inside
<1>2. blk[c] \in 1 .. NumBlocks(c)
  BY CoreFacts DEF TypeOK
<1>3. PICK k \in 0 .. Iterations : CountedAs(TRUE, c, blk[c], k)
  BY <1>1, <1>2 DEF CounterInv, Counted
<1>4. counter[c][blk[c]] = Lb + Step * k /\ runs[c][blk[c]] = Base(c) + k
  BY <1>3 DEF CountedAs
<1>5. counter[c][blk[c]] < Ub
  BY DEF CounterInv, StillBelow
<1>6. k < Iterations /\ k \in Nat
  BY <1>4, <1>5, LoopFacts
<1> QED
  BY <1>1, <1>4, <1>6

(* Between passes: where a block stands in the current one.                *)
LEMMA RunsInPass ==
  ASSUME TypeOK, CounterInv(TRUE), NEW c \in Core, pass[c] < Passes,
         NEW b \in 1 .. NumBlocks(c)
  PROVE  /\ Base(c) \in Nat
         /\ Base(c) <= runs[c][b] /\ runs[c][b] <= Base(c) + Iterations
         /\ counter[c][b] = Lb => runs[c][b] = Base(c)
<1>1. PICK k \in 0 .. Iterations : CountedAs(TRUE, c, b, k)
  BY DEF CounterInv, Counted
<1>2. counter[c][b] = Lb + Step * k /\ runs[c][b] = Base(c) + k
  BY <1>1 DEF CountedAs
<1>3. Base(c) \in Nat
  BY LoopFacts, Products DEF TypeOK, Base
<1>4. ASSUME counter[c][b] = Lb PROVE k = 0
  <2>1. Step * k = 0 /\ k \in Nat
    BY <1>2, <1>4, LoopFacts
  <2>2. k > 0 => Step * k > 0
    BY LoopFacts
  <2> QED
    BY <2>1, <2>2
<1> QED
  BY <1>2, <1>3, <1>4, LoopFacts

(* Where a step changes runs, buffers and passes.                          *)
LEMMA RunsMove ==
  ASSUME TypeOK, NEW c \in Core, StepOf(c), NEW e \in Core, NEW b \in 1 .. NumBlocks(e)
  PROVE  /\ runs'[e][b] = runs[e][b] + One(e = c /\ pc[c] = "publish" /\ b = blk[c])
         /\ runs[e][b] \in Nat
<1>1. runs[e][b] \in Nat
  BY DEF TypeOK
<1>2. CASE pc[c] = "publish"
  <2>1. runs'[e][b] = runs[e][b] + One(e = c /\ b = blk[c])
    BY <1>2, WhatItDoes, PublishCounts
  <2> QED
    BY <1>1, <1>2, <2>1 DEF One
<1>3. CASE pc[c] # "publish"
  <2>1. runs' = runs
    BY <1>3, WhereTo DEF Publish, NextRound, EndPass, dataVars
  <2> QED
    BY <1>1, <1>3, <2>1 DEF One
<1> QED
  BY <1>1, <1>2, <1>3

LEMMA WrittenMoves ==
  ASSUME TypeOK, NEW c \in Core, StepOf(c), NEW e \in Core, NEW b \in 1 .. NumBlocks(e)
  PROVE  Written(e, b)' = Written(e, b) + One(e = c /\ pc[c] = "body" /\ b = blk[c])
<1>1. runs'[e][b] = runs[e][b] + One(e = c /\ pc[c] = "publish" /\ b = blk[c])
      /\ runs[e][b] \in Nat
  BY RunsMove
<1>2. CASE e # c
  <2>1. pc'[e] = pc[e] /\ blk'[e] = blk[e] /\ runs'[e] = runs[e]
    BY <1>2, OthersStay
  <2> QED
    BY <1>1, <1>2, <2>1 DEF Written, One
<1>3. CASE e = c /\ pc[c] = "body"
  <2>1. pc'[c] = "publish" /\ blk' = blk
    BY <1>3, WhatItDoes DEF RunBody, TypeOK
  <2> QED
    BY <1>1, <1>3, <2>1 DEF Written, One
<1>4. CASE e = c /\ pc[c] # "body"
  <2>1. pc'[c] # "publish"
    <3>1. CASE pc[c] \in {"publish", "set"}
      BY <3>1, WhatItDoes DEF Publish, Advance, NextRound, EndPass, AfterLoop, TypeOK
    <3>2. CASE ZeroSSBuffer(c) \/ (c \in Sub /\ OpenScope(c)) \/ (c = Cube /\ CloseScope)
      BY <3>2 DEF ZeroSSBuffer, OpenScope, CloseScope, EnterLoop, AfterLoop, TypeOK
    <3>3. CASE Wait(c) \/ SkipBlock(c) \/ EnterBlock(c)
      BY <3>3 DEF Wait, SkipBlock, Advance, EnterBlock, TypeOK
    <3> QED
      BY <1>4, <3>1, <3>2, <3>3, WhatItDoes
  <2> QED
    BY <1>1, <1>4, <2>1 DEF Written, One
<1> QED
  BY <1>2, <1>3, <1>4

LEMMA SlotMoves ==
  ASSUME TypeOK, SlotDomains, NEW c \in Core, StepOf(c), NEW d \in Cross, NEW s \in Sub
  PROVE  /\ DOMAIN slot'[d][s] = 0 .. d.cap - 1
         /\ ~(c = Sender(d, s) /\ pc[c] = "body" /\ d.src = blk[c]) =>
              slot'[d][s] = slot[d][s]
         /\ c = Sender(d, s) /\ pc[c] = "body" /\ d.src = blk[c] =>
              \A i \in 0 .. d.cap - 1 :
                slot'[d][s][i] = IF i = IndexAt(d, counter[c][d.src])
                                 THEN runs[c][d.src] + 1 ELSE slot[d][s][i]
<1>1. CASE pc[c] # "body"
  <2>1. slot' = slot
    <3>1. CASE Publish(c) \/ NextRound(c) \/ EndPass(c)
      BY <3>1 DEF Publish, NextRound, EndPass, dataVars
    <3>2. CASE \/ ZeroSSBuffer(c) \/ (c \in Sub /\ OpenScope(c)) \/ Wait(c)
               \/ SkipBlock(c) \/ EnterBlock(c) \/ (c = Cube /\ CloseScope)
      BY <3>2 DEF ZeroSSBuffer, OpenScope, Wait, SkipBlock, EnterBlock, CloseScope, dataVars
    <3> QED
      BY <1>1, <3>1, <3>2, WhatItDoes
  <2> QED
    BY <1>1, <2>1 DEF SlotDomains
<1>2. CASE pc[c] = "body"
  <2>1. slot'[d][s] =
          IF d \in Outputs(c, blk[c]) /\ s \in View(c)
          THEN [slot[d][s] EXCEPT ![CrossIndex(c, blk[c], d)] = runs[c][blk[c]] + 1]
          ELSE slot[d][s]
    BY <1>2, WhatItDoes DEF RunBody
  <2>2. d \in Outputs(c, blk[c]) /\ s \in View(c) <=> c = Sender(d, s) /\ d.src = blk[c]
    BY Ends DEF Outputs, Sender
  <2>3. DOMAIN slot[d][s] = 0 .. d.cap - 1
    BY DEF SlotDomains
  <2>4. CrossIndex(c, blk[c], d) = IndexAt(d, counter[c][blk[c]])
    BY DEF CrossIndex, IndexAt
  <2>5. CASE ~(c = Sender(d, s) /\ d.src = blk[c])
    BY <2>1, <2>2, <2>3, <2>5
  <2>6. CASE c = Sender(d, s) /\ d.src = blk[c]
    <3> DEFINE f == slot[d][s]
               j == IndexAt(d, counter[c][blk[c]])
               k == runs[c][blk[c]] + 1
    <3>1. slot'[d][s] = [f EXCEPT ![j] = k]
      BY <2>1, <2>2, <2>4, <2>6
    <3> HIDE DEF f, j, k
    <3>2. DOMAIN slot'[d][s] = DOMAIN f
      BY <3>1
    <3>3. \A i \in DOMAIN f : slot'[d][s][i] = IF i = j THEN k ELSE f[i]
      BY <3>1
    <3> QED
      BY <1>2, <2>3, <2>6, <3>2, <3>3 DEF f, j, k
  <2> QED
    BY <2>5, <2>6
<1> QED
  BY <1>1, <1>2

OrderInv ==
  /\ CountInv /\ CounterInv(TRUE) /\ InStep
  /\ SlotDomains /\ SlotInv /\ VarInv /\ IntraStill /\ IslotInv

(* The producer of an item is in the pass of the block that awaits it: if  *)
(* the cube were one ahead, there would be less than no items.             *)
LEMMA SenderInPass ==
  ASSUME CountInv, CounterInv(TRUE), InStep, NEW d \in Cross, NEW s \in Sub,
         Inside(Sender(d, s)), d.src = blk[Sender(d, s)],
         pass[Receiver(d, s)] < Passes
  PROVE  pass[Sender(d, s)] = pass[Receiver(d, s)]
<1>1. AccessInv /\ TypeOK /\ FreshStart
  BY DEF CountInv, AccessInv, CounterInv
<1> DEFINE p == Sender(d, s)
           q == Receiver(d, s)
<1>2. p \in Core /\ q \in Core /\ {p, q} = {Cube, s} /\ p # q
  BY <1>1, EndFacts
<1>3. pc[p] \in Holding /\ Zeroed
  BY <1>2 DEF Inside, Holding, Zeroed
<1> HIDE DEF p, q
<1>4. CASE p = Cube
  BY <1>1, <1>2, <1>3, <1>4, SamePass DEF p, q
<1>5. CASE p = s /\ pass[Cube] # pass[s]
  <2>1. q = Cube
    BY <1>2, <1>5
  <2>2. /\ pass[Cube] = pass[s] + 1
        /\ \A b \in 1 .. NumBlocks(Cube) : counter[Cube][b] = Lb
    BY <1>1, <1>3, <1>5, SamePass
  <2>3. d.dst \in 1 .. NumBlocks(Cube) /\ pass[Cube] < Passes
    BY <1>1, <2>1, EndFacts DEF q
  <2>4. runs[Cube][d.dst] = Base(Cube)
    BY <1>1, <2>2, <2>3, RunsInPass, CoreFacts
  <2>5. PICK k \in Nat : k < Iterations /\ runs[s][blk[s]] = Base(s) + k
    BY <1>1, <1>5, Iteration, CoreFacts DEF p
  <2>6. Base(Cube) = Base(s) + Iterations /\ Base(s) \in Nat
    <3>1. pass[s] \in Nat /\ Iterations \in Nat
      BY <1>1, LoopFacts, CoreFacts DEF TypeOK
    <3> QED
      BY <2>2, <3>1, Products DEF Base
  <2>7. stat[d][s] = Producer(d, s) - Consumer(d, s) /\ stat[d][s] \in 0 .. d.cap
    BY <1>3 DEF CountInv, CountsAreOccupancy
  <2>8. Producer(d, s) = Base(s) + k /\ Consumer(d, s) = Base(Cube)
    BY <1>1, <1>5, <2>1, <2>4, <2>5, EndFacts DEF p, q
  <2>9. stat[d][s] < 0
    BY <2>5, <2>6, <2>7, <2>8, LoopFacts
  <2>10. d.cap \in {1, 2}
    BY <1>1, EndFacts
  <2> QED
    BY <2>7, <2>9, <2>10
<1> QED
  BY <1>2, <1>4, <1>5 DEF p, q

(* A pass ends with empty buffers.                                         *)
LEMMA PassEndsEmpty ==
  ASSUME CountInv, CounterInv(TRUE), InStep, OftenEnough',
         NEW d \in Cross, NEW s \in Sub, EndPass(Receiver(d, s)),
         pass'[Receiver(d, s)] < Passes, StepOf(Receiver(d, s))
  PROVE  Written(Sender(d, s), d.src)' <= runs'[Receiver(d, s)][d.dst]
<1>1. AccessInv /\ TypeOK /\ FreshStart
  BY DEF CountInv, AccessInv, CounterInv
<1> DEFINE p == Sender(d, s)
           q == Receiver(d, s)
<1>2. p \in Core /\ q \in Core /\ {p, q} = {Cube, s} /\ p # q
      /\ d.src \in 1 .. NumBlocks(p) /\ d.dst \in 1 .. NumBlocks(q)
  BY <1>1, EndFacts
<1> HIDE DEF p, q
<1>3. pc[q] = "set" /\ pc[q] \in Holding /\ pass'[q] = pass[q] + 1 /\ runs' = runs
  BY <1>1, <1>2 DEF EndPass, TypeOK, q, Holding
<1>4. pc[p] \notin Holding
  BY <1>1, <1>2, <1>3, SamePass
<1>5. Written(p, d.src)' = runs[p][d.src]
  <2>1. Written(p, d.src)' = Written(p, d.src) + 0
    BY <1>1, <1>2, <1>3, WrittenMoves DEF One, q
  <2>2. runs[p][d.src] \in Nat
    BY <1>1, EndFacts DEF p
  <2> QED
    BY <1>4, <2>1, <2>2 DEF Written, One, Holding
<1>6. pass[q] \in Nat /\ Iterations \in Nat /\ pass[q] + 1 < Passes /\ Passes \in Nat
  BY <1>1, <1>2, <1>3, LoopFacts DEF TypeOK, q
<1>7. Base(q) + Iterations = (pass[q] + 1) * Iterations /\ Base(q) \in Nat
  BY <1>6, Products DEF Base
<1>8. runs'[q][d.dst] >= Base(q) + Iterations
  BY <1>2, <1>3, <1>7 DEF OftenEnough
<1>9. runs[p][d.src] <= Base(q) + Iterations
  <2>1. CASE q = Cube \/ pass[Cube] = pass[s]
    <3>1. pass[p] = pass[q]
      BY <1>1, <1>2, <1>3, <2>1, SamePass
    <3>2. Base(p) = Base(q) /\ pass[p] < Passes
      BY <1>6, <3>1 DEF Base
    <3> QED
      BY <1>1, <1>2, <3>2, RunsInPass
  <2>2. CASE q = s /\ pass[Cube] # pass[s]
    <3>1. p = Cube
      BY <1>2, <2>2
    <3>2. /\ pass[Cube] = pass[s] + 1
          /\ \A b \in 1 .. NumBlocks(Cube) : counter[Cube][b] = Lb
      BY <1>1, <1>3, <2>2, SamePass
    <3>3. runs[Cube][d.src] = Base(Cube)
      BY <1>1, <1>2, <1>6, <2>2, <3>1, <3>2, RunsInPass
    <3>4. Base(Cube) = Base(q) + Iterations
      BY <1>7, <2>2, <3>2 DEF Base
    <3> QED
      BY <1>7, <3>1, <3>3, <3>4, LoopFacts
  <2> QED
    BY <1>2, <2>1, <2>2
<1>10. runs'[q][d.dst] \in Nat /\ runs[p][d.src] \in Nat
  BY <1>1, <1>3, EndFacts DEF p, q
<1> QED
  BY <1>5, <1>7, <1>8, <1>9, <1>10, LoopFacts DEF p, q

(* Only the end of a pass changes a core's pass.                           *)
LEMMA PassMoves ==
  ASSUME TypeOK, NEW c \in Core, StepOf(c), NEW e \in Core
  PROVE  /\ pass[e] \in Nat
         /\ pass'[e] = pass[e] \/ (e = c /\ EndPass(c) /\ pass'[e] = pass[e] + 1)
<1>1. pass[e] \in Nat
  BY DEF TypeOK
<1>2. CASE e # c
  BY <1>1, <1>2, OthersStay
<1>3. CASE e = c /\ EndPass(c)
  BY <1>1, <1>3 DEF EndPass, TypeOK
<1>4. CASE e = c /\ ~EndPass(c)
  <2>1. pass' = pass
    BY <1>4, WhereTo DEF Publish, NextRound
  <2> QED
    BY <1>1, <2>1
<1> QED
  BY <1>2, <1>3, <1>4

(* In a kernel with one pass none is followed by another.                  *)
LEMMA NextPassFollowsCompleteOne ==
  ASSUME TypeOK, NEW c \in Core, EndPass(c), pass'[c] < Passes,
         Passes = 1 \/ OftenEnough'
  PROVE  OftenEnough'
<1>1. pass'[c] = pass[c] + 1 /\ pass[c] \in Nat
  BY DEF EndPass, TypeOK
<1> QED
  BY <1>1

LEMMA SlotStep ==
  ASSUME CountInv, CounterInv(TRUE), InStep, SlotDomains, SlotInv, Alternating,
         NEW c \in Core, StepOf(c), Passes = 1 \/ OftenEnough'
  PROVE  SlotInv'
<1>1. TypeOK
  BY DEF CountInv, AccessInv
<1> SUFFICES ASSUME NEW d \in Cross, NEW s \in Sub,
                    pass'[Receiver(d, s)] < Passes,
                    NEW r \in Nat, runs'[Receiver(d, s)][d.dst] < r,
                    r <= Written(Sender(d, s), d.src)'
             PROVE  slot'[d][s][IndexAt(d, Lb + Step * (r - 1 - Base(Receiver(d, s))'))] = r
  BY DEF SlotInv
<1> DEFINE p == Sender(d, s)
           q == Receiver(d, s)
<1>2. p \in Core /\ q \in Core /\ p # q /\ d.cap \in {1, 2}
      /\ d.src \in 1 .. NumBlocks(p) /\ d.dst \in 1 .. NumBlocks(q)
      /\ Producer(d, s) = runs[p][d.src] /\ Producer(d, s) \in Nat
      /\ Consumer(d, s) = runs[q][d.dst] /\ Consumer(d, s) \in Nat
  BY <1>1, EndFacts
<1>3. /\ pass'[q] < Passes /\ runs'[q][d.dst] < r /\ r <= Written(p, d.src)'
  OBVIOUS
<1>4. SUFFICES slot'[d][s][IndexAt(d, Lb + Step * (r - 1 - Base(q)'))] = r
  OBVIOUS
<1> HIDE DEF p, q
<1>5. /\ Written(p, d.src)' = Written(p, d.src) + One(p = c /\ pc[c] = "body" /\ d.src = blk[c])
      /\ Written(p, d.src) = Producer(d, s) + One(pc[p] = "publish" /\ blk[p] = d.src)
      /\ runs'[q][d.dst] = Consumer(d, s) + One(q = c /\ pc[c] = "publish" /\ d.dst = blk[c])
  BY <1>1, <1>2, WrittenMoves, RunsMove DEF Written
<1>6. Consumer(d, s) < r /\ Producer(d, s) <= Written(p, d.src)
  BY <1>2, <1>3, <1>5 DEF One
<1>7. pass'[q] = pass[q]
  <2> SUFFICES ASSUME pass'[q] # pass[q] PROVE FALSE
    OBVIOUS
  <2>1. q = c /\ EndPass(c)
    BY <1>1, <1>2, PassMoves
  <2>2. OftenEnough'
    BY <1>1, <1>3, <2>1, NextPassFollowsCompleteOne
  <2>3. Written(p, d.src)' <= runs'[q][d.dst]
    BY <1>3, <2>1, <2>2, PassEndsEmpty DEF p, q
  <2> QED
    BY <1>2, <1>3, <1>5, <2>3 DEF One
<1>8. Base(q)' = Base(q) /\ pass[q] < Passes
  BY <1>3, <1>7 DEF Base
<1> DEFINE n == Lb + Step * (r - 1 - Base(q))
<1>9. SUFFICES slot'[d][s][IndexAt(d, n)] = r
  BY <1>8
<1>10. r <= Written(p, d.src) => slot[d][s][IndexAt(d, n)] = r
  BY <1>2, <1>6, <1>8 DEF SlotInv, p, q
<1>11. /\ Base(q) \in Nat /\ Base(q) <= Consumer(d, s)
  BY <1>1, <1>2, <1>8, RunsInPass
<1>12. CASE ~(c = p /\ pc[c] = "body" /\ d.src = blk[c])
  <2>1. slot'[d][s] = slot[d][s]
    BY <1>1, <1>12, SlotMoves DEF p
  <2>2. Written(p, d.src)' = Written(p, d.src)
    BY <1>2, <1>5, <1>12 DEF One
  <2> HIDE DEF n
  <2> QED
    BY <1>3, <1>10, <2>1, <2>2
<1>13. CASE c = p /\ pc[c] = "body" /\ d.src = blk[c]
  <2>1. Inside(p) /\ p = c /\ Written(p, d.src) = Producer(d, s)
        /\ r <= Producer(d, s) + 1
    BY <1>2, <1>3, <1>5, <1>13 DEF Inside, One
  <2>2. pass[p] = pass[q]
    BY <1>8, <1>13, <2>1, SenderInPass DEF p, q
  <2>3. PICK k \in Nat : /\ counter[p][blk[p]] = Lb + Step * k
                         /\ runs[p][blk[p]] = Base(p) + k
    BY <1>1, <1>2, <2>1, Iteration
  <2>4. Producer(d, s) = Base(q) + k /\ counter[c][d.src] = Lb + Step * k
    BY <1>2, <1>13, <2>2, <2>3 DEF Base
  <2>5. stat[d][s] = Producer(d, s) - Consumer(d, s) /\ stat[d][s] < d.cap
    <3>1. Zeroed
      BY <1>13 DEF Zeroed
    <3>2. CrossCondition(c, blk[c])
      BY <1>13 DEF CountInv, StillEnabled
    <3>3. d \in Outputs(c, blk[c]) /\ s \in View(c)
      BY <1>13, Ends DEF Outputs, Sender, p
    <3> QED
      BY <3>1, <3>2, <3>3 DEF CrossCondition, CountInv, CountsAreOccupancy
  <2>6. \A i \in 0 .. d.cap - 1 :
          slot'[d][s][i] = IF i = IndexAt(d, Lb + Step * k)
                           THEN Producer(d, s) + 1 ELSE slot[d][s][i]
    BY <1>1, <1>2, <1>13, <2>4, SlotMoves DEF p
  <2>7. \A m \in Int : IndexAt(d, m) \in 0 .. d.cap - 1
    BY IndexInRange
  <2>8. CASE r = Producer(d, s) + 1
    <3>1. n = Lb + Step * k
      BY <1>11, <2>4, <2>8
    <3>2. Lb + Step * k \in Int
      BY LoopFacts
    <3> HIDE DEF n
    <3> QED
      BY <2>6, <2>7, <2>8, <3>1, <3>2
  <2>9. CASE r <= Producer(d, s)
    <3>1. r = Producer(d, s) /\ d.cap = 2
      BY <1>2, <1>6, <2>5, <2>9
    <3>2. k - 1 \in Nat /\ r - 1 - Base(q) = k - 1
      BY <1>6, <1>11, <1>2, <2>4, <3>1
    <3>3. n = Lb + Step * (k - 1) /\ n \in Int
      BY <3>2, LoopFacts
    <3>4. IndexAt(d, n) # IndexAt(d, Lb + Step * k)
      <4>1. (k - 1) + 1 = k
        OBVIOUS
      <4> QED
        BY <3>1, <3>2, <3>3, <4>1, NextBuffer
    <3> HIDE DEF n
    <3>5. slot'[d][s][IndexAt(d, n)] = slot[d][s][IndexAt(d, n)]
      BY <2>6, <2>7, <3>3, <3>4
    <3> QED
      BY <1>10, <2>1, <2>9, <3>5
  <2> QED
    BY <1>2, <2>1, <2>8, <2>9
<1> QED
  BY <1>12, <1>13

-----------------------------------------------------------------------------
(* The buffers inside a vector core.                                       *)

LEMMA IntraFacts ==
  ASSUME TypeOK, NEW s \in Sub, NEW d \in Intra
  PROVE  /\ s \in Core /\ s # Cube
         /\ d.src \in 1 .. NumBlocks(s) /\ d.dst \in 1 .. NumBlocks(s)
         /\ d.cap \in Nat \ {0}
         /\ runs[s][d.src] \in Nat /\ runs[s][d.dst] \in Nat
         /\ var[s][d] \in Int
<1>1. s \in Core /\ s # Cube
  BY CoreFacts
<1>2. d.src \in 1 .. NumBlocks(s) /\ d.dst \in 1 .. NumBlocks(s) /\ d.cap \in Nat \ {0}
  BY <1>1, IntraAssumption DEF NumBlocks
<1>3. runs[s] \in [1 .. NumBlocks(s) -> Nat]
  BY <1>1 DEF TypeOK
<1>4. var[s][d] \in Int
  BY DEF TypeOK
<1> QED
  BY <1>1, <1>2, <1>3, <1>4

LEMMA VarMoves ==
  ASSUME TypeOK, NEW c \in Core, StepOf(c), NEW s \in Sub, NEW d \in Intra
  PROVE  /\ c = s /\ pc[c] = "publish" =>
              var'[s][d] = var[s][d] + One(d.src = blk[c]) - One(d.dst = blk[c])
         /\ c = s /\ EndPass(c) => var'[s][d] = 0
         /\ ~(c = s /\ pc[c] = "publish") /\ ~(c = s /\ EndPass(c)) =>
              var'[s][d] = var[s][d]
<1>1. var \in [Sub -> [Intra -> Int]] /\ s # Cube
  BY CoreFacts DEF TypeOK
<1>2. CASE c # s
  BY <1>2, OthersStay, CoreFacts
<1>3. CASE c = s /\ pc[c] = "publish"
  <2>1. var' = [var EXCEPT ![c] = [e \in Intra |->
                  var[c][e] + Delta(IntraInputs(c, blk[c]), IntraOutputs(c, blk[c]), e)]]
    BY <1>1, <1>3, WhatItDoes DEF Publish
  <2>2. var'[s][d] = var[s][d] + Delta(IntraInputs(c, blk[c]), IntraOutputs(c, blk[c]), d)
    BY <1>1, <1>3, <2>1
  <2>3. Delta(IntraInputs(c, blk[c]), IntraOutputs(c, blk[c]), d)
          = One(d.src = blk[c]) - One(d.dst = blk[c])
    BY <1>1, <1>3 DEF Delta, IntraInputs, IntraOutputs, One
  <2>4. var[s][d] \in Int /\ One(d.src = blk[c]) \in Int /\ One(d.dst = blk[c]) \in Int
    BY <1>1 DEF One
  <2>5. var'[s][d] = var[s][d] + One(d.src = blk[c]) - One(d.dst = blk[c])
    BY <2>2, <2>3, <2>4
  <2> QED
    BY <1>3, <2>5 DEF EndPass
<1>4. CASE c = s /\ pc[c] # "publish"
  <2>1. CASE EndPass(c)
    <3>1. var' = [var EXCEPT ![c] = [e \in Intra |-> 0]]
      BY <1>1, <1>4, <2>1 DEF EndPass
    <3> QED
      BY <1>1, <1>4, <2>1, <3>1
  <2>2. CASE ~EndPass(c)
    <3>1. CASE RunBody(c) \/ NextRound(c)
      BY <1>4, <2>2, <3>1 DEF RunBody, NextRound, dataVars
    <3>2. CASE \/ ZeroSSBuffer(c) \/ (c \in Sub /\ OpenScope(c)) \/ Wait(c)
               \/ SkipBlock(c) \/ EnterBlock(c) \/ (c = Cube /\ CloseScope)
      BY <1>4, <2>2, <3>2
         DEF ZeroSSBuffer, OpenScope, Wait, SkipBlock, EnterBlock, CloseScope, dataVars
    <3> QED
      BY <1>4, <2>2, <3>1, <3>2, WhatItDoes
  <2> QED
    BY <2>1, <2>2
<1> QED
  BY <1>2, <1>3, <1>4

(* What a block based its condition on still holds when it is done.        *)
LEMMA IntraStillStep ==
  ASSUME TypeOK, IntraStill, NEW c \in Core, StepOf(c)
  PROVE  IntraStill'
<1> SUFFICES ASSUME NEW e \in Core, Inside(e)'
             PROVE  IntraCondition(e, blk[e])'
  BY DEF IntraStill
<1>1. CASE e # c
  <2>1. Inside(e) /\ blk'[e] = blk[e] /\ (e \in Sub => var'[e] = var[e])
    BY <1>1, OthersStay DEF Inside
  <2>2. IntraCondition(e, blk[e])
    BY <2>1 DEF IntraStill
  <2>3. e # Cube => e \in Sub
    BY CoreFacts
  <2> QED
    BY <2>1, <2>2, <2>3 DEF IntraCondition, IntraInputs, IntraOutputs
<1>2. CASE e = c /\ (EnterBlock(c) \/ RunBody(c))
  <2>1. var' = var /\ blk' = blk
    BY <1>2 DEF EnterBlock, RunBody, dataVars
  <2>2. IntraCondition(c, blk[c])
    BY <1>2 DEF EnterBlock, Condition, RunBody, IntraStill, Inside
  <2> QED
    BY <1>2, <2>1, <2>2 DEF IntraCondition
<1>3. ASSUME e = c, ~EnterBlock(c), ~RunBody(c) PROVE FALSE
  <2> USE DEF TypeOK, Inside
  <2>1. CASE ZeroSSBuffer(c) \/ (c \in Sub /\ OpenScope(c)) \/ (c = Cube /\ CloseScope)
    BY <1>3, <2>1 DEF ZeroSSBuffer, OpenScope, CloseScope, EnterLoop, AfterLoop
  <2>2. CASE Wait(c) \/ NextRound(c) \/ EndPass(c)
    BY <1>3, <2>2 DEF Wait, NextRound, EndPass, AfterLoop
  <2>3. CASE SkipBlock(c) \/ Publish(c)
    BY <1>3, <2>3 DEF SkipBlock, Publish, Advance
  <2> QED
    BY <1>3, <2>1, <2>2, <2>3 DEF StepOf, CoreStep
<1> QED
  BY <1>1, <1>2, <1>3

(* The runs of a pass that is complete are those of all blocks.            *)
LEMMA PassEndsEven ==
  ASSUME TypeOK, CounterInv(TRUE), OftenEnough', NEW s \in Sub, EndPass(s),
         pass'[s] < Passes, NEW b \in 1 .. NumBlocks(s)
  PROVE  runs'[s][b] = Base(s) + Iterations
<1>1. pass'[s] = pass[s] + 1 /\ runs' = runs /\ s \in Core
  BY CoreFacts DEF EndPass, TypeOK
<1>2. pass[s] \in Nat /\ Iterations \in Nat /\ Passes \in Nat /\ pass[s] < Passes
  BY <1>1, LoopFacts DEF TypeOK
<1>3. Base(s) + Iterations = (pass[s] + 1) * Iterations /\ Base(s) \in Nat
  BY <1>2, Products DEF Base
<1>4. runs'[s][b] >= Base(s) + Iterations
  BY <1>1, <1>3 DEF OftenEnough
<1>5. runs[s][b] <= Base(s) + Iterations
  BY <1>1, <1>2, RunsInPass
<1>6. runs[s][b] \in Nat
  BY <1>1 DEF TypeOK
<1> DEFINE n == Base(s)  r == runs[s][b]
<1>7. runs'[s][b] = r /\ r \in Nat /\ n \in Nat /\ r >= n + Iterations /\ r <= n + Iterations
  BY <1>1, <1>3, <1>4, <1>5, <1>6
<1> HIDE DEF n, r
<1>8. runs'[s][b] = n + Iterations
  BY <1>2, <1>7
<1> QED
  BY <1>8 DEF n

LEMMA VarStep ==
  ASSUME TypeOK, CounterInv(TRUE), VarInv, IntraStill,
         NEW c \in Core, StepOf(c), Passes = 1 \/ OftenEnough'
  PROVE  VarInv'
<1> SUFFICES ASSUME NEW s \in Sub, pass'[s] < Passes, NEW d \in Intra
             PROVE  /\ var'[s][d] = runs'[s][d.src] - runs'[s][d.dst]
                    /\ var'[s][d] \in 0 .. d.cap
  BY DEF VarInv
<1>1. /\ s \in Core /\ s # Cube
      /\ d.src \in 1 .. NumBlocks(s) /\ d.dst \in 1 .. NumBlocks(s) /\ d.cap \in Nat \ {0}
      /\ runs[s][d.src] \in Nat /\ runs[s][d.dst] \in Nat /\ var[s][d] \in Int
  BY IntraFacts
<1>2. /\ runs'[s][d.src] = runs[s][d.src] + One(s = c /\ pc[c] = "publish" /\ d.src = blk[c])
      /\ runs'[s][d.dst] = runs[s][d.dst] + One(s = c /\ pc[c] = "publish" /\ d.dst = blk[c])
  BY <1>1, RunsMove
<1>3. CASE c = s /\ EndPass(c)
  <2>1. OftenEnough'
    BY <1>3, NextPassFollowsCompleteOne
  <2>2. runs'[s][d.src] = Base(s) + Iterations /\ runs'[s][d.dst] = Base(s) + Iterations
    BY <1>1, <1>3, <2>1, PassEndsEven
  <2>3. Base(s) + Iterations \in Int
    BY <1>1, LoopFacts DEF Base, TypeOK
  <2>4. var'[s][d] = 0
    BY <1>3, VarMoves
  <2> QED
    BY <1>1, <2>2, <2>3, <2>4
<1>4. CASE ~(c = s /\ EndPass(c))
  <2>1. pass[s] < Passes
    BY <1>1, <1>4, PassMoves
  <2>2. var[s][d] = runs[s][d.src] - runs[s][d.dst] /\ var[s][d] \in 0 .. d.cap
    BY <2>1 DEF VarInv
  <2>3. CASE ~(c = s /\ pc[c] = "publish")
    <3>1. var'[s][d] = var[s][d]
      BY <1>4, <2>3, VarMoves
    <3>2. runs'[s][d.src] = runs[s][d.src] /\ runs'[s][d.dst] = runs[s][d.dst]
      BY <1>1, <1>2, <2>3 DEF One
    <3> QED
      BY <2>2, <3>1, <3>2
  <2>4. CASE c = s /\ pc[c] = "publish"
    <3>1. IntraCondition(s, blk[s])
      BY <2>4 DEF IntraStill, Inside
    <3>2. (d.dst = blk[s] => var[s][d] > 0) /\ (d.src = blk[s] => var[s][d] < d.cap)
      BY <1>1, <3>1 DEF IntraCondition, IntraInputs, IntraOutputs
    <3>3. var'[s][d] = var[s][d] + One(d.src = blk[s]) - One(d.dst = blk[s])
      BY <2>4, VarMoves
    <3>4. /\ runs'[s][d.src] = runs[s][d.src] + One(d.src = blk[s])
          /\ runs'[s][d.dst] = runs[s][d.dst] + One(d.dst = blk[s])
      BY <1>2, <2>4
    <3> QED
      BY <1>1, <2>2, <3>2, <3>3, <3>4 DEF One
  <2> QED
    BY <2>3, <2>4
<1> QED
  BY <1>3, <1>4

LEMMA IslotMoves ==
  ASSUME TypeOK, SlotDomains, NEW c \in Core, StepOf(c), NEW d \in Intra, NEW s \in Sub
  PROVE  /\ DOMAIN islot'[d][s] = 0 .. d.cap - 1
         /\ ~(c = s /\ pc[c] = "body" /\ d.src = blk[c]) => islot'[d][s] = islot[d][s]
         /\ c = s /\ pc[c] = "body" /\ d.src = blk[c] =>
              \A i \in 0 .. d.cap - 1 :
                islot'[d][s][i] = IF i = IntraIndex(c, blk[c], d)
                                  THEN runs[c][d.src] + 1 ELSE islot[d][s][i]
<1>1. CASE pc[c] # "body"
  <2>1. islot' = islot
    <3>1. CASE Publish(c) \/ NextRound(c) \/ EndPass(c)
      BY <3>1 DEF Publish, NextRound, EndPass, dataVars
    <3>2. CASE \/ ZeroSSBuffer(c) \/ (c \in Sub /\ OpenScope(c)) \/ Wait(c)
               \/ SkipBlock(c) \/ EnterBlock(c) \/ (c = Cube /\ CloseScope)
      BY <3>2 DEF ZeroSSBuffer, OpenScope, Wait, SkipBlock, EnterBlock, CloseScope, dataVars
    <3> QED
      BY <1>1, <3>1, <3>2, WhatItDoes
  <2> QED
    BY <1>1, <2>1 DEF SlotDomains
<1>2. CASE pc[c] = "body"
  <2>1. islot'[d][s] =
          IF d \in IntraOutputs(c, blk[c]) /\ s = c
          THEN [islot[d][s] EXCEPT ![IntraIndex(c, blk[c], d)] = runs[c][blk[c]] + 1]
          ELSE islot[d][s]
    BY <1>2, WhatItDoes DEF RunBody
  <2>2. d \in IntraOutputs(c, blk[c]) /\ s = c <=> c = s /\ d.src = blk[c]
    BY CoreFacts DEF IntraOutputs
  <2>3. DOMAIN islot[d][s] = 0 .. d.cap - 1
    BY DEF SlotDomains
  <2>4. CASE ~(c = s /\ d.src = blk[c])
    BY <2>1, <2>2, <2>3, <2>4
  <2>5. CASE c = s /\ d.src = blk[c]
    <3> DEFINE f == islot[d][s]
               j == IntraIndex(c, blk[c], d)
               k == runs[c][blk[c]] + 1
    <3>1. islot'[d][s] = [f EXCEPT ![j] = k]
      BY <2>1, <2>2, <2>5
    <3> HIDE DEF f, j, k
    <3>2. DOMAIN islot'[d][s] = DOMAIN f
      BY <3>1
    <3>3. \A i \in DOMAIN f : islot'[d][s][i] = IF i = j THEN k ELSE f[i]
      BY <3>1
    <3> QED
      BY <1>2, <2>3, <2>5, <3>2, <3>3 DEF f, j, k
  <2> QED
    BY <2>4, <2>5
<1> QED
  BY <1>1, <1>2

(* At iteration k a block writes and reads buffer k modulo their number.   *)
LEMMA IntraIndexIs ==
  ASSUME NEW c \in Core, NEW b \in 1 .. NumBlocks(c), NEW d \in Intra, NEW k \in Int,
         counter[c][b] = Lb + Step * k
  PROVE  IntraIndex(c, b, d) = k % d.cap
<1>1. counter[c][b] - Lb = Step * k
  BY LoopFacts
<1>2. (Step * k) \div Step = k
  BY LoopFacts, Multiple
<1> QED
  BY <1>1, <1>2 DEF IntraIndex

LEMMA IslotStep ==
  ASSUME TypeOK, CounterInv(TRUE), SlotDomains, VarInv, IntraStill, IslotInv,
         NEW c \in Core, StepOf(c), Passes = 1 \/ OftenEnough'
  PROVE  IslotInv'
<1> SUFFICES ASSUME NEW s \in Sub, pass'[s] < Passes, NEW d \in Intra,
                    NEW r \in Nat, runs'[s][d.dst] < r, r <= Written(s, d.src)'
             PROVE  islot'[d][s][(r - 1 - Base(s)') % d.cap] = r
  BY DEF IslotInv
<1>1. /\ s \in Core /\ s # Cube
      /\ d.src \in 1 .. NumBlocks(s) /\ d.dst \in 1 .. NumBlocks(s) /\ d.cap \in Nat \ {0}
      /\ runs[s][d.src] \in Nat /\ runs[s][d.dst] \in Nat /\ var[s][d] \in Int
  BY IntraFacts
<1>2. /\ Written(s, d.src)' = Written(s, d.src) + One(s = c /\ pc[c] = "body" /\ d.src = blk[c])
      /\ Written(s, d.src) = runs[s][d.src] + One(pc[s] = "publish" /\ blk[s] = d.src)
      /\ runs'[s][d.dst] = runs[s][d.dst] + One(s = c /\ pc[c] = "publish" /\ d.dst = blk[c])
  BY <1>1, WrittenMoves, RunsMove DEF Written
<1>3. runs[s][d.dst] < r
  BY <1>1, <1>2 DEF One
<1>4. pass'[s] = pass[s]
  <2> SUFFICES ASSUME pass'[s] # pass[s] PROVE FALSE
    OBVIOUS
  <2>1. s = c /\ EndPass(c)
    BY <1>1, PassMoves
  <2>2. OftenEnough'
    BY <2>1, NextPassFollowsCompleteOne
  <2>3. runs'[s][d.src] = Base(s) + Iterations /\ runs'[s][d.dst] = Base(s) + Iterations
    BY <1>1, <2>1, <2>2, PassEndsEven
  <2>4. pc[s] = "set" /\ runs' = runs
    BY <2>1 DEF EndPass
  <2>5. Written(s, d.src)' = runs[s][d.src]
    BY <1>1, <1>2, <2>1, <2>4 DEF One
  <2> QED
    BY <1>1, <2>3, <2>4, <2>5
<1>5. Base(s)' = Base(s) /\ pass[s] < Passes
  BY <1>4 DEF Base
<1> DEFINE n == r - 1 - Base(s)
<1>6. SUFFICES islot'[d][s][n % d.cap] = r
  BY <1>5
<1>7. r <= Written(s, d.src) => islot[d][s][n % d.cap] = r
  BY <1>1, <1>3, <1>5 DEF IslotInv
<1>8. Base(s) \in Nat /\ n \in Int
  BY <1>1, <1>5, RunsInPass
<1>9. CASE ~(c = s /\ pc[c] = "body" /\ d.src = blk[c])
  <2>1. islot'[d][s] = islot[d][s]
    BY <1>9, IslotMoves
  <2>2. Written(s, d.src)' = Written(s, d.src)
    BY <1>1, <1>2, <1>9 DEF One
  <2> HIDE DEF n
  <2> QED
    BY <1>7, <2>1, <2>2
<1>10. CASE c = s /\ pc[c] = "body" /\ d.src = blk[c]
  <2>1. Written(s, d.src) = runs[s][d.src] /\ r <= runs[s][d.src] + 1
    BY <1>1, <1>2, <1>10 DEF One
  <2>2. PICK k \in Nat : /\ counter[c][blk[c]] = Lb + Step * k
                         /\ runs[c][blk[c]] = Base(c) + k
    BY <1>10, Iteration DEF Inside
  <2>3. IntraIndex(c, blk[c], d) = k % d.cap
    BY <1>1, <1>10, <2>2, IntraIndexIs
  <2>4. \A i \in 0 .. d.cap - 1 :
          islot'[d][s][i] = IF i = k % d.cap THEN runs[s][d.src] + 1 ELSE islot[d][s][i]
    BY <1>10, <2>3, IslotMoves
  <2>5. runs[s][d.src] = Base(s) + k
    BY <1>10, <2>2
  <2>6. var[s][d] = runs[s][d.src] - runs[s][d.dst] /\ var[s][d] < d.cap
    <3>1. IntraCondition(c, blk[c])
      BY <1>10 DEF IntraStill, Inside
    <3>2. var[s][d] < d.cap
      BY <1>1, <1>10, <3>1 DEF IntraCondition, IntraOutputs
    <3> QED
      BY <1>5, <3>2 DEF VarInv
  <2>7. n % d.cap \in 0 .. d.cap - 1 /\ k % d.cap \in 0 .. d.cap - 1
    <3> HIDE DEF n
    <3> QED
      BY <1>1, <1>8
  <2>8. CASE r = runs[s][d.src] + 1
    <3>1. n = k
      BY <1>8, <2>5, <2>8
    <3> HIDE DEF n
    <3> QED
      BY <2>4, <2>7, <2>8, <3>1
  <2>9. CASE r <= runs[s][d.src]
    <3>1. n < k /\ k - n < d.cap
      BY <1>1, <1>3, <1>8, <2>5, <2>6, <2>9
    <3> HIDE DEF n
    <3>2. n % d.cap # k % d.cap
      BY <1>1, <1>8, <3>1, Residues
    <3>3. islot'[d][s][n % d.cap] = islot[d][s][n % d.cap]
      BY <2>4, <2>7, <3>2
    <3> QED
      BY <1>7, <2>1, <2>9, <3>3
  <2> QED
    BY <1>1, <2>1, <2>8, <2>9
<1> QED
  BY <1>9, <1>10

-----------------------------------------------------------------------------
(* Together.                                                               *)

LEMMA OrderInit == Init => OrderInv
<1> SUFFICES ASSUME Init PROVE OrderInv
  OBVIOUS
<1>1. CountInv /\ InStep
  BY CountInit, InStepInit
<1>2. CounterInv(TRUE)
  BY CounterInit
<1>3. TypeOK
  BY <1>1 DEF CountInv, AccessInv
<1>4. SlotDomains
  BY DEF Init, SlotDomains
<1>5. SlotInv
  <2>1. ASSUME NEW d \in Cross, NEW s \in Sub
        PROVE  Written(Sender(d, s), d.src) = 0 /\ runs[Receiver(d, s)][d.dst] = 0
    <3>1. runs[Sender(d, s)][d.src] = 0 /\ runs[Receiver(d, s)][d.dst] = 0
      BY <1>3, EndFacts DEF Init
    <3>2. pc[Sender(d, s)] = "zero"
      BY <1>3, EndFacts DEF Init
    <3> QED
      BY <3>1, <3>2 DEF Written, One
  <2>2. ASSUME NEW r \in Nat, 0 < r, r <= 0 PROVE FALSE
    BY <2>2
  <2> QED
    BY <2>1, <2>2 DEF SlotInv
<1>6. VarInv
  <2>1. ASSUME NEW s \in Sub, NEW d \in Intra
        PROVE  var[s][d] = 0 /\ runs[s][d.src] = 0 /\ runs[s][d.dst] = 0 /\ d.cap \in Nat
    BY <1>3, IntraFacts DEF Init
  <2> QED
    BY <2>1 DEF VarInv
<1>7. IntraStill
  BY DEF Init, IntraStill, Inside
<1>8. IslotInv
  <2>1. ASSUME NEW s \in Sub, NEW d \in Intra
        PROVE  Written(s, d.src) = 0 /\ runs[s][d.dst] = 0
    <3>1. runs[s][d.src] = 0 /\ runs[s][d.dst] = 0 /\ pc[s] = "zero"
      BY <1>3, IntraFacts DEF Init
    <3> QED
      BY <3>1 DEF Written, One
  <2>2. ASSUME NEW r \in Nat, 0 < r, r <= 0 PROVE FALSE
    BY <2>2
  <2> QED
    BY <2>1, <2>2 DEF IslotInv
<1> QED
  BY <1>1, <1>2, <1>4, <1>5, <1>6, <1>7, <1>8 DEF OrderInv

LEMMA OrderNext ==
  ASSUME OrderInv, [Next]_vars, Alternating, Passes = 1 \/ OftenEnough'
  PROVE  OrderInv'
<1> USE DEF OrderInv
<1>1. CountInv'
  BY CountNext
<1>2. AccessInv /\ TypeOK /\ LoopInv
  BY DEF CountInv, AccessInv, CounterInv
<1>3. CounterInv(TRUE)'
  BY <1>2, CounterStep
<1>4. CASE UNCHANGED vars
  <2>1. InStep'
    BY <1>4 DEF vars, InStep, Lead
  <2>2. SlotDomains' /\ SlotInv'
    BY <1>4 DEF vars, SlotDomains, SlotInv, Written, Base
  <2>3. VarInv' /\ IntraStill'
    BY <1>4 DEF vars, VarInv, IntraStill, Inside, IntraCondition
  <2>4. IslotInv'
    BY <1>4 DEF vars, IslotInv, Written, Base
  <2> QED
    BY <1>1, <1>3, <2>1, <2>2, <2>3, <2>4
<1>5. CASE \E c \in Core : StepOf(c)
  <2>1. PICK c \in Core : StepOf(c)
    BY <1>5
  <2>2. InStep'
    BY <1>2, <2>1, InStepStep
  <2>3. SlotDomains'
    BY <1>2, <2>1, SlotMoves, IslotMoves DEF SlotDomains
  <2>4. SlotInv'
    BY <2>1, SlotStep
  <2>5. VarInv' /\ IntraStill' /\ IslotInv'
    BY <1>2, <2>1, VarStep, IntraStillStep, IslotStep
  <2> QED
    BY <1>1, <1>3, <2>2, <2>3, <2>4, <2>5
<1> QED
  BY <1>4, <1>5, NextIsStep

LEMMA OrderSafe == OrderInv => FreshInput
<1> SUFFICES ASSUME OrderInv, NEW c \in Core, Inside(c)
             PROVE  /\ \A d \in Inputs(c, blk[c]), s \in View(c) :
                         slot[d][s][CrossIndex(c, blk[c], d)] = runs[c][blk[c]] + 1
                    /\ \A d \in IntraInputs(c, blk[c]) :
                         islot[d][c][IntraIndex(c, blk[c], d)] = runs[c][blk[c]] + 1
  BY DEF FreshInput, Inside
<1>1. TypeOK
  BY DEF OrderInv, CountInv, AccessInv
<1> DEFINE b == blk[c]
<1>2. b \in 1 .. NumBlocks(c)
  BY <1>1, CoreFacts DEF TypeOK
<1>3. pass[c] < Passes
      /\ \E k \in Nat : counter[c][b] = Lb + Step * k /\ runs[c][b] = Base(c) + k
  BY <1>1, Iteration DEF OrderInv
<1>4. PICK k \in Nat : counter[c][b] = Lb + Step * k /\ runs[c][b] = Base(c) + k
  BY <1>3
<1>5. Base(c) \in Nat /\ runs[c][b] + 1 \in Nat
  <2>1. Base(c) \in Nat
    BY <1>1, <1>2, <1>3, RunsInPass DEF OrderInv
  <2> QED
    BY <1>4, <2>1
<1>6. (runs[c][b] + 1) - 1 - Base(c) = k
  BY <1>4, <1>5
<1> HIDE DEF b
<1>7. ASSUME NEW d \in Inputs(c, b), NEW s \in View(c)
      PROVE  slot[d][s][CrossIndex(c, b, d)] = runs[c][b] + 1
  <2>1. d \in Cross /\ s \in Sub /\ d.dst = b /\ ~Produces(c, d)
    BY CoreFacts DEF Inputs, View
  <2>2. c = Receiver(d, s)
    BY <2>1, Ends DEF Receiver
  <2>3. stat[d][s] > 0
    <3>1. CrossCondition(c, b)
      BY DEF OrderInv, CountInv, StillEnabled, Inside, b
    <3> QED
      BY <3>1 DEF CrossCondition
  <2>4. stat[d][s] = Producer(d, s) - Consumer(d, s) /\ stat[d][s] \in 0 .. d.cap
    <3>1. Zeroed
      BY DEF Zeroed, Inside
    <3> QED
      BY <2>1, <3>1 DEF OrderInv, CountInv, CountsAreOccupancy
  <2>5. /\ Producer(d, s) = runs[Sender(d, s)][d.src] /\ Producer(d, s) \in Nat
        /\ Consumer(d, s) = runs[c][b] /\ Consumer(d, s) \in Nat
    BY <1>1, <2>1, <2>2, EndFacts
  <2>6. runs[c][b] + 1 <= Written(Sender(d, s), d.src)
    BY <2>3, <2>4, <2>5 DEF Written, One
  <2>7. slot[d][s][IndexAt(d, Lb + Step * ((runs[c][b] + 1) - 1 - Base(c)))] = runs[c][b] + 1
    <3>1. runs[c][b] < runs[c][b] + 1
      BY <2>5
    <3> QED
      BY <1>3, <1>5, <2>1, <2>2, <2>6, <3>1 DEF OrderInv, SlotInv
  <2>8. slot[d][s][IndexAt(d, Lb + Step * k)] = runs[c][b] + 1
    BY <1>6, <2>7
  <2> QED
    BY <1>4, <2>8 DEF CrossIndex, IndexAt
<1>8. ASSUME NEW d \in IntraInputs(c, b)
      PROVE  islot[d][c][IntraIndex(c, b, d)] = runs[c][b] + 1
  <2>1. d \in Intra /\ c \in Sub /\ d.dst = b
    BY CoreFacts DEF IntraInputs
  <2>2. var[c][d] > 0
    BY DEF OrderInv, IntraStill, IntraCondition, b
  <2>3. var[c][d] = runs[c][d.src] - runs[c][b]
    BY <1>3, <2>1 DEF OrderInv, VarInv
  <2>4. runs[c][d.src] \in Nat /\ runs[c][b] \in Nat
    BY <1>1, <2>1, IntraFacts
  <2>5. runs[c][b] < runs[c][b] + 1 /\ runs[c][b] + 1 <= Written(c, d.src)
    BY <2>2, <2>3, <2>4 DEF Written, One
  <2>6. islot[d][c][((runs[c][b] + 1) - 1 - Base(c)) % d.cap] = runs[c][b] + 1
    BY <1>3, <1>5, <2>1, <2>5 DEF OrderInv, IslotInv
  <2>7. IntraIndex(c, b, d) = k % d.cap
    BY <1>2, <1>4, <2>1, IntraIndexIs
  <2> QED
    BY <1>6, <2>6, <2>7
<1> QED
  BY <1>7, <1>8 DEF b

(* In a kernel that runs its main loop once, every block finds its inputs  *)
(* fresh: filled in the same iteration, and not overwritten since.         *)
THEOREM OnePassInputsAreFresh ==
  ASSUME Alternating, Passes = 1
  PROVE  Spec => []FreshInput
<1>1. OrderInv /\ [Next]_vars => OrderInv'
  BY OrderNext
<1> QED
  BY OrderInit, <1>1, OrderSafe, PTL DEF Spec

(* In a kernel that runs it several times they are, too, as long as every  *)
(* pass makes all its iterations: items do not stay over for the next.     *)
THEOREM InputsAreFresh ==
  ASSUME Alternating
  PROVE  Spec /\ []OftenEnough => []FreshInput
<1>1. OrderInv /\ [Next]_vars /\ OftenEnough' => OrderInv'
  BY OrderNext
<1> QED
  BY OrderInit, <1>1, OrderSafe, PTL DEF Spec

-----------------------------------------------------------------------------
(* The steps of the bounded dataflow network: Publish(c) fires the block.  *)

EdgeInv == CountInv /\ CounterInv(TRUE) /\ VarInv /\ IntraStill

LEMMA EdgeInit == Init => EdgeInv
BY OrderInit DEF OrderInv, EdgeInv

LEMMA EdgeNext ==
  ASSUME EdgeInv, [Next]_vars, Passes = 1 \/ OftenEnough'
  PROVE  EdgeInv'
<1> USE DEF EdgeInv
<1>1. CountInv'
  BY CountNext
<1>2. TypeOK
  BY DEF CountInv, AccessInv
<1>3. CounterInv(TRUE)'
  BY <1>2, CounterStep
<1>4. CASE UNCHANGED vars
  BY <1>1, <1>3, <1>4 DEF vars, VarInv, IntraStill, Inside, IntraCondition
<1>5. CASE \E c \in Core : StepOf(c)
  BY <1>1, <1>2, <1>3, <1>5, VarStep, IntraStillStep
<1> QED
  BY <1>4, <1>5, NextIsStep

LEMMA AbsBlockIs ==
  /\ \A c \in Core : \A b \in 1 .. NumBlocks(c) : <<c, b>> \in AbsBlock
  /\ \A x \in AbsBlock : x[1] \in Core /\ x[2] \in 1 .. NumBlocks(x[1]) /\ x = <<x[1], x[2]>>
BY DEF AbsBlock

LEMMA AbsDoneIs ==
  ASSUME NEW c \in Core, NEW b \in 1 .. NumBlocks(c)
  PROVE  AbsDone[<<c, b>>] = runs[c][b]
BY AbsBlockIs DEF AbsDone

(* Every edge of the network is a dependency on one sub-block.             *)
LEMMA AbsEdgeIs ==
  ASSUME NEW e \in AbsEdge
  PROVE  \/ \E d \in Cross, s \in Sub :
              e = [from |-> <<Sender(d, s), d.src>>, to |-> <<Receiver(d, s), d.dst>>,
                   cap |-> d.cap]
         \/ \E d \in Intra, s \in Sub :
              e = [from |-> <<s, d.src>>, to |-> <<s, d.dst>>, cap |-> d.cap]
BY DEF AbsEdge, Sender, Receiver

LEMMA CrossOccupancy ==
  ASSUME CountInv, NEW c \in Core, Inside(c), NEW d \in Cross, NEW s \in Sub
  PROVE  /\ stat[d][s] = AbsDone[<<Sender(d, s), d.src>>] - AbsDone[<<Receiver(d, s), d.dst>>]
         /\ AbsDone[<<Sender(d, s), d.src>>] \in Nat
         /\ AbsDone[<<Receiver(d, s), d.dst>>] \in Nat
         /\ c = Receiver(d, s) /\ d.dst = blk[c] => stat[d][s] > 0
         /\ c = Sender(d, s) /\ d.src = blk[c] => stat[d][s] < d.cap
<1>1. TypeOK /\ Zeroed
  BY DEF CountInv, AccessInv, Zeroed, Inside
<1>2. stat[d][s] = Producer(d, s) - Consumer(d, s)
  BY <1>1 DEF CountInv, CountsAreOccupancy
<1>3. CrossCondition(c, blk[c])
  BY DEF CountInv, StillEnabled, Inside
<1>4. c = Receiver(d, s) /\ d.dst = blk[c] => d \in Inputs(c, blk[c]) /\ s \in View(c)
  BY Ends DEF Inputs, Receiver
<1>5. c = Sender(d, s) /\ d.src = blk[c] => d \in Outputs(c, blk[c]) /\ s \in View(c)
  BY Ends DEF Outputs, Sender
<1>6. /\ AbsDone[<<Sender(d, s), d.src>>] = Producer(d, s) /\ Producer(d, s) \in Nat
      /\ AbsDone[<<Receiver(d, s), d.dst>>] = Consumer(d, s) /\ Consumer(d, s) \in Nat
  BY <1>1, EndFacts, AbsDoneIs
<1> QED
  BY <1>2, <1>3, <1>4, <1>5, <1>6 DEF CrossCondition

LEMMA IntraOccupancy ==
  ASSUME EdgeInv, NEW c \in Core, Inside(c), NEW d \in Intra, NEW s \in Sub, s = c
  PROVE  /\ var[s][d] = AbsDone[<<s, d.src>>] - AbsDone[<<s, d.dst>>]
         /\ AbsDone[<<s, d.src>>] \in Nat /\ AbsDone[<<s, d.dst>>] \in Nat
         /\ d.dst = blk[c] => var[s][d] > 0
         /\ d.src = blk[c] => var[s][d] < d.cap
<1>1. TypeOK /\ pass[s] < Passes
  BY DEF EdgeInv, CountInv, AccessInv, CounterInv, LoopInv, InLoop, Inside
<1>2. var[s][d] = runs[s][d.src] - runs[s][d.dst]
  BY <1>1 DEF EdgeInv, VarInv
<1>3. IntraCondition(c, blk[c])
  BY DEF EdgeInv, IntraStill
<1>4. /\ AbsDone[<<s, d.src>>] = runs[s][d.src] /\ runs[s][d.src] \in Nat
      /\ AbsDone[<<s, d.dst>>] = runs[s][d.dst] /\ runs[s][d.dst] \in Nat
  BY <1>1, IntraFacts, AbsDoneIs
<1> QED
  BY <1>2, <1>3, <1>4, CoreFacts DEF IntraCondition, IntraInputs, IntraOutputs

LEMMA PublishFires ==
  ASSUME EdgeInv, NEW c \in Core, Publish(c)
  PROVE  Dataflow!Fire(<<c, blk[c]>>)
<1> DEFINE b == blk[c]
           x == <<c, b>>
<1>1. TypeOK /\ Inside(c) /\ b \in 1 .. NumBlocks(c)
  <2>1. TypeOK
    BY DEF EdgeInv, CountInv, AccessInv
  <2>2. Inside(c)
    BY DEF Publish, Inside
  <2>3. b \in 1 .. NumBlocks(c)
    BY <2>1, CoreFacts DEF TypeOK
  <2> QED
    BY <2>1, <2>2, <2>3
<1>2. x \in AbsBlock /\ AbsDone[x] = runs[c][b]
  BY <1>1, AbsBlockIs, AbsDoneIs
<1>3. AbsDone[x] < Passes * Iterations
  <2>1. PICK k \in Nat : k < Iterations /\ runs[c][b] = Base(c) + k
    BY <1>1, Iteration DEF EdgeInv
  <2>2. pass[c] \in Nat /\ pass[c] < Passes
    BY <1>1 DEF TypeOK, EdgeInv, CounterInv, LoopInv, InLoop, Inside
  <2>3. Base(c) \in Nat /\ Base(c) + Iterations <= Passes * Iterations
    BY <2>2, LoopFacts, Products DEF Base
  <2>4. Passes * Iterations \in Nat
    BY LoopFacts
  <2> QED
    BY <1>2, <2>1, <2>3, <2>4, LoopFacts
<1>4. ASSUME NEW e \in AbsEdge, e.to = x
      PROVE  AbsDone[e.from] > AbsDone[x]
  <2>1. ASSUME NEW d \in Cross, NEW s \in Sub,
               e = [from |-> <<Sender(d, s), d.src>>, to |-> <<Receiver(d, s), d.dst>>,
                    cap |-> d.cap]
        PROVE  AbsDone[e.from] > AbsDone[x]
    <3>1. c = Receiver(d, s) /\ d.dst = b /\ e.from = <<Sender(d, s), d.src>>
          /\ x = <<Receiver(d, s), d.dst>>
      BY <1>4, <2>1
    <3> HIDE DEF x
    <3> QED
      BY <1>1, <3>1, CrossOccupancy DEF EdgeInv
  <2>2. ASSUME NEW d \in Intra, NEW s \in Sub,
               e = [from |-> <<s, d.src>>, to |-> <<s, d.dst>>, cap |-> d.cap]
        PROVE  AbsDone[e.from] > AbsDone[x]
    <3>1. c = s /\ d.dst = b /\ e.from = <<s, d.src>> /\ x = <<s, d.dst>>
      BY <1>4, <2>2
    <3> HIDE DEF x
    <3> QED
      BY <1>1, <3>1, IntraOccupancy
  <2> QED
    BY <2>1, <2>2, AbsEdgeIs
<1>5. ASSUME NEW e \in AbsEdge, e.from = x
      PROVE  AbsDone[x] - AbsDone[e.to] < e.cap
  <2>1. ASSUME NEW d \in Cross, NEW s \in Sub,
               e = [from |-> <<Sender(d, s), d.src>>, to |-> <<Receiver(d, s), d.dst>>,
                    cap |-> d.cap]
        PROVE  AbsDone[x] - AbsDone[e.to] < e.cap
    <3>1. c = Sender(d, s) /\ d.src = b /\ e.to = <<Receiver(d, s), d.dst>>
          /\ x = <<Sender(d, s), d.src>> /\ e.cap = d.cap
      BY <1>5, <2>1
    <3> HIDE DEF x
    <3> QED
      BY <1>1, <3>1, CrossOccupancy DEF EdgeInv
  <2>2. ASSUME NEW d \in Intra, NEW s \in Sub,
               e = [from |-> <<s, d.src>>, to |-> <<s, d.dst>>, cap |-> d.cap]
        PROVE  AbsDone[x] - AbsDone[e.to] < e.cap
    <3>1. c = s /\ d.src = b /\ e.to = <<s, d.dst>> /\ x = <<s, d.src>> /\ e.cap = d.cap
      BY <1>5, <2>2
    <3> HIDE DEF x
    <3> QED
      BY <1>1, <3>1, IntraOccupancy
  <2> QED
    BY <2>1, <2>2, AbsEdgeIs
<1>6. AbsDone' = [AbsDone EXCEPT ![x] = AbsDone[x] + 1]
  <2>1. ASSUME NEW y \in AbsBlock
        PROVE  AbsDone'[y] = IF y = x THEN AbsDone[x] + 1 ELSE AbsDone[y]
    <3>1. y[1] \in Core /\ y[2] \in 1 .. NumBlocks(y[1]) /\ y = <<y[1], y[2]>>
      BY AbsBlockIs
    <3>2. runs'[y[1]][y[2]] = runs[y[1]][y[2]] + One(y[1] = c /\ y[2] = b)
          /\ runs[y[1]][y[2]] \in Nat
      <4> DEFINE e == y[1]  n == y[2]
      <4>1. e \in Core /\ n \in 1 .. NumBlocks(e)
        BY <3>1
      <4> HIDE DEF e, n
      <4>2. runs[e][n] \in Nat
        BY <1>1, <4>1 DEF TypeOK
      <4>3. runs'[e][n] = runs[e][n] + One(e = c /\ n = blk[c])
        BY <1>1, <4>1, PublishCounts
      <4> QED
        BY <4>2, <4>3 DEF e, n
    <3>3. AbsDone'[y] = runs'[y[1]][y[2]] /\ AbsDone[y] = runs[y[1]][y[2]]
      BY DEF AbsDone
    <3>4. y = x <=> y[1] = c /\ y[2] = b
      BY <3>1
    <3> QED
      BY <3>2, <3>3, <3>4 DEF One
  <2>2. AbsDone' = [y \in AbsBlock |-> AbsDone'[y]] /\ AbsDone = [y \in AbsBlock |-> AbsDone[y]]
    BY DEF AbsDone
  <2> HIDE DEF x
  <2> QED
    BY <2>1, <2>2
<1> HIDE DEF x
<1> QED
  BY <1>3, <1>4, <1>5, <1>6 DEF Dataflow!Fire, Dataflow!HasInput, Dataflow!HasRoom, x

LEMMA DataflowInit == Init => Dataflow!Init
<1> SUFFICES ASSUME Init PROVE AbsDone = [x \in AbsBlock |-> 0]
  BY DEF Dataflow!Init
<1>1. ASSUME NEW x \in AbsBlock PROVE runs[x[1]][x[2]] = 0
  BY AbsBlockIs DEF Init
<1> QED
  BY <1>1 DEF AbsDone

LEMMA DataflowNext ==
  ASSUME EdgeInv, [Next]_vars
  PROVE  [Dataflow!Next]_AbsDone
<1>1. CASE UNCHANGED vars
  BY <1>1 DEF vars, AbsDone
<1>2. CASE \E c \in Core : StepOf(c)
  <2>1. PICK c \in Core : StepOf(c)
    BY <1>2
  <2>2. CASE pc[c] = "publish"
    <3>1. Dataflow!Fire(<<c, blk[c]>>)
      BY <2>1, <2>2, WhatItDoes, PublishFires
    <3>2. <<c, blk[c]>> \in AbsBlock
      BY AbsBlockIs, CoreFacts DEF EdgeInv, CountInv, AccessInv, TypeOK
    <3> QED
      BY <3>1, <3>2 DEF Dataflow!Next
  <2>3. CASE pc[c] # "publish"
    <3>1. runs' = runs
      BY <2>1, <2>3, WhereTo DEF EdgeInv, CountInv, AccessInv, Publish, NextRound, EndPass,
                                 dataVars
    <3> QED
      BY <3>1 DEF AbsDone
  <2> QED
    BY <2>2, <2>3
<1> QED
  BY <1>1, <1>2, NextIsStep

(* The compiled loop only takes steps of the bounded dataflow network: it  *)
(* fires a block when every input has an item and every output has room,   *)
(* and no more than Passes * Iterations times.                             *)
THEOREM StepsOfTheDataflow ==
  Spec /\ []OftenEnough => Dataflow!Init /\ [][Dataflow!Next]_AbsDone
<1>1. EdgeInv /\ [Next]_vars /\ OftenEnough' => EdgeInv'
  BY EdgeNext
<1>2. EdgeInv /\ [Next]_vars => [Dataflow!Next]_AbsDone
  BY DataflowNext
<1> QED
  BY EdgeInit, DataflowInit, <1>1, <1>2, PTL DEF Spec

(* A kernel that runs its main loop once does so without a condition.      *)
THEOREM OnePassStepsOfTheDataflow ==
  ASSUME Passes = 1
  PROVE  Spec => Dataflow!Init /\ [][Dataflow!Next]_AbsDone
<1>1. EdgeInv /\ [Next]_vars => EdgeInv'
  BY EdgeNext
<1>2. EdgeInv /\ [Next]_vars => [Dataflow!Next]_AbsDone
  BY DataflowNext
<1> QED
  BY EdgeInit, DataflowInit, <1>1, <1>2, PTL DEF Spec

-----------------------------------------------------------------------------
(* The extended loop is long enough for a steady kernel.  The argument: in *)
(* a schedule start, block b is to run its k-th iteration of a pass no     *)
(* later than round start[b] + Begin(F, k).  By induction over the steps   *)
(* it does: when its turn in that round comes, its producers have run      *)
(* iteration k (they start early enough), and its consumers iteration      *)
(* k - cap (an earlier one by as many as there are buffers began, by the   *)
(* choice of F, long enough ago).  The last iteration begins IfCount       *)
(* rounds before the end.                                                  *)

F == CalculateFactor(Intra)

(* The rounds in which block b had its turn in this pass.                  *)
Over(c, b) == pc[c] = "set" \/ (pc[c] \in Using /\ b < blk[c])

Due(c, b) == round[c] + One(Over(c, b))

Kept(start) ==
  \A c \in Core : \A b \in 1 .. NumBlocks(c) : \A k \in Nat :
    k < Iterations /\ start[<<c, b>>] + Begin(F, k) < Due(c, b) =>
      runs[c][b] > Base(c) + k

AtFirst == \A c \in Core : pc[c] \notin Using => blk[c] = 1

PaceInv(start) == EdgeInv /\ InStep /\ AtFirst /\ OftenEnough /\ Kept(start)

Starts == [AbsBlock -> 0 .. IfCount]

LEMMA FactorFacts ==
  /\ F \in [req : Nat \ {0}, x : Nat \ {0}] /\ F.req \in Nat \ {0} /\ F.x \in Nat \ {0}
  /\ F.req >= F.x
  /\ \A d \in Intra : d.cap * F.req >= (d.dst - d.src + 1) * F.x
<1>1. IsChain(Intra)
  <2>1. 1 .. VectorBlocks \subseteq Nat
    BY BlockAssumption
  <2>2. Intra \subseteq [src : Nat, dst : Nat, cap : Nat \ {0}]
    BY <2>1, IntraAssumption
  <2> QED
    BY <2>2, IntraAssumption DEF IsChain
<1>2. /\ F \in [req : Nat \ {0}, x : Nat \ {0}] /\ F.req >= F.x
      /\ \A d \in Intra : GreaterEq(F, Factor(d))
  BY <1>1, CalculateFactorFacts DEF F
<1>3. F.req \in Nat \ {0} /\ F.x \in Nat \ {0}
  BY <1>2
<1>4. ASSUME NEW d \in Intra
      PROVE  d.cap * F.req >= (d.dst - d.src + 1) * F.x
  <2>1. F.req * Factor(d).x >= Factor(d).req * F.x
    BY <1>2 DEF GreaterEq
  <2>2. Factor(d).x = d.cap /\ Factor(d).req = d.dst - d.src + 1
    BY DEF Factor
  <2>3. d.cap \in Int
    BY IntraAssumption
  <2>4. F.req * d.cap = d.cap * F.req
    BY <1>3, <2>3
  <2> QED
    BY <2>1, <2>2, <2>4
<1> QED
  BY <1>2, <1>3, <1>4

LEMMA TimesGrows ==
  ASSUME NEW j \in Nat, NEW x \in Nat, NEW y \in Nat, y >= x
  PROVE  j * y >= j * x
OBVIOUS

LEMMA Begins ==
  ASSUME NEW k \in Int
  PROVE  /\ Begin(F, k) \in Int
         /\ \A j \in Nat : Begin(F, k - j) \in Int /\ Begin(F, k - j) + j <= Begin(F, k)
         /\ \A d \in Intra : /\ Begin(F, k - d.cap) \in Int
                             /\ Begin(F, k - d.cap) + (d.dst - d.src + 1) <= Begin(F, k)
<1>0. F \in [req : Nat \ {0}, x : Nat \ {0}]
  BY FactorFacts
<1>1. ASSUME NEW j \in Nat
      PROVE  Begin(F, k - j) \in Int /\ Begin(F, k) \in Int
             /\ Begin(F, k - j) + j <= Begin(F, k)
  <2>1. j * F.req >= j * F.x
    <3>1. F.req \in Nat /\ F.x \in Nat /\ F.req >= F.x
      BY FactorFacts
    <3> QED
      BY <3>1, TimesGrows
  <2> DEFINE i == k - j
  <2>2. i \in Int /\ i + j = k
    OBVIOUS
  <2> HIDE DEF i
  <2>3. \A m \in Int : j * F.req >= m * F.x =>
          Begin(F, i) \in Int /\ Begin(F, i + j) \in Int /\ Begin(F, i) + m <= Begin(F, i + j)
    BY <1>0, <2>2, BeginsApart
  <2>4. Begin(F, i) \in Int /\ Begin(F, i + j) \in Int /\ Begin(F, i) + j <= Begin(F, i + j)
    <3>1. j \in Int
      OBVIOUS
    <3> QED
      BY <2>1, <2>3, <3>1
  <2> QED
    BY <2>2, <2>4 DEF i
<1>2. ASSUME NEW d \in Intra
      PROVE  Begin(F, k - d.cap) \in Int
             /\ Begin(F, k - d.cap) + (d.dst - d.src + 1) <= Begin(F, k)
  <2> DEFINE i == k - d.cap
             m == d.dst - d.src + 1
  <2>1. d.cap \in Nat /\ d.src \in Int /\ d.dst \in Int
    BY IntraAssumption
  <2>2. i \in Int /\ i + d.cap = k /\ m \in Int
    BY <2>1
  <2>3. d.cap * F.req >= m * F.x
    BY FactorFacts
  <2> HIDE DEF i, m
  <2>4. Begin(F, i) \in Int /\ Begin(F, i) + m <= Begin(F, i + d.cap)
    BY <1>0, <2>1, <2>2, <2>3, BeginsApart
  <2> QED
    BY <2>2, <2>4 DEF i, m
<1> QED
  BY <1>1, <1>2

LEMMA BeginZero == Begin(F, 0) = 0
<1>1. F.x \in Nat \ {0} /\ F.req \in Nat \ {0}
  BY FactorFacts
<1>2. 0 * F.req = 0 /\ 0 \div F.x = 0
  BY <1>1
<1> QED
  BY <1>2 DEF Begin

LEMMA BeginIsNat ==
  ASSUME NEW k \in Nat
  PROVE  Begin(F, k) \in Nat
<1>1. Begin(F, k) \in Int /\ Begin(F, k - k) + k <= Begin(F, k)
  BY Begins
<1>2. k - k = 0
  OBVIOUS
<1> QED
  BY <1>1, <1>2, BeginZero

LEMMA StartFacts ==
  ASSUME NEW start \in Starts, NEW c \in Core, NEW b \in 1 .. NumBlocks(c)
  PROVE  start[<<c, b>>] \in Nat /\ start[<<c, b>>] <= IfCount /\ IfCount \in Nat
<1>1. IfCount \in Nat
  BY BlockAssumption DEF IfCount
<1>2. start[<<c, b>>] \in 0 .. IfCount
  BY AbsBlockIs DEF Starts
<1> QED
  BY <1>1, <1>2

(* What a block owes at its turn: all iterations before k.                 *)
LEMMA KeptSoFar ==
  ASSUME NEW start \in Starts, PaceInv(start), NEW c \in Core, NEW b \in 1 .. NumBlocks(c),
         NEW k \in Nat, k < Iterations, start[<<c, b>>] + Begin(F, k) <= Due(c, b)
  PROVE  runs[c][b] >= Base(c) + k
<1>1. TypeOK /\ Base(c) \in Nat /\ runs[c][b] \in Nat /\ Due(c, b) \in Nat
  <2>1. TypeOK
    BY DEF PaceInv, EdgeInv, CountInv, AccessInv
  <2>2. pass[c] \in Nat /\ round[c] \in Nat /\ runs[c][b] \in Nat
    BY <2>1 DEF TypeOK
  <2> QED
    BY <2>1, <2>2, LoopFacts, Products DEF Base, Due, One
<1>2. CASE k = 0
  BY <1>1, <1>2 DEF PaceInv, OftenEnough, Base
<1>3. CASE k # 0
  <2> DEFINE i == k - 1
  <2>1. i \in Nat /\ i < Iterations
    BY <1>3, LoopFacts
  <2>2. Begin(F, i) \in Int /\ Begin(F, k) \in Int /\ Begin(F, i) + 1 <= Begin(F, k)
    BY Begins
  <2>3. start[<<c, b>>] + Begin(F, i) < Due(c, b)
    BY <1>1, <2>2, StartFacts
  <2> HIDE DEF i
  <2>4. runs[c][b] > Base(c) + i
    BY <2>1, <2>3 DEF PaceInv, Kept
  <2> QED
    BY <1>1, <2>1, <2>4 DEF i
<1> QED
  BY <1>2, <1>3

(* How far the other end of a buffer is at the turn of core c: a vector    *)
(* finds the cube's blocks of the same round done, or the whole pass.      *)
LEMMA OtherEnd ==
  ASSUME NEW start \in Starts, PaceInv(start), NEW c \in Core, pc[c] \in Using,
         NEW s \in View(c), NEW q \in Core, q = IF c = Cube THEN s ELSE Cube,
         NEW b \in 1 .. NumBlocks(q)
  PROVE  /\ runs[q][b] >= Base(c)
         /\ \A k \in Nat : k < Iterations
                           /\ start[<<q, b>>] + Begin(F, k) < round[c] + One(c # Cube) =>
              runs[q][b] > Base(c) + k
<1>1. /\ AccessInv /\ TypeOK /\ InStep /\ LoopInv /\ OftenEnough /\ Kept(start)
      /\ pc[c] \in Holding
  BY DEF PaceInv, EdgeInv, CountInv, AccessInv, CounterInv, Using, Holding
<1>2. /\ pass[q] \in Nat /\ round[q] \in Nat /\ runs[q][b] \in Nat
      /\ pass[c] \in Nat /\ round[c] \in Nat /\ Iterations \in Nat
  BY <1>1, LoopFacts DEF TypeOK
<1>3. runs[q][b] >= Base(q)
  BY <1>1 DEF OftenEnough, Base
<1>4. Base(c) \in Nat /\ Base(q) \in Nat
  BY <1>2, Products DEF Base
<1>5. CASE pass[q] = pass[c] /\ round[q] = round[c] + One(c # Cube)
  <2>1. Base(q) = Base(c)
    BY <1>5 DEF Base
  <2>2. pc[q] \notin Holding
    <3>1. CASE c = Cube
      BY <1>1, <3>1, HolderIsAlone, CoreFacts DEF View
    <3>2. CASE c # Cube
      BY <1>1, <3>2, HolderIsAlone
    <3> QED
      BY <3>1, <3>2
  <2>3. Due(q, b) = round[q]
    BY <1>2, <2>2 DEF Due, Over, Using, Holding, One
  <2> QED
    BY <1>1, <1>3, <1>5, <2>1, <2>3 DEF Kept
<1>6. CASE pass[q] = pass[c] + 1
  <2>1. Base(q) = Base(c) + Iterations
    BY <1>2, <1>6, Products DEF Base
  <2> QED
    BY <1>2, <1>3, <1>4, <2>1
<1>7. CASE c = Cube
  <2>1. s \in Sub /\ q = s
    BY <1>7 DEF View
  <2>2. Lead(s) = 0
    BY <1>1, <1>7, <2>1, TokenLead
  <2> QED
    BY <1>1, <1>2, <1>5, <1>7, <2>1, <2>2 DEF InStep, One
<1>8. CASE c # Cube
  <2>1. c \in Sub /\ s = c /\ q = Cube
    BY <1>8, CoreFacts DEF View
  <2>2. Lead(c) = 1
    BY <1>1, <2>1, TokenLead
  <2> QED
    BY <1>1, <1>2, <1>5, <1>6, <1>8, <2>1, <2>2 DEF InStep, One
<1> QED
  BY <1>7, <1>8

(* The edge of the network for a dependency, at its two ends.              *)
LEMMA CrossSchedule ==
  ASSUME NEW start \in Starts, IsSchedule(AbsEdge, start, Cube), NEW d \in Cross, NEW s \in Sub
  PROVE  LET x == start[<<Sender(d, s), d.src>>]
             y == start[<<Receiver(d, s), d.dst>>]
         IN  /\ d.toVector  => y >= x /\ y - x <= d.cap - 1
             /\ ~d.toVector => y >= x + 1 /\ y - x <= d.cap
<1> DEFINE e == [from |-> <<Sender(d, s), d.src>>, to |-> <<Receiver(d, s), d.dst>>,
                 cap |-> d.cap]
<1>1. d.toVector \in BOOLEAN /\ s # Cube
  BY CrossAssumption, CoreFacts
<1>2. e \in AbsEdge
  BY <1>1 DEF AbsEdge, Sender, Receiver
<1>3. start[e.to] >= start[e.from] + Latency(e, Cube) /\ start[e.to] - start[e.from] <= Reach(e, Cube)
  BY <1>2 DEF IsSchedule
<1>4. /\ e.from = <<Sender(d, s), d.src>> /\ e.to = <<Receiver(d, s), d.dst>> /\ e.cap = d.cap
      /\ e.from[1] = Sender(d, s) /\ e.to[1] = Receiver(d, s)
  OBVIOUS
<1> HIDE DEF e
<1>5. start[<<Sender(d, s), d.src>>] \in Int
  <2>1. Sender(d, s) \in Core /\ d.src \in 1 .. NumBlocks(Sender(d, s))
    BY CrossFacts, CoreFacts DEF Sender
  <2> QED
    BY <2>1, StartFacts
<1>6. CASE d.toVector
  BY <1>1, <1>3, <1>4, <1>5, <1>6 DEF Latency, Reach, Sender, Receiver
<1>7. CASE ~d.toVector
  BY <1>1, <1>3, <1>4, <1>7 DEF Latency, Reach, Sender, Receiver
<1> QED
  BY <1>1, <1>6, <1>7

LEMMA IntraSchedule ==
  ASSUME NEW start \in Starts, IsSchedule(AbsEdge, start, Cube), NEW d \in Intra, NEW s \in Sub
  PROVE  LET x == start[<<s, d.src>>]
             y == start[<<s, d.dst>>]
         IN  y >= x /\ y - x <= d.dst - d.src
<1> DEFINE e == [from |-> <<s, d.src>>, to |-> <<s, d.dst>>, cap |-> d.cap]
<1>1. s # Cube /\ s \in Core /\ d.src \in 1 .. NumBlocks(s)
  BY IntraAssumption, CoreFacts DEF NumBlocks
<1>2. e \in AbsEdge
  BY DEF AbsEdge
<1>3. start[e.to] >= start[e.from] + Latency(e, Cube) /\ start[e.to] - start[e.from] <= Reach(e, Cube)
  BY <1>2 DEF IsSchedule
<1>4. /\ e.from = <<s, d.src>> /\ e.to = <<s, d.dst>>
      /\ e.from[1] = s /\ e.to[1] = s /\ e.from[2] = d.src /\ e.to[2] = d.dst
  OBVIOUS
<1> HIDE DEF e
<1>5. start[<<s, d.src>>] \in Int
  BY <1>1, StartFacts
<1> QED
  BY <1>1, <1>3, <1>4, <1>5 DEF Latency, Reach

(* At its turn in the round of its k-th iteration, a block that has run    *)
(* all iterations before k may run.                                        *)
LEMMA BuffersReady ==
  ASSUME NEW start \in Starts, IsSchedule(AbsEdge, start, Cube), PaceInv(start),
         NEW c \in Core, pc[c] = "test", NEW k \in Nat, k < Iterations,
         start[<<c, blk[c]>>] + Begin(F, k) = round[c], runs[c][blk[c]] = Base(c) + k
  PROVE  Condition(c, blk[c])
<1> DEFINE b == blk[c]
           x == start[<<c, b>>]
<1>1. /\ CountInv /\ AccessInv /\ TypeOK /\ InStep /\ CounterInv(TRUE) /\ LoopInv /\ VarInv
      /\ OftenEnough /\ Kept(start) /\ Zeroed /\ pc[c] \in Using
      /\ b \in 1 .. NumBlocks(c)
  <2>1. CountInv /\ InStep /\ CounterInv(TRUE) /\ VarInv /\ OftenEnough /\ Kept(start)
    BY DEF PaceInv, EdgeInv
  <2>2. AccessInv /\ TypeOK /\ LoopInv
    BY <2>1 DEF CountInv, AccessInv, CounterInv
  <2>3. b \in 1 .. NumBlocks(c)
    BY <2>2, CoreFacts DEF TypeOK
  <2>4. Zeroed /\ pc[c] \in Using
    BY DEF Zeroed, Using
  <2> QED
    BY <2>1, <2>2, <2>3, <2>4
<1>2. /\ pass[c] \in Nat /\ pass[c] < Passes /\ round[c] \in Nat
      /\ Iterations \in Nat /\ Base(c) \in Nat
  BY <1>1, LoopFacts, Products DEF TypeOK, LoopInv, InLoop, Base
<1>3. x \in Nat /\ Begin(F, k) \in Int
  BY <1>1, StartFacts, Begins
<1>4. \A j \in Nat : Begin(F, k - j) \in Int /\ Begin(F, k - j) + j <= Begin(F, k)
  <2>1. k \in Int
    OBVIOUS
  <2> QED
    BY <2>1, Begins
<1>5. counter[c][b] < Ub
  <2>1. PICK i \in 0 .. Iterations : CountedAs(TRUE, c, b, i)
    BY <1>1, <1>2 DEF CounterInv, Counted
  <2>2. counter[c][b] = Lb + Step * i /\ runs[c][b] = Base(c) + i
    BY <2>1 DEF CountedAs
  <2>3. i = k
    BY <1>2, <2>2
  <2>4. Lb + Step * k < Ub
    BY TripIsBelow, LoopFacts DEF Iterations
  <2> QED
    BY <2>2, <2>3, <2>4
<1> HIDE DEF x
<1>6. ASSUME NEW s \in View(c), NEW d \in Inputs(c, b)
      PROVE  stat[d][s] > 0
  <2>1. d \in Cross /\ s \in Sub /\ ~Produces(c, d) /\ d.dst = b /\ d.toVector \in BOOLEAN
    BY CoreFacts, CrossAssumption DEF Inputs, View
  <2> DEFINE q == Sender(d, s)
             y == start[<<q, d.src>>]
  <2>2. c = Receiver(d, s) /\ q = (IF c = Cube THEN s ELSE Cube) /\ (c # Cube <=> d.toVector)
    BY <2>1, Ends, CoreFacts DEF Receiver, Sender, View, Produces
  <2>3. /\ q \in Core /\ d.src \in 1 .. NumBlocks(q)
        /\ Producer(d, s) = runs[q][d.src] /\ Producer(d, s) \in Nat
        /\ Consumer(d, s) = runs[c][b]
    BY <1>1, <2>1, <2>2, EndFacts
  <2>4. y \in Nat
    BY <2>3, StartFacts
  <2>5. IF d.toVector THEN x >= y ELSE x >= y + 1
    BY <2>1, <2>2, CrossSchedule DEF x
  <2> HIDE DEF q, y
  <2>6. y + Begin(F, k) < round[c] + One(c # Cube)
    BY <1>2, <1>3, <2>2, <2>4, <2>5 DEF One, x
  <2>7. runs[q][d.src] > Base(c) + k
    BY <1>1, <2>2, <2>3, <2>6, OtherEnd DEF y
  <2>8. stat[d][s] = Producer(d, s) - Consumer(d, s)
    BY <1>1, <2>1 DEF CountInv, CountsAreOccupancy
  <2> QED
    BY <1>2, <2>3, <2>7, <2>8
<1>7. ASSUME NEW s \in View(c), NEW d \in Outputs(c, b)
      PROVE  stat[d][s] < d.cap
  <2>1. d \in Cross /\ s \in Sub /\ Produces(c, d) /\ d.src = b /\ d.toVector \in BOOLEAN
    BY CoreFacts, CrossAssumption DEF Outputs, View
  <2> DEFINE q == Receiver(d, s)
             y == start[<<q, d.dst>>]
  <2>2. c = Sender(d, s) /\ q = (IF c = Cube THEN s ELSE Cube) /\ (c = Cube <=> d.toVector)
    BY <2>1, Ends, CoreFacts DEF Receiver, Sender, View, Produces
  <2>3. /\ q \in Core /\ d.dst \in 1 .. NumBlocks(q) /\ d.cap \in Nat \ {0}
        /\ Consumer(d, s) = runs[q][d.dst] /\ Consumer(d, s) \in Nat
        /\ Producer(d, s) = runs[c][b]
    BY <1>1, <2>1, <2>2, EndFacts
  <2>4. y \in Nat
    BY <2>3, StartFacts
  <2>5. IF d.toVector THEN y - x <= d.cap - 1 ELSE y - x <= d.cap
    BY <2>1, <2>2, CrossSchedule DEF x
  <2> HIDE DEF q, y
  <2>6. runs[q][d.dst] > Base(c) + k - d.cap
    <3>1. CASE k < d.cap
      <4>1. runs[q][d.dst] >= Base(c)
        BY <1>1, <2>2, <2>3, OtherEnd
      <4> QED
        BY <1>2, <2>3, <3>1, <4>1
    <3>2. CASE k >= d.cap
      <4> DEFINE i == k - d.cap
      <4>1. i \in Nat /\ i < Iterations
        BY <1>2, <2>3, <3>2
      <4>2. Begin(F, i) \in Int /\ Begin(F, i) + d.cap <= Begin(F, k)
        BY <1>4, <2>3
      <4>3. y + Begin(F, i) < round[c] + One(c # Cube)
        BY <1>2, <1>3, <2>2, <2>3, <2>4, <2>5, <4>2 DEF One, x
      <4> HIDE DEF i
      <4>4. runs[q][d.dst] > Base(c) + i
        BY <1>1, <2>2, <2>3, <4>1, <4>3, OtherEnd DEF y
      <4> QED
        BY <1>2, <2>3, <4>4 DEF i
    <3> QED
      BY <2>3, <3>1, <3>2
  <2>7. stat[d][s] = Producer(d, s) - Consumer(d, s)
    BY <1>1, <2>1 DEF CountInv, CountsAreOccupancy
  <2> QED
    BY <1>2, <2>3, <2>6, <2>7
<1>8. ASSUME NEW d \in IntraInputs(c, b)
      PROVE  var[c][d] > 0
  <2>1. d \in Intra /\ c \in Sub /\ d.dst = b
    BY CoreFacts DEF IntraInputs
  <2>2. /\ d.src \in 1 .. NumBlocks(c) /\ runs[c][d.src] \in Nat
        /\ var[c][d] = runs[c][d.src] - runs[c][b] /\ d.src < b
    BY <1>1, <1>2, <2>1, IntraFacts, IntraAssumption DEF VarInv, CanExtend
  <2> DEFINE y == start[<<c, d.src>>]
  <2>3. y \in Nat /\ x >= y
    BY <2>1, <2>2, StartFacts, IntraSchedule DEF x
  <2>4. Due(c, d.src) = round[c] + 1
    BY <1>1, <2>2 DEF Due, Over, One
  <2> HIDE DEF y
  <2>5. y + Begin(F, k) < Due(c, d.src)
    BY <1>2, <1>3, <2>3, <2>4 DEF x
  <2>6. runs[c][d.src] > Base(c) + k
    BY <1>1, <2>2, <2>5 DEF Kept, y
  <2> QED
    BY <1>2, <2>2, <2>6
<1>9. ASSUME NEW d \in IntraOutputs(c, b)
      PROVE  var[c][d] < d.cap
  <2>1. d \in Intra /\ c \in Sub /\ d.src = b
    BY CoreFacts DEF IntraOutputs
  <2>2. /\ d.dst \in 1 .. NumBlocks(c) /\ runs[c][d.dst] \in Nat /\ d.cap \in Nat \ {0}
        /\ var[c][d] = runs[c][b] - runs[c][d.dst] /\ b < d.dst
    BY <1>1, <1>2, <2>1, IntraFacts, IntraAssumption DEF VarInv, CanExtend
  <2> DEFINE y == start[<<c, d.dst>>]
  <2>3. y \in Nat /\ y - x <= d.dst - b
    BY <2>1, <2>2, StartFacts, IntraSchedule DEF x
  <2>4. Due(c, d.dst) = round[c]
    BY <1>1, <1>2, <2>2 DEF Due, Over, One
  <2> HIDE DEF y
  <2>5. runs[c][d.dst] > Base(c) + k - d.cap
    <3>1. CASE k < d.cap
      <4>1. runs[c][d.dst] >= Base(c)
        BY <1>1, <2>2 DEF OftenEnough, Base
      <4> QED
        BY <1>2, <2>2, <3>1, <4>1
    <3>2. CASE k >= d.cap
      <4> DEFINE i == k - d.cap
      <4>1. i \in Nat /\ i < Iterations
        BY <1>2, <2>2, <3>2
      <4>2. Begin(F, i) \in Int /\ Begin(F, i) + (d.dst - b + 1) <= Begin(F, k)
        BY <2>1, Begins
      <4> HIDE DEF i
      <4>3. y + Begin(F, i) < Due(c, d.dst)
        BY <1>1, <1>2, <1>3, <2>2, <2>3, <2>4, <4>2 DEF x
      <4>4. runs[c][d.dst] > Base(c) + i
        BY <1>1, <2>2, <4>1, <4>3 DEF Kept, y
      <4> QED
        BY <1>2, <2>2, <4>4 DEF i
    <3> QED
      BY <2>2, <3>1, <3>2
  <2> QED
    BY <1>2, <2>2, <2>5
<1> QED
  BY <1>5, <1>6, <1>7, <1>8, <1>9 DEF Condition, CrossCondition, IntraCondition

(* The end of a round or a pass finds every core at its first block.       *)
LEMMA AtFirstStep ==
  ASSUME TypeOK, AtFirst, NEW c \in Core, StepOf(c)
  PROVE  AtFirst'
<1> SUFFICES ASSUME NEW e \in Core, pc'[e] \notin Using
             PROVE  blk'[e] = 1
  BY DEF AtFirst
<1> USE DEF TypeOK, dataVars, Using
<1>1. CASE e # c
  BY <1>1, OthersStay DEF AtFirst
<1>2. CASE e = c
  <2>1. CASE ZeroSSBuffer(c) \/ (c \in Sub /\ OpenScope(c)) \/ (c = Cube /\ CloseScope)
    BY <1>2, <2>1 DEF ZeroSSBuffer, OpenScope, CloseScope, AtFirst
  <2>2. CASE Wait(c) \/ EnterBlock(c) \/ RunBody(c)
    BY <1>2, <2>2 DEF Wait, EnterBlock, RunBody
  <2>3. CASE SkipBlock(c)
    BY <1>2, <2>3 DEF SkipBlock, Advance
  <2>4. CASE Publish(c)
    BY <1>2, <2>4 DEF Publish, Advance
  <2>5. CASE NextRound(c) \/ EndPass(c)
    BY <1>2, <2>5 DEF NextRound, EndPass, AtFirst
  <2> QED
    BY <2>1, <2>2, <2>3, <2>4, <2>5 DEF StepOf, CoreStep
<1> QED
  BY <1>1, <1>2

(* A block's turn is over when it was skipped or has run.                  *)
LEMMA AdvanceIsOver ==
  ASSUME TypeOK, NEW c \in Core, pc[c] \in {"test", "publish"}, Advance(c), round' = round,
         NEW b \in 1 .. NumBlocks(c)
  PROVE  Due(c, b)' = Due(c, b) + One(b = blk[c])
<1>1. /\ blk[c] \in 1 .. NumBlocks(c) /\ round[c] \in Nat /\ NumBlocks(c) \in Nat
      /\ pc \in [Core -> States] /\ blk \in [Core -> Nat \ {0}]
  BY CoreFacts DEF TypeOK
<1>2. Over(c, b) <=> b < blk[c]
  BY DEF Over, Using
<1>3. CASE blk[c] < NumBlocks(c)
  <2>1. pc'[c] = "test" /\ blk'[c] = blk[c] + 1
    BY <1>1, <1>3 DEF Advance
  <2>2. Over(c, b)' <=> b < blk[c] + 1
    BY <2>1 DEF Over, Using
  <2> QED
    BY <1>1, <1>2, <2>2 DEF Due, One
<1>4. CASE ~(blk[c] < NumBlocks(c))
  <2>1. pc'[c] = "set"
    BY <1>1, <1>4 DEF Advance
  <2>2. Over(c, b)'
    BY <2>1 DEF Over
  <2> QED
    BY <1>1, <1>2, <1>4, <2>2 DEF Due, One
<1> QED
  BY <1>3, <1>4

LEMMA DueMoves ==
  ASSUME TypeOK, AtFirst, NEW c \in Core, StepOf(c), NEW e \in Core,
         NEW b \in 1 .. NumBlocks(e), ~(e = c /\ EndPass(c))
  PROVE  Due(e, b)' = Due(e, b) + One(e = c /\ b = blk[c] /\ (Publish(c) \/ SkipBlock(c)))
<1> USE DEF TypeOK, dataVars
<1>1. CASE e # c
  <2>1. pc'[e] = pc[e] /\ round'[e] = round[e] /\ blk'[e] = blk[e] /\ round[e] \in Nat
    BY <1>1, OthersStay
  <2> QED
    BY <1>1, <2>1 DEF Due, Over, One
<1>2. CASE e = c /\ (Publish(c) \/ SkipBlock(c))
  <2>1. pc[c] \in {"test", "publish"} /\ Advance(c) /\ round' = round
    BY <1>2 DEF Publish, SkipBlock
  <2> QED
    BY <1>2, <2>1, AdvanceIsOver DEF One
<1>3. CASE e = c /\ ~(Publish(c) \/ SkipBlock(c))
  <2>1. Due(c, b)' = Due(c, b) /\ Due(c, b) \in Nat
    <3>1. Due(c, b) \in Nat
      BY DEF Due, One
    <3>2. CASE ZeroSSBuffer(c) \/ (c \in Sub /\ OpenScope(c)) \/ (c = Cube /\ CloseScope)
      BY <3>1, <3>2 DEF ZeroSSBuffer, OpenScope, CloseScope, EnterLoop, AfterLoop, Due, Over, Using
    <3>3. CASE Wait(c)
      <4>1. pc[c] = "wait" /\ pc'[c] = "test" /\ round' = round /\ blk' = blk /\ blk[c] = 1
        BY <3>3 DEF Wait, AtFirst, Using
      <4>2. ~(b < 1)
        BY <1>3, CoreFacts
      <4> QED
        BY <3>1, <4>1, <4>2 DEF Due, Over, Using
    <3>4. CASE EnterBlock(c) \/ RunBody(c)
      BY <3>1, <3>4 DEF EnterBlock, RunBody, Due, Over, Using
    <3>5. CASE NextRound(c)
      <4>1. pc[c] = "set" /\ pc'[c] = "wait" /\ round'[c] = round[c] + 1 /\ round[c] \in Nat
        BY <3>5 DEF NextRound
      <4> QED
        BY <3>1, <4>1 DEF Due, Over, Using, One
    <3> QED
      BY <1>3, <3>1, <3>2, <3>3, <3>4, <3>5 DEF StepOf, CoreStep
  <2> QED
    BY <1>3, <2>1 DEF One
<1> QED
  BY <1>1, <1>2, <1>3

(* The schedule is kept: a block that is skipped has run its iteration.    *)
LEMMA KeptStep ==
  ASSUME NEW start \in Starts, IsSchedule(AbsEdge, start, Cube), PaceInv(start),
         NEW c \in Core, StepOf(c)
  PROVE  Kept(start)'
<1> SUFFICES ASSUME NEW e \in Core, NEW b \in 1 .. NumBlocks(e), NEW k \in Nat, k < Iterations,
                    start[<<e, b>>] + Begin(F, k) < Due(e, b)'
             PROVE  runs'[e][b] > Base(e)' + k
  BY DEF Kept
<1>1. TypeOK /\ AtFirst /\ Kept(start)
  BY DEF PaceInv, EdgeInv, CountInv, AccessInv
<1>2. start[<<e, b>>] \in Nat /\ Begin(F, k) \in Nat
  BY StartFacts, BeginIsNat
<1>3. CASE e = c /\ EndPass(c)
  <2>1. round'[c] = 0 /\ pc'[c] \in {"wait", "close", "done"}
    BY <1>1, <1>3 DEF EndPass, TypeOK, AfterLoop
  <2>2. Due(c, b)' = 0
    BY <2>1 DEF Due, Over, Using, One
  <2> QED
    BY <1>2, <1>3, <2>2
<1>4. CASE ~(e = c /\ EndPass(c))
  <2>1. Due(e, b)' = Due(e, b) + One(e = c /\ b = blk[c] /\ (Publish(c) \/ SkipBlock(c)))
    BY <1>1, <1>4, DueMoves
  <2>2. Base(e)' = Base(e)
    BY <1>1, <1>4, PassMoves DEF Base
  <2>3. /\ runs'[e][b] = runs[e][b] + One(e = c /\ pc[c] = "publish" /\ b = blk[c])
        /\ runs[e][b] \in Nat
    BY <1>1, RunsMove
  <2>4. Base(e) \in Nat /\ round[e] \in Nat /\ Due(e, b) \in Nat
    BY <1>1, LoopFacts, Products DEF TypeOK, Base, Due, One
  <2>5. CASE start[<<e, b>>] + Begin(F, k) < Due(e, b)
    <3>1. runs[e][b] > Base(e) + k
      BY <1>1, <2>5 DEF Kept
    <3> QED
      BY <2>2, <2>3, <2>4, <3>1 DEF One
  <2>6. CASE ~(start[<<e, b>>] + Begin(F, k) < Due(e, b))
    <3>1. /\ e = c /\ b = blk[c] /\ (Publish(c) \/ SkipBlock(c))
          /\ start[<<e, b>>] + Begin(F, k) = Due(e, b)
      BY <1>2, <2>1, <2>4, <2>6 DEF One
    <3>2. runs[e][b] >= Base(e) + k
      BY <2>4, <3>1, KeptSoFar
    <3>3. CASE Publish(c)
      <4>1. runs'[e][b] = runs[e][b] + 1
        BY <2>3, <3>1, <3>3 DEF Publish, One
      <4> QED
        BY <2>2, <2>3, <2>4, <3>2, <4>1
    <3>4. CASE SkipBlock(c)
      <4>1. pc[c] = "test" /\ ~Condition(c, blk[c])
        BY <3>4 DEF SkipBlock
      <4>2. Due(e, b) = round[c]
        BY <2>4, <3>1, <4>1 DEF Due, Over, Using, One
      <4>3. runs[e][b] # Base(e) + k
        BY <3>1, <4>1, <4>2, BuffersReady
      <4>4. runs'[e][b] = runs[e][b]
        BY <2>3, <4>1 DEF One
      <4> QED
        BY <2>2, <2>3, <2>4, <3>2, <4>3, <4>4
    <3> QED
      BY <3>1, <3>3, <3>4
  <2> QED
    BY <2>5, <2>6
<1> QED
  BY <1>3, <1>4

(* The last iteration begins IfCount rounds before the end.                *)
LEMMA LastBegins ==
  ASSUME NoOverflow, Iterations # 0
  PROVE  /\ Begin(F, Iterations - 1) \in Int
         /\ IfCount + Begin(F, Iterations - 1) < Rounds
<1> DEFINE total == CeilDivUI(Iterations * F.req, F.x) + IfCount
<1>1. /\ Lb \in MachineInt /\ Ub \in MachineInt /\ Step \in MachineInt \cap (Nat \ {0})
      /\ IfCount \in Nat /\ Lb \in Int /\ Ub \in Int
  BY LoopAssumption, BlockAssumption, LoopFacts DEF IfCount
<1>2. F \in [req : Nat \ {0}, x : Nat \ {0}] /\ F.req >= F.x /\ Iterations \in Nat
  BY FactorFacts, LoopFacts
<1>3. Lb <= Ub
  BY <1>1 DEF Iterations, TripCount
<1>4. /\ TripCount(Lb, Ub, Step) * F.req < 2 ^ Width
      /\ total = CeilDivUI(TripCount(Lb, Ub, Step) * F.req, F.x) + IfCount
      /\ Step * total < 2 ^ Width /\ Lb + Step * total < 2 ^ (Width - 1)
  BY DEF NoOverflow, RoundsFit, Iterations, F
<1> HIDE DEF total
<1>5. Rounds = total /\ total \in Nat
  BY <1>1, <1>2, <1>3, <1>4, RoundsWithoutOverflow DEF Rounds, F
<1> DEFINE p == Begin(F, Iterations - 1)
           c == CeilDivUI(Iterations * F.req, F.x)
<1>6. p \in Int /\ p + 1 <= c
  BY <1>2, BeginsInTime
<1>7. c \in Nat
  <2>1. Iterations * F.req \in Nat /\ F.x \in Nat \ {0}
    BY <1>2
  <2> QED
    BY <2>1, CeilDivUIFacts
<1>8. total = c + IfCount
  BY DEF total
<1> HIDE DEF p, c
<1>9. IfCount + p < total
  BY <1>1, <1>6, <1>7, <1>8
<1> QED
  BY <1>5, <1>6, <1>9 DEF p

LEMMA OftenStep ==
  ASSUME NEW start \in Starts, NoOverflow, PaceInv(start), NEW c \in Core, StepOf(c)
  PROVE  OftenEnough'
<1>1. TypeOK /\ Kept(start) /\ OftenEnough /\ LoopInv
  BY DEF PaceInv, EdgeInv, CountInv, AccessInv, CounterInv
<1> SUFFICES ASSUME NEW e \in Core, NEW b \in 1 .. NumBlocks(e)
             PROVE  runs'[e][b] >= pass'[e] * Iterations
  BY DEF OftenEnough
<1>2. runs'[e][b] >= runs[e][b] /\ runs[e][b] \in Nat /\ runs'[e][b] \in Nat
  BY <1>1, RunsMove DEF One
<1>3. runs[e][b] >= pass[e] * Iterations /\ pass[e] \in Nat /\ Iterations \in Nat
      /\ pass[e] * Iterations \in Nat
  BY <1>1, LoopFacts, Products DEF OftenEnough, TypeOK
<1>4. CASE pass'[e] = pass[e]
  BY <1>2, <1>3, <1>4
<1>5. CASE e = c /\ EndPass(c) /\ pass'[e] = pass[e] + 1
  <2>1. pass'[e] * Iterations = pass[e] * Iterations + Iterations
    BY <1>3, <1>5, Products
  <2>2. CASE Iterations = 0
    <3> DEFINE old == pass[e] * Iterations
               new == pass'[e] * Iterations
    <3>1. new = old + Iterations /\ old \in Nat /\ runs[e][b] >= old
      BY <1>3, <2>1
    <3> HIDE DEF old, new
    <3>2. runs'[e][b] >= new
      BY <1>2, <2>2, <3>1
    <3> QED
      BY <3>2 DEF new
  <2>3. CASE Iterations # 0
    <3> DEFINE k == Iterations - 1
    <3>1. k \in Nat /\ k < Iterations /\ k + 1 = Iterations
      BY <1>3, <2>3
    <3>2. Due(e, b) = Rounds
      <4>1. pc[c] = "set" /\ round[c] + 1 >= Rounds /\ round[c] < Rounds
        BY <1>1, <1>5 DEF EndPass, LoopInv, InLoop
      <4>2. round[c] \in Nat /\ Rounds \in Nat
        BY <1>1, LoopFacts DEF TypeOK
      <4> QED
        BY <1>5, <4>1, <4>2 DEF Due, Over, One
    <3>3. Begin(F, k) \in Int /\ IfCount + Begin(F, k) < Rounds
      BY <2>3, LastBegins
    <3>4. start[<<e, b>>] \in Nat /\ start[<<e, b>>] <= IfCount /\ IfCount \in Nat
      BY StartFacts
    <3>5. Rounds \in Nat
      BY LoopFacts
    <3> HIDE DEF k
    <3>6. start[<<e, b>>] + Begin(F, k) < Due(e, b)
      BY <3>2, <3>3, <3>4, <3>5
    <3>7. runs[e][b] > pass[e] * Iterations + k
      BY <1>1, <3>1, <3>6 DEF Kept, Base
    <3> QED
      BY <1>2, <1>3, <2>1, <3>1, <3>7
  <2> QED
    BY <2>2, <2>3
<1> QED
  BY <1>1, <1>4, <1>5, PassMoves

LEMMA PaceInit ==
  ASSUME NEW start \in Starts, Init
  PROVE  PaceInv(start)
<1>1. EdgeInv /\ InStep
  BY EdgeInit, InStepInit
<1>2. AtFirst
  BY DEF Init, AtFirst
<1>3. OftenEnough
  <2>1. ASSUME NEW c \in Core, NEW b \in 1 .. NumBlocks(c)
        PROVE  runs[c][b] = 0 /\ pass[c] * Iterations = 0
    BY LoopFacts DEF Init
  <2> QED
    BY <2>1 DEF OftenEnough
<1>4. Kept(start)
  <2> SUFFICES ASSUME NEW c \in Core, NEW b \in 1 .. NumBlocks(c), NEW k \in Nat
               PROVE  ~(start[<<c, b>>] + Begin(F, k) < Due(c, b))
    BY DEF Kept
  <2>1. Due(c, b) = 0
    BY DEF Init, Due, Over, Using, One
  <2>2. start[<<c, b>>] \in Nat
    BY StartFacts
  <2>3. Begin(F, k) \in Nat
    BY BeginIsNat
  <2> QED
    BY <2>1, <2>2, <2>3
<1> QED
  BY <1>1, <1>2, <1>3, <1>4 DEF PaceInv

LEMMA PaceNext ==
  ASSUME NEW start \in Starts, IsSchedule(AbsEdge, start, Cube), NoOverflow,
         PaceInv(start), [Next]_vars
  PROVE  PaceInv(start)'
<1>1. TypeOK /\ AccessInv /\ LoopInv /\ InStep /\ AtFirst /\ EdgeInv
  BY DEF PaceInv, EdgeInv, CountInv, AccessInv, CounterInv
<1>2. CASE UNCHANGED vars
  <2>1. OftenEnough'
    BY <1>2 DEF vars, PaceInv, OftenEnough
  <2>2. EdgeInv'
    BY <1>1, <2>1, EdgeNext
  <2>3. InStep' /\ AtFirst'
    BY <1>1, <1>2 DEF vars, InStep, Lead, AtFirst
  <2>4. Kept(start)'
    BY <1>2 DEF vars, PaceInv, Kept, Due, Over, Base
  <2> QED
    BY <2>1, <2>2, <2>3, <2>4 DEF PaceInv
<1>3. CASE \E c \in Core : StepOf(c)
  <2>1. PICK c \in Core : StepOf(c)
    BY <1>3
  <2>2. OftenEnough'
    BY <2>1, OftenStep
  <2>3. EdgeInv'
    BY <1>1, <2>2, EdgeNext
  <2>4. InStep' /\ AtFirst'
    BY <1>1, <2>1, InStepStep, AtFirstStep
  <2>5. Kept(start)'
    BY <2>1, KeptStep
  <2> QED
    BY <2>2, <2>3, <2>4, <2>5 DEF PaceInv
<1> QED
  BY <1>2, <1>3, NextIsStep

LEMMA OftenInSteadyKernels ==
  ASSUME Steady, NoOverflow
  PROVE  Init /\ [][Next]_vars => []OftenEnough
<1>1. PICK start \in Starts : IsSchedule(AbsEdge, start, Cube)
  BY DEF Steady, Starts
<1>2. Init => PaceInv(start)
  BY PaceInit
<1>3. PaceInv(start) /\ [Next]_vars => PaceInv(start)'
  BY <1>1, PaceNext
<1>4. PaceInv(start) => OftenEnough
  BY DEF PaceInv
<1> QED
  BY <1>2, <1>3, <1>4, PTL

(* In a steady kernel, unless the computation of the rounds overflows,     *)
(* every block runs once per original iteration in every pass: the bound   *)
(* UpdateLoopIterTimes computes is large enough, for all numbers of blocks *)
(* and buffers and all dependencies between them.                          *)
THEOREM SteadyKernelsComplete ==
  ASSUME Steady, NoOverflow
  PROVE  Spec => []IterationsComplete
<1>1. Init /\ [][Next]_vars => []OftenEnough
  BY OftenInSteadyKernels
<1> QED
  BY <1>1, BlocksStopInTime, PTL DEF IterationsComplete, Spec

(* So, in a steady kernel with any number of passes, every block reads     *)
(* from the buffers its index selects what was made for its own iteration. *)
THEOREM SteadyInputsAreFresh ==
  ASSUME Steady, NoOverflow, Alternating
  PROVE  Spec => []FreshInput
<1>1. Spec => []OftenEnough
  BY SteadyKernelsComplete, PTL DEF IterationsComplete
<1>2. Spec /\ []OftenEnough => []FreshInput
  BY InputsAreFresh
<1> QED
  BY <1>1, <1>2, PTL

(* And a steady kernel takes the steps of the bounded dataflow network:    *)
(* each of its steps fires one block, or none.                             *)
THEOREM SteadyStepsOfTheDataflow ==
  ASSUME Steady, NoOverflow
  PROVE  Spec => Dataflow!Init /\ [][Dataflow!Next]_AbsDone
<1>1. Spec => []OftenEnough
  BY SteadyKernelsComplete, PTL DEF IterationsComplete
<1> QED
  BY <1>1, StepsOfTheDataflow, PTL

-----------------------------------------------------------------------------
(***************************************************************************)
(* For every dependency graph and every loop: with its transfer flags the  *)
(* program still takes the steps of SSBuffer only; the flags of a transfer *)
(* agree with the words the conditions read; and a block whose condition   *)
(* holds finds the flags it needs.                                         *)
(*                                                                         *)
(* The argument.  An item is signalled, accepted, and its buffer reserved  *)
(* and returned, while its block runs; the four counts differ from the     *)
(* runs of the blocks by what has happened in the current one.  Each wait  *)
(* takes one flag of one of these counts, each set gives one.  Which       *)
(* buffer it is follows from the number of the item: the flags of a buffer *)
(* are those of the items in flight that lie in it, of which the counts    *)
(* of SSBuffer admit no more than there are buffers.                       *)
(***************************************************************************)

Places == {"ahead", "loop", "await", "release", "send", "store", "behind", "through"}

(* Where the transfers are in the steps of SSBuffer, and what they have    *)
(* still to do there.                                                      *)
PlaceOf(c) ==
  /\ at[c] = "ahead" => pc[c] \in {"zero", "open", "wait"}
  /\ at[c] = "loop" => pc[c] \in {"wait", "test", "set"}
  /\ at[c] \in {"await", "release", "send"} => pc[c] = "body"
  /\ at[c] = "store" => pc[c] \in {"body", "publish"}
  /\ at[c] = "behind" =>
       /\ pc[c] \in {"wait", "close", "done"}
       /\ pc[c] = "wait" <=> pass[c] < Passes
  /\ at[c] = "through" => pc[c] \in {"close", "done"} /\ pass[c] = Passes
  /\ todo[c] \cup current[c] \subseteq Outputs(c, blk[c])
  /\ todo[c] \cap current[c] = {}
  /\ todo[c] # {} => at[c] = "send" \/ (at[c] = "release" /\ c = Cube)
  /\ at[c] = "release" /\ c = Cube => todo[c] = Outputs(c, blk[c])
  /\ current[c] # {} => at[c] = "send"

PlaceInv ==
  /\ at \in [Core -> Places]
  /\ todo \in [Core -> SUBSET Cross] /\ current \in [Core -> SUBSET Cross]
  /\ \A c \in Core : PlaceOf(c)

FlagType ==
  \A d \in Cross : \A i \in Buffers(d), s \in Sub :
    filled[d][i][s] \in Int /\ empty[d][i][s] \in Int

(* What has happened to the item a block is making, or taking.             *)
Working == {"release", "send", "store"}

Signalled(d, p) == at[p] \in Working /\ blk[p] = d.src /\ d \notin todo[p] \cup current[p]
Reserved(d, p)  == at[p] \in Working /\ blk[p] = d.src /\ d \notin todo[p]
Accepted(d, q)  == at[q] \in Working /\ blk[q] = d.dst
Returned(d, q)  == (at[q] = "store" \/ (at[q] = "send" /\ q = Cube)) /\ blk[q] = d.dst

Signals(d, s) == Producer(d, s) + One(Signalled(d, Sender(d, s)))
Rooms(d, s)   == Producer(d, s) + One(Reserved(d, Sender(d, s)))
Accepts(d, s) == Consumer(d, s) + One(Accepted(d, Receiver(d, s)))
Returns(d, s) == Consumer(d, s) + One(Returned(d, Receiver(d, s)))

(* How often the buffers have been declared, and not yet taken back.       *)
Lent(d, s) == Declared(Receiver(d, s)) - Drained(Sender(d, s))

SumInv ==
  \A d \in Cross, s \in Sub :
    /\ Pending(filled, d, s) = Signals(d, s) - Accepts(d, s)
    /\ Pending(empty, d, s) = d.cap * Lent(d, s) - (Rooms(d, s) - Returns(d, s))

(* The runs a core had made at the start of its pass, the last one if it   *)
(* has finished that; the buffer of item r; the items a + 1 .. b in a      *)
(* buffer, of which there are at most two.                                 *)
LastBase(c) == (IF pass[c] < Passes THEN pass[c] ELSE Passes - 1) * Iterations

Place(d, r, z) == IndexAt(d, Lb + Step * (r - 1 - z))

InFlight(d, i, z, a, b) ==
  One(a + 1 <= b /\ Place(d, a + 1, z) = i) + One(a + 2 <= b /\ Place(d, a + 2, z) = i)

BufferInv ==
  \A d \in Cross, s \in Sub : \A i \in Buffers(d) :
    LET z == LastBase(Receiver(d, s)) IN
    /\ filled[d][i][s] = InFlight(d, i, z, Accepts(d, s), Signals(d, s))
    /\ empty[d][i][s] = Lent(d, s) - InFlight(d, i, z, Returns(d, s), Rooms(d, s))

-----------------------------------------------------------------------------
(* One step of the program with its flags.                                 *)

LEMMA MoveIsStep ==
  ASSUME NEW c \in Core, Move(c)
  PROVE  StepOf(c) \/ UNCHANGED vars
BY DEF Move, Opening, Declare, Going, Enter, AwaitInputs, ReleaseInputs, AwaitRoom,
       SignalData, SendsDone, LoadWords, StoreWords, LeaveLoop, Drain, Closing,
       StepOf, CoreStep

LEMMA StepIsNext ==
  ASSUME NEW c \in Core, StepOf(c)
  PROVE  Next
BY DEF StepOf, Next

LEMMA TransferIsNext ==
  ASSUME [TransferNext]_allVars
  PROVE  [Next]_vars
<1>1. CASE \E c \in Core : Move(c)
  BY <1>1, MoveIsStep, StepIsNext
<1>2. CASE UNCHANGED allVars
  BY <1>2 DEF allVars
<1> QED
  BY <1>1, <1>2 DEF TransferNext

(* The flags do not change what the program does: whatever holds of the    *)
(* steps of SSBuffer holds with them.                                      *)
THEOREM FlagsAddNoStep == TransferSpec => Init /\ [][Next]_vars
<1>1. TransferInit => Init
  BY DEF TransferInit
<1> QED
  BY <1>1, TransferIsNext, PTL DEF TransferSpec

(* The steps by the place they start from: those that belong to transfers, *)
(* and those that are no business of theirs.                               *)
Elsewhere == {"ahead", "loop", "await", "behind", "through"}

LEMMA MoveAt ==
  ASSUME PlaceInv, NEW c \in Core, Move(c)
  PROVE  /\ at[c] = "await" => AwaitInputs(c)
         /\ at[c] = "release" => ReleaseInputs(c)
         /\ at[c] = "send" => AwaitRoom(c) \/ SignalData(c) \/ SendsDone(c)
         /\ at[c] = "store" => LoadWords(c) \/ StoreWords(c)
         /\ at[c] = "behind" => Drain(c)
         /\ at[c] = "ahead" => IF pc[c] = "wait" THEN Declare(c) ELSE Opening(c)
         /\ at[c] = "loop" => Going(c) \/ Enter(c) \/ LeaveLoop(c)
         /\ at[c] = "through" => c = Cube /\ Closing
<1>1. Opening(c) => pc[c] # "wait"
  BY DEF Opening, ZeroSSBuffer, OpenScope
<1> QED
  BY <1>1 DEF Move, Opening, Declare, Going, Enter, AwaitInputs, ReleaseInputs, AwaitRoom,
              SignalData, SendsDone, LoadWords, StoreWords, LeaveLoop, Drain, Closing

(* A step of c does not move the transfers of another core.                *)
LEMMA MoveOthers ==
  ASSUME PlaceInv, NEW c \in Core, Move(c), NEW e \in Core, e # c
  PROVE  at'[e] = at[e] /\ todo'[e] = todo[e] /\ current'[e] = current[e]
<1>1. CASE UNCHANGED transferVars
  BY <1>1 DEF transferVars
<1>2. CASE Declare(c) \/ Enter(c) \/ AwaitInputs(c) \/ ReleaseInputs(c) \/ AwaitRoom(c)
  BY <1>2 DEF PlaceInv, Goto, Declare, Enter, AwaitInputs, ReleaseInputs, AwaitRoom
<1>3. CASE SignalData(c) \/ SendsDone(c) \/ StoreWords(c) \/ LeaveLoop(c) \/ Drain(c)
  BY <1>3 DEF PlaceInv, Goto, SignalData, SendsDone, StoreWords, LeaveLoop, Drain
<1> QED
  BY <1>1, <1>2, <1>3 DEF Move, Opening, Going, LoadWords, Closing

-----------------------------------------------------------------------------
(* Where the transfers of a core are.                                      *)

LEMMA PlaceInit == TransferInit => PlaceInv
BY DEF TransferInit, Init, PlaceInv, PlaceOf, Places

(* Outside of blocks there are no transfers, and what moves in the loop    *)
(* stays there.                                                            *)
LEMMA PlaceMoves ==
  ASSUME TypeOK, LoopInv, PlaceInv, NEW c \in Core, Move(c)
  PROVE  PlaceOf(c)'
<1>1. PlaceOf(c) /\ pc[c] \in States
  BY DEF PlaceInv, TypeOK
<1>2. CASE Opening(c)
  <2>1. EnterLoop(c) = "wait"
    BY RoundsAssumption DEF EnterLoop
  <2>2. pc'[c] \in {"open", "wait"}
    BY <1>2, <2>1 DEF Opening, ZeroSSBuffer, OpenScope, TypeOK
  <2> QED
    BY <1>1, <1>2, <2>2 DEF PlaceOf, Opening, transferVars, ZeroSSBuffer, OpenScope
<1>3. CASE Declare(c)
  BY <1>1, <1>3 DEF PlaceOf, PlaceInv, Declare, Goto, vars, Places
<1>4. CASE Going(c)
  <2>1. pc'[c] \in {"wait", "test", "set"} /\ UNCHANGED transferVars
    BY <1>4 DEF Going, Wait, SkipBlock, Advance, NextRound, TypeOK
  <2>2. at[c] = "loop" /\ todo[c] = {} /\ current[c] = {}
    BY <1>1, <1>4 DEF PlaceOf, Going
  <2> QED
    BY <1>1, <2>1, <2>2 DEF PlaceOf, transferVars
<1>5. CASE Enter(c)
  <2>1. pc'[c] = "body" /\ at'[c] = "await"
    BY <1>5 DEF Enter, EnterBlock, Goto, TypeOK, PlaceInv
  <2>2. todo[c] = {} /\ current[c] = {}
    BY <1>1, <1>5 DEF PlaceOf, Enter
  <2> QED
    BY <1>1, <1>5, <2>1, <2>2 DEF PlaceOf, Enter, Places
<1>6. CASE AwaitInputs(c)
  <2>1. /\ at'[c] = IF c = Cube THEN "release" ELSE "send"
        /\ todo'[c] = Outputs(c, blk[c]) /\ current'[c] = {}
        /\ at[c] = "await" /\ pc[c] = "body"
        /\ pc'[c] = pc[c] /\ blk'[c] = blk[c] /\ pass'[c] = pass[c]
    BY <1>1, <1>6 DEF PlaceOf, PlaceInv, AwaitInputs, Goto, vars
  <2>2. Outputs(c, blk[c]) \subseteq Cross
    BY DEF Outputs
  <2> QED
    BY <2>1, <2>2 DEF PlaceOf, Places, Outputs
<1>7. CASE ReleaseInputs(c)
  BY <1>1, <1>7 DEF PlaceOf, PlaceInv, ReleaseInputs, Goto, vars, Places, Outputs
<1>8. CASE AwaitRoom(c)
  <2>1. PICK d \in todo[c] : current' = [current EXCEPT ![c] = {d}]
                             /\ todo' = [todo EXCEPT ![c] = @ \ {d}]
    BY <1>8 DEF AwaitRoom
  <2>2. current'[c] = {d} /\ todo'[c] = todo[c] \ {d} /\ at' = at /\ UNCHANGED vars
    BY <1>8, <2>1 DEF AwaitRoom, PlaceInv
  <2> QED
    BY <1>1, <1>8, <2>2 DEF PlaceOf, AwaitRoom, vars, Places, Outputs
<1>9. CASE SignalData(c)
  BY <1>1, <1>9 DEF PlaceOf, PlaceInv, SignalData, vars, Places, Outputs
<1>10. CASE SendsDone(c)
  BY <1>1, <1>10 DEF PlaceOf, PlaceInv, SendsDone, Goto, vars, Places, Outputs
<1>11. CASE LoadWords(c)
  <2>1. pc'[c] = "publish" /\ UNCHANGED <<blk, pass, transferVars>>
    BY <1>11 DEF LoadWords, RunBody, TypeOK
  <2> QED
    BY <1>1, <1>11, <2>1 DEF PlaceOf, LoadWords, transferVars, Outputs
<1>12. CASE StoreWords(c)
  <2>1. pc'[c] \in {"test", "set"} /\ at'[c] = "loop"
    BY <1>12 DEF StoreWords, Publish, Advance, Goto, TypeOK, PlaceInv
  <2>2. todo[c] = {} /\ current[c] = {} /\ UNCHANGED <<todo, current>>
    BY <1>1, <1>12 DEF PlaceOf, StoreWords
  <2> QED
    BY <2>1, <2>2 DEF PlaceOf, Places
<1>13. CASE LeaveLoop(c)
  <2>1. /\ pass'[c] = pass[c] + 1 /\ pass[c] \in Nat
        /\ pc'[c] = IF pass[c] + 1 < Passes THEN "wait" ELSE AfterLoop(c)
        /\ at'[c] = "behind"
    BY <1>13 DEF LeaveLoop, EndPass, Goto, TypeOK, PlaceInv
  <2>2. todo[c] = {} /\ current[c] = {} /\ UNCHANGED <<todo, current>>
    BY <1>1, <1>13 DEF PlaceOf, LeaveLoop
  <2> QED
    BY <2>1, <2>2 DEF PlaceOf, Places, AfterLoop
<1>14. CASE Drain(c)
  <2>1. pass[c] <= Passes /\ pass[c] \in Nat /\ Passes \in Nat
    BY LoopFacts DEF LoopInv, TypeOK
  <2>2. at'[c] = IF pass[c] < Passes THEN "ahead" ELSE "through"
    BY <1>14 DEF Drain, Goto, PlaceInv
  <2>3. todo[c] = {} /\ current[c] = {} /\ UNCHANGED <<todo, current, vars>>
    BY <1>1, <1>14 DEF PlaceOf, Drain
  <2> QED
    BY <1>1, <1>14, <2>1, <2>2, <2>3 DEF PlaceOf, Drain, Places, vars
<1>15. CASE c = Cube /\ Closing
  <2>1. pc'[c] = "done" /\ UNCHANGED <<blk, pass, transferVars>>
    BY <1>15 DEF Closing, CloseScope, TypeOK
  <2>2. at[c] = "through" /\ todo[c] = {} /\ current[c] = {}
    BY <1>1, <1>15 DEF PlaceOf, Closing
  <2> QED
    BY <1>1, <2>1, <2>2 DEF PlaceOf, transferVars
<1> QED
  BY <1>2, <1>3, <1>4, <1>5, <1>6, <1>7, <1>8, <1>9, <1>10, <1>11, <1>12, <1>13, <1>14,
     <1>15 DEF Move

LEMMA PlaceStep ==
  ASSUME TypeOK, LoopInv, PlaceInv, NEW c \in Core, Move(c)
  PROVE  PlaceInv'
<1>1. /\ at' \in [Core -> Places]
      /\ todo' \in [Core -> SUBSET Cross]
      /\ current' \in [Core -> SUBSET Cross]
  <2>1. CASE UNCHANGED transferVars
    BY <2>1 DEF transferVars, PlaceInv
  <2>2. CASE Declare(c) \/ Enter(c) \/ ReleaseInputs(c) \/ SendsDone(c)
    BY <2>2 DEF Declare, Enter, ReleaseInputs, SendsDone, Goto, PlaceInv, Places
  <2>3. CASE StoreWords(c) \/ LeaveLoop(c) \/ Drain(c) \/ SignalData(c)
    BY <2>3 DEF StoreWords, LeaveLoop, Drain, SignalData, Goto, PlaceInv, Places
  <2>4. CASE AwaitInputs(c)
    BY <2>4 DEF AwaitInputs, Goto, PlaceInv, Places, Outputs
  <2>5. CASE AwaitRoom(c)
    BY <2>5 DEF AwaitRoom, PlaceInv
  <2> QED
    BY <2>1, <2>2, <2>3, <2>4, <2>5 DEF Move, Opening, Going, LoadWords, Closing
<1>2. ASSUME NEW e \in Core, e # c
      PROVE  PlaceOf(e)'
  <2>1. pc'[e] = pc[e] /\ pass'[e] = pass[e] /\ blk'[e] = blk[e]
    BY <1>2, MoveIsStep, OthersStay DEF vars
  <2>2. at'[e] = at[e] /\ todo'[e] = todo[e] /\ current'[e] = current[e]
    BY <1>2, MoveOthers
  <2> QED
    BY <1>2, <2>1, <2>2 DEF PlaceInv, PlaceOf, Outputs
<1> QED
  BY <1>1, <1>2, PlaceMoves DEF PlaceInv

-----------------------------------------------------------------------------
(* What a step of c does to the transfer of d for s: at most one of six.   *)

Signalling(c, d, s) == c = Sender(d, s) /\ at[c] = "send" /\ d \in current[c]
Reserving(c, d, s) ==
  c = Sender(d, s) /\ at[c] = "send" /\ d \in todo[c] /\ d \notin todo'[c]
Draining(c, d, s)   == c = Sender(d, s) /\ at[c] = "behind"
Accepting(c, d, s)  == c = Receiver(d, s) /\ at[c] = "await" /\ d.dst = blk[c]
Returning(c, d, s)  == c = Receiver(d, s) /\ at[c] = "release" /\ d.dst = blk[c]
Declaring(c, d, s)  == c = Receiver(d, s) /\ at[c] = "ahead" /\ pc[c] = "wait"

(* The transfers of the block a core is in.                                *)
LEMMA TransfersOfBlock ==
  ASSUME NEW c \in Core, NEW d \in Cross, NEW s \in Sub, NEW b
  PROVE  /\ d \in Inputs(c, b) /\ s \in View(c) <=> c = Receiver(d, s) /\ d.dst = b
         /\ d \in Outputs(c, b) /\ s \in View(c) <=> c = Sender(d, s) /\ d.src = b
         /\ d \in Received(c) /\ s \in View(c) <=> c = Receiver(d, s)
         /\ d \in Sent(c) /\ s \in View(c) <=> c = Sender(d, s)
BY Ends DEF Inputs, Outputs, Received, Sent, Sender, Receiver

(* A step of a core that has no transfers under way there.                 *)
LEMMA MovesElsewhere ==
  ASSUME TypeOK, PlaceInv, NEW c \in Core, Move(c), at[c] \in Elsewhere, at[c] # "await"
  PROVE  /\ at'[c] \notin Working /\ pc[c] # "publish"
         /\ todo' = todo /\ current' = current
<1>1. pc[c] # "publish"
  BY DEF PlaceInv, PlaceOf, Elsewhere
<1>2. CASE at[c] \in {"ahead", "behind"}
  BY <1>1, <1>2, MoveAt
     DEF Declare, Opening, Drain, Goto, transferVars, PlaceInv, Working
<1>3. CASE at[c] \in {"loop", "through"}
  BY <1>1, <1>3, MoveAt
     DEF Going, Enter, LeaveLoop, Closing, Goto, transferVars, PlaceInv, Working
<1> QED
  BY <1>2, <1>3 DEF Elsewhere

(* The runs of blocks, as seen by a step of the program with flags.        *)
LEMMA RunsAtMove ==
  ASSUME TypeOK, PlaceInv, NEW c \in Core, Move(c), NEW e \in Core,
         NEW b \in 1 .. NumBlocks(e)
  PROVE  /\ runs[e][b] \in Nat
         /\ runs'[e][b] = runs[e][b] + One(e = c /\ StoreWords(c) /\ b = blk[c])
<1>1. runs[e][b] \in Nat
  BY DEF TypeOK
<1>2. CASE UNCHANGED vars
  <2>1. ASSUME StoreWords(c) PROVE FALSE
    <3>1. pc[c] = "publish" /\ pc'[c] \in {"test", "set"}
      BY <2>1 DEF StoreWords, Publish, Advance, TypeOK
    <3> QED
      BY <1>2, <3>1 DEF vars
  <2> QED
    BY <1>1, <1>2, <2>1 DEF One, vars
<1>3. CASE StepOf(c)
  <2>1. runs'[e][b] = runs[e][b] + One(e = c /\ pc[c] = "publish" /\ b = blk[c])
    BY <1>3, RunsMove
  <2>2. pc[c] = "publish" <=> StoreWords(c)
    <3>1. StoreWords(c) => pc[c] = "publish"
      BY DEF StoreWords, Publish
    <3>2. pc[c] = "publish" => at[c] = "store"
      BY DEF PlaceInv, PlaceOf, Places
    <3> QED
      BY <3>1, <3>2, MoveAt DEF LoadWords, RunBody
  <2> QED
    BY <1>1, <2>1, <2>2 DEF One
<1> QED
  BY <1>2, <1>3, MoveIsStep

(* The producer's end.                                                     *)
LEMMA SenderMoves ==
  ASSUME TypeOK, PlaceInv, NEW c \in Core, Move(c), NEW d \in Cross, NEW s \in Sub
  PROVE  /\ Signals(d, s) \in Int /\ Rooms(d, s) \in Int
         /\ Signals(d, s)' = Signals(d, s) + One(Signalling(c, d, s))
         /\ Rooms(d, s)' = Rooms(d, s) + One(Reserving(c, d, s))
<1> DEFINE p == Sender(d, s)
<1>1. p \in Core /\ d.src \in 1 .. NumBlocks(p) /\ Producer(d, s) = runs[p][d.src]
      /\ Producer(d, s)' = runs'[p][d.src]
  BY EndFacts DEF Producer, Sender
<1>2. /\ Producer(d, s) \in Nat
      /\ Producer(d, s)' = Producer(d, s) + One(p = c /\ StoreWords(c) /\ d.src = blk[c])
  BY <1>1, RunsAtMove
<1>3. Signals(d, s) \in Int /\ Rooms(d, s) \in Int
  BY <1>2 DEF Signals, Rooms, One
<1>4. CASE p # c
  <2>1. /\ at'[p] = at[p] /\ todo'[p] = todo[p] /\ current'[p] = current[p]
        /\ blk'[p] = blk[p]
    BY <1>1, <1>4, MoveOthers, MoveIsStep, OthersStay DEF vars
  <2>2. (Signalled(d, p)' <=> Signalled(d, p)) /\ (Reserved(d, p)' <=> Reserved(d, p))
    BY <2>1 DEF Signalled, Reserved, Sender
  <2> QED
    BY <1>2, <1>3, <1>4, <2>2 DEF Signals, Rooms, One, Signalling, Reserving, Sender
<1>5. CASE p = c
  <2>1. d \in Outputs(c, blk[c]) <=> d.src = blk[c]
    BY <1>5, TransfersOfBlock DEF p
  <2>2. todo[c] \cup current[c] \subseteq Outputs(c, blk[c])
    BY DEF PlaceInv, PlaceOf
  <2>3. SUFFICES /\ One(Signalled(d, c)') + One(StoreWords(c) /\ d.src = blk[c])
                      = One(Signalled(d, c)) + One(Signalling(c, d, s))
                 /\ One(Reserved(d, c)') + One(StoreWords(c) /\ d.src = blk[c])
                      = One(Reserved(d, c)) + One(Reserving(c, d, s))
    BY <1>2, <1>3, <1>5 DEF Signals, Rooms, One, p, Sender, Signalled, Reserved
  <2> USE DEF Signalled, Reserved, Signalling, Reserving
  <2>4. CASE at[c] \in Elsewhere /\ at[c] # "await"
    <3>1. ~StoreWords(c) /\ at[c] \notin Working /\ at'[c] \notin Working /\ at[c] # "send"
      BY <2>4, MovesElsewhere DEF StoreWords, Elsewhere, Working
    <3> QED
      BY <3>1 DEF One
  <2>5. CASE at[c] = "await"
    <3>1. AwaitInputs(c) /\ ~StoreWords(c)
      BY <2>5, MoveAt DEF StoreWords
    <3>2. todo'[c] = Outputs(c, blk[c]) /\ blk' = blk
      BY <3>1 DEF AwaitInputs, PlaceInv, vars
    <3> QED
      BY <2>1, <2>5, <3>1, <3>2 DEF One, Working
  <2>6. CASE at[c] = "release"
    <3>1. ReleaseInputs(c) /\ ~StoreWords(c)
      BY <2>6, MoveAt DEF StoreWords
    <3>2. at'[c] \in Working /\ UNCHANGED <<todo, current, blk>>
      BY <3>1 DEF ReleaseInputs, Goto, PlaceInv, vars, Working
    <3> QED
      BY <2>6, <3>1, <3>2 DEF One, Working
  <2>7. CASE at[c] = "send" /\ AwaitRoom(c)
    <3>1. PICK e \in todo[c] : current' = [current EXCEPT ![c] = {e}]
                               /\ todo' = [todo EXCEPT ![c] = @ \ {e}]
      BY <2>7 DEF AwaitRoom
    <3>2. /\ current'[c] = {e} /\ todo'[c] = todo[c] \ {e} /\ current[c] = {}
          /\ UNCHANGED <<at, blk>> /\ ~StoreWords(c)
      BY <2>7, <3>1 DEF AwaitRoom, PlaceInv, vars, StoreWords
    <3>3. /\ d \in todo'[c] \cup current'[c] <=> d \in todo[c] \cup current[c]
          /\ d \notin current[c]
      BY <3>2
    <3>4. /\ Signalled(d, c)' <=> Signalled(d, c)
          /\ ~Signalling(c, d, s)
      BY <2>7, <3>2, <3>3
    <3>5. Reserved(d, c)' <=> Reserved(d, c) \/ Reserving(c, d, s)
      BY <1>5, <2>1, <2>2, <2>7, <3>2 DEF Working
    <3>6. ~(Reserved(d, c) /\ Reserving(c, d, s))
      OBVIOUS
    <3> QED
      BY <3>2, <3>4, <3>5, <3>6 DEF One
  <2>8. CASE at[c] = "send" /\ SignalData(c)
    <3>1. current'[c] = {} /\ UNCHANGED <<at, blk, todo>> /\ ~StoreWords(c)
      BY <2>8 DEF SignalData, PlaceInv, vars, StoreWords
    <3>2. todo[c] \cap current[c] = {}
      BY DEF PlaceInv, PlaceOf
    <3>3. /\ Signalled(d, c)' <=> Signalled(d, c) \/ Signalling(c, d, s)
          /\ ~(Signalled(d, c) /\ Signalling(c, d, s))
      BY <1>5, <2>1, <2>2, <2>8, <3>1, <3>2 DEF Working
    <3>4. /\ Reserved(d, c)' <=> Reserved(d, c)
          /\ ~Reserving(c, d, s)
      BY <3>1
    <3> QED
      BY <3>1, <3>3, <3>4 DEF One
  <2>9. CASE at[c] = "send" /\ SendsDone(c)
    <3>1. /\ current[c] = {} /\ at'[c] \in Working
          /\ UNCHANGED <<blk, todo, current>> /\ ~StoreWords(c)
      BY <2>9 DEF SendsDone, Goto, PlaceInv, vars, StoreWords, Working
    <3> QED
      BY <2>9, <3>1 DEF One, Working
  <2>10. CASE at[c] = "store"
    <3>1. todo[c] = {} /\ current[c] = {}
      BY <2>10 DEF PlaceInv, PlaceOf
    <3>2. CASE LoadWords(c)
      <4>1. UNCHANGED <<at, todo, current, blk>> /\ pc[c] = "body"
        BY <3>2 DEF LoadWords, RunBody, transferVars
      <4>2. ~StoreWords(c)
        BY <4>1 DEF StoreWords, Publish
      <4> QED
        BY <2>10, <4>1, <4>2 DEF One
    <3>3. CASE StoreWords(c)
      <4>1. at'[c] = "loop"
        BY <3>3 DEF StoreWords, Goto, PlaceInv
      <4> QED
        BY <2>10, <3>1, <3>3, <4>1 DEF One, Working
    <3> QED
      BY <2>10, <3>2, <3>3, MoveAt
  <2> QED
    BY <2>4, <2>5, <2>6, <2>7, <2>8, <2>9, <2>10, MoveAt DEF PlaceInv, Places, Elsewhere
<1> QED
  BY <1>3, <1>4, <1>5

(* The consumer's.                                                         *)
LEMMA ReceiverMoves ==
  ASSUME TypeOK, PlaceInv, NEW c \in Core, Move(c), NEW d \in Cross, NEW s \in Sub
  PROVE  /\ Accepts(d, s) \in Int /\ Returns(d, s) \in Int
         /\ Accepts(d, s)' = Accepts(d, s) + One(Accepting(c, d, s))
         /\ Returns(d, s)' = Returns(d, s) + One(Returning(c, d, s))
<1> DEFINE q == Receiver(d, s)
<1>1. q \in Core /\ d.dst \in 1 .. NumBlocks(q) /\ Consumer(d, s) = runs[q][d.dst]
      /\ Consumer(d, s)' = runs'[q][d.dst]
  BY EndFacts DEF Consumer, Receiver
<1>2. /\ Consumer(d, s) \in Nat
      /\ Consumer(d, s)' = Consumer(d, s) + One(q = c /\ StoreWords(c) /\ d.dst = blk[c])
  BY <1>1, RunsAtMove
<1>3. Accepts(d, s) \in Int /\ Returns(d, s) \in Int
  BY <1>2 DEF Accepts, Returns, One
<1>4. CASE q # c
  <2>1. at'[q] = at[q] /\ blk'[q] = blk[q]
    BY <1>1, <1>4, MoveOthers, MoveIsStep, OthersStay DEF vars
  <2>2. (Accepted(d, q)' <=> Accepted(d, q)) /\ (Returned(d, q)' <=> Returned(d, q))
    BY <2>1 DEF Accepted, Returned, Receiver
  <2> QED
    BY <1>2, <1>3, <1>4, <2>2 DEF Accepts, Returns, One, Accepting, Returning, Receiver
<1>5. CASE q = c
  <2>1. SUFFICES /\ One(Accepted(d, c)') + One(StoreWords(c) /\ d.dst = blk[c])
                      = One(Accepted(d, c)) + One(Accepting(c, d, s))
                 /\ One(Returned(d, c)') + One(StoreWords(c) /\ d.dst = blk[c])
                      = One(Returned(d, c)) + One(Returning(c, d, s))
    BY <1>2, <1>3, <1>5 DEF Accepts, Returns, One, q, Receiver, Accepted, Returned
  <2> USE DEF Accepted, Returned, Accepting, Returning
  <2>2. CASE at[c] \in Elsewhere /\ at[c] # "await"
    <3>1. ~StoreWords(c) /\ at[c] \notin Working /\ at'[c] \notin Working /\ at[c] # "release"
      BY <2>2, MovesElsewhere DEF StoreWords, Elsewhere, Working
    <3> QED
      BY <2>2, <3>1 DEF One, Working
  <2>3. CASE at[c] = "await"
    <3>1. AwaitInputs(c) /\ ~StoreWords(c)
      BY <2>3, MoveAt DEF StoreWords
    <3>2. at'[c] = (IF c = Cube THEN "release" ELSE "send") /\ blk' = blk
      BY <3>1 DEF AwaitInputs, Goto, PlaceInv, vars
    <3> QED
      BY <1>5, <2>3, <3>1, <3>2 DEF One, Working
  <2>4. CASE at[c] = "release"
    <3>1. ReleaseInputs(c) /\ ~StoreWords(c)
      BY <2>4, MoveAt DEF StoreWords
    <3>2. at'[c] = (IF c = Cube THEN "send" ELSE "store") /\ blk' = blk
      BY <3>1 DEF ReleaseInputs, Goto, PlaceInv, vars
    <3> QED
      BY <1>5, <2>4, <3>1, <3>2 DEF One, Working
  <2>5. CASE at[c] = "send"
    <3>1. ~StoreWords(c) /\ blk' = blk
      BY <2>5, MoveAt DEF AwaitRoom, SignalData, SendsDone, vars, StoreWords
    <3>2. at'[c] = "send" \/ at'[c] = (IF c = Cube THEN "store" ELSE "release")
      BY <2>5, MoveAt DEF AwaitRoom, SignalData, SendsDone, Goto, PlaceInv
    <3> QED
      BY <1>5, <2>5, <3>1, <3>2 DEF One, Working
  <2>6. CASE at[c] = "store"
    <3>1. CASE LoadWords(c)
      <4>1. UNCHANGED <<at, blk>> /\ pc[c] = "body"
        BY <3>1 DEF LoadWords, RunBody, transferVars
      <4>2. ~StoreWords(c)
        BY <4>1 DEF StoreWords, Publish
      <4> QED
        BY <2>6, <4>1, <4>2 DEF One
    <3>2. CASE StoreWords(c)
      <4>1. at'[c] = "loop"
        BY <3>2 DEF StoreWords, Goto, PlaceInv
      <4> QED
        BY <2>6, <3>2, <4>1 DEF One, Working
    <3> QED
      BY <2>6, <3>1, <3>2, MoveAt
  <2> QED
    BY <2>2, <2>3, <2>4, <2>5, <2>6 DEF PlaceInv, Places, Elsewhere
<1> QED
  BY <1>3, <1>4, <1>5

(* The declarations: taken over from one pass to the next.                 *)
LEMMA LentMoves ==
  ASSUME TypeOK, LoopInv, PlaceInv, NEW c \in Core, Move(c), NEW d \in Cross, NEW s \in Sub
  PROVE  /\ Lent(d, s) \in Int
         /\ Lent(d, s)' = Lent(d, s) + One(Declaring(c, d, s)) - One(Draining(c, d, s))
<1> DEFINE p == Sender(d, s)
           q == Receiver(d, s)
<1>1. p \in Core /\ q \in Core /\ p # q
  BY EndFacts
<1>2. \A e \in Core : Declared(e) \in Int /\ Drained(e) \in Int
  BY DEF Declared, Drained, TypeOK
<1>3. \A e \in Core : e # c => Declared(e)' = Declared(e) /\ Drained(e)' = Drained(e)
  <2>1. \A e \in Core : e # c => at'[e] = at[e] /\ pass'[e] = pass[e]
    BY MoveOthers, MoveIsStep, OthersStay DEF vars
  <2> QED
    BY <2>1 DEF Declared, Drained
<1>4. /\ Declared(c)' = Declared(c) + One(at[c] = "ahead" /\ pc[c] = "wait")
      /\ Drained(c)' = Drained(c) + One(at[c] = "behind")
  <2>1. pass[c] \in Nat
    BY DEF TypeOK
  <2>2. CASE at[c] = "ahead" /\ pc[c] = "wait"
    <3>1. at'[c] = "loop" /\ pass' = pass
      BY <2>2, MoveAt DEF Declare, Goto, PlaceInv, vars
    <3> QED
      BY <2>1, <2>2, <3>1 DEF Declared, Drained, One
  <2>3. CASE at[c] = "ahead" /\ pc[c] # "wait"
    <3>1. at' = at /\ pass' = pass
      BY <2>3, MoveAt DEF Opening, ZeroSSBuffer, OpenScope, transferVars
    <3> QED
      BY <2>1, <2>3, <3>1 DEF Declared, Drained, One
  <2>4. CASE at[c] = "behind"
    <3>1. at'[c] \in {"ahead", "through"} /\ pass' = pass
      BY <2>4, MoveAt DEF Drain, Goto, PlaceInv, vars
    <3> QED
      BY <2>1, <2>4, <3>1 DEF Declared, Drained, One
  <2>5. CASE at[c] = "loop" /\ LeaveLoop(c)
    <3>1. at'[c] = "behind" /\ pass'[c] = pass[c] + 1
      BY <2>5 DEF LeaveLoop, EndPass, Goto, PlaceInv, TypeOK
    <3> QED
      BY <2>1, <2>5, <3>1 DEF Declared, Drained, One
  <2>6. CASE at[c] = "loop" /\ ~LeaveLoop(c)
    <3>1. at'[c] \in {"loop", "await"} /\ pass' = pass
      BY <2>6, MoveAt DEF Going, Enter, Goto, PlaceInv, transferVars,
                          Wait, SkipBlock, NextRound, EnterBlock
    <3> QED
      BY <2>1, <2>6, <3>1 DEF Declared, Drained, One
  <2>7. CASE at[c] = "through"
    <3>1. at' = at /\ pass' = pass
      BY <2>7, MoveAt DEF Closing, CloseScope, transferVars
    <3> QED
      BY <2>1, <2>7, <3>1 DEF Declared, Drained, One
  <2>8. CASE at[c] \in {"await", "release", "send"}
    <3>1. at'[c] \in Working /\ pass' = pass
      BY <2>8, MoveAt DEF AwaitInputs, ReleaseInputs, AwaitRoom, SignalData, SendsDone,
                          Goto, PlaceInv, vars, Working
    <3> QED
      BY <2>1, <2>8, <3>1 DEF Declared, Drained, One, Working
  <2>9. CASE at[c] = "store"
    <3>1. at'[c] \in {"store", "loop"} /\ pass' = pass
      BY <2>9, MoveAt DEF LoadWords, StoreWords, RunBody, Publish, Goto, PlaceInv,
                          transferVars
    <3> QED
      BY <2>1, <2>9, <3>1 DEF Declared, Drained, One
  <2> QED
    BY <2>2, <2>3, <2>4, <2>5, <2>6, <2>7, <2>8, <2>9 DEF PlaceInv, Places
<1>5. CASE c = q
  <2>1. Lent(d, s)' = Declared(q)' - Drained(p)'
    BY DEF Lent, Receiver, Sender
  <2>2. Drained(p)' = Drained(p)
    BY <1>1, <1>3, <1>5
  <2> QED
    BY <1>1, <1>2, <1>4, <1>5, <2>1, <2>2 DEF Lent, Declaring, Draining, One
<1>6. CASE c = p
  <2>1. Lent(d, s)' = Declared(q)' - Drained(p)'
    BY DEF Lent, Receiver, Sender
  <2>2. Declared(q)' = Declared(q)
    BY <1>1, <1>3, <1>6
  <2> QED
    BY <1>1, <1>2, <1>4, <1>6, <2>1, <2>2 DEF Lent, Declaring, Draining, One
<1>7. CASE c # p /\ c # q
  <2>1. Lent(d, s)' = Declared(q)' - Drained(p)'
    BY DEF Lent, Receiver, Sender
  <2> QED
    BY <1>1, <1>2, <1>3, <1>7, <2>1 DEF Lent, Declaring, Draining, One
<1> QED
  BY <1>5, <1>6, <1>7

(* The flags of one buffer.                                                *)
LEMMA ChangeIs ==
  ASSUME NEW flag, NEW ds, NEW is, NEW c, NEW k,
         NEW d \in Cross, NEW i \in Buffers(d), NEW s \in Sub
  PROVE  Change(flag, ds, is, c, k)[d][i][s] =
           flag[d][i][s] + (IF d \in ds /\ i \in is[d] /\ s \in View(c) THEN k ELSE 0)
BY DEF Change

LEMMA TurnIs ==
  ASSUME NEW c, NEW d \in Cross, NEW i
  PROVE  i \in Turn(c)[d] <=> i = CrossIndex(c, blk[c], d)
BY DEF Turn

LEMMA FilledMoves ==
  ASSUME PlaceInv, FlagType, NEW c \in Core, Move(c),
         NEW d \in Cross, NEW s \in Sub, NEW i \in Buffers(d)
  PROVE  filled'[d][i][s] = filled[d][i][s]
           + One(Signalling(c, d, s) /\ i = CrossIndex(c, blk[c], d))
           - One(Accepting(c, d, s) /\ i = CrossIndex(c, blk[c], d))
<1>1. filled[d][i][s] \in Int
  BY DEF FlagType
<1>2. CASE at[c] = "await"
  <2>1. filled'[d][i][s] = filled[d][i][s]
          + (IF d \in Inputs(c, blk[c]) /\ i \in Turn(c)[d] /\ s \in View(c) THEN -1 ELSE 0)
    BY <1>2, MoveAt, ChangeIs DEF AwaitInputs, Take
  <2>2. d \in Inputs(c, blk[c]) /\ s \in View(c) <=> Accepting(c, d, s)
    BY <1>2, TransfersOfBlock DEF Accepting
  <2>3. ~Signalling(c, d, s)
    BY <1>2 DEF Signalling
  <2> QED
    BY <1>1, <2>1, <2>2, <2>3, TurnIs DEF One
<1>3. CASE at[c] = "send" /\ SignalData(c)
  <2>1. filled'[d][i][s] = filled[d][i][s]
          + (IF d \in current[c] /\ i \in Turn(c)[d] /\ s \in View(c) THEN 1 ELSE 0)
    BY <1>3, ChangeIs DEF SignalData, Set
  <2>2. current[c] \subseteq Outputs(c, blk[c])
    BY DEF PlaceInv, PlaceOf
  <2>3. d \in current[c] /\ s \in View(c) <=> Signalling(c, d, s)
    BY <1>3, <2>2, TransfersOfBlock DEF Signalling, Outputs
  <2>4. ~Accepting(c, d, s)
    BY <1>3 DEF Accepting
  <2> QED
    BY <1>1, <2>1, <2>3, <2>4, TurnIs DEF One
<1>4. CASE at[c] # "await" /\ ~(at[c] = "send" /\ SignalData(c))
  <2>1. filled' = filled
    BY <1>4 DEF Move, Opening, Declare, Going, Enter, AwaitInputs, ReleaseInputs, AwaitRoom,
                SignalData, SendsDone, LoadWords, StoreWords, LeaveLoop, Drain, Closing,
                transferVars
  <2>2. at[c] = "send" => current[c] = {}
    BY <1>4, MoveAt DEF AwaitRoom, SendsDone
  <2> QED
    BY <1>1, <1>4, <2>1, <2>2 DEF Signalling, Accepting, One
<1> QED
  BY <1>2, <1>3, <1>4

LEMMA EmptyMoves ==
  ASSUME TypeOK, PlaceInv, FlagType, NEW c \in Core, Move(c),
         NEW d \in Cross, NEW s \in Sub, NEW i \in Buffers(d)
  PROVE  empty'[d][i][s] = empty[d][i][s]
           + One(Declaring(c, d, s)) - One(Draining(c, d, s))
           + One(Returning(c, d, s) /\ i = CrossIndex(c, blk[c], d))
           - One(Reserving(c, d, s) /\ i = CrossIndex(c, blk[c], d))
<1>1. empty[d][i][s] \in Int /\ i \in All[d]
  BY DEF FlagType, All
<1> DEFINE Quiet == ~Declaring(c, d, s) /\ ~Draining(c, d, s) /\ ~Returning(c, d, s)
<1>2. CASE at[c] = "ahead" /\ pc[c] = "wait"
  <2>1. empty'[d][i][s] = empty[d][i][s]
          + (IF d \in Received(c) /\ i \in All[d] /\ s \in View(c) THEN 1 ELSE 0)
    BY <1>2, MoveAt, ChangeIs DEF Declare, Set
  <2>2. d \in Received(c) /\ s \in View(c) <=> Declaring(c, d, s)
    BY <1>2, TransfersOfBlock DEF Declaring
  <2>3. ~Draining(c, d, s) /\ ~Returning(c, d, s) /\ ~Reserving(c, d, s)
    BY <1>2 DEF Draining, Returning, Reserving
  <2> QED
    BY <1>1, <2>1, <2>2, <2>3 DEF One
<1>3. CASE at[c] = "behind"
  <2>1. empty'[d][i][s] = empty[d][i][s]
          + (IF d \in Sent(c) /\ i \in All[d] /\ s \in View(c) THEN -1 ELSE 0)
    BY <1>3, MoveAt, ChangeIs DEF Drain, Take
  <2>2. d \in Sent(c) /\ s \in View(c) <=> Draining(c, d, s)
    BY <1>3, TransfersOfBlock DEF Draining
  <2>3. ~Declaring(c, d, s) /\ ~Returning(c, d, s) /\ ~Reserving(c, d, s)
    BY <1>3 DEF Declaring, Returning, Reserving
  <2> QED
    BY <1>1, <2>1, <2>2, <2>3 DEF One
<1>4. CASE at[c] = "release"
  <2>1. empty'[d][i][s] = empty[d][i][s]
          + (IF d \in Inputs(c, blk[c]) /\ i \in Turn(c)[d] /\ s \in View(c) THEN 1 ELSE 0)
    BY <1>4, MoveAt, ChangeIs DEF ReleaseInputs, Set
  <2>2. d \in Inputs(c, blk[c]) /\ s \in View(c) <=> Returning(c, d, s)
    BY <1>4, TransfersOfBlock DEF Returning
  <2>3. ~Declaring(c, d, s) /\ ~Draining(c, d, s) /\ ~Reserving(c, d, s)
    BY <1>4 DEF Declaring, Draining, Reserving
  <2> QED
    BY <1>1, <2>1, <2>2, <2>3, TurnIs DEF One
<1>5. CASE at[c] = "send" /\ AwaitRoom(c)
  <2>1. PICK e \in todo[c] : /\ empty' = Take(empty, {e}, Turn(c), c)
                             /\ todo' = [todo EXCEPT ![c] = @ \ {e}]
    BY <1>5 DEF AwaitRoom
  <2>2. empty'[d][i][s] = empty[d][i][s]
          + (IF d \in {e} /\ i \in Turn(c)[d] /\ s \in View(c) THEN -1 ELSE 0)
    BY <2>1, ChangeIs DEF Take
  <2>3. todo[c] \subseteq Outputs(c, blk[c]) /\ todo'[c] = todo[c] \ {e}
    BY <2>1 DEF PlaceInv, PlaceOf
  <2>4. d \in {e} /\ s \in View(c) <=> Reserving(c, d, s)
    BY <1>5, <2>3, TransfersOfBlock DEF Reserving, Outputs
  <2>5. Quiet
    BY <1>5 DEF Declaring, Draining, Returning
  <2> QED
    BY <1>1, <2>2, <2>4, <2>5, TurnIs DEF One
<1>6. CASE /\ ~(at[c] = "ahead" /\ pc[c] = "wait") /\ at[c] \notin {"behind", "release"}
           /\ ~(at[c] = "send" /\ AwaitRoom(c))
  <2>1. empty' = empty
    BY <1>6 DEF Move, Opening, Declare, Going, Enter, AwaitInputs, ReleaseInputs, AwaitRoom,
                SignalData, SendsDone, LoadWords, StoreWords, LeaveLoop, Drain, Closing,
                transferVars
  <2>2. at[c] = "send" => todo' = todo
    BY <1>6, MoveAt DEF SignalData, SendsDone
  <2> QED
    BY <1>1, <1>6, <2>1, <2>2 DEF Declaring, Draining, Returning, Reserving, One
<1> QED
  BY <1>2, <1>3, <1>4, <1>5, <1>6

LEMMA FlagTypeStep ==
  ASSUME TypeOK, PlaceInv, FlagType, NEW c \in Core, Move(c)
  PROVE  FlagType'
<1> SUFFICES ASSUME NEW d \in Cross, NEW i \in Buffers(d), NEW s \in Sub
             PROVE  filled'[d][i][s] \in Int /\ empty'[d][i][s] \in Int
  BY DEF FlagType, Buffers
<1>1. filled[d][i][s] \in Int /\ empty[d][i][s] \in Int
  BY DEF FlagType
<1> QED
  BY <1>1, FilledMoves, EmptyMoves DEF One

-----------------------------------------------------------------------------
(* The sums over the buffers of a transfer.                                *)

LEMMA SumInit == TransferInit => FlagType /\ SumInv
<1> SUFFICES ASSUME TransferInit
             PROVE  FlagType /\ SumInv
  OBVIOUS
<1>1. FlagType
  BY DEF TransferInit, FlagType
<1>2. ASSUME NEW d \in Cross, NEW s \in Sub
      PROVE  /\ Pending(filled, d, s) = Signals(d, s) - Accepts(d, s)
             /\ Pending(empty, d, s) = d.cap * Lent(d, s) - (Rooms(d, s) - Returns(d, s))
  <2>1. TypeOK
    BY TypeInit DEF TransferInit
  <2>2. Sender(d, s) \in Core /\ Receiver(d, s) \in Core /\ d.cap \in {1, 2}
    BY <2>1, EndFacts
  <2>3. Producer(d, s) = 0 /\ Consumer(d, s) = 0
    BY <2>1, EndFacts DEF TransferInit, Init
  <2>4. \A c \in Core : at[c] \notin Working /\ Declared(c) = 0 /\ Drained(c) = 0
    BY DEF TransferInit, Init, Working, Declared, Drained
  <2>5. /\ Signals(d, s) = 0 /\ Rooms(d, s) = 0 /\ Accepts(d, s) = 0 /\ Returns(d, s) = 0
        /\ Lent(d, s) = 0
    BY <2>2, <2>3, <2>4 DEF Signals, Rooms, Accepts, Returns, Lent, One,
                            Signalled, Reserved, Accepted, Returned, Working
  <2>6. \A i \in Buffers(d) : filled[d][i][s] = 0 /\ empty[d][i][s] = 0
    BY DEF TransferInit
  <2>7. 0 \in Buffers(d) /\ (d.cap = 2 => 1 \in Buffers(d))
    BY <2>2 DEF Buffers
  <2> QED
    BY <2>2, <2>5, <2>6, <2>7 DEF Pending
<1> QED
  BY <1>1, <1>2 DEF SumInv

LEMMA SumStep ==
  ASSUME TypeOK, LoopInv, PlaceInv, FlagType, SumInv, NEW c \in Core, Move(c)
  PROVE  SumInv'
<1> SUFFICES ASSUME NEW d \in Cross, NEW s \in Sub
             PROVE  /\ Pending(filled, d, s)' = Signals(d, s)' - Accepts(d, s)'
                    /\ Pending(empty, d, s)' = d.cap * Lent(d, s)' - (Rooms(d, s)' - Returns(d, s)')
  BY DEF SumInv
<1> DEFINE x == CrossIndex(c, blk[c], d)
           signal == One(Signalling(c, d, s))
           accept == One(Accepting(c, d, s))
           reserve == One(Reserving(c, d, s))
           return == One(Returning(c, d, s))
           declare == One(Declaring(c, d, s))
           drain == One(Draining(c, d, s))
<1>1. d.cap \in {1, 2} /\ 0 \in Buffers(d) /\ (d.cap = 2 => 1 \in Buffers(d))
  BY EndFacts DEF Buffers
<1>2. x \in {0, 1} /\ (d.cap = 1 => x = 0)
  BY DEF CrossIndex
<1>3. /\ signal \in Int /\ accept \in Int /\ reserve \in Int /\ return \in Int
      /\ declare \in Int /\ drain \in Int
  BY DEF One
<1>4. ASSUME NEW i \in Buffers(d)
      PROVE  /\ filled[d][i][s] \in Int /\ empty[d][i][s] \in Int
             /\ filled'[d][i][s] = filled[d][i][s] + (IF i = x THEN signal - accept ELSE 0)
             /\ empty'[d][i][s] = empty[d][i][s] + declare - drain
                                    + (IF i = x THEN return - reserve ELSE 0)
  <2>1. filled[d][i][s] \in Int /\ empty[d][i][s] \in Int
    BY DEF FlagType
  <2> QED
    BY <2>1, FilledMoves, EmptyMoves DEF One
<1>5. /\ Signals(d, s) \in Int /\ Rooms(d, s) \in Int
      /\ Signals(d, s)' = Signals(d, s) + signal
      /\ Rooms(d, s)' = Rooms(d, s) + reserve
  BY SenderMoves
<1>6. /\ Accepts(d, s) \in Int /\ Returns(d, s) \in Int
      /\ Accepts(d, s)' = Accepts(d, s) + accept
      /\ Returns(d, s)' = Returns(d, s) + return
  BY ReceiverMoves
<1>7. Lent(d, s) \in Int /\ Lent(d, s)' = Lent(d, s) + declare - drain
  BY LentMoves
<1>8. /\ Pending(filled, d, s) = Signals(d, s) - Accepts(d, s)
      /\ Pending(empty, d, s) = d.cap * Lent(d, s) - (Rooms(d, s) - Returns(d, s))
  BY DEF SumInv
<1> HIDE DEF x, signal, accept, reserve, return, declare, drain
<1>9. CASE d.cap = 1
  <2>1. /\ filled'[d][0][s] = filled[d][0][s] + (signal - accept)
        /\ empty'[d][0][s] = empty[d][0][s] + declare - drain + (return - reserve)
        /\ filled[d][0][s] \in Int /\ empty[d][0][s] \in Int
    BY <1>1, <1>2, <1>4, <1>9
  <2>2. /\ Pending(filled, d, s) = filled[d][0][s] /\ Pending(empty, d, s) = empty[d][0][s]
        /\ Pending(filled, d, s)' = filled'[d][0][s] /\ Pending(empty, d, s)' = empty'[d][0][s]
    BY <1>3, <1>9, <2>1 DEF Pending
  <2> QED
    BY <1>3, <1>5, <1>6, <1>7, <1>8, <1>9, <2>1, <2>2
<1>10. CASE d.cap = 2
  <2>1. /\ \A i \in {0, 1} : filled[d][i][s] \in Int /\ empty[d][i][s] \in Int
        /\ filled'[d][0][s] + filled'[d][1][s]
             = filled[d][0][s] + filled[d][1][s] + (signal - accept)
        /\ empty'[d][0][s] + empty'[d][1][s]
             = empty[d][0][s] + empty[d][1][s] + 2 * declare - 2 * drain + (return - reserve)
    <3>1. \A i \in {0, 1} : i \in Buffers(d)
      BY <1>1, <1>10
    <3>2. CASE x = 0
      BY <1>3, <1>4, <3>1, <3>2
    <3>3. CASE x = 1
      BY <1>3, <1>4, <3>1, <3>3
    <3> QED
      BY <1>2, <3>2, <3>3
  <2>2. /\ Pending(filled, d, s) = filled[d][0][s] + filled[d][1][s]
        /\ Pending(empty, d, s) = empty[d][0][s] + empty[d][1][s]
        /\ Pending(filled, d, s)' = filled'[d][0][s] + filled'[d][1][s]
        /\ Pending(empty, d, s)' = empty'[d][0][s] + empty'[d][1][s]
    BY <1>10 DEF Pending
  <2> QED
    BY <1>3, <1>5, <1>6, <1>7, <1>8, <1>10, <2>1, <2>2
<1> QED
  BY <1>1, <1>9, <1>10

TransferInv == CountInv /\ LoopInv /\ PlaceInv /\ FlagType /\ SumInv

LEMMA TransferInvInit == TransferInit => TransferInv
BY CountInit, LoopInit, PlaceInit, SumInit DEF TransferInit, TransferInv

(* A step of one core, or none.                                            *)
LEMMA TransferMoves ==
  ASSUME [TransferNext]_allVars
  PROVE  (\E c \in Core : Move(c)) \/ UNCHANGED allVars
BY DEF TransferNext

LEMMA TransferInvNext ==
  ASSUME TransferInv, [TransferNext]_allVars
  PROVE  TransferInv'
<1>1. TypeOK /\ CountInv /\ LoopInv /\ PlaceInv /\ FlagType /\ SumInv
  BY DEF TransferInv, CountInv, AccessInv
<1>2. CountInv'
  BY <1>1, TransferIsNext, CountNext
<1>3. CASE \E c \in Core : Move(c)
  <2>1. PICK c \in Core : Move(c)
    BY <1>3
  <2>2. LoopInv'
    <3>1. CASE StepOf(c)
      BY <1>1, <3>1, LoopStep
    <3>2. CASE UNCHANGED vars
      BY <1>1, <3>2 DEF LoopInv, vars
    <3> QED
      BY <2>1, <3>1, <3>2, MoveIsStep
  <2>3. PlaceInv' /\ FlagType' /\ SumInv'
    BY <1>1, <2>1, PlaceStep, FlagTypeStep, SumStep
  <2> QED
    BY <1>2, <2>2, <2>3 DEF TransferInv
<1>4. CASE UNCHANGED allVars
  <2>1. LoopInv'
    BY <1>1, <1>4 DEF LoopInv, allVars, vars
  <2>2. PlaceInv'
    BY <1>1, <1>4 DEF PlaceInv, PlaceOf, allVars, vars, transferVars, Outputs
  <2>3. FlagType'
    BY <1>1, <1>4 DEF FlagType, allVars, transferVars
  <2>4. SumInv'
    BY <1>1, <1>4 DEF SumInv, Pending, Signals, Accepts, Rooms, Returns, Lent, Signalled,
       Reserved, Accepted, Returned, Declared, Drained, Producer, Consumer, Sender, Receiver,
       One, allVars, vars, transferVars
  <2> QED
    BY <1>2, <2>1, <2>2, <2>3, <2>4 DEF TransferInv
<1> QED
  BY <1>3, <1>4, TransferMoves

(* Outside of its block an end has nothing half done.                      *)
LEMMA Settled ==
  ASSUME TypeOK, PlaceInv, NEW d \in Cross, NEW s \in Sub
  PROVE  /\ Producer(d, s) \in Nat /\ Consumer(d, s) \in Nat
         /\ ~Inside(Sender(d, s)) =>
              Signals(d, s) = Producer(d, s) /\ Rooms(d, s) = Producer(d, s)
         /\ ~Inside(Receiver(d, s)) =>
              Accepts(d, s) = Consumer(d, s) /\ Returns(d, s) = Consumer(d, s)
<1>1. /\ Sender(d, s) \in Core /\ Receiver(d, s) \in Core
      /\ Producer(d, s) \in Nat /\ Consumer(d, s) \in Nat
  BY EndFacts
<1>2. \A c \in Core : at[c] \in Working => Inside(c)
  BY DEF PlaceInv, PlaceOf, Working, Inside
<1>3. ~Inside(Sender(d, s)) =>
        Signals(d, s) = Producer(d, s) /\ Rooms(d, s) = Producer(d, s)
  BY <1>1, <1>2 DEF Signals, Rooms, Signalled, Reserved, One
<1>4. ~Inside(Receiver(d, s)) =>
        Accepts(d, s) = Consumer(d, s) /\ Returns(d, s) = Consumer(d, s)
  BY <1>1, <1>2 DEF Accepts, Returns, Accepted, Returned, Working, One
<1> QED
  BY <1>1, <1>3, <1>4

LEMMA TransferInvSafe == TransferInv => FlagsMatchCounts
<1> SUFFICES ASSUME TransferInv, NEW d \in Cross, NEW s \in Sub, Zeroed,
                    ~InBlock(From(d, s)), ~InBlock(To(d, s))
             PROVE  /\ Pending(filled, d, s) = stat[d][s]
                    /\ Pending(empty, d, s)
                         = d.cap * (Declared(To(d, s)) - Drained(From(d, s))) - stat[d][s]
  BY DEF FlagsMatchCounts
<1>1. From(d, s) = Sender(d, s) /\ To(d, s) = Receiver(d, s)
  BY DEF From, To, Sender, Receiver
<1>2. TypeOK /\ PlaceInv
  BY DEF TransferInv, CountInv, AccessInv
<1>3. /\ Producer(d, s) \in Nat /\ Consumer(d, s) \in Nat
      /\ Signals(d, s) = Producer(d, s) /\ Rooms(d, s) = Producer(d, s)
      /\ Accepts(d, s) = Consumer(d, s) /\ Returns(d, s) = Consumer(d, s)
  BY <1>1, <1>2, Settled DEF InBlock, Inside
<1>4. stat[d][s] = Producer(d, s) - Consumer(d, s)
  BY DEF TransferInv, CountInv, CountsAreOccupancy
<1>5. /\ Pending(filled, d, s) = Signals(d, s) - Accepts(d, s)
      /\ Pending(empty, d, s) = d.cap * Lent(d, s) - (Rooms(d, s) - Returns(d, s))
  BY DEF TransferInv, SumInv
<1> QED
  BY <1>1, <1>3, <1>4, <1>5 DEF Lent

(* The flags of a transfer and the words the conditions read agree: there  *)
(* is a "filled" for every item, and an "empty" for every other buffer.    *)
THEOREM FlagsAgreeWithCounts == TransferSpec => []FlagsMatchCounts
BY TransferInvInit, TransferInvNext, TransferInvSafe, PTL DEF TransferSpec

-----------------------------------------------------------------------------
(* Which buffer: the flags of each, from here on as far as every pass has  *)
(* been complete.                                                          *)

FlightInv == TransferInv /\ CounterInv(TRUE) /\ InStep /\ BufferInv

LEMMA InFlightIs ==
  ASSUME NEW d, NEW i, NEW z, NEW a \in Int, NEW b \in Int
  PROVE  /\ InFlight(d, i, z, a, b) \in Int
         /\ a = b => InFlight(d, i, z, a, b) = 0
         /\ a <= b /\ b <= a + 1 =>
              InFlight(d, i, z, a, b + 1) = InFlight(d, i, z, a, b) + One(Place(d, b + 1, z) = i)
         /\ a < b /\ b <= a + 2 =>
              InFlight(d, i, z, a + 1, b) = InFlight(d, i, z, a, b) - One(Place(d, a + 1, z) = i)
<1>1. InFlight(d, i, z, a, b) \in Int /\ (a = b => InFlight(d, i, z, a, b) = 0)
  BY DEF InFlight, One
<1>2. ASSUME b = a \/ b = a + 1
      PROVE  InFlight(d, i, z, a, b + 1) = InFlight(d, i, z, a, b) + One(Place(d, b + 1, z) = i)
  <2>1. CASE b = a
    BY <2>1 DEF InFlight, One
  <2>2. CASE b = a + 1
    <3>1. b + 1 = a + 2
      BY <2>2
    <3> QED
      BY <2>2, <3>1 DEF InFlight, One
  <2> QED
    BY <1>2, <2>1, <2>2
<1>3. ASSUME b = a + 1 \/ b = a + 2
      PROVE  InFlight(d, i, z, a + 1, b) = InFlight(d, i, z, a, b) - One(Place(d, a + 1, z) = i)
  <2>1. (a + 1) + 1 = a + 2
    OBVIOUS
  <2> QED
    BY <1>3, <2>1 DEF InFlight, One
<1>4. /\ a <= b /\ b <= a + 1 => b = a \/ b = a + 1
      /\ a < b /\ b <= a + 2 => b = a + 1 \/ b = a + 2
  OBVIOUS
<1> QED
  BY <1>1, <1>2, <1>3, <1>4

(* The two ends of a transfer are not inside blocks at the same time.      *)
LEMMA ApartInBlocks ==
  ASSUME AccessInv, NEW d \in Cross, NEW s \in Sub
  PROVE  ~(Inside(Sender(d, s)) /\ Inside(Receiver(d, s)))
<1>1. /\ Sender(d, s) \in Core /\ Receiver(d, s) \in Core /\ Sender(d, s) # Receiver(d, s)
      /\ s \in View(Sender(d, s)) /\ s \in View(Receiver(d, s))
  BY EndFacts DEF AccessInv, Sender, Receiver, View
<1>2. ASSUME Inside(Sender(d, s)), Inside(Receiver(d, s)) PROVE FALSE
  <2>1. pc[Sender(d, s)] \in Holding /\ pc[Receiver(d, s)] \in Holding
    BY <1>2 DEF Inside, Holding
  <2> QED
    BY <1>1, <2>1, OthersApart
<1> QED
  BY <1>2

(* The producer's block has room, the consumer's an item.                  *)
LEMMA RoomToSend ==
  ASSUME CountInv, PlaceInv, NEW d \in Cross, NEW s \in Sub,
         Inside(Sender(d, s)), d.src = blk[Sender(d, s)]
  PROVE  /\ Producer(d, s) \in Nat /\ Consumer(d, s) \in Nat
         /\ Accepts(d, s) = Consumer(d, s) /\ Returns(d, s) = Consumer(d, s)
         /\ Consumer(d, s) <= Producer(d, s) /\ Producer(d, s) - Consumer(d, s) < d.cap
<1> DEFINE p == Sender(d, s)
<1>1. TypeOK /\ AccessInv
  BY DEF CountInv, AccessInv
<1>2. p \in Core /\ d.cap \in {1, 2}
  BY <1>1, EndFacts
<1>3. d \in Outputs(p, blk[p]) /\ s \in View(p)
  BY <1>2, TransfersOfBlock
<1>4. stat[d][s] < d.cap
  BY <1>2, <1>3 DEF CountInv, StillEnabled, CrossCondition, Inside
<1>5. stat[d][s] = Producer(d, s) - Consumer(d, s) /\ stat[d][s] \in 0 .. d.cap
  BY <1>2 DEF CountInv, CountsAreOccupancy, Zeroed, Inside
<1> QED
  BY <1>1, <1>2, <1>4, <1>5, ApartInBlocks, Settled

LEMMA ItemToTake ==
  ASSUME CountInv, PlaceInv, NEW d \in Cross, NEW s \in Sub,
         Inside(Receiver(d, s)), d.dst = blk[Receiver(d, s)]
  PROVE  /\ Producer(d, s) \in Nat /\ Consumer(d, s) \in Nat
         /\ Signals(d, s) = Producer(d, s) /\ Rooms(d, s) = Producer(d, s)
         /\ Consumer(d, s) < Producer(d, s) /\ Producer(d, s) <= Consumer(d, s) + 2
<1> DEFINE q == Receiver(d, s)
<1>1. TypeOK /\ AccessInv
  BY DEF CountInv, AccessInv
<1>2. q \in Core /\ d.cap \in {1, 2}
  BY <1>1, EndFacts
<1>3. d \in Inputs(q, blk[q]) /\ s \in View(q)
  BY <1>2, TransfersOfBlock
<1>4. stat[d][s] > 0
  BY <1>2, <1>3 DEF CountInv, StillEnabled, CrossCondition, Inside
<1>5. stat[d][s] = Producer(d, s) - Consumer(d, s) /\ stat[d][s] \in 0 .. d.cap
  BY <1>2 DEF CountInv, CountsAreOccupancy, Zeroed, Inside
<1> QED
  BY <1>1, <1>2, <1>4, <1>5, ApartInBlocks, Settled

(* The runs both ends had made at the start of the pass of an item.        *)
LEMMA SenderBase ==
  ASSUME CountInv, CounterInv(TRUE), InStep, NEW d \in Cross, NEW s \in Sub,
         Inside(Sender(d, s)), d.src = blk[Sender(d, s)]
  PROVE  /\ LastBase(Receiver(d, s)) = Base(Sender(d, s))
         /\ pass[Receiver(d, s)] < Passes => pass[Receiver(d, s)] = pass[Sender(d, s)]
         /\ pass[Receiver(d, s)] >= Passes => pass[Sender(d, s)] = Passes - 1
<1> DEFINE p == Sender(d, s)
           q == Receiver(d, s)
<1>1. TypeOK /\ LoopInv
  BY DEF CountInv, AccessInv, CounterInv
<1>2. p \in Core /\ q \in Core /\ {p, q} = {Cube, s} /\ p # q
  BY <1>1, EndFacts
<1>3. pass[p] \in Nat /\ pass[q] \in Nat /\ Passes \in Nat
  BY <1>1, <1>2, LoopFacts DEF TypeOK
<1>4. CASE pass[q] < Passes
  BY <1>3, <1>4, SenderInPass DEF LastBase, Base
<1>5. CASE pass[q] >= Passes
  <2>1. pass[q] = Passes /\ pass[p] < Passes
    BY <1>1, <1>2, <1>3, <1>5 DEF LoopInv, Inside, InLoop
  <2>2. pass[Cube] = pass[s] \/ pass[Cube] = pass[s] + 1
    BY DEF InStep
  <2>3. pass[p] = Passes - 1
    <3>1. (p = Cube /\ q = s) \/ (p = s /\ q = Cube)
      BY DEF Sender, Receiver
    <3> HIDE DEF p, q
    <3> QED
      BY <1>3, <2>1, <2>2, <3>1
  <2> QED
    BY <1>3, <2>1, <2>3 DEF LastBase, Base
<1> QED
  BY <1>3, <1>4, <1>5

LEMMA SenderTurn ==
  ASSUME CountInv, CounterInv(TRUE), InStep, NEW d \in Cross, NEW s \in Sub,
         Inside(Sender(d, s)), d.src = blk[Sender(d, s)]
  PROVE  CrossIndex(Sender(d, s), blk[Sender(d, s)], d)
           = Place(d, Producer(d, s) + 1, LastBase(Receiver(d, s)))
<1> DEFINE p == Sender(d, s)
<1>1. TypeOK /\ p \in Core /\ Producer(d, s) = runs[p][blk[p]]
  BY EndFacts DEF CountInv, AccessInv
<1>2. PICK k \in Nat : counter[p][blk[p]] = Lb + Step * k /\ runs[p][blk[p]] = Base(p) + k
  BY <1>1, Iteration
<1>3. Base(p) \in Nat
  BY <1>1, LoopFacts, Products DEF Base, TypeOK
<1>4. LastBase(Receiver(d, s)) = Base(p)
  BY SenderBase
<1>5. (Producer(d, s) + 1) - 1 - LastBase(Receiver(d, s)) = k
  BY <1>1, <1>2, <1>3, <1>4
<1> QED
  BY <1>2, <1>5 DEF CrossIndex, Place, IndexAt

LEMMA ReceiverTurn ==
  ASSUME CountInv, CounterInv(TRUE), NEW d \in Cross, NEW s \in Sub,
         Inside(Receiver(d, s)), d.dst = blk[Receiver(d, s)]
  PROVE  CrossIndex(Receiver(d, s), blk[Receiver(d, s)], d)
           = Place(d, Consumer(d, s) + 1, LastBase(Receiver(d, s)))
<1> DEFINE q == Receiver(d, s)
<1>1. TypeOK /\ q \in Core /\ Consumer(d, s) = runs[q][blk[q]]
  BY EndFacts DEF CountInv, AccessInv
<1>2. /\ pass[q] < Passes
      /\ \E k \in Nat : counter[q][blk[q]] = Lb + Step * k /\ runs[q][blk[q]] = Base(q) + k
  BY <1>1, Iteration
<1>3. PICK k \in Nat : counter[q][blk[q]] = Lb + Step * k /\ runs[q][blk[q]] = Base(q) + k
  BY <1>2
<1>4. Base(q) \in Nat /\ LastBase(q) = Base(q)
  BY <1>1, <1>2, LoopFacts, Products DEF Base, LastBase, TypeOK
<1>5. (Consumer(d, s) + 1) - 1 - LastBase(q) = k
  BY <1>1, <1>3, <1>4
<1> QED
  BY <1>3, <1>5 DEF CrossIndex, Place, IndexAt

(* Only the consumer's start of another pass changes where its items       *)
(* begin, and then the buffers are empty.                                  *)
LEMMA LastBaseMoves ==
  ASSUME TypeOK, LoopInv, NEW c \in Core, Move(c), NEW e \in Core
  PROVE  \/ LastBase(e)' = LastBase(e)
         \/ e = c /\ LeaveLoop(c) /\ EndPass(c) /\ pass'[c] < Passes
<1>1. pass[e] \in Nat /\ Passes \in Nat /\ pass[e] <= Passes
  BY LoopFacts DEF TypeOK, LoopInv
<1>2. CASE pass'[e] = pass[e]
  BY <1>2 DEF LastBase
<1>3. CASE pass'[e] # pass[e]
  <2>1. StepOf(c)
    BY <1>3, MoveIsStep DEF vars
  <2>2. e = c /\ EndPass(c) /\ pass'[e] = pass[e] + 1
    BY <1>3, <2>1, PassMoves
  <2>3. LeaveLoop(c)
    <3>1. pc[c] = "set" /\ pass'[c] # pass[c]
      BY <1>3, <2>2 DEF EndPass
    <3> QED
      BY <3>1 DEF Move, Opening, Declare, Going, Enter, AwaitInputs, ReleaseInputs,
         AwaitRoom, SignalData, SendsDone, LoadWords, StoreWords, Drain, Closing,
         ZeroSSBuffer, OpenScope, Wait, SkipBlock, NextRound, EnterBlock, RunBody,
         Publish, CloseScope, vars
  <2>4. CASE pass[e] + 1 < Passes
    BY <2>2, <2>3, <2>4
  <2>5. CASE pass[e] + 1 >= Passes
    <3>1. pass[e] = Passes - 1 \/ pass[e] = Passes
      BY <1>1, <2>5
    <3>2. LastBase(e) = (Passes - 1) * Iterations
      BY <1>1, <3>1 DEF LastBase
    <3>3. LastBase(e)' = (Passes - 1) * Iterations
      BY <1>1, <2>2, <2>5 DEF LastBase
    <3> QED
      BY <3>2, <3>3
  <2> QED
    BY <1>1, <2>4, <2>5
<1> QED
  BY <1>2, <1>3

LEMMA NothingInFlight ==
  ASSUME CountInv, CounterInv(TRUE), InStep, PlaceInv, OftenEnough',
         NEW d \in Cross, NEW s \in Sub, NEW c \in Core, c = Receiver(d, s),
         Move(c), LeaveLoop(c), EndPass(c), pass'[c] < Passes
  PROVE  /\ Signals(d, s) = Accepts(d, s) /\ Rooms(d, s) = Returns(d, s)
<1> DEFINE p == Sender(d, s)
<1>1. TypeOK /\ AccessInv /\ FreshStart
  BY DEF CountInv, AccessInv, CounterInv
<1>2. StepOf(c)
  BY DEF StepOf, CoreStep
<1>3. p \in Core /\ p # c /\ d.src \in 1 .. NumBlocks(p) /\ d.dst \in 1 .. NumBlocks(c)
  BY <1>1, EndFacts
<1>4. pc[c] = "set" /\ runs' = runs
  BY DEF EndPass
<1>5. pc[c] \in Holding /\ Zeroed /\ ~Inside(c)
  BY <1>4 DEF Holding, Zeroed, Inside
<1>6. Written(p, d.src)' <= runs'[c][d.dst]
  BY <1>2, PassEndsEmpty
<1>7. pc[p] \notin Holding
  BY <1>1, <1>3, <1>5, OthersApart DEF Sender, Receiver, View
<1>8. ~Inside(p) /\ Written(p, d.src)' = runs[p][d.src]
  <2>1. ~Inside(p) /\ pc[p] # "publish"
    BY <1>7 DEF Holding, Inside
  <2>2. Written(p, d.src)' = Written(p, d.src) + 0
    BY <1>1, <1>2, <1>3, WrittenMoves DEF One
  <2>3. runs[p][d.src] \in Nat
    BY <1>1, EndFacts
  <2> QED
    BY <2>1, <2>2, <2>3 DEF Written, One
<1>9. Producer(d, s) <= Consumer(d, s)
  BY <1>1, <1>4, <1>6, <1>8, EndFacts
<1>10. /\ stat[d][s] = Producer(d, s) - Consumer(d, s) /\ stat[d][s] \in 0 .. d.cap
       /\ d.cap \in {1, 2}
  BY <1>1, <1>5, EndFacts DEF CountInv, CountsAreOccupancy
<1>11. Producer(d, s) \in Nat /\ Consumer(d, s) \in Nat
  BY <1>1, EndFacts
<1>12. Producer(d, s) = Consumer(d, s)
  BY <1>9, <1>10, <1>11
<1> QED
  BY <1>1, <1>5, <1>8, <1>12, Settled

LEMMA BufferInit == TransferInit => BufferInv
<1> SUFFICES ASSUME TransferInit, NEW d \in Cross, NEW s \in Sub, NEW i \in Buffers(d)
             PROVE  LET z == LastBase(Receiver(d, s)) IN
                    /\ filled[d][i][s] = InFlight(d, i, z, Accepts(d, s), Signals(d, s))
                    /\ empty[d][i][s] = Lent(d, s) - InFlight(d, i, z, Returns(d, s), Rooms(d, s))
  BY DEF BufferInv
<1>1. TypeOK
  BY TypeInit DEF TransferInit
<1>2. Sender(d, s) \in Core /\ Receiver(d, s) \in Core
  BY <1>1, EndFacts
<1>3. Producer(d, s) = 0 /\ Consumer(d, s) = 0
  BY <1>1, EndFacts DEF TransferInit, Init
<1>4. \A c \in Core : at[c] \notin Working /\ Declared(c) = 0 /\ Drained(c) = 0
  BY DEF TransferInit, Init, Working, Declared, Drained
<1>5. /\ Signals(d, s) = 0 /\ Rooms(d, s) = 0 /\ Accepts(d, s) = 0 /\ Returns(d, s) = 0
      /\ Lent(d, s) = 0
  BY <1>2, <1>3, <1>4 DEF Signals, Rooms, Accepts, Returns, Lent, One,
                          Signalled, Reserved, Accepted, Returned, Working
<1>6. filled[d][i][s] = 0 /\ empty[d][i][s] = 0
  BY DEF TransferInit
<1> QED
  BY <1>5, <1>6, InFlightIs

LEMMA BufferStep ==
  ASSUME FlightInv, NEW c \in Core, Move(c), Passes = 1 \/ OftenEnough'
  PROVE  BufferInv'
<1>1. /\ TypeOK /\ AccessInv /\ CountInv /\ LoopInv /\ PlaceInv /\ FlagType
      /\ CounterInv(TRUE) /\ InStep /\ BufferInv
  BY DEF FlightInv, TransferInv, CountInv, AccessInv
<1> SUFFICES ASSUME NEW d \in Cross, NEW s \in Sub, NEW i \in Buffers(d)
             PROVE  /\ filled'[d][i][s] =
                         InFlight(d, i, LastBase(Receiver(d, s))', Accepts(d, s)', Signals(d, s)')
                    /\ empty'[d][i][s] = Lent(d, s)' -
                         InFlight(d, i, LastBase(Receiver(d, s))', Returns(d, s)', Rooms(d, s)')
  BY DEF BufferInv, Buffers, InFlight, Place, IndexAt
<1> DEFINE p == Sender(d, s)
           q == Receiver(d, s)
           z == LastBase(q)
           zz == LastBase(Receiver(d, s))'
           x == CrossIndex(c, blk[c], d)
           signals == Signals(d, s)
           rooms == Rooms(d, s)
           accepts == Accepts(d, s)
           returns == Returns(d, s)
           full == filled[d][i][s]
           free == empty[d][i][s]
           lent == Lent(d, s)
<1>2. /\ signals \in Int /\ rooms \in Int
      /\ Signals(d, s)' = signals + One(Signalling(c, d, s))
      /\ Rooms(d, s)' = rooms + One(Reserving(c, d, s))
  BY <1>1, SenderMoves
<1>3. /\ accepts \in Int /\ returns \in Int
      /\ Accepts(d, s)' = accepts + One(Accepting(c, d, s))
      /\ Returns(d, s)' = returns + One(Returning(c, d, s))
  BY <1>1, ReceiverMoves
<1>4. /\ lent \in Int
      /\ Lent(d, s)' = lent + One(Declaring(c, d, s)) - One(Draining(c, d, s))
  BY <1>1, LentMoves
<1>5. /\ full \in Int /\ free \in Int
      /\ filled'[d][i][s] = full + One(Signalling(c, d, s) /\ i = x)
                                 - One(Accepting(c, d, s) /\ i = x)
      /\ empty'[d][i][s] = free + One(Declaring(c, d, s)) - One(Draining(c, d, s))
                                + One(Returning(c, d, s) /\ i = x)
                                - One(Reserving(c, d, s) /\ i = x)
  BY <1>1, FilledMoves, EmptyMoves DEF FlagType
<1>6. /\ full = InFlight(d, i, z, accepts, signals)
      /\ free = lent - InFlight(d, i, z, returns, rooms)
  BY <1>1 DEF BufferInv
<1>7. p \in Core /\ q \in Core /\ p # q
  BY <1>1, EndFacts
<1>8. zz = z \/ (c = q /\ LeaveLoop(c) /\ EndPass(c) /\ pass'[c] < Passes)
  BY <1>1, <1>7, LastBaseMoves
<1>9. CASE zz # z
  <2>1. OftenEnough' /\ c = q /\ LeaveLoop(c) /\ EndPass(c) /\ pass'[c] < Passes
    BY <1>1, <1>8, <1>9, NextPassFollowsCompleteOne
  <2>2. signals = accepts /\ rooms = returns
    BY <1>1, <2>1, NothingInFlight
  <2>3. /\ ~Signalling(c, d, s) /\ ~Reserving(c, d, s) /\ ~Accepting(c, d, s)
        /\ ~Returning(c, d, s)
    BY <2>1 DEF LeaveLoop, Signalling, Reserving, Accepting, Returning
  <2> HIDE DEF p, q, z, zz, x, signals, rooms, accepts, returns, full, free, lent
  <2>4. full = 0 /\ free = lent
    BY <1>2, <1>3, <1>4, <1>6, <2>2, InFlightIs
  <2>5. /\ InFlight(d, i, zz, accepts, signals) = 0
        /\ InFlight(d, i, zz, returns, rooms) = 0
    BY <1>2, <1>3, <2>2, InFlightIs
  <2>6. /\ Signals(d, s)' = signals /\ Rooms(d, s)' = rooms
        /\ Accepts(d, s)' = accepts /\ Returns(d, s)' = returns
    BY <1>2, <1>3, <2>3 DEF One
  <2>7. /\ filled'[d][i][s] = 0
        /\ empty'[d][i][s] = Lent(d, s)'
    BY <1>4, <1>5, <2>3, <2>4 DEF One
  <2>8. Lent(d, s)' \in Int
    BY <1>4 DEF One
  <2> QED
    BY <2>5, <2>6, <2>7, <2>8 DEF zz
<1>10. CASE Signalling(c, d, s)
  <2>1. c = p /\ at[c] = "send" /\ d \in current[c]
    BY <1>10 DEF Signalling
  <2>2. Inside(p) /\ d.src = blk[p] /\ ~Signalled(d, p)
    BY <1>1, <2>1 DEF PlaceInv, PlaceOf, Inside, Outputs, Signalled
  <2>3. /\ signals = Producer(d, s)
        /\ accepts = Consumer(d, s) /\ Consumer(d, s) <= Producer(d, s)
        /\ Producer(d, s) - Consumer(d, s) < d.cap
        /\ Producer(d, s) \in Nat /\ Consumer(d, s) \in Nat /\ d.cap \in {1, 2}
    BY <1>1, <2>2, RoomToSend, EndFacts DEF Signals, One
  <2>4. x = Place(d, signals + 1, z)
    BY <1>1, <2>1, <2>2, <2>3, SenderTurn
  <2>5. zz = z
    BY <1>7, <1>8, <2>1
  <2>6. /\ ~Reserving(c, d, s) /\ ~Accepting(c, d, s) /\ ~Returning(c, d, s)
        /\ ~Declaring(c, d, s) /\ ~Draining(c, d, s)
    <3>1. ~Reserving(c, d, s)
      BY <1>1, <2>1 DEF Reserving, PlaceInv, PlaceOf
    <3> QED
      BY <1>7, <2>1, <3>1 DEF Accepting, Returning, Declaring, Draining
  <2> HIDE DEF p, q, z, zz, x, signals, rooms, accepts, returns, full, free, lent
  <2>7. accepts <= signals /\ signals <= accepts + 1
    BY <1>2, <1>3, <2>3
  <2>8. InFlight(d, i, z, accepts, signals + 1)
          = InFlight(d, i, z, accepts, signals) + One(x = i)
    BY <1>2, <1>3, <2>4, <2>7, InFlightIs
  <2>9. /\ Signals(d, s)' = signals + 1 /\ Rooms(d, s)' = rooms
        /\ Accepts(d, s)' = accepts /\ Returns(d, s)' = returns /\ Lent(d, s)' = lent
        /\ filled'[d][i][s] = full + One(x = i) /\ empty'[d][i][s] = free
    BY <1>2, <1>3, <1>4, <1>5, <1>10, <2>6 DEF One
  <2> QED
    BY <1>6, <2>5, <2>8, <2>9 DEF zz
<1>11. CASE Reserving(c, d, s)
  <2>1. c = p /\ at[c] = "send" /\ d \in todo[c]
    BY <1>11 DEF Reserving
  <2>2. Inside(p) /\ d.src = blk[p] /\ ~Reserved(d, p)
    BY <1>1, <2>1 DEF PlaceInv, PlaceOf, Inside, Outputs, Reserved
  <2>3. /\ rooms = Producer(d, s)
        /\ returns = Consumer(d, s) /\ Consumer(d, s) <= Producer(d, s)
        /\ Producer(d, s) - Consumer(d, s) < d.cap
        /\ Producer(d, s) \in Nat /\ Consumer(d, s) \in Nat /\ d.cap \in {1, 2}
    BY <1>1, <2>2, RoomToSend, EndFacts DEF Rooms, One
  <2>4. x = Place(d, rooms + 1, z)
    BY <1>1, <2>1, <2>2, <2>3, SenderTurn
  <2>5. zz = z
    BY <1>7, <1>8, <2>1
  <2>6. /\ ~Signalling(c, d, s) /\ ~Accepting(c, d, s) /\ ~Returning(c, d, s)
        /\ ~Declaring(c, d, s) /\ ~Draining(c, d, s)
    <3>1. ~Signalling(c, d, s)
      BY <1>1, <2>1 DEF Signalling, PlaceInv, PlaceOf
    <3> QED
      BY <1>7, <2>1, <3>1 DEF Accepting, Returning, Declaring, Draining
  <2> HIDE DEF p, q, z, zz, x, signals, rooms, accepts, returns, full, free, lent
  <2>7. returns <= rooms /\ rooms <= returns + 1
    BY <1>2, <1>3, <2>3
  <2>8. /\ InFlight(d, i, z, returns, rooms + 1)
             = InFlight(d, i, z, returns, rooms) + One(x = i)
        /\ InFlight(d, i, z, returns, rooms) \in Int
    BY <1>2, <1>3, <2>4, <2>7, InFlightIs
  <2>9. /\ Signals(d, s)' = signals /\ Rooms(d, s)' = rooms + 1
        /\ Accepts(d, s)' = accepts /\ Returns(d, s)' = returns /\ Lent(d, s)' = lent
        /\ filled'[d][i][s] = full /\ empty'[d][i][s] = free - One(x = i)
    BY <1>2, <1>3, <1>4, <1>5, <1>11, <2>6 DEF One
  <2>10. One(x = i) \in Int
    BY DEF One
  <2> QED
    BY <1>4, <1>6, <2>5, <2>8, <2>9, <2>10 DEF zz
<1>12. CASE Accepting(c, d, s)
  <2>1. c = q /\ at[c] = "await" /\ d.dst = blk[c]
    BY <1>12 DEF Accepting
  <2>2. Inside(q) /\ ~Accepted(d, q)
    BY <1>1, <2>1 DEF PlaceInv, PlaceOf, Inside, Accepted, Working
  <2>3. /\ accepts = Consumer(d, s) /\ signals = Producer(d, s)
        /\ Consumer(d, s) < Producer(d, s) /\ Producer(d, s) <= Consumer(d, s) + 2
        /\ Producer(d, s) \in Nat /\ Consumer(d, s) \in Nat
    BY <1>1, <2>1, <2>2, ItemToTake DEF Accepts, One
  <2>4. x = Place(d, accepts + 1, z)
    BY <1>1, <2>1, <2>2, <2>3, ReceiverTurn
  <2>5. zz = z
    BY <1>8, <2>1 DEF LeaveLoop
  <2>6. /\ ~Signalling(c, d, s) /\ ~Reserving(c, d, s) /\ ~Returning(c, d, s)
        /\ ~Declaring(c, d, s) /\ ~Draining(c, d, s)
    BY <1>7, <2>1 DEF Signalling, Reserving, Returning, Declaring, Draining
  <2> HIDE DEF p, q, z, zz, x, signals, rooms, accepts, returns, full, free, lent
  <2>7. accepts < signals /\ signals <= accepts + 2
    BY <2>3
  <2>8. InFlight(d, i, z, accepts + 1, signals)
          = InFlight(d, i, z, accepts, signals) - One(x = i)
    BY <1>2, <1>3, <2>4, <2>7, InFlightIs
  <2>9. /\ Signals(d, s)' = signals /\ Rooms(d, s)' = rooms
        /\ Accepts(d, s)' = accepts + 1 /\ Returns(d, s)' = returns /\ Lent(d, s)' = lent
        /\ filled'[d][i][s] = full - One(x = i) /\ empty'[d][i][s] = free
    BY <1>2, <1>3, <1>4, <1>5, <1>12, <2>6 DEF One
  <2> QED
    BY <1>6, <2>5, <2>8, <2>9 DEF zz
<1>13. CASE Returning(c, d, s)
  <2>1. c = q /\ at[c] = "release" /\ d.dst = blk[c]
    BY <1>13 DEF Returning
  <2>2. Inside(q) /\ ~Returned(d, q)
    BY <1>1, <2>1 DEF PlaceInv, PlaceOf, Inside, Returned
  <2>3. /\ returns = Consumer(d, s) /\ rooms = Producer(d, s)
        /\ Consumer(d, s) < Producer(d, s) /\ Producer(d, s) <= Consumer(d, s) + 2
        /\ Producer(d, s) \in Nat /\ Consumer(d, s) \in Nat
    BY <1>1, <2>1, <2>2, ItemToTake DEF Returns, One
  <2>4. x = Place(d, returns + 1, z)
    BY <1>1, <2>1, <2>2, <2>3, ReceiverTurn
  <2>5. zz = z
    BY <1>8, <2>1 DEF LeaveLoop
  <2>6. /\ ~Signalling(c, d, s) /\ ~Reserving(c, d, s) /\ ~Accepting(c, d, s)
        /\ ~Declaring(c, d, s) /\ ~Draining(c, d, s)
    BY <1>7, <2>1 DEF Signalling, Reserving, Accepting, Declaring, Draining
  <2> HIDE DEF p, q, z, zz, x, signals, rooms, accepts, returns, full, free, lent
  <2>7. returns < rooms /\ rooms <= returns + 2
    BY <2>3
  <2>8. /\ InFlight(d, i, z, returns + 1, rooms)
             = InFlight(d, i, z, returns, rooms) - One(x = i)
        /\ InFlight(d, i, z, returns, rooms) \in Int
    BY <1>2, <1>3, <2>4, <2>7, InFlightIs
  <2>9. /\ Signals(d, s)' = signals /\ Rooms(d, s)' = rooms
        /\ Accepts(d, s)' = accepts /\ Returns(d, s)' = returns + 1 /\ Lent(d, s)' = lent
        /\ filled'[d][i][s] = full /\ empty'[d][i][s] = free + One(x = i)
    BY <1>2, <1>3, <1>4, <1>5, <1>13, <2>6 DEF One
  <2>10. One(x = i) \in Int
    BY DEF One
  <2> QED
    BY <1>4, <1>6, <2>5, <2>8, <2>9, <2>10 DEF zz
<1>14. CASE /\ zz = z
            /\ ~Signalling(c, d, s) /\ ~Reserving(c, d, s)
            /\ ~Accepting(c, d, s) /\ ~Returning(c, d, s)
  <2> HIDE DEF p, q, z, zz, x, signals, rooms, accepts, returns, full, free, lent
  <2>1. /\ Signals(d, s)' = signals /\ Rooms(d, s)' = rooms
        /\ Accepts(d, s)' = accepts /\ Returns(d, s)' = returns
        /\ filled'[d][i][s] = full
        /\ empty'[d][i][s] = free + One(Declaring(c, d, s)) - One(Draining(c, d, s))
    BY <1>2, <1>3, <1>5, <1>14 DEF One
  <2>2. InFlight(d, i, z, returns, rooms) \in Int
    BY <1>2, <1>3, InFlightIs
  <2> QED
    BY <1>4, <1>6, <1>14, <2>1, <2>2 DEF zz, One
<1> QED
  BY <1>9, <1>10, <1>11, <1>12, <1>13, <1>14

LEMMA FlightInit == TransferInit => FlightInv
<1> SUFFICES ASSUME TransferInit
             PROVE  FlightInv
  OBVIOUS
<1>1. Init
  BY DEF TransferInit
<1> QED
  BY <1>1, TransferInvInit, CounterInit, InStepInit, BufferInit DEF FlightInv

LEMMA FlightNext ==
  ASSUME FlightInv, [TransferNext]_allVars, Passes = 1 \/ OftenEnough'
  PROVE  FlightInv'
<1>1. TransferInv /\ CounterInv(TRUE) /\ InStep /\ BufferInv
  BY DEF FlightInv
<1>2. TypeOK /\ AccessInv /\ LoopInv
  BY <1>1 DEF TransferInv, CountInv, AccessInv
<1>3. TransferInv' /\ CounterInv(TRUE)'
  BY <1>1, <1>2, TransferInvNext, TransferIsNext, CounterStep
<1>4. CASE \E c \in Core : Move(c)
  <2>1. PICK c \in Core : Move(c)
    BY <1>4
  <2>2. InStep'
    <3>1. CASE StepOf(c)
      BY <1>1, <1>2, <3>1, InStepStep
    <3>2. CASE UNCHANGED vars
      BY <1>1, <3>2 DEF InStep, Lead, vars
    <3> QED
      BY <2>1, <3>1, <3>2, MoveIsStep
  <2>3. BufferInv'
    BY <2>1, BufferStep
  <2> QED
    BY <1>3, <2>2, <2>3 DEF FlightInv
<1>5. CASE UNCHANGED allVars
  <2>1. InStep'
    BY <1>1, <1>5 DEF InStep, Lead, allVars, vars
  <2>2. BufferInv'
    BY <1>1, <1>5 DEF BufferInv, Signals, Accepts, Rooms, Returns, Lent, Signalled, Reserved,
       Accepted, Returned, Declared, Drained, Producer, Consumer, Sender, Receiver, One,
       LastBase, allVars, vars, transferVars
  <2> QED
    BY <1>3, <2>1, <2>2 DEF FlightInv
<1> QED
  BY <1>4, <1>5, TransferMoves

-----------------------------------------------------------------------------
(* A block finds its flags.                                                *)

LEMMA FilledIsThere ==
  ASSUME FlightInv, NEW c \in Core, at[c] = "await"
  PROVE  Ready(filled, Inputs(c, blk[c]), Turn(c), c)
<1> SUFFICES ASSUME NEW d \in Inputs(c, blk[c]), NEW i \in Turn(c)[d], NEW s \in View(c)
             PROVE  filled[d][i][s] > 0
  BY DEF Ready
<1>1. /\ TypeOK /\ CountInv /\ PlaceInv /\ CounterInv(TRUE) /\ BufferInv
  BY DEF FlightInv, TransferInv, CountInv, AccessInv
<1>2. d \in Cross /\ s \in Sub
  BY CoreFacts DEF Inputs, View, Core
<1>3. c = Receiver(d, s) /\ d.dst = blk[c] /\ i = CrossIndex(c, blk[c], d) /\ d.cap \in {1, 2}
  BY <1>1, <1>2, TransfersOfBlock, TurnIs, EndFacts
<1>4. Inside(c) /\ ~Accepted(d, c)
  BY <1>1 DEF PlaceInv, PlaceOf, Inside, Accepted, Working
<1> DEFINE z == LastBase(c)
           a == Accepts(d, s)
           b == Signals(d, s)
<1>5. /\ a = Consumer(d, s) /\ b = Producer(d, s) /\ a < b /\ b <= a + 2
      /\ a \in Nat /\ b \in Nat
  BY <1>1, <1>2, <1>3, <1>4, ItemToTake DEF Accepts, One
<1>6. i = Place(d, a + 1, z) /\ i \in Buffers(d)
  <2>1. i = Place(d, a + 1, z)
    BY <1>1, <1>2, <1>3, <1>4, <1>5, ReceiverTurn
  <2> QED
    BY <1>3, <2>1 DEF CrossIndex, Buffers
<1>7. filled[d][i][s] = InFlight(d, i, z, a, b)
  BY <1>1, <1>2, <1>3, <1>6 DEF BufferInv
<1> HIDE DEF z, a, b
<1>8. InFlight(d, i, z, a + 1, b) = InFlight(d, i, z, a, b) - 1
  BY <1>5, <1>6, InFlightIs DEF One
<1>9. InFlight(d, i, z, a + 1, b) >= 0 /\ InFlight(d, i, z, a, b) \in Int
  BY <1>5, InFlightIs DEF InFlight, One
<1> QED
  BY <1>7, <1>8, <1>9

(* The consumer of an item has come as far as the pass the item is of.     *)
LEMMA ConsumerInPass ==
  ASSUME TypeOK, CounterInv(TRUE), Passes = 1 \/ OftenEnough,
         NEW d \in Cross, NEW s \in Sub
  PROVE  LastBase(Receiver(d, s)) \in Nat /\ LastBase(Receiver(d, s)) <= Consumer(d, s)
<1> DEFINE q == Receiver(d, s)
<1>1. q \in Core /\ d.dst \in 1 .. NumBlocks(q) /\ Consumer(d, s) = runs[q][d.dst]
      /\ Consumer(d, s) \in Nat
  BY EndFacts
<1>2. pass[q] \in Nat /\ Passes \in Nat \ {0} /\ Iterations \in Nat
  BY <1>1, LoopFacts DEF TypeOK
<1>3. CASE pass[q] < Passes
  BY <1>1, <1>3, RunsInPass DEF LastBase, Base
<1>4. CASE pass[q] >= Passes
  <2>1. pass[q] = Passes
    BY <1>1, <1>2, <1>4 DEF CounterInv, LoopInv
  <2>2. LastBase(q) = (Passes - 1) * Iterations /\ LastBase(q) \in Nat
    BY <1>2, <1>4 DEF LastBase
  <2>3. CASE Passes = 1
    BY <1>1, <1>2, <2>2, <2>3
  <2>4. CASE OftenEnough
    <3>1. Consumer(d, s) >= Passes * Iterations
      BY <1>1, <2>1, <2>4 DEF OftenEnough
    <3>2. Passes * Iterations = (Passes - 1) * Iterations + Iterations
      BY <1>2, Products
    <3> QED
      BY <1>1, <1>2, <2>2, <3>1, <3>2
  <2> QED
    BY <2>3, <2>4
<1> QED
  BY <1>2, <1>3, <1>4

LEMMA EmptyIsThere ==
  ASSUME FlightInv, Alternating, Passes = 1 \/ OftenEnough,
         NEW c \in Core, at[c] = "send", NEW d \in todo[c], NEW s \in View(c),
         at[To(d, s)] \notin {"ahead", "behind"}, NEW i \in Turn(c)[d]
  PROVE  empty[d][i][s] > 0
<1>1. /\ TypeOK /\ AccessInv /\ CountInv /\ LoopInv /\ PlaceInv /\ CounterInv(TRUE)
      /\ InStep /\ BufferInv
  BY DEF FlightInv, TransferInv, CountInv, AccessInv
<1>2. d \in Outputs(c, blk[c])
  BY <1>1 DEF PlaceInv, PlaceOf
<1>3. d \in Cross /\ s \in Sub
  BY <1>2, CoreFacts DEF Outputs, View, Core
<1> DEFINE q == Receiver(d, s)
<1>4. /\ c = Sender(d, s) /\ d.src = blk[c] /\ i = CrossIndex(c, blk[c], d)
      /\ d.cap \in {1, 2} /\ q \in Core /\ q # c /\ q = To(d, s)
  BY <1>1, <1>2, <1>3, TransfersOfBlock, TurnIs, EndFacts DEF To, Receiver
<1>5. Inside(c) /\ ~Reserved(d, c)
  BY <1>1 DEF PlaceInv, PlaceOf, Inside, Reserved
<1> DEFINE z == LastBase(q)
           a == Returns(d, s)
           b == Rooms(d, s)
<1>6. /\ a = Consumer(d, s) /\ b = Producer(d, s) /\ a <= b /\ b - a < d.cap
      /\ a \in Nat /\ b \in Nat
  BY <1>1, <1>3, <1>4, <1>5, RoomToSend DEF Rooms, One
<1>7. i = Place(d, b + 1, z) /\ i \in Buffers(d)
  <2>1. i = Place(d, b + 1, z)
    BY <1>1, <1>3, <1>4, <1>5, <1>6, SenderTurn
  <2> QED
    BY <1>4, <2>1 DEF CrossIndex, Buffers
<1>8. empty[d][i][s] = Lent(d, s) - InFlight(d, i, z, a, b)
  BY <1>1, <1>3, <1>7 DEF BufferInv
<1>9. Lent(d, s) = 1
  <2>1. ~Inside(q)
    BY <1>1, <1>3, <1>4, <1>5, ApartInBlocks
  <2>2. at[q] \in {"loop", "through"}
    BY <1>1, <1>4, <2>1 DEF PlaceInv, PlaceOf, Places, Inside
  <2>3. pass[c] \in Nat /\ pass[q] \in Nat /\ Passes \in Nat \ {0}
    BY <1>1, <1>4, LoopFacts DEF TypeOK
  <2>4. Drained(c) = pass[c]
    BY <2>3 DEF Drained
  <2>5. /\ pass[q] < Passes => pass[q] = pass[c]
        /\ pass[q] >= Passes => pass[c] = Passes - 1
    BY <1>1, <1>3, <1>4, <1>5, SenderBase
  <2>6. CASE at[q] = "loop"
    <3>1. pass[q] < Passes
      BY <1>1, <1>4, <2>6 DEF PlaceInv, PlaceOf, LoopInv, InLoop
    <3> QED
      BY <1>4, <2>3, <2>4, <2>5, <2>6, <3>1 DEF Lent, Declared
  <2>7. CASE at[q] = "through"
    <3>1. pass[q] = Passes
      BY <1>1, <1>4, <2>7 DEF PlaceInv, PlaceOf
    <3> QED
      BY <1>4, <2>3, <2>4, <2>5, <2>7, <3>1 DEF Lent, Declared
  <2> QED
    BY <2>2, <2>6, <2>7
<1>10. InFlight(d, i, z, a, b) = 0
  <2>1. z \in Nat /\ z <= a
    BY <1>1, <1>3, <1>6, ConsumerInPass
  <2>2. CASE b = a
    BY <1>6, <2>2, InFlightIs
  <2>3. CASE b = a + 1 /\ d.cap = 2
    <3>1. /\ Place(d, a + 1, z) = IndexAt(d, Lb + Step * (a - z))
          /\ Place(d, b + 1, z) = IndexAt(d, Lb + Step * (a - z + 1))
      <4>1. (a + 1) - 1 - z = a - z /\ (b + 1) - 1 - z = a - z + 1
        BY <1>6, <2>1, <2>3
      <4> QED
        BY <4>1 DEF Place
    <3>2. a - z \in Nat
      BY <1>6, <2>1
    <3>3. Place(d, a + 1, z) # i
      BY <1>3, <1>7, <2>3, <3>1, <3>2, NextBuffer
    <3> HIDE DEF q, z, a, b
    <3>4. ~(a + 2 <= b)
      BY <1>6, <2>3
    <3> QED
      BY <3>3, <3>4 DEF InFlight, One
  <2> QED
    BY <1>4, <1>6, <2>2, <2>3
<1> QED
  BY <1>8, <1>9, <1>10

LEMMA FlightSafe ==
  ASSUME FlightInv, Alternating, Passes = 1 \/ OftenEnough
  PROVE  BlocksNeverStall
BY FilledIsThere, EmptyIsThere DEF BlocksNeverStall

(* With alternating buffers, a block whose condition holds never waits for *)
(* a flag of its transfers, except for that of a consumer which is between *)
(* two passes; in a kernel that runs its main loop once, in every run.     *)
THEOREM OnePassNeverStalls ==
  ASSUME Alternating, Passes = 1
  PROVE  TransferSpec => []BlocksNeverStall
<1>1. FlightInv /\ [TransferNext]_allVars => FlightInv'
  BY FlightNext
<1>2. FlightInv => BlocksNeverStall
  BY FlightSafe
<1> QED
  BY FlightInit, <1>1, <1>2, PTL DEF TransferSpec

(* In a kernel that runs it several times, as long as every pass makes all *)
(* its iterations.                                                         *)
THEOREM NeverStalls ==
  ASSUME Alternating
  PROVE  TransferSpec /\ []OftenEnough => []BlocksNeverStall
<1>1. FlightInv /\ OftenEnough' /\ [TransferNext]_allVars => FlightInv'
  BY FlightNext
<1>2. FlightInv /\ OftenEnough => BlocksNeverStall
  BY FlightSafe
<1> QED
  BY FlightInit, <1>1, <1>2, PTL DEF TransferSpec

(* In a steady kernel every pass does, so no block whose condition holds   *)
(* ever waits for its transfer flags, except for those of a consumer that  *)
(* is between two passes.                                                  *)
THEOREM SteadyNeverStalls ==
  ASSUME Alternating, Steady, NoOverflow
  PROVE  TransferSpec => []BlocksNeverStall
<1>1. TransferSpec => []OftenEnough
  BY FlagsAddNoStep, OftenInSteadyKernels, PTL
<1> QED
  BY <1>1, NeverStalls, PTL

=============================================================================
