---------------------------- MODULE Allocation ----------------------------
(***************************************************************************)
(* AllocationAnalysis (lib/Analysis/Allocation.cpp): which bytes of shared *)
(* memory each buffer of a function gets.  Sizes, alignments and lifetimes *)
(* are the input; the analysis stacks the buffers greedily                 *)
(* (calculateStarts) and then moves buffers up until none that are live    *)
(* together share a byte (buildInterferenceGraph, allocate).  One step is  *)
(* one turn of one of its innermost loops over buffers, or one graph built.*)
(*                                                                         *)
(* A request is the list of buffers in the order of the stable sort by     *)
(* descending size.  Intervals are half-open, <<start, end>>.  `ws' is the *)
(* warp_specialize op around the buffer's owner (0: none), `region' the    *)
(* region its owner lies in: the regions of one such op run at the same    *)
(* time, whatever the order of their text, those of two ops do not.        *)
(***************************************************************************)
EXTENDS Integers, Sequences, FiniteSets, SequencesExt

CONSTANTS
  Requests,   \* lists of buffers [size, alignment, range, ws, region]
  Horizon     \* a time after every lifetime: the end of the default Interval

Time == 0 .. Horizon

Buffer == [size : Nat \ {0}, alignment : Nat \ {0}, range : Time \X Time,
           ws : Nat, region : Nat]

IsRequest(bs) ==
  /\ bs \in Seq(Buffer) /\ bs # <<>>
  /\ \A i \in DOMAIN bs : bs[i].range[1] < bs[i].range[2]
  /\ \A i, j \in DOMAIN bs : i < j => bs[i].size >= bs[j].size

ASSUME RequestAssumption == Horizon \in Nat /\ \A bs \in Requests : IsRequest(bs)

VARIABLES
  buffers,            \* the request, as sorted by computeOffsets
  offset,             \* offset of each buffer
  xBuffers,           \* the buffers (indices) calculateStarts has not placed yet
  tripleMap,          \* its multimap, in key order: [offset, range]
  interference,       \* edges <<x, y>> of the current graph
  colors,             \* of the buffers in the current pass of allocate, -1: none
  turn,               \* the buffer a loop of allocate has got to
  sharedMemorySize,   \* of the last pass of allocate
  pc                  \* "collect" | "starts" | "color" | "move" | "moved" | "done"

vars == <<buffers, offset, xBuffers, tripleMap, interference, colors, turn, sharedMemorySize, pc>>

Ids == DOMAIN buffers

Intersects(r, s) == r[1] < s[2] /\ s[1] < r[2]

Smaller(a, b) == IF a < b THEN a ELSE b
Larger(a, b) == IF a > b THEN a ELSE b

(* Mutant: alignment rounds down.                                          *)
AlignDown(n, alignment) == alignment * (n \div alignment)

AlignTo(n, alignment) == alignment * ((n + alignment - 1) \div alignment)

Bytes(x) == <<offset[x], offset[x] + buffers[x].size>>

Init ==
  /\ buffers = <<>> /\ offset = <<>> /\ xBuffers = {} /\ tripleMap = <<>>
  /\ interference = {} /\ colors = <<>> /\ turn = 0 /\ sharedMemorySize = 0
  /\ pc = "collect"

(* computeOffsets has the buffers of the function, sorted.                 *)
Collect ==
  /\ pc = "collect"
  /\ buffers' \in Requests
  /\ offset' = [x \in DOMAIN buffers' |-> 0]
  /\ xBuffers' = DOMAIN buffers'
  /\ tripleMap' = <<[offset |-> 0, range |-> <<0, Horizon>>]>>
  /\ pc' = "starts"
  /\ UNCHANGED <<interference, colors, turn, sharedMemorySize>>

(* multimap::insert puts an element after those with the same key.         *)
InsertTriple(map, t) ==
  LET before == Cardinality({i \in DOMAIN map : map[i].offset <= t.offset})
  IN  InsertAt(map, before + 1, t)

(* The buffers that meet the triple's range and that of no other triple.   *)
Candidates(t, others) ==
  {x \in xBuffers :
     /\ Intersects(buffers[x].range, t.range)
     /\ \A i \in DOMAIN others : ~Intersects(others[i].range, buffers[x].range)}

(* The time that buffer x shares with the triple t, above x                *)
Above(x, t, place) ==
  [offset |-> place + buffers[x].size,
   range |-> <<Larger(t.range[1], buffers[x].range[1]), Smaller(t.range[2], buffers[x].range[2])>>]

(* Mutant: the time the placed buffer leaves free is forgotten.            *)
TriplesAfterGreedy(rest, x, t, place) == InsertTriple(rest, Above(x, t, place))

(* The map after triple t: buffer x lies at `place'.                       *)
TriplesAfter(rest, x, t, place) ==
  LET r == t.range
      xr == buffers[x].range
      above == InsertTriple(rest, Above(x, t, place))
      before == IF r[1] < xr[1]
                THEN InsertTriple(above, [offset |-> t.offset, range |-> <<r[1], xr[2]>>])
                ELSE above
  IN  IF xr[2] < r[2]
      THEN InsertTriple(before, [offset |-> t.offset, range |-> <<xr[1], r[2]>>])
      ELSE before

(* One turn of calculateStarts: take the lowest triple; the first buffer   *)
(* that fits it alone is placed there, otherwise the triple is dropped.    *)
(* The loop reads tripleMap.begin() without asking whether there is one.   *)
CalculateStarts ==
  /\ pc = "starts" /\ xBuffers # {} /\ tripleMap # <<>>
  /\ \E t \in {Head(tripleMap)}, rest \in {Tail(tripleMap)} : \E fits \in {Candidates(t, rest)} :
       \/ /\ fits = {}
          /\ tripleMap' = rest /\ UNCHANGED <<offset, xBuffers>>
       \/ \E x \in fits :
            /\ \A z \in fits : x <= z
            /\ offset' = [offset EXCEPT ![x] = AlignTo(t.offset, buffers[x].alignment)]
            /\ xBuffers' = xBuffers \ {x}
            /\ tripleMap' = TriplesAfter(rest, x, t, offset'[x])
  /\ UNCHANGED <<buffers, interference, colors, turn, sharedMemorySize, pc>>

(* Mutant: partitions are taken to run one after the other.                *)
InterfereByTime(x, y) ==
  /\ x # y
  /\ Intersects(Bytes(x), Bytes(y))
  /\ Intersects(buffers[x].range, buffers[y].range)

(* In different regions of one warp_specialize op                          *)
SideBySide(x, y) ==
  /\ buffers[x].ws # 0 /\ buffers[x].ws = buffers[y].ws
  /\ buffers[x].region # buffers[y].region

Interfere(x, y) ==
  /\ x # y
  /\ Intersects(Bytes(x), Bytes(y))
  /\ Intersects(buffers[x].range, buffers[y].range) \/ SideBySide(x, y)

InterferenceGraph == {e \in Ids \X Ids : Interfere(e[1], e[2])}

(* All buffers placed, or a pass of allocate done: the graph is built, and *)
(* the next pass begins unless it is empty behind one.                     *)
BuildInterferenceGraph ==
  /\ (pc = "starts" /\ xBuffers = {}) \/ pc = "moved"
  /\ interference' = InterferenceGraph
  /\ \/ /\ pc = "moved" /\ interference' = {}
        /\ pc' = "done"
        /\ UNCHANGED <<colors, turn, sharedMemorySize>>
     \/ /\ pc = "starts" \/ interference' # {}
        /\ pc' = "color"
        /\ colors' = [x \in Ids |-> IF x = 1 THEN 0 ELSE -1]
        /\ turn' = 1
        /\ sharedMemorySize' = 0
  /\ UNCHANGED <<buffers, offset, xBuffers, tripleMap>>

Neighbours(x) == {y \in Ids : <<x, y>> \in interference}

(* A loop of allocate goes on to the next buffer, or is over.              *)
NextTurn(next) ==
  IF turn = Len(buffers) THEN turn' = 1 /\ pc' = next ELSE turn' = turn + 1 /\ UNCHANGED pc

(* allocate, first loop: the first colour no neighbour has yet             *)
Color ==
  /\ pc = "color"
  /\ \E used \in {{colors[y] : y \in Neighbours(turn)}} : \E c \in 0 .. Len(buffers) :
       /\ c \notin used /\ 0 .. c - 1 \subseteq used
       /\ colors' = [colors EXCEPT ![turn] = c]
  /\ NextTurn("move")
  /\ UNCHANGED <<buffers, offset, xBuffers, tripleMap, interference, sharedMemorySize>>

(* Above all neighbours, of which those earlier in the list have moved     *)
(* already                                                                 *)
NewOffset(x) ==
  LET ends == {0} \cup {offset[y] + buffers[y].size : y \in Neighbours(x)}
  IN  CHOOSE e \in ends : \A f \in ends : f <= e

(* Second loop: a buffer whose colour is not 0 moves.                      *)
Move ==
  /\ pc = "move"
  /\ offset' = IF colors[turn] = 0 THEN offset
               ELSE [offset EXCEPT ![turn] = AlignTo(NewOffset(turn), buffers[turn].alignment)]
  /\ sharedMemorySize' = Larger(sharedMemorySize, offset'[turn] + buffers[turn].size)
  /\ NextTurn("moved")
  /\ UNCHANGED <<buffers, xBuffers, tripleMap, interference, colors>>

Done == pc = "done" /\ UNCHANGED vars

Next == Collect \/ CalculateStarts \/ BuildInterferenceGraph \/ Color \/ Move \/ Done

(* The analysis is one sequential computation: it keeps running.           *)
Spec == Init /\ [][Next]_vars /\ WF_vars(Next)

-----------------------------------------------------------------------------

(* calculateStarts takes tripleMap.begin() as long as a buffer is left:    *)
(* there must be a triple, although triples that fit no buffer are thrown  *)
(* away.                                                                   *)
TriplesLast == pc = "starts" /\ xBuffers # {} => tripleMap # <<>>

(* The intent of the allocation, in bytes: no byte belongs to two buffers  *)
(* that hold data at the same time (overlapping lifetimes, or partitions   *)
(* that run side by side), every buffer is aligned, and the size reported  *)
(* to the caller and the launcher covers all of them.                      *)
Together(x, y) ==
  \/ \E t \in 0 .. Horizon - 1 :
       /\ buffers[x].range[1] <= t /\ t < buffers[x].range[2]
       /\ buffers[y].range[1] <= t /\ t < buffers[y].range[2]
  \/ SideBySide(x, y)

Owned(x) == offset[x] .. offset[x] + buffers[x].size - 1

MemoryIsSound ==
  pc = "done" =>
    /\ \A x, y \in Ids : x # y /\ Together(x, y) => Owned(x) \cap Owned(y) = {}
    /\ \A x \in Ids : offset[x] % buffers[x].alignment = 0
    /\ \A x \in Ids : Owned(x) \subseteq 0 .. sharedMemorySize - 1

(* ... and the loop does end, for every request.                           *)
Termination == <>(pc = "done")

=============================================================================
