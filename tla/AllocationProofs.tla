-------------------------- MODULE AllocationProofs --------------------------
(***************************************************************************)
(* For every list of buffers: calculateStarts never takes a triple from an *)
(* empty map, and when the allocation ends no byte has two owners, every   *)
(* buffer is aligned and the size reported covers all of them.             *)
(*                                                                         *)
(* The argument for the first.  A triple stands for a span of time, and    *)
(* every buffer that is not placed yet meets one of them.  A triple is     *)
(* thrown away only when each of the buffers it meets also meets another;  *)
(* when a buffer is placed in it, the up to three triples that follow it   *)
(* cover the time it covered.                                              *)
(*                                                                         *)
(* For the second: a pass of allocate sets only multiples of the alignment *)
(* and takes every buffer into the size; and the loop ends only with an    *)
(* empty graph, which has been built from the offsets it ends with.        *)
(***************************************************************************)
EXTENDS Allocation, WellFoundedInduction, FiniteSetTheorems, SequenceTheorems, TLAPS

(* Induction, in the form the provers can use: the least counterexample.   *)
LEMMA LeastNat ==
  ASSUME NEW T, T \subseteq Nat, T # {}
  PROVE  \E n \in T : \A m \in T : n <= m
<1>1. \E x \in T : \A y \in T : ~ (<<y, x>> \in OpToRel(<, Nat))
  BY NatLessThanWellFounded, WFMin, Zenon
<1>2. \E x \in T : \A y \in T : ~ (y < x)
  BY <1>1, Zenon DEF OpToRel
<1> QED
  BY <1>2

(* A finite set of numbers has a greatest.                                 *)
LEMMA GreatestNat ==
  ASSUME NEW ns \in SUBSET Nat, IsFiniteSet(ns), ns # {}
  PROVE  \E e \in ns : \A f \in ns : f <= e
<1> DEFINE Has(S) == \E e \in S : \A f \in S : f <= e
           Bad == {S \in SUBSET ns : S # {} /\ ~ Has(S)}
           Sizes == {Cardinality(S) : S \in Bad}
<1>1. SUFFICES ASSUME Bad # {} PROVE FALSE
  <2>1. ns \notin Bad
    BY <1>1
  <2> QED
    BY <2>1
<1>2. \A S \in SUBSET ns : IsFiniteSet(S) /\ Cardinality(S) \in Nat
  BY FS_Subset, FS_CardinalityType
<1>3. PICK n \in Sizes : \A m \in Sizes : n <= m
  <2>1. Sizes \subseteq Nat /\ Sizes # {}
    BY <1>1, <1>2
  <2> HIDE DEF Sizes
  <2> QED
    BY <2>1, LeastNat
<1>4. PICK S \in Bad : n = Cardinality(S)
  OBVIOUS
<1>5. PICK f \in S : TRUE
  BY <1>4
<1> DEFINE R == S \ {f}
<1>6. R \in SUBSET ns /\ Cardinality(R) = Cardinality(S) - 1
  BY <1>2, <1>4, <1>5, FS_RemoveElement
<1>7. R \notin Bad
  <2>1. ~ (Cardinality(S) <= Cardinality(R))
    BY <1>2, <1>4, <1>6
  <2> QED
    BY <1>3, <1>4, <2>1
<1>8. f \in Nat
  BY <1>4, <1>5
<1>9. CASE R = {}
  <2>1. S = {f}
    BY <1>5, <1>9
  <2> QED
    BY <1>4, <1>8, <2>1
<1>10. CASE R # {}
  <2>1. PICK e \in R : \A g \in R : g <= e
    BY <1>6, <1>7, <1>10
  <2>2. e \in S /\ e \in Nat /\ \A g \in S : g = f \/ g \in R
    BY <1>6, <2>1
  <2>3. CASE f <= e
    <3>1. Has(S)
      BY <2>1, <2>2, <2>3
    <3> QED
      BY <1>4, <3>1
  <2>4. CASE e <= f
    <3>1. \A g \in R : g <= f
      BY <1>6, <1>8, <2>1, <2>2, <2>4
    <3>2. Has(S)
      BY <1>5, <1>8, <2>2, <3>1
    <3> QED
      BY <1>4, <3>2
  <2> QED
    BY <1>8, <2>2, <2>3, <2>4
<1> QED
  BY <1>9, <1>10

LEMMA AlignToFacts ==
  ASSUME NEW n \in Nat, NEW a \in Nat \ {0}
  PROVE  /\ AlignTo(n, a) \in Nat /\ n <= AlignTo(n, a)
         /\ AlignTo(n, a) % a = 0
<1> DEFINE q == (n + a - 1) \div a
<1>1. q \in Nat /\ n + a - 1 < a * q + a
  OBVIOUS
<1>2. AlignTo(n, a) = a * q
  BY DEF AlignTo
<1> HIDE DEF q
<1>3. a * q \in Nat /\ n <= a * q
  BY <1>1
<1>4. (a * q) % a = 0
  BY <1>1
<1> QED
  BY <1>2, <1>3, <1>4

-----------------------------------------------------------------------------
(* Triples.                                                                *)

Triple == [offset : Nat, range : Time \X Time]

(* A triple or a lifetime that lasts                                       *)
Lasts(r) == r \in Time \X Time /\ r[1] < r[2]

Covered(map, t) == \E i \in DOMAIN map : map[i] = t

IsMap(map) ==
  /\ map \in Seq(Triple)
  /\ \A i \in DOMAIN map : Lasts(map[i].range)

(* x meets a triple of the map.                                            *)
Meets(map, x) == \E i \in DOMAIN map : Intersects(map[i].range, buffers[x].range)

Inserted(S, s, e, new) ==
  /\ new \in Seq(S)
  /\ \A i \in DOMAIN new : new[i] = e \/ \E k \in DOMAIN s : new[i] = s[k]
  /\ \A k \in DOMAIN s : \E i \in DOMAIN new : new[i] = s[k]
  /\ \E i \in DOMAIN new : new[i] = e

(* An insertion keeps what is there and adds the new element.              *)
LEMMA InsertAtFacts ==
  ASSUME NEW S, NEW s, s \in Seq(S), NEW e \in S, NEW b \in Nat, b <= Len(s)
  PROVE  Inserted(S, s, e, InsertAt(s, b + 1, e))
<1>1. Len(s) \in Nat /\ DOMAIN s = 1 .. Len(s) /\ \A i \in 1 .. Len(s) : s[i] \in S
  <2>1. Len(s) \in Nat /\ DOMAIN s = 1 .. Len(s)
    BY LenProperties, Zenon
  <2>2. \A i \in 1 .. Len(s) : s[i] \in S
    BY ElementOfSeq, SMTT(30)
  <2> QED
    BY <2>1, <2>2
<1>2. PICK n \in Nat : n = Len(s)
  BY <1>1
<1>3. DOMAIN s = 1 .. n /\ b <= n /\ \A i \in 1 .. n : s[i] \in S
  BY <1>1, <1>2
<1>4. PICK left : left = SubSeq(s, 1, b)
  OBVIOUS
<1>5. PICK right : right = SubSeq(s, b + 1, n)
  OBVIOUS
<1>6. PICK new : new = InsertAt(s, b + 1, e)
  OBVIOUS
<1>7. new = left \o <<e>> \o right
  <2>1. (b + 1) - 1 = b
    OBVIOUS
  <2> QED
    BY <1>2, <1>4, <1>5, <1>6, <2>1 DEF InsertAt
<1>8. /\ left \in Seq(S) /\ Len(left) = b
      /\ \A i \in 1 .. b : left[i] = s[i]
  <2>1. \A i \in 1 .. b : s[i] \in S
    BY <1>3
  <2>2. /\ left \in Seq(S) /\ Len(left) = IF 1 <= b THEN b - 1 + 1 ELSE 0
        /\ \A i \in 1 .. b - 1 + 1 : left[i] = s[1 + i - 1]
    BY <1>4, <2>1, SubSeqProperties
  <2>3. b - 1 + 1 = b /\ (1 <= b \/ b = 0)
    OBVIOUS
  <2>4. \A i \in 1 .. b : 1 + i - 1 = i
    OBVIOUS
  <2> QED
    BY <2>2, <2>3, <2>4
<1>9. PICK m \in Nat : m = n - b
  BY <1>3
<1>10. /\ right \in Seq(S) /\ Len(right) = m
       /\ \A i \in 1 .. m : right[i] = s[b + i]
  <2>1. PICK c \in Nat : c = b + 1
    OBVIOUS
  <2>2. \A i \in c .. n : s[i] \in S
    BY <1>3, <2>1
  <2>3. /\ right \in Seq(S) /\ Len(right) = IF c <= n THEN n - c + 1 ELSE 0
        /\ \A i \in 1 .. n - c + 1 : right[i] = s[c + i - 1]
    BY <1>5, <2>1, <2>2, SubSeqProperties
  <2>4. n - c + 1 = m /\ (c <= n <=> m # 0)
    BY <1>3, <1>9, <2>1
  <2>5. \A i \in 1 .. m : c + i - 1 = b + i
    BY <2>1
  <2>6. right \in Seq(S) /\ Len(right) = m
    BY <2>3, <2>4
  <2> QED
    BY <2>3, <2>4, <2>5, <2>6
<1>11. PICK l : l = left \o <<e>>
  OBVIOUS
<1>12. l \in Seq(S) /\ Len(l) = b + 1 /\ l[b + 1] = e /\ \A i \in 1 .. b : l[i] = s[i]
  <2>1. <<e>> \in Seq(S) /\ Len(<<e>>) = 1 /\ <<e>>[1] = e
    OBVIOUS
  <2>2. /\ l \in Seq(S) /\ Len(l) = b + 1
        /\ \A i \in 1 .. b + 1 : l[i] = IF i <= b THEN left[i] ELSE <<e>>[i - b]
    BY <1>8, <1>11, <2>1, ConcatProperties
  <2>3. b + 1 \in 1 .. b + 1 /\ ~ (b + 1 <= b) /\ (b + 1) - b = 1
    OBVIOUS
  <2>4. l[b + 1] = e
    BY <2>1, <2>2, <2>3
  <2>5. \A i \in 1 .. b : i \in 1 .. b + 1 /\ i <= b
    OBVIOUS
  <2> QED
    BY <1>8, <2>2, <2>4, <2>5
<1>13. /\ new \in Seq(S) /\ Len(new) = n + 1
       /\ \A i \in 1 .. n + 1 : new[i] = IF i <= b + 1 THEN l[i] ELSE right[i - (b + 1)]
  <2>1. new = l \o right
    BY <1>7, <1>11
  <2>2. /\ new \in Seq(S) /\ Len(new) = Len(l) + Len(right)
        /\ \A i \in 1 .. Len(l) + Len(right) : new[i] = IF i <= Len(l) THEN l[i] ELSE right[i - Len(l)]
    BY <1>10, <1>12, <2>1, ConcatProperties
  <2>3. (b + 1) + m = n + 1
    BY <1>9
  <2>4. Len(l) + Len(right) = n + 1
    BY <1>10, <1>12, <2>3
  <2> QED
    BY <1>12, <2>2, <2>4
<1>14. new \in Seq(S) /\ DOMAIN new = 1 .. n + 1
  BY <1>13
<1>15. b + 1 \in 1 .. n + 1 /\ new[b + 1] = e
  <2>1. b + 1 \in 1 .. n + 1 /\ b + 1 <= b + 1
    BY <1>3
  <2> QED
    BY <1>12, <1>13, <2>1
<1>16. \A i \in 1 .. b : i \in 1 .. n + 1 /\ new[i] = s[i]
  <2>1. \A i \in 1 .. b : i \in 1 .. n + 1 /\ i <= b + 1
    BY <1>3
  <2> QED
    BY <1>12, <1>13, <2>1
<1>17. \A i \in b + 1 .. n : i + 1 \in 1 .. n + 1 /\ new[i + 1] = s[i]
  <2> TAKE i \in b + 1 .. n
  <2>1. PICK j \in 1 .. m : j = (i + 1) - (b + 1) /\ b + j = i
    BY <1>3, <1>9
  <2>2. i + 1 \in 1 .. n + 1 /\ ~ (i + 1 <= b + 1)
    BY <1>3
  <2>3. new[i + 1] = right[j]
    BY <1>13, <2>1, <2>2
  <2> QED
    BY <1>10, <2>1, <2>2, <2>3
<1>18. \A i \in 1 .. n + 1 : new[i] = e \/ \E k \in 1 .. n : new[i] = s[k]
  <2> TAKE i \in 1 .. n + 1
  <2>1. CASE i \in 1 .. b
    <3>1. i \in 1 .. n
      BY <1>3, <2>1
    <3> QED
      BY <1>16, <2>1, <3>1
  <2>2. CASE i = b + 1
    BY <1>15, <2>2
  <2>3. CASE i \in b + 2 .. n + 1
    <3>1. PICK k \in b + 1 .. n : i = k + 1 /\ k \in 1 .. n
      <4>1. i - 1 \in b + 1 .. n /\ i = (i - 1) + 1 /\ i - 1 \in 1 .. n
        BY <2>3
      <4> QED
        BY <4>1
    <3> QED
      BY <1>17, <3>1
  <2>4. i \in 1 .. b \/ i = b + 1 \/ i \in b + 2 .. n + 1
    OBVIOUS
  <2> QED
    BY <2>1, <2>2, <2>3, <2>4
<1>19. \A k \in 1 .. n : \E i \in 1 .. n + 1 : new[i] = s[k]
  <2> TAKE k \in 1 .. n
  <2>1. k \in 1 .. b \/ k \in b + 1 .. n
    OBVIOUS
  <2>2. CASE k \in 1 .. b
    BY <1>16, <2>2
  <2>3. CASE k \in b + 1 .. n
    BY <1>17, <2>3
  <2> QED
    BY <2>1, <2>2, <2>3
<1>20. Inserted(S, s, e, new)
  BY <1>3, <1>14, <1>15, <1>18, <1>19, Zenon DEF Inserted
<1> QED
  BY <1>6, <1>20

LEMMA InsertTripleFacts ==
  ASSUME NEW map, IsMap(map), NEW t \in Triple, Lasts(t.range)
  PROVE  /\ IsMap(InsertTriple(map, t))
         /\ \A x : Meets(InsertTriple(map, t), x) <=> Meets(map, x) \/ Intersects(t.range, buffers[x].range)
<1>1. map \in Seq(Triple)
  BY DEF IsMap
<1>2. PICK L : L = {i \in DOMAIN map : map[i].offset <= t.offset}
  OBVIOUS
<1>3. PICK b : b = Cardinality(L)
  OBVIOUS
<1>4. b \in Nat /\ b <= Len(map)
  <2>1. PICK n \in Nat : n = Len(map) /\ DOMAIN map = 1 .. n
    BY <1>1
  <2>2. PICK D : D = 1 .. n
    OBVIOUS
  <2>3. IsFiniteSet(D) /\ Cardinality(D) = n
    <3>1. 1 \in Int /\ n \in Int
      OBVIOUS
    <3>2. IsFiniteSet(1 .. n) /\ Cardinality(1 .. n) = IF 1 > n THEN 0 ELSE n - 1 + 1
      BY <3>1, FS_Interval
    <3> QED
      BY <2>2, <3>2
  <2>4. L \in SUBSET D
    BY <1>2, <2>1, <2>2
  <2>5. IsFiniteSet(L) /\ Cardinality(L) <= Cardinality(D)
    BY <2>3, <2>4, FS_Subset
  <2>6. Cardinality(L) \in Nat
    BY <2>5, FS_CardinalityType
  <2> QED
    BY <1>3, <2>1, <2>3, <2>5, <2>6
<1>5. PICK new : new = InsertTriple(map, t)
  OBVIOUS
<1>6. Inserted(Triple, map, t, new)
  <2>1. new = InsertAt(map, b + 1, t)
    BY <1>2, <1>3, <1>5 DEF InsertTriple
  <2>2. Inserted(Triple, map, t, InsertAt(map, b + 1, t))
    BY <1>1, <1>4, InsertAtFacts
  <2> QED
    BY <2>1, <2>2
<1>7. IsMap(new)
  BY <1>6 DEF IsMap, Inserted
<1>8. \A x : Meets(new, x) <=> Meets(map, x) \/ Intersects(t.range, buffers[x].range)
  BY <1>6 DEF Meets, Inserted
<1> QED
  BY <1>5, <1>7, <1>8
LEMMA TimeFacts ==
  /\ Horizon \in Nat /\ Time \subseteq Nat
  /\ \A r : Lasts(r) => r[1] \in Nat /\ r[2] \in Nat /\ r[1] < r[2]
<1>1. Horizon \in Nat
  BY RequestAssumption
<1>2. Time \subseteq Nat
  BY <1>1 DEF Time
<1>3. \A r \in Time \X Time : r[1] \in Time /\ r[2] \in Time
  OBVIOUS
<1> QED
  BY <1>1, <1>2, <1>3 DEF Lasts

(* The time that two lifetimes share, and what follows the shorter one.    *)
LEMMA Shared ==
  ASSUME NEW r, NEW s, Lasts(r), Lasts(s), Intersects(s, r)
  PROVE  /\ Lasts(<<Larger(r[1], s[1]), Smaller(r[2], s[2])>>)
         /\ r[1] < s[1] => Lasts(<<r[1], s[2]>>)
         /\ s[2] < r[2] => Lasts(<<s[1], r[2]>>)
<1>1. r[1] \in Time /\ r[2] \in Time /\ s[1] \in Time /\ s[2] \in Time
  BY DEF Lasts
<1>2. r[1] \in Nat /\ r[2] \in Nat /\ s[1] \in Nat /\ s[2] \in Nat
  BY <1>1, TimeFacts
<1>3. r[1] < r[2] /\ s[1] < s[2] /\ s[1] < r[2] /\ r[1] < s[2]
  BY DEF Lasts, Intersects
<1>4. /\ Larger(r[1], s[1]) \in {r[1], s[1]} /\ Smaller(r[2], s[2]) \in {r[2], s[2]}
      /\ Larger(r[1], s[1]) < Smaller(r[2], s[2])
  BY <1>2, <1>3 DEF Larger, Smaller
<1>5. Larger(r[1], s[1]) \in Time /\ Smaller(r[2], s[2]) \in Time
  BY <1>1, <1>4
<1> QED
  BY <1>1, <1>3, <1>4, <1>5 DEF Lasts

(* Together the three cover the first, so that they meet what it meets.    *)
LEMMA SharedCovers ==
  ASSUME NEW r, NEW s, NEW y, Lasts(r), Lasts(s), Lasts(y), Intersects(s, r), Intersects(r, y)
  PROVE  \/ Intersects(<<Larger(r[1], s[1]), Smaller(r[2], s[2])>>, y)
         \/ r[1] < s[1] /\ Intersects(<<r[1], s[2]>>, y)
         \/ s[2] < r[2] /\ Intersects(<<s[1], r[2]>>, y)
<1>1. /\ r[1] \in Nat /\ r[2] \in Nat /\ s[1] \in Nat /\ s[2] \in Nat /\ y[1] \in Nat /\ y[2] \in Nat
      /\ r[1] < r[2] /\ s[1] < s[2] /\ y[1] < y[2]
  BY TimeFacts
<1>2. s[1] < r[2] /\ r[1] < s[2] /\ r[1] < y[2] /\ y[1] < r[2]
  BY DEF Intersects
<1>3. \A a, b : <<a, b>>[1] = a /\ <<a, b>>[2] = b
  OBVIOUS
<1>4. CASE y[2] <= s[1]
  BY <1>1, <1>2, <1>3, <1>4 DEF Intersects
<1>5. CASE s[2] <= y[1]
  BY <1>1, <1>2, <1>3, <1>5 DEF Intersects
<1>6. CASE s[1] < y[2] /\ y[1] < s[2]
  BY <1>1, <1>2, <1>3, <1>6 DEF Intersects, Larger, Smaller
<1> QED
  BY <1>1, <1>4, <1>5, <1>6

(* What follows a triple in which a buffer is placed.                      *)
LEMMA TriplesAfterFacts ==
  ASSUME NEW rest, IsMap(rest), NEW t \in Triple, Lasts(t.range),
         NEW x, buffers[x].size \in Nat, Lasts(buffers[x].range), Intersects(buffers[x].range, t.range),
         NEW place \in Nat
  PROVE  /\ IsMap(TriplesAfter(rest, x, t, place))
         /\ \A y : /\ Lasts(buffers[y].range)
                   /\ Meets(rest, y) \/ Intersects(t.range, buffers[y].range)
                   => Meets(TriplesAfter(rest, x, t, place), y)
<1>1. PICK r : r = t.range
  OBVIOUS
<1>2. PICK s : s = buffers[x].range
  OBVIOUS
<1>3. Lasts(r) /\ Lasts(s) /\ Intersects(s, r)
  BY <1>1, <1>2
<1>4. PICK up : up = Above(x, t, place)
  OBVIOUS
<1>5. PICK left : left = [offset |-> t.offset, range |-> <<r[1], s[2]>>]
  OBVIOUS
<1>6. PICK right : right = [offset |-> t.offset, range |-> <<s[1], r[2]>>]
  OBVIOUS
<1>7. PICK above : above = InsertTriple(rest, up)
  OBVIOUS
<1>8. PICK before : before = IF r[1] < s[1] THEN InsertTriple(above, left) ELSE above
  OBVIOUS
<1>9. PICK new : new = IF s[2] < r[2] THEN InsertTriple(before, right) ELSE before
  OBVIOUS
<1>10. new = TriplesAfter(rest, x, t, place)
  BY <1>1, <1>2, <1>4, <1>5, <1>6, <1>7, <1>8, <1>9 DEF TriplesAfter
<1>11. /\ up \in Triple /\ up.range = <<Larger(r[1], s[1]), Smaller(r[2], s[2])>>
       /\ Lasts(up.range)
  <2>1. up = [offset |-> place + buffers[x].size, range |-> <<Larger(r[1], s[1]), Smaller(r[2], s[2])>>]
    BY <1>1, <1>2, <1>4 DEF Above
  <2>2. up.range = <<Larger(r[1], s[1]), Smaller(r[2], s[2])>> /\ up.offset = place + buffers[x].size
    BY <2>1
  <2>3. Lasts(up.range)
    BY <1>3, <2>2, Shared
  <2>4. up.offset \in Nat /\ up.range \in Time \X Time
    BY <2>2, <2>3 DEF Lasts
  <2> QED
    BY <2>1, <2>2, <2>3, <2>4 DEF Triple
<1>12. r[1] < s[1] => left \in Triple /\ left.range = <<r[1], s[2]>> /\ Lasts(left.range)
  <2>1. r[1] < s[1] => Lasts(<<r[1], s[2]>>)
    BY <1>3, Shared
  <2> QED
    BY <1>5, <2>1 DEF Triple, Lasts
<1>13. s[2] < r[2] => right \in Triple /\ right.range = <<s[1], r[2]>> /\ Lasts(right.range)
  <2>1. s[2] < r[2] => Lasts(<<s[1], r[2]>>)
    BY <1>3, Shared
  <2> QED
    BY <1>6, <2>1 DEF Triple, Lasts
<1>14. /\ IsMap(above)
       /\ \A y : Meets(above, y) <=> Meets(rest, y) \/ Intersects(up.range, buffers[y].range)
  BY <1>7, <1>11, InsertTripleFacts
<1>15. /\ IsMap(before)
       /\ \A y : Meets(above, y) => Meets(before, y)
       /\ \A y : r[1] < s[1] /\ Intersects(left.range, buffers[y].range) => Meets(before, y)
  <2>1. CASE r[1] < s[1]
    <3>1. before = InsertTriple(above, left) /\ left \in Triple /\ Lasts(left.range)
      BY <1>8, <1>12, <2>1
    <3> QED
      BY <1>14, <3>1, InsertTripleFacts
  <2>2. CASE ~ (r[1] < s[1])
    BY <1>8, <1>14, <2>2
  <2> QED
    BY <2>1, <2>2
<1>16. /\ IsMap(new)
       /\ \A y : Meets(before, y) => Meets(new, y)
       /\ \A y : s[2] < r[2] /\ Intersects(right.range, buffers[y].range) => Meets(new, y)
  <2>1. CASE s[2] < r[2]
    <3>1. new = InsertTriple(before, right) /\ right \in Triple /\ Lasts(right.range)
      BY <1>9, <1>13, <2>1
    <3> QED
      BY <1>15, <3>1, InsertTripleFacts
  <2>2. CASE ~ (s[2] < r[2])
    BY <1>9, <1>15, <2>2
  <2> QED
    BY <2>1, <2>2
<1>17. ASSUME NEW y, Lasts(buffers[y].range), Intersects(t.range, buffers[y].range)
       PROVE  Meets(new, y)
  <2>1. \/ Intersects(<<Larger(r[1], s[1]), Smaller(r[2], s[2])>>, buffers[y].range)
        \/ r[1] < s[1] /\ Intersects(<<r[1], s[2]>>, buffers[y].range)
        \/ s[2] < r[2] /\ Intersects(<<s[1], r[2]>>, buffers[y].range)
    BY <1>1, <1>3, <1>17, SharedCovers
  <2> QED
    BY <1>11, <1>12, <1>13, <1>14, <1>15, <1>16, <2>1
<1>18. \A y : Meets(rest, y) => Meets(new, y)
  BY <1>14, <1>15, <1>16
<1> QED
  BY <1>10, <1>16, <1>17, <1>18

-----------------------------------------------------------------------------
(* The invariant.                                                          *)

TypeInv ==
  /\ pc \in {"collect", "starts", "color", "move", "moved", "done"}
  /\ sharedMemorySize \in Nat
  /\ interference \subseteq Ids \X Ids
  /\ pc \in {"collect", "starts"} => interference = {}
  /\ pc # "collect" => /\ buffers \in Requests
                       /\ offset \in [Ids -> Nat]
                       /\ xBuffers \subseteq Ids
  /\ pc \in {"color", "move"} => turn \in Ids

(* Every buffer to be placed meets a triple.                               *)
TripleInv ==
  pc = "starts" => IsMap(tripleMap) /\ \A x \in xBuffers : Meets(tripleMap, x)

AlignInv == pc # "collect" => \A x \in Ids : offset[x] % buffers[x].alignment = 0

(* sharedMemorySize covers the buffers whose turn to move is over.         *)
Counted(x) == pc \in {"moved", "done"} \/ (pc = "move" /\ x < turn)
SizeInv == \A x \in Ids : Counted(x) => offset[x] + buffers[x].size <= sharedMemorySize

ApartInv == pc = "done" => \A x, y \in Ids : ~ Interfere(x, y)

AllocationInv == TypeInv /\ TripleInv /\ AlignInv /\ SizeInv /\ ApartInv

LEMMA BufferFacts ==
  ASSUME NEW bs \in Requests
  PROVE  /\ Len(bs) \in Nat \ {0} /\ DOMAIN bs = 1 .. Len(bs)
         /\ \A x \in DOMAIN bs : /\ bs[x].size \in Nat \ {0} /\ bs[x].alignment \in Nat \ {0}
                                 /\ Lasts(bs[x].range)
<1>1. IsRequest(bs)
  BY RequestAssumption
<1>2. bs \in Seq(Buffer) /\ bs # <<>>
  BY <1>1 DEF IsRequest
<1>3. Len(bs) \in Nat \ {0} /\ DOMAIN bs = 1 .. Len(bs)
  BY <1>2
<1>4. \A x \in DOMAIN bs : bs[x] \in Buffer
  BY <1>2
<1>5. \A x \in DOMAIN bs : bs[x].size \in Nat \ {0} /\ bs[x].alignment \in Nat \ {0}
  BY <1>4 DEF Buffer
<1>6. \A x \in DOMAIN bs : Lasts(bs[x].range)
  BY <1>1, <1>4 DEF IsRequest, Buffer, Lasts
<1> QED
  BY <1>3, <1>5, <1>6

LEMMA NewOffsetIsNat ==
  ASSUME TypeInv, pc # "collect", NEW x \in Ids
  PROVE  NewOffset(x) \in Nat
<1>1. PICK N : N = Neighbours(x)
  OBVIOUS
<1>2. N \subseteq Ids /\ IsFiniteSet(N)
  <2>1. PICK n \in Nat : n = Len(buffers) /\ Ids = 1 .. n
    BY BufferFacts DEF TypeInv, Ids
  <2>2. IsFiniteSet(1 .. n)
    BY FS_Interval
  <2>3. N \subseteq Ids
    BY <1>1 DEF Neighbours
  <2> QED
    BY <2>1, <2>2, <2>3, FS_Subset
<1>3. PICK above : above = {offset[y] + buffers[y].size : y \in N}
  OBVIOUS
<1>4. above \subseteq Nat /\ IsFiniteSet(above)
  <2>1. \A y \in N : offset[y] + buffers[y].size \in Nat
    BY <1>2, BufferFacts DEF TypeInv, Ids
  <2>2. [y \in N |-> offset[y] + buffers[y].size] \in Surjection(N, above)
    BY <1>3 DEF Surjection
  <2> QED
    BY <1>2, <1>3, <2>1, <2>2, FS_Surjection
<1>5. PICK ends : ends = above \cup {0}
  OBVIOUS
<1>6. ends \in SUBSET Nat /\ IsFiniteSet(ends) /\ ends # {}
  BY <1>4, <1>5, FS_AddElement
<1>7. \E e \in ends : \A f \in ends : f <= e
  BY <1>6, GreatestNat
<1>8. {0} \cup {offset[y] + buffers[y].size : y \in Neighbours(x)} = ends
  BY <1>1, <1>3, <1>5
<1>9. NewOffset(x) = CHOOSE e \in ends : \A f \in ends : f <= e
  BY <1>8 DEF NewOffset
<1> QED
  BY <1>6, <1>7, <1>9

LEMMA AllocationInit == Init => AllocationInv
<1> SUFFICES ASSUME Init PROVE AllocationInv
  OBVIOUS
<1>1. pc = "collect" /\ buffers = <<>> /\ sharedMemorySize = 0 /\ interference = {}
  BY DEF Init
<1>2. Ids = {}
  BY <1>1 DEF Ids
<1> QED
  BY <1>1, <1>2 DEF AllocationInv, TypeInv, TripleInv, AlignInv, SizeInv, ApartInv

LEMMA CollectSound == ASSUME AllocationInv, Collect PROVE AllocationInv'
<1>1. /\ pc = "collect" /\ pc' = "starts"
      /\ interference' = {} /\ sharedMemorySize' = sharedMemorySize /\ sharedMemorySize \in Nat
  BY DEF Collect, AllocationInv, TypeInv
<1>2. PICK bs \in Requests : buffers' = bs
  BY DEF Collect
<1>3. /\ Ids' = DOMAIN bs /\ xBuffers' = DOMAIN bs
      /\ offset' = [x \in DOMAIN bs |-> 0]
      /\ tripleMap' = <<[offset |-> 0, range |-> <<0, Horizon>>]>>
  BY <1>2 DEF Collect, Ids
<1>4. Horizon \in Nat /\ \A x \in DOMAIN bs : Lasts(bs[x].range) /\ bs[x].alignment \in Nat \ {0}
  BY BufferFacts, TimeFacts
<1>5. \A x \in DOMAIN bs : /\ bs[x].range[1] \in 0 .. Horizon /\ bs[x].range[2] \in 0 .. Horizon
                           /\ bs[x].range[1] < bs[x].range[2]
  BY <1>4 DEF Lasts, Time
<1>6. 1 \in DOMAIN bs
  BY BufferFacts
<1>7. 0 < Horizon
  BY <1>4, <1>5, <1>6
<1>8. TypeInv'
  BY <1>1, <1>2, <1>3 DEF TypeInv, Ids
<1>9. TripleInv'
  <2>1. PICK all : all = [offset |-> 0, range |-> <<0, Horizon>>]
    OBVIOUS
  <2>2. Lasts(<<0, Horizon>>)
    BY <1>4, <1>7 DEF Lasts, Time
  <2>3. all \in Triple /\ all.range = <<0, Horizon>> /\ Lasts(all.range)
    BY <2>1, <2>2 DEF Triple, Lasts
  <2>4. PICK map : map = <<all>>
    OBVIOUS
  <2>5. map \in Seq(Triple) /\ DOMAIN map = {1} /\ map[1] = all
    BY <2>3, <2>4
  <2>6. IsMap(map)
    BY <2>3, <2>5 DEF IsMap
  <2>7. \A x \in DOMAIN bs : Intersects(<<0, Horizon>>, bs[x].range)
    BY <1>4, <1>5 DEF Intersects
  <2>8. \A x \in DOMAIN bs : Intersects(map[1].range, bs[x].range)
    BY <2>3, <2>5, <2>7
  <2>9. tripleMap' = map
    BY <1>3, <2>1, <2>4
  <2> QED
    BY <1>2, <1>3, <2>5, <2>6, <2>8, <2>9 DEF TripleInv, Meets
<1>10. AlignInv'
  <2>1. \A a \in Nat \ {0} : 0 % a = 0
    OBVIOUS
  <2> QED
    BY <1>2, <1>3, <1>4, <2>1 DEF AlignInv
<1>11. SizeInv' /\ ApartInv'
  BY <1>1 DEF SizeInv, Counted, ApartInv
<1> QED
  BY <1>8, <1>9, <1>10, <1>11 DEF AllocationInv

LEMMA CalculateStartsSound == ASSUME AllocationInv, CalculateStarts PROVE AllocationInv'
<1>1. /\ pc = "starts" /\ tripleMap # <<>>
      /\ UNCHANGED <<buffers, interference, sharedMemorySize, pc>>
  BY DEF CalculateStarts
<1>2. PICK t : t = Head(tripleMap)
  OBVIOUS
<1>3. PICK rest : rest = Tail(tripleMap)
  OBVIOUS
<1>4. PICK fits : fits = Candidates(t, rest)
  OBVIOUS
<1>5. \/ /\ fits = {}
         /\ tripleMap' = rest /\ UNCHANGED <<offset, xBuffers>>
      \/ \E x \in fits :
           /\ offset' = [offset EXCEPT ![x] = AlignTo(t.offset, buffers[x].alignment)]
           /\ xBuffers' = xBuffers \ {x}
           /\ tripleMap' = TriplesAfter(rest, x, t, offset'[x])
  BY <1>2, <1>3, <1>4 DEF CalculateStarts
<1>6. /\ buffers \in Requests /\ offset \in [Ids -> Nat] /\ xBuffers \subseteq Ids
      /\ interference = {} /\ sharedMemorySize \in Nat
  BY <1>1 DEF AllocationInv, TypeInv
<1>7. \A x \in Ids : /\ buffers[x].size \in Nat \ {0} /\ buffers[x].alignment \in Nat \ {0}
                     /\ Lasts(buffers[x].range)
  BY <1>6, BufferFacts DEF Ids
<1>8. IsMap(tripleMap) /\ \A x \in xBuffers : Meets(tripleMap, x)
  BY <1>1 DEF AllocationInv, TripleInv
<1>9. /\ t \in Triple /\ Lasts(t.range) /\ IsMap(rest)
      /\ \A x : Meets(tripleMap, x) => Meets(rest, x) \/ Intersects(t.range, buffers[x].range)
  <2>1. PICK n \in Nat : n = Len(tripleMap) /\ n # 0 /\ DOMAIN tripleMap = 1 .. n
    BY <1>1, <1>8 DEF IsMap
  <2>2. /\ rest \in Seq(Triple) /\ DOMAIN rest = 1 .. n - 1
        /\ \A i \in 1 .. n - 1 : rest[i] = tripleMap[i + 1]
    BY <1>1, <1>3, <1>8, <2>1 DEF IsMap
  <2>3. t = tripleMap[1] /\ 1 \in DOMAIN tripleMap
    BY <1>1, <1>2, <1>8, <2>1 DEF IsMap
  <2>4. t \in Triple /\ Lasts(t.range)
    BY <1>8, <2>3 DEF IsMap
  <2>5. \A i \in 1 .. n - 1 : i + 1 \in DOMAIN tripleMap
    BY <2>1
  <2>6. IsMap(rest)
    BY <1>8, <2>2, <2>5 DEF IsMap
  <2>7. \A i \in DOMAIN tripleMap : i = 1 \/ \E k \in 1 .. n - 1 : i = k + 1
    <3> SUFFICES ASSUME NEW i \in 1 .. n, i # 1 PROVE \E k \in 1 .. n - 1 : i = k + 1
      BY <2>1
    <3>1. i - 1 \in 1 .. n - 1 /\ i = (i - 1) + 1
      OBVIOUS
    <3> QED
      BY <3>1
  <2>8. \A x : Meets(tripleMap, x) => Meets(rest, x) \/ Intersects(t.range, buffers[x].range)
    BY <2>2, <2>3, <2>7 DEF Meets
  <2> QED
    BY <2>4, <2>6, <2>8
<1>10. SizeInv' /\ ApartInv'
  BY <1>1 DEF SizeInv, Counted, ApartInv
<1>11. CASE fits = {} /\ tripleMap' = rest /\ UNCHANGED <<offset, xBuffers>>
  <2>1. TypeInv' /\ AlignInv'
    BY <1>1, <1>6, <1>11 DEF AllocationInv, TypeInv, AlignInv, Ids
  <2>2. \A x \in xBuffers : Meets(rest, x)
    <3> SUFFICES ASSUME NEW x \in xBuffers, ~ Meets(rest, x) PROVE FALSE
      OBVIOUS
    <3>1. Intersects(t.range, buffers[x].range)
      BY <1>8, <1>9
    <3>2. Intersects(buffers[x].range, t.range)
      BY <3>1 DEF Intersects
    <3>3. x \in fits
      BY <1>4, <3>2 DEF Candidates, Meets
    <3> QED
      BY <1>11, <3>3
  <2>3. TripleInv'
    BY <1>1, <1>9, <1>11, <2>2 DEF TripleInv, Meets
  <2> QED
    BY <1>10, <2>1, <2>3 DEF AllocationInv
<1>12. CASE \E x \in fits :
              /\ offset' = [offset EXCEPT ![x] = AlignTo(t.offset, buffers[x].alignment)]
              /\ xBuffers' = xBuffers \ {x}
              /\ tripleMap' = TriplesAfter(rest, x, t, offset'[x])
  <2>1. PICK x \in fits :
              /\ offset' = [offset EXCEPT ![x] = AlignTo(t.offset, buffers[x].alignment)]
              /\ xBuffers' = xBuffers \ {x}
              /\ tripleMap' = TriplesAfter(rest, x, t, offset'[x])
    BY <1>12
  <2>2. x \in xBuffers /\ x \in Ids /\ Intersects(buffers[x].range, t.range)
    BY <1>4, <1>6, <2>1 DEF Candidates
  <2>3. PICK place : place = AlignTo(t.offset, buffers[x].alignment)
    OBVIOUS
  <2>4. place \in Nat /\ place % buffers[x].alignment = 0
    <3>1. t.offset \in Nat
      BY <1>9 DEF Triple
    <3> QED
      BY <1>7, <2>2, <2>3, <3>1, AlignToFacts
  <2>5. offset' = [offset EXCEPT ![x] = place] /\ offset'[x] = place /\ Ids' = Ids
    BY <1>1, <1>6, <2>1, <2>2, <2>3 DEF Ids
  <2>6. TypeInv'
    BY <1>1, <1>6, <2>1, <2>4, <2>5 DEF AllocationInv, TypeInv
  <2>7. AlignInv'
    BY <1>1, <1>6, <2>4, <2>5 DEF AllocationInv, AlignInv
  <2>8. PICK new : new = TriplesAfter(rest, x, t, place)
    OBVIOUS
  <2>9. /\ IsMap(new)
        /\ \A y : /\ Lasts(buffers[y].range)
                  /\ Meets(rest, y) \/ Intersects(t.range, buffers[y].range)
                  => Meets(new, y)
    BY <1>7, <1>9, <2>2, <2>4, <2>8, TriplesAfterFacts
  <2>10. \A y \in xBuffers : Meets(new, y)
    BY <1>6, <1>7, <1>8, <1>9, <2>9
  <2>11. tripleMap' = new
    BY <2>1, <2>5, <2>8
  <2>12. TripleInv'
    BY <1>1, <2>1, <2>9, <2>10, <2>11 DEF TripleInv, Meets
  <2> QED
    BY <1>10, <2>6, <2>7, <2>12 DEF AllocationInv
<1> QED
  BY <1>5, <1>11, <1>12

LEMMA BuildSound == ASSUME AllocationInv, BuildInterferenceGraph PROVE AllocationInv'
<1>1. /\ pc \in {"starts", "moved"} /\ pc # "collect" /\ interference' = InterferenceGraph
      /\ UNCHANGED <<buffers, offset, xBuffers, tripleMap>>
  BY DEF BuildInterferenceGraph
<1>2. /\ buffers \in Requests /\ offset \in [Ids -> Nat] /\ xBuffers \subseteq Ids /\ sharedMemorySize \in Nat
  BY <1>1 DEF AllocationInv, TypeInv
<1>3. Ids' = Ids /\ interference' \subseteq Ids \X Ids /\ 1 \in Ids
  BY <1>1, <1>2, BufferFacts DEF Ids, InterferenceGraph
<1>4. AlignInv'
  BY <1>1, <1>3 DEF AllocationInv, AlignInv
<1>5. CASE pc = "moved" /\ interference' = {} /\ pc' = "done" /\ UNCHANGED <<colors, turn, sharedMemorySize>>
  <2>1. TypeInv' /\ TripleInv'
    BY <1>1, <1>2, <1>3, <1>5 DEF TypeInv, TripleInv
  <2>2. SizeInv'
    BY <1>1, <1>3, <1>5 DEF AllocationInv, SizeInv, Counted
  <2>3. \A x, y \in Ids : ~ Interfere(x, y)
    <3> SUFFICES ASSUME NEW x \in Ids, NEW y \in Ids, Interfere(x, y) PROVE FALSE
      OBVIOUS
    <3>1. <<x, y>> \in Ids \X Ids /\ <<x, y>>[1] = x /\ <<x, y>>[2] = y
      OBVIOUS
    <3>2. <<x, y>> \in InterferenceGraph
      BY <3>1 DEF InterferenceGraph
    <3> QED
      BY <1>1, <1>5, <3>2
  <2>4. \A x, y : Interfere(x, y)' = Interfere(x, y)
    BY <1>1 DEF Interfere, SideBySide, Bytes
  <2>5. ApartInv'
    BY <1>3, <2>3, <2>4 DEF ApartInv
  <2> QED
    BY <1>4, <2>1, <2>2, <2>5 DEF AllocationInv
<1>6. CASE pc' = "color" /\ turn' = 1 /\ sharedMemorySize' = 0
  <2>1. TypeInv' /\ TripleInv'
    BY <1>1, <1>2, <1>3, <1>6 DEF TypeInv, TripleInv
  <2>2. SizeInv' /\ ApartInv'
    BY <1>6 DEF SizeInv, Counted, ApartInv
  <2> QED
    BY <1>4, <2>1, <2>2 DEF AllocationInv
<1> QED
  BY <1>5, <1>6 DEF BuildInterferenceGraph

LEMMA NextTurnFacts ==
  ASSUME buffers \in Requests, turn \in Ids, NEW next, NextTurn(next)
  PROVE  \/ turn = Len(buffers) /\ turn' = 1 /\ 1 \in Ids /\ pc' = next
         \/ turn # Len(buffers) /\ turn' = turn + 1 /\ turn + 1 \in Ids /\ pc' = pc
<1>1. Len(buffers) \in Nat \ {0} /\ Ids = 1 .. Len(buffers)
  BY BufferFacts DEF Ids
<1> QED
  BY <1>1 DEF NextTurn

LEMMA ColorSound == ASSUME AllocationInv, Color PROVE AllocationInv'
<1>1. /\ pc = "color" /\ NextTurn("move")
      /\ UNCHANGED <<buffers, offset, xBuffers, tripleMap, interference, sharedMemorySize>>
  BY DEF Color
<1>2. /\ buffers \in Requests /\ offset \in [Ids -> Nat] /\ xBuffers \subseteq Ids
      /\ sharedMemorySize \in Nat /\ turn \in Ids /\ interference \subseteq Ids \X Ids
  BY <1>1 DEF AllocationInv, TypeInv
<1>3. Ids' = Ids
  BY <1>1 DEF Ids
<1>4. turn' \in Ids /\ (pc' = "color" \/ (pc' = "move" /\ turn' = 1))
  BY <1>1, <1>2, NextTurnFacts
<1>5. TypeInv' /\ TripleInv' /\ ApartInv'
  BY <1>1, <1>2, <1>3, <1>4 DEF TypeInv, TripleInv, ApartInv
<1>6. AlignInv'
  BY <1>1, <1>3 DEF AllocationInv, AlignInv
<1>7. \A x \in Ids : ~ (x < 1)
  BY <1>2, BufferFacts DEF Ids
<1>8. SizeInv'
  BY <1>3, <1>4, <1>7 DEF SizeInv, Counted
<1> QED
  BY <1>5, <1>6, <1>8 DEF AllocationInv

LEMMA MoveSound == ASSUME AllocationInv, Move PROVE AllocationInv'
<1>1. /\ pc = "move" /\ NextTurn("moved")
      /\ UNCHANGED <<buffers, xBuffers, tripleMap, interference, colors>>
  BY DEF Move
<1>2. /\ buffers \in Requests /\ offset \in [Ids -> Nat] /\ xBuffers \subseteq Ids
      /\ sharedMemorySize \in Nat /\ turn \in Ids /\ interference \subseteq Ids \X Ids
  BY <1>1 DEF AllocationInv, TypeInv
<1>3. Ids' = Ids
  BY <1>1 DEF Ids
<1>4. /\ Len(buffers) \in Nat \ {0} /\ Ids = 1 .. Len(buffers)
      /\ \A x \in Ids : buffers[x].size \in Nat /\ buffers[x].alignment \in Nat \ {0}
  BY <1>2, BufferFacts DEF Ids
<1>5. /\ \A x \in Ids : offset[x] \in Nat /\ offset[x] % buffers[x].alignment = 0
      /\ \A x \in Ids : x < turn => offset[x] + buffers[x].size <= sharedMemorySize
  BY <1>1, <1>2 DEF AllocationInv, AlignInv, SizeInv, Counted
<1>6. PICK to : to = AlignTo(NewOffset(turn), buffers[turn].alignment)
  OBVIOUS
<1>7. to \in Nat /\ to % buffers[turn].alignment = 0
  <2>1. NewOffset(turn) \in Nat
    BY <1>1, <1>2, NewOffsetIsNat DEF AllocationInv
  <2> QED
    BY <1>2, <1>4, <1>6, <2>1, AlignToFacts
<1>8. offset' = offset \/ offset' = [offset EXCEPT ![turn] = to]
  BY <1>6 DEF Move
<1>9. /\ offset' \in [Ids -> Nat]
      /\ \A x \in Ids : offset'[x] % buffers[x].alignment = 0
      /\ \A x \in Ids : x # turn => offset'[x] = offset[x]
  BY <1>2, <1>5, <1>7, <1>8
<1>10. PICK end \in Nat : end = offset'[turn] + buffers[turn].size
  BY <1>2, <1>4, <1>9
<1>11. sharedMemorySize' \in Nat /\ sharedMemorySize' >= sharedMemorySize /\ sharedMemorySize' >= end
  BY <1>2, <1>10 DEF Move, Larger
<1>12. \A x \in Ids : x <= turn => offset'[x] + buffers[x].size <= sharedMemorySize'
  <2> SUFFICES ASSUME NEW x \in Ids, x <= turn
               PROVE  offset'[x] + buffers[x].size <= sharedMemorySize'
    OBVIOUS
  <2>1. CASE x = turn
    BY <1>10, <1>11, <2>1
  <2>2. CASE x # turn
    <3>1. x < turn /\ offset'[x] = offset[x] /\ offset[x] \in Nat /\ buffers[x].size \in Nat
      BY <1>2, <1>4, <1>5, <1>9, <2>2
    <3>2. offset[x] + buffers[x].size <= sharedMemorySize
      BY <1>5, <3>1
    <3> QED
      BY <1>2, <1>11, <3>1, <3>2
  <2> QED
    BY <2>1, <2>2
<1>13. \/ turn = Len(buffers) /\ turn' = 1 /\ 1 \in Ids /\ pc' = "moved"
       \/ turn # Len(buffers) /\ turn' = turn + 1 /\ turn + 1 \in Ids /\ pc' = "move"
  BY <1>1, <1>2, NextTurnFacts
<1>14. \A x \in Ids : Counted(x)' => x <= turn
  BY <1>2, <1>4, <1>13 DEF Counted
<1>15. SizeInv'
  BY <1>1, <1>3, <1>12, <1>14 DEF SizeInv
<1>16. TypeInv' /\ TripleInv' /\ ApartInv'
  BY <1>1, <1>2, <1>3, <1>9, <1>11, <1>13 DEF TypeInv, TripleInv, ApartInv
<1>17. AlignInv'
  BY <1>1, <1>3, <1>9 DEF AlignInv
<1> QED
  BY <1>15, <1>16, <1>17 DEF AllocationInv

LEMMA AllocationNext == AllocationInv /\ [Next]_vars => AllocationInv'
<1> SUFFICES ASSUME AllocationInv, [Next]_vars PROVE AllocationInv'
  OBVIOUS
<1>1. CASE UNCHANGED vars
  <2>1. UNCHANGED <<buffers, offset, xBuffers, tripleMap, interference, turn, sharedMemorySize, pc>>
    BY <1>1 DEF vars
  <2>2. TypeInv' /\ TripleInv'
    BY <2>1 DEF AllocationInv, TypeInv, TripleInv, Ids, Meets
  <2>3. AlignInv' /\ SizeInv' /\ ApartInv'
    BY <2>1 DEF AllocationInv, AlignInv, SizeInv, ApartInv, Ids, Counted, Interfere, SideBySide, Bytes
  <2> QED
    BY <2>2, <2>3 DEF AllocationInv
<1>2. CASE Done
  BY <1>1, <1>2 DEF Done
<1> QED
  BY <1>1, <1>2, CollectSound, CalculateStartsSound, BuildSound, ColorSound, MoveSound DEF Next

LEMMA TriplesSafe == AllocationInv => TriplesLast
<1> SUFFICES ASSUME AllocationInv, pc = "starts", NEW x \in xBuffers, tripleMap = <<>> PROVE FALSE
  BY DEF TriplesLast
<1>1. Meets(tripleMap, x)
  BY DEF AllocationInv, TripleInv
<1>2. DOMAIN tripleMap = {}
  OBVIOUS
<1> QED
  BY <1>1, <1>2 DEF Meets

LEMMA MemorySafe == AllocationInv => MemoryIsSound
<1> SUFFICES ASSUME AllocationInv, pc = "done" PROVE MemoryIsSound
  BY DEF MemoryIsSound
<1>1. buffers \in Requests /\ offset \in [Ids -> Nat] /\ sharedMemorySize \in Nat
  BY DEF AllocationInv, TypeInv
<1>2. \A x \in Ids : /\ offset[x] \in Nat /\ buffers[x].size \in Nat \ {0}
                     /\ buffers[x].range[1] \in Nat /\ buffers[x].range[2] \in Nat
  BY <1>1, BufferFacts, TimeFacts DEF Ids
<1>3. \A x \in Ids : /\ offset[x] % buffers[x].alignment = 0
                     /\ offset[x] + buffers[x].size <= sharedMemorySize
  BY DEF AllocationInv, AlignInv, SizeInv, Counted
<1>4. ASSUME NEW x \in Ids PROVE Owned(x) \subseteq 0 .. sharedMemorySize - 1
  BY <1>1, <1>2, <1>3 DEF Owned
<1>5. ASSUME NEW x \in Ids, NEW y \in Ids, x # y, Together(x, y), NEW b \in Owned(x) \cap Owned(y)
      PROVE  FALSE
  <2>1. ~ Interfere(x, y)
    BY DEF AllocationInv, ApartInv
  <2>2. b \in Int /\ offset[x] <= b /\ b < offset[x] + buffers[x].size
        /\ offset[y] <= b /\ b < offset[y] + buffers[y].size
    BY <1>2, <1>5 DEF Owned
  <2>3. Intersects(Bytes(x), Bytes(y))
    <3>1. offset[x] < offset[y] + buffers[y].size /\ offset[y] < offset[x] + buffers[x].size
      BY <1>2, <2>2
    <3> QED
      BY <3>1 DEF Intersects, Bytes
  <2>4. CASE \E t \in 0 .. Horizon - 1 :
               /\ buffers[x].range[1] <= t /\ t < buffers[x].range[2]
               /\ buffers[y].range[1] <= t /\ t < buffers[y].range[2]
    <3>1. Intersects(buffers[x].range, buffers[y].range)
      BY <1>2, <2>4, TimeFacts DEF Intersects
    <3> QED
      BY <1>5, <2>1, <2>3, <3>1 DEF Interfere
  <2>5. CASE SideBySide(x, y)
    BY <1>5, <2>1, <2>3, <2>5 DEF Interfere
  <2> QED
    BY <1>5, <2>4, <2>5 DEF Together
<1> QED
  BY <1>3, <1>4, <1>5 DEF MemoryIsSound

(* calculateStarts takes tripleMap.begin() without a look, and throws away *)
(* triples that fit no buffer: there is always one, whatever the lifetimes *)
(* and sizes.                                                              *)
THEOREM TriplesAlwaysLast == Spec => []TriplesLast
BY AllocationInit, AllocationNext, TriplesSafe, PTL DEF Spec

(* When computeOffsets returns, no byte belongs to two buffers that are    *)
(* live together or in partitions that run side by side, every buffer is   *)
(* aligned, and sharedMemorySize covers all of them.                       *)
THEOREM MemoryAlwaysSound == Spec => []MemoryIsSound
BY AllocationInit, AllocationNext, MemorySafe, PTL DEF Spec

=============================================================================
