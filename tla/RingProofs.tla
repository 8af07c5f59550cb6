----------------------------- MODULE RingProofs -----------------------------
(***************************************************************************)
(* The rings of the fabric, for every size and range of the counters.      *)
(* First the arithmetic of their positions: how the distance of two        *)
(* changes when one of them advances, and that positions less than a lap   *)
(* apart have slots of their own.  Then a lane, for every batch size and   *)
(* budget: it keeps its types, its two threads never touch the same slot   *)
(* at once, and it implements a FIFO channel.  Then the submit queue, for  *)
(* any number of producers: a slot has one owner, and the queue implements *)
(* a FIFO channel of Size messages.                                        *)
(***************************************************************************)
EXTENDS SpscLane, SubmitQueue, FiniteSetTheorems, SequenceTheorems, TLAPS

\* The remainder of a number below twice the modulus.
LEMMA ModBelow ==
  ASSUME NEW M \in Nat, M > 0, NEW x \in 0 .. 2 * M - 1
  PROVE  x % M = IF x < M THEN x ELSE x - M
<1>1. CASE x < M  BY <1>1, SMT
<1>2. CASE x >= M  BY <1>2, SMT
<1>3. QED  BY <1>1, <1>2

\* A remainder differs from its number by a multiple of the modulus.
LEMMA ModQuotient ==
  ASSUME NEW M \in Nat, M > 0, NEW x \in Nat
  PROVE  x % M \in 0 .. M - 1 /\ \E q \in Nat : x = q * M + (x % M)
<1>1. x % M \in 0 .. M - 1  BY SMT
<1>2. \E q \in Nat : x = q * M + (x % M)  BY SMT
<1>3. QED  BY <1>1, <1>2

\* The only multiple of M that lies strictly between -M and M is 0.
LEMMA SmallMultiple ==
  ASSUME NEW M \in Nat, M > 0, NEW d \in Int, d * M > 0 - M, d * M < M
  PROVE  d = 0
BY SMT

\* The range of positions is at least two laps.
LEMMA PosModType == PosMod \in Nat /\ PosMod >= 2 * Size /\ PosMod >= 2
<1>1. Laps * Size \in Nat  BY SizeAssumption, LapsAssumption, SMT
<1>2. Laps * Size >= 2 * Size  BY SizeAssumption, LapsAssumption, SMT
<1>3. QED  BY <1>1, <1>2, SizeAssumption DEF PosMod

\* u32 addition stays in range, and wraps at most once.
LEMMA PlusCases ==
  ASSUME NEW p \in Pos, NEW k \in 0 .. PosMod - 1
  PROVE  /\ Plus(p, k) \in Pos
         /\ Plus(p, k) = IF p + k < PosMod THEN p + k ELSE p + k - PosMod
<1>1. p + k \in 0 .. 2 * PosMod - 1  BY PosModType DEF Pos
<1>2. CASE p + k < PosMod  BY <1>1, <1>2, PosModType, SMT DEF Plus, Pos
<1>3. CASE p + k >= PosMod  BY <1>1, <1>3, PosModType, SMT DEF Plus, Pos
<1>4. QED  BY <1>1, <1>2, <1>3, PosModType DEF Pos

\* Advancing twice is advancing by the sum, and advancing by 0 is standing still.
LEMMA PlusPlus ==
  ASSUME NEW p \in Pos, NEW j \in Nat, NEW k \in Nat, j + k < PosMod
  PROVE  Plus(Plus(p, j), k) = Plus(p, j + k) /\ Plus(p, 0) = p
<1>1. /\ j \in 0 .. PosMod - 1 /\ k \in 0 .. PosMod - 1
      /\ j + k \in 0 .. PosMod - 1 /\ 0 \in 0 .. PosMod - 1
  BY PosModType
<1>2. /\ Plus(p, j) \in Pos
      /\ Plus(p, j) = IF p + j < PosMod THEN p + j ELSE p + j - PosMod
  BY <1>1, PlusCases
<1>3. Plus(p, j + k) = IF p + (j + k) < PosMod THEN p + (j + k)
                                               ELSE p + (j + k) - PosMod
  BY <1>1, PlusCases
<1>4. Plus(Plus(p, j), k) = IF Plus(p, j) + k < PosMod THEN Plus(p, j) + k
                                                   ELSE Plus(p, j) + k - PosMod
  BY <1>1, <1>2, PlusCases
<1>5. Plus(p, 0) = p  BY <1>1, PlusCases, PosModType DEF Pos
<1>6. QED  BY <1>1, <1>2, <1>3, <1>4, <1>5, PosModType DEF Pos

\* u32 subtraction stays in range, and borrows at most once.
LEMMA DistCases ==
  ASSUME NEW a \in Pos, NEW b \in Pos
  PROVE  /\ Dist(a, b) \in Pos
         /\ Dist(a, b) = IF a >= b THEN a - b ELSE a - b + PosMod
<1>1. a + PosMod - b \in 0 .. 2 * PosMod - 1  BY PosModType DEF Pos
<1>2. CASE a >= b  BY <1>1, <1>2, PosModType, SMT DEF Dist, Pos
<1>3. CASE a < b  BY <1>1, <1>3, PosModType, SMT DEF Dist, Pos
<1>4. QED  BY <1>1, <1>2, <1>3, PosModType DEF Pos

\* Publishing one message makes the queue one longer.
LEMMA DistPlusOne ==
  ASSUME NEW a \in Pos, NEW b \in Pos, Dist(a, b) < PosMod - 1
  PROVE  Dist(Plus(a, 1), b) = Dist(a, b) + 1
<1>1. 1 \in 0 .. PosMod - 1  BY PosModType
<1>2. Plus(a, 1) \in Pos  BY <1>1, PlusCases
<1>3. Plus(a, 1) = IF a + 1 < PosMod THEN a + 1 ELSE a + 1 - PosMod
  BY <1>1, PlusCases
<1>4. Dist(a, b) = IF a >= b THEN a - b ELSE a - b + PosMod
  BY DistCases
<1>5. Dist(Plus(a, 1), b) = IF Plus(a, 1) >= b THEN Plus(a, 1) - b
                                               ELSE Plus(a, 1) - b + PosMod
  BY <1>2, DistCases
<1>6. QED  BY <1>2, <1>3, <1>4, <1>5, PosModType DEF Pos

\* Consuming k messages of those present makes it k shorter.
LEMMA DistMinus ==
  ASSUME NEW a \in Pos, NEW b \in Pos, NEW k \in Nat, k <= Dist(a, b)
  PROVE  Dist(a, Plus(b, k)) = Dist(a, b) - k
<1>1. Dist(a, b) \in Pos  BY DistCases
<1>2. k \in 0 .. PosMod - 1  BY <1>1, PosModType DEF Pos
<1>3. Plus(b, k) \in Pos  BY <1>2, PlusCases
<1>4. Plus(b, k) = IF b + k < PosMod THEN b + k ELSE b + k - PosMod
  BY <1>2, PlusCases
<1>5. Dist(a, b) = IF a >= b THEN a - b ELSE a - b + PosMod
  BY DistCases
<1>6. Dist(a, Plus(b, k)) = IF a >= Plus(b, k) THEN a - Plus(b, k)
                                               ELSE a - Plus(b, k) + PosMod
  BY <1>3, DistCases
<1>7. QED  BY <1>2, <1>3, <1>4, <1>5, <1>6, PosModType DEF Pos

\* Counting the distance from b leads to a.
LEMMA PlusDist ==
  ASSUME NEW a \in Pos, NEW b \in Pos
  PROVE  Plus(b, Dist(a, b)) = a
<1>1. Dist(a, b) \in 0 .. PosMod - 1  BY DistCases DEF Pos
<1>2. Dist(a, b) = IF a >= b THEN a - b ELSE a - b + PosMod
  BY DistCases
<1>3. Plus(b, Dist(a, b)) = IF b + Dist(a, b) < PosMod
                              THEN b + Dist(a, b) ELSE b + Dist(a, b) - PosMod
  BY <1>1, PlusCases
<1>4. QED  BY <1>1, <1>2, <1>3, PosModType DEF Pos

\* A position has a slot, some number of laps below it.
LEMMA IndexQuotient ==
  ASSUME NEW p \in Pos
  PROVE  Index(p) \in Slot /\ \E q \in Nat : p = q * Size + Index(p)
<1>1. p \in Nat  BY PosModType DEF Pos
<1>2. p % Size \in 0 .. Size - 1 /\ \E q \in Nat : p = q * Size + (p % Size)
  <2>1. Size \in Nat /\ Size > 0  BY SizeAssumption
  <2>2. QED  BY <1>1, <2>1, ModQuotient
<1>3. QED  BY <1>2 DEF Index, Slot

\* Two different positions less than a lap apart have different slots, also
\* when the wrap lies between them.
LEMMA SlotsDiffer ==
  ASSUME NEW p \in Pos, NEW j \in Nat, NEW k \in Nat,
         j < k, k - j < Size, k < PosMod
  PROVE  Index(Plus(p, j)) # Index(Plus(p, k))
<1>1. j \in 0 .. PosMod - 1 /\ k \in 0 .. PosMod - 1  BY PosModType
<1> DEFINE a == Plus(p, j)
           b == Plus(p, k)
<1>2. a \in Pos /\ b \in Pos  BY <1>1, PlusCases
<1>3. PICK x \in Nat : a = x * Size + Index(a)  BY <1>2, IndexQuotient
<1>4. PICK y \in Nat : b = y * Size + Index(b)  BY <1>2, IndexQuotient
<1>5. Index(a) \in Slot  BY <1>2, IndexQuotient
<1>6. SUFFICES ASSUME Index(a) = Index(b) PROVE FALSE
  OBVIOUS
<1>7. b - a = (y - x) * Size
  <2>1. Index(a) \in Int  BY <1>5, SizeAssumption DEF Slot
  <2>2. x * Size \in Int /\ y * Size \in Int  BY SizeAssumption
  <2>3. y * Size - x * Size = (y - x) * Size  BY SizeAssumption, SMT
  <2>4. QED  BY <1>3, <1>4, <1>6, <2>1, <2>2, <2>3
<1>8. b - a \in {k - j, k - j + PosMod, k - j - PosMod}
  <2>1. a = IF p + j < PosMod THEN p + j ELSE p + j - PosMod
    BY <1>1, PlusCases
  <2>2. b = IF p + k < PosMod THEN p + k ELSE p + k - PosMod
    BY <1>1, PlusCases
  <2>3. p \in Nat /\ PosMod \in Nat  BY PosModType DEF Pos
  <2> HIDE DEF a, b
  <2>4. QED  BY <2>1, <2>2, <2>3
<1> HIDE DEF a, b
<1>9. \E w \in Int : b - a = (k - j) + w * Size
  <2>1. PosMod = Laps * Size /\ 0 - PosMod = (0 - Laps) * Size
    BY SizeAssumption, LapsAssumption, SMT DEF PosMod
  <2>2. 0 * Size = 0  BY SizeAssumption
  <2>3. 0 \in Int /\ Laps \in Int /\ 0 - Laps \in Int  BY LapsAssumption
  <2>4. PosMod \in Int  BY PosModType
  <2>5. CASE b - a = k - j  BY <2>2, <2>3, <2>5
  <2>6. CASE b - a = k - j + PosMod  BY <2>1, <2>3, <2>6
  <2>7. CASE b - a = k - j - PosMod  BY <2>1, <2>3, <2>4, <2>7
  <2>8. QED  BY <1>8, <2>5, <2>6, <2>7
<1>10. PICK w \in Int : b - a = (k - j) + w * Size  BY <1>9
<1>11. k - j = (y - x - w) * Size
  <2>1. (y - x) * Size - w * Size = (y - x - w) * Size
    BY SizeAssumption, SMT
  <2>2. (y - x) * Size \in Int /\ w * Size \in Int  BY SizeAssumption
  <2>3. QED  BY <1>7, <1>10, <2>1, <2>2
<1>12. y - x - w = 0
  <2>1. y - x - w \in Int  OBVIOUS
  <2>2. (y - x - w) * Size > 0 - Size /\ (y - x - w) * Size < Size
    BY <1>11, SizeAssumption
  <2>3. Size \in Nat /\ Size > 0  BY SizeAssumption
  <2>4. QED  BY <2>1, <2>2, <2>3, SmallMultiple
<1>13. 0 * Size = 0  BY SizeAssumption
<1>14. QED  BY <1>11, <1>12, <1>13

\* Two positions less than a lap from a third one have slots of their own.
LEMMA NearSlots ==
  ASSUME NEW a \in Pos, NEW b \in Pos, NEW r \in Pos,
         Dist(a, r) < Size, Dist(b, r) < Size, Index(a) = Index(b)
  PROVE  a = b
<1>1. /\ Dist(a, r) \in 0 .. PosMod - 1 /\ Dist(b, r) \in 0 .. PosMod - 1
      /\ Plus(r, Dist(a, r)) = a /\ Plus(r, Dist(b, r)) = b
  BY DistCases, PlusDist DEF Pos
<1>2. PosMod \in Nat /\ Size \in Nat  BY PosModType, SizeAssumption
<1> DEFINE j == Dist(a, r)
           k == Dist(b, r)
<1>3. j \in Nat /\ k \in Nat /\ j < PosMod /\ k < PosMod /\ j < Size /\ k < Size  BY <1>1, <1>2
<1>4. Index(Plus(r, j)) = Index(Plus(r, k))  BY <1>1
<1> HIDE DEF j, k
<1>5. CASE j < k
  <2>1. k - j < Size  BY <1>2, <1>3, <1>5
  <2>2. QED  BY <1>3, <1>4, <1>5, <2>1, SlotsDiffer
<1>6. CASE k < j
  <2>1. j - k < Size  BY <1>2, <1>3, <1>6
  <2>2. QED  BY <1>3, <1>4, <1>6, <2>1, SlotsDiffer
<1>7. CASE j = k  BY <1>1, <1>7 DEF j, k
<1>8. QED  BY <1>3, <1>5, <1>6, <1>7

\* The remainder is the only number below the modulus that differs by a multiple.
LEMMA ModUnique ==
  ASSUME NEW M \in Nat, M > 0, NEW x \in Nat, NEW q \in Int, NEW i \in 0 .. M - 1, x = q * M + i
  PROVE  x % M = i
<1>1. x % M \in 0 .. M - 1  BY ModQuotient
<1>2. PICK e \in Nat : x = e * M + (x % M)  BY ModQuotient
<1>3. (q - e) * M = (x % M) - i
  <2>1. q * M - e * M = (q - e) * M  BY SMT
  <2>2. q * M \in Int /\ e * M \in Int  OBVIOUS
  <2>3. QED  BY <1>1, <1>2, <2>1, <2>2
<1>4. q - e = 0
  <2>1. q - e \in Int  OBVIOUS
  <2>2. (q - e) * M > 0 - M /\ (q - e) * M < M  BY <1>1, <1>3
  <2>3. QED  BY <2>1, <2>2, SmallMultiple
<1>5. 0 * M = 0  OBVIOUS
<1>6. QED  BY <1>1, <1>3, <1>4, <1>5

\* A lap later the slot is the same.
LEMMA LapSlot ==
  ASSUME NEW p \in Pos
  PROVE  Index(Plus(p, Size)) = Index(p)
<1>1. PICK q \in Nat : p = q * Size + Index(p)  BY IndexQuotient
<1>2. Size \in Nat /\ Size > 0 /\ PosMod = Laps * Size /\ Laps \in Nat /\ Index(p) \in 0 .. Size - 1
  BY SizeAssumption, LapsAssumption, IndexQuotient DEF PosMod, Slot
<1>3. Plus(p, Size) \in Nat /\ Plus(p, Size) = IF p + Size < PosMod THEN p + Size ELSE p + Size - PosMod
  <2>1. Size \in 0 .. PosMod - 1  BY PosModType, SizeAssumption
  <2>2. QED  BY <2>1, PlusCases, PosModType DEF Pos
<1>4. \E e \in Int : Plus(p, Size) = e * Size + Index(p)
  <2>1. (q + 1) * Size = q * Size + Size /\ (q + 1 - Laps) * Size = q * Size + Size - Laps * Size
    BY <1>2, SMT
  <2>2. q * Size \in Int /\ Laps * Size \in Int /\ q + 1 \in Int /\ q + 1 - Laps \in Int  BY <1>2
  <2>3. p + Size = (q + 1) * Size + Index(p)  BY <1>1, <1>2, <2>1, <2>2
  <2>4. p + Size - PosMod = (q + 1 - Laps) * Size + Index(p)  BY <1>1, <1>2, <2>1, <2>2
  <2>5. QED  BY <1>3, <2>2, <2>3, <2>4
<1>5. PICK e \in Int : Plus(p, Size) = e * Size + Index(p)  BY <1>4
<1>6. Plus(p, Size) % Size = Index(p)  BY <1>2, <1>3, <1>5, ModUnique
<1>7. QED  BY <1>6 DEF Index

\* Seen from the next position, all others are one nearer.
LEMMA DistNext ==
  ASSUME NEW a \in Pos, NEW b \in Pos
  PROVE  Dist(a, Plus(b, 1)) = IF a = b THEN PosMod - 1 ELSE Dist(a, b) - 1
<1>1. 1 \in 0 .. PosMod - 1  BY PosModType
<1>2. Plus(b, 1) \in Pos /\ Plus(b, 1) = IF b + 1 < PosMod THEN b + 1 ELSE b + 1 - PosMod
  BY <1>1, PlusCases
<1>3. Dist(a, b) = IF a >= b THEN a - b ELSE a - b + PosMod  BY DistCases
<1>4. Dist(a, Plus(b, 1)) = IF a >= Plus(b, 1) THEN a - Plus(b, 1) ELSE a - Plus(b, 1) + PosMod
  BY <1>2, DistCases
<1>5. QED  BY <1>2, <1>3, <1>4, PosModType DEF Pos

\* Within a lap of a position there is one for every slot.
LEMMA LapCovers ==
  ASSUME NEW p \in Pos, NEW s \in Slot
  PROVE  \E q \in Pos : Index(q) = s /\ Dist(q, p) < Size
<1>1. PICK e \in Nat : p = e * Size + Index(p)  BY IndexQuotient
<1>2. Size \in Nat /\ Size > 0 /\ PosMod = Laps * Size /\ Laps \in Nat /\ Index(p) \in 0 .. Size - 1
      /\ s \in 0 .. Size - 1
  BY SizeAssumption, LapsAssumption, IndexQuotient DEF PosMod, Slot
<1>3. \E j \in 0 .. Size - 1, lap \in Nat : p + j = lap * Size + s
  <2>1. (e + 1) * Size = e * Size + Size /\ e * Size \in Nat  BY <1>2, SMT
  <2>2. CASE s >= Index(p)
    <3>1. s - Index(p) \in 0 .. Size - 1 /\ p + (s - Index(p)) = e * Size + s
      BY <1>1, <1>2, <2>1, <2>2
    <3>2. QED  BY <3>1
  <2>3. CASE s < Index(p)
    <3>1. s - Index(p) + Size \in 0 .. Size - 1 /\ p + (s - Index(p) + Size) = (e + 1) * Size + s
      BY <1>1, <1>2, <2>1, <2>3
    <3>2. e + 1 \in Nat  OBVIOUS
    <3>3. QED  BY <3>1, <3>2
  <2>4. QED  BY <1>2, <2>2, <2>3
<1>4. PICK j \in 0 .. Size - 1, lap \in Nat : p + j = lap * Size + s  BY <1>3
<1>5. j \in 0 .. PosMod - 1 /\ p \in Nat /\ PosMod \in Nat  BY <1>2, PosModType DEF Pos
<1>6. Plus(p, j) \in Pos /\ Plus(p, j) = IF p + j < PosMod THEN p + j ELSE p + j - PosMod
  BY <1>5, PlusCases
<1>7. \E f \in Int : Plus(p, j) = f * Size + s
  <2>1. lap \in Int /\ lap - Laps \in Int  BY <1>2
  <2>2. lap * Size - Laps * Size = (lap - Laps) * Size /\ lap * Size \in Int /\ Laps * Size \in Int
    BY <1>2, <2>1, SMT
  <2>3. p + j - PosMod = (lap - Laps) * Size + s  BY <1>2, <1>4, <1>5, <2>2
  <2>4. QED  BY <1>4, <1>6, <2>1, <2>3
<1>8. PICK f \in Int : Plus(p, j) = f * Size + s  BY <1>7
<1>9. Plus(p, j) % Size = s
  <2>1. Plus(p, j) \in Nat  BY <1>6, <1>5 DEF Pos
  <2>2. QED  BY <1>2, <1>8, <2>1, ModUnique
<1>10. Dist(Plus(p, j), p) = j
  <2>1. Dist(Plus(p, j), p) = IF Plus(p, j) >= p THEN Plus(p, j) - p ELSE Plus(p, j) - p + PosMod
    BY <1>6, DistCases
  <2>2. p < PosMod  BY <1>5 DEF Pos
  <2>3. QED  BY <1>5, <1>6, <2>1, <2>2
<1>11. QED  BY <1>2, <1>6, <1>9, <1>10 DEF Index

-----------------------------------------------------------------------------
(* The lane.                                                               *)

\* The inductive invariant.
LaneInv == LaneTypes /\ PositionsAgree

LEMMA LaneInitInv == LaneInit => LaneInv
<1> SUFFICES ASSUME LaneInit PROVE LaneInv
  OBVIOUS
<1>1. 0 \in Pos  BY PosModType DEF Pos
<1>2. Dist(tail, head) = 0
  <2>1. Dist(0, 0) = 0  BY <1>1, DistCases
  <2>2. QED  BY <2>1 DEF LaneInit
<1>3. LaneTypes  BY <1>1, BatchAssumption DEF LaneInit, LaneTypes
<1>4. PositionsAgree
  BY <1>2, SizeAssumption DEF LaneInit, PositionsAgree
<1>5. QED  BY <1>3, <1>4 DEF LaneInv

\* What every step preserves, action by action.
LEMMA LaneNextInv == LaneInv /\ [LaneNext]_laneVars => LaneInv'
<1> SUFFICES ASSUME LaneInv, [LaneNext]_laneVars PROVE LaneInv'
  OBVIOUS
<1> USE DEF LaneInv
<1>1. head \in Pos /\ tail \in Pos /\ Dist(tail, head) \in Nat
      /\ Dist(tail, head) <= Size
  BY DistCases, PosModType DEF LaneTypes, PositionsAgree, Pos
<1>2. Size < PosMod /\ Size \in Nat /\ PosMod \in Nat
  BY PosModType, SizeAssumption
<1>3. ASSUME NEW m \in Msg, PushRoom(m) PROVE LaneInv'
  BY <1>3 DEF PushRoom, LaneTypes, PositionsAgree, drainVars
<1>4. ASSUME PushWrite PROVE LaneInv'
  <2>1. Index(tail) \in Slot  BY <1>1, IndexQuotient
  <2>2. QED  BY <1>4, <2>1 DEF PushWrite, LaneTypes, PositionsAgree, drainVars
<1>5. ASSUME PushPublish PROVE LaneInv'
  <2>1. Dist(tail, head) < Size  BY <1>5 DEF PushPublish, PositionsAgree
  <2>2. tail' \in Pos
    BY <1>1, <1>2, <1>5, PlusCases, PosModType DEF PushPublish
  <2>3. Dist(tail', head) = Dist(tail, head) + 1
    BY <1>1, <1>2, <1>5, <2>1, DistPlusOne DEF PushPublish
  <2>4. LaneTypes'  BY <1>5, <2>2 DEF PushPublish, LaneTypes, drainVars
  <2>5. PositionsAgree'
    BY <1>1, <1>2, <1>5, <2>1, <2>3
       DEF PushPublish, LaneTypes, PositionsAgree, drainVars
  <2>6. QED  BY <2>4, <2>5
<1>6. ASSUME NEW b \in 0 .. Budget, DrainBegin(b) PROVE LaneInv'
  BY <1>6 DEF DrainBegin, LaneTypes, PositionsAgree, pushVars
<1>7. ASSUME DrainEnd PROVE LaneInv'
  BY <1>7 DEF DrainEnd, LaneTypes, PositionsAgree, pushVars
<1>8. ASSUME DrainLoad PROVE LaneInv'
  <2>1. /\ taken' \in 1 .. Budget /\ taken' <= left /\ taken' <= Dist(tail, head)
        /\ taken' <= Batch
    BY <1>1, <1>8, BatchAssumption DEF DrainLoad, LaneTypes, Min2
  <2>2. QED
    BY <1>1, <1>8, <2>1, BatchAssumption
       DEF DrainLoad, LaneTypes, PositionsAgree, pushVars
<1>9. ASSUME DrainRoute PROVE LaneInv'
  <2>1. done \in Nat /\ done < Dist(tail, head) /\ done \in 0 .. PosMod - 1
        /\ done + 1 \in 0 .. Budget /\ done + 1 <= taken
    BY <1>1, <1>2, <1>9, BatchAssumption DEF DrainRoute, LaneTypes, PositionsAgree
  <2>2. Index(Plus(chead, done)) \in Slot
    <3>1. Plus(chead, done) \in Pos  BY <2>1, PlusCases DEF LaneTypes
    <3>2. QED  BY <3>1, IndexQuotient
  <2>3. routed' \in Msg \union {None}  BY <1>9, <2>2 DEF DrainRoute, LaneTypes
  <2>4. QED
    BY <1>9, <2>1, <2>3 DEF DrainRoute, LaneTypes, PositionsAgree, pushVars
<1>10. ASSUME DrainRelease PROVE LaneInv'
  <2>1. taken \in Nat /\ taken <= Dist(tail, head) /\ taken <= left /\ chead = head
        /\ taken \in 0 .. PosMod - 1
    BY <1>1, <1>2, <1>10, BatchAssumption DEF DrainRelease, LaneTypes, PositionsAgree
  <2>2. head' \in Pos  BY <1>10, <2>1, PlusCases DEF DrainRelease, LaneTypes
  <2>3. Dist(tail, head') = Dist(tail, head) - taken
    BY <1>1, <1>10, <2>1, DistMinus DEF DrainRelease
  <2>4. left - taken \in 0 .. Budget
    BY <2>1, BatchAssumption DEF LaneTypes
  <2>5. LaneTypes'
    BY <1>10, <2>2, <2>4, BatchAssumption DEF DrainRelease, LaneTypes, pushVars
  <2>6. PositionsAgree'
    BY <1>1, <1>2, <1>10, <2>1, <2>3
       DEF DrainRelease, LaneTypes, PositionsAgree, pushVars
  <2>7. QED  BY <2>5, <2>6
<1>11. CASE UNCHANGED laneVars
  BY <1>11 DEF laneVars, pushVars, drainVars, LaneTypes, PositionsAgree
<1>12. QED
  BY <1>3, <1>4, <1>5, <1>6, <1>7, <1>8, <1>9, <1>10, <1>11 DEF LaneNext

LEMMA LaneSpecInv == LaneSpec => []LaneInv
<1>1. QED  BY LaneInitInv, LaneNextInv, PTL DEF LaneSpec

\* Type correctness of the lane: its counters stay 32-bit positions and the
\* batch bookkeeping of hs_step stays within the budget.
THEOREM LaneTypeOK == LaneSpec => []LaneTypes
<1>1. LaneInv => LaneTypes  BY DEF LaneInv
<1>2. QED  BY <1>1, LaneSpecInv, PTL

\* The counters of producer and step thread agree on what the ring holds.
THEOREM LanePositionsAgree == LaneSpec => []PositionsAgree
<1>1. LaneInv => PositionsAgree  BY DEF LaneInv
<1>2. QED  BY <1>1, LaneSpecInv, PTL

\* No slot is written by hs_spsc_push while hs_step reads it.
THEOREM LaneNoSlotRace == LaneSpec => []NoSlotRace
<1>1. LaneInv => NoSlotRace
  <2> SUFFICES ASSUME LaneInv, pushPc = "write", drainPc = "route", NEW k \in done .. taken - 1
               PROVE  Index(Plus(chead, k)) # Index(tail)
    BY DEF NoSlotRace
  <2> DEFINE d == Dist(tail, head)
  <2>1. head \in Pos /\ tail \in Pos /\ chead = head
    BY DEF LaneInv, LaneTypes, PositionsAgree
  <2>2. d \in Nat /\ d < Size /\ taken <= d /\ d < PosMod
    BY <2>1, DistCases, PosModType, SizeAssumption DEF LaneInv, PositionsAgree, Pos
  <2>3. k \in Nat /\ k < d /\ d - k < Size
    BY <2>2, SizeAssumption DEF LaneInv, LaneTypes
  <2>4. Plus(head, d) = tail  BY <2>1, PlusDist
  <2>5. Index(Plus(head, k)) # Index(Plus(head, d))
    BY <2>1, <2>2, <2>3, SlotsDiffer
  <2>6. QED  BY <2>1, <2>4, <2>5
<1>2. QED  BY <1>1, LaneSpecInv, PTL

-----------------------------------------------------------------------------
(* The lane implements a FIFO channel.                                     *)

\* Where the waiting messages lie.
LaneStart == Plus(head, done)

LEMMA InLaneShape ==
  ASSUME LaneInv
  PROVE  /\ LaneStart \in Pos
         /\ Dist(tail, LaneStart) = Dist(tail, head) - done
         /\ Dist(tail, LaneStart) \in 0 .. Size
         /\ InLane = [k \in 1 .. Dist(tail, LaneStart) |->
                         slots[Index(Plus(LaneStart, k - 1))]]
<1>1. head \in Pos /\ tail \in Pos  BY DEF LaneInv, LaneTypes
<1>2. Dist(tail, head) \in 0 .. Size
  BY <1>1, DistCases, PosModType, SizeAssumption DEF LaneInv, PositionsAgree, Pos
<1>3. done \in Nat /\ done <= Dist(tail, head)
  BY <1>2, SizeAssumption, BatchAssumption DEF LaneInv, LaneTypes, PositionsAgree
<1>4. done \in 0 .. PosMod - 1
  BY <1>2, <1>3, PosModType, SizeAssumption
<1>5. LaneStart \in Pos  BY <1>1, <1>4, PlusCases DEF LaneStart
<1>6. Dist(tail, LaneStart) = Dist(tail, head) - done
  BY <1>1, <1>3, DistMinus DEF LaneStart
<1>7. Dist(tail, LaneStart) \in 0 .. Size
  BY <1>2, <1>3, <1>6, SizeAssumption
<1>8. QED  BY <1>5, <1>6, <1>7 DEF InLane, LaneStart

\* The initial state maps to an empty channel.
LEMMA LaneInitMaps == LaneInit => Fifo!Init
<1> SUFFICES ASSUME LaneInit PROVE Fifo!Init
  OBVIOUS
<1>1. LaneInv  BY LaneInitInv
<1>2. 0 \in Pos /\ head = 0 /\ tail = 0 /\ done = 0
  BY PosModType DEF LaneInit, Pos
<1>3. Dist(tail, LaneStart) = 0
  BY <1>1, <1>2, InLaneShape, DistCases
<1>4. InLane = << >>
  BY <1>1, <1>3, InLaneShape
<1>5. QED  BY <1>4 DEF Fifo!Init, LaneInit

\* Every step of the lane is a Put, a Get or no step of the channel.
LEMMA LaneStep == LaneInv /\ [LaneNext]_laneVars => [Fifo!Next]_(Fifo!chanVars)
<1> SUFFICES ASSUME LaneInv, LaneInv', [LaneNext]_laneVars
             PROVE  [Fifo!Next]_(Fifo!chanVars)
  BY LaneNextInv
<1> DEFINE len == Dist(tail, LaneStart)
<1>1. /\ LaneStart \in Pos /\ len = Dist(tail, head) - done /\ len \in 0 .. Size
      /\ InLane = [k \in 1 .. len |-> slots[Index(Plus(LaneStart, k - 1))]]
  BY InLaneShape
<1>2. /\ head \in Pos /\ tail \in Pos /\ done \in Nat
      /\ Dist(tail, head) \in Nat /\ Dist(tail, head) <= Size
  BY DistCases, PosModType DEF LaneInv, LaneTypes, PositionsAgree, Pos
<1>3. Size \in Nat /\ PosMod \in Nat /\ Size < PosMod
  BY PosModType, SizeAssumption
<1>4. Plus(LaneStart, len) = tail  BY <1>1, <1>2, PlusDist
<1> HIDE DEF len
<1>5. ASSUME UNCHANGED <<slots, head, tail, routed>>, done' = done
      PROVE  UNCHANGED Fifo!chanVars
  <2>1. InLane' = InLane  BY <1>5 DEF InLane, Plus, Dist, Index
  <2>2. QED  BY <1>5, <2>1 DEF Fifo!chanVars
<1>6. ASSUME NEW m \in Msg, PushRoom(m) PROVE UNCHANGED Fifo!chanVars
  BY <1>5, <1>6 DEF PushRoom, drainVars
<1>7. ASSUME PushWrite PROVE UNCHANGED Fifo!chanVars
  <2>1. len < Size
    BY <1>1, <1>2, <1>3, <1>7 DEF PushWrite, LaneInv, PositionsAgree
  <2>2. ASSUME NEW k \in 1 .. len
        PROVE  slots'[Index(Plus(LaneStart, k - 1))] = slots[Index(Plus(LaneStart, k - 1))]
    <3>1. k - 1 \in Nat /\ len \in Nat /\ k - 1 < len /\ len - (k - 1) < Size
          /\ len < PosMod /\ k - 1 \in 0 .. PosMod - 1
      BY <1>1, <1>3, <2>1
    <3>2. Index(Plus(LaneStart, k - 1)) # Index(Plus(LaneStart, len))
      BY <1>1, <3>1, SlotsDiffer
    <3>3. QED  BY <1>4, <1>7, <3>2 DEF PushWrite, LaneInv, LaneTypes
  <2>3. LaneStart' = LaneStart /\ Dist(tail, LaneStart)' = len
    BY <1>7 DEF PushWrite, drainVars, LaneStart, len, Dist, Plus
  <2>4. InLane' = [k \in 1 .. len |-> slots'[Index(Plus(LaneStart, k - 1))]]
    BY <1>7, <2>3, InLaneShape DEF InLane, PushWrite, drainVars, len, LaneStart, Plus, Dist, Index
  <2>5. InLane' = InLane  BY <1>1, <2>2, <2>4
  <2>6. QED  BY <1>7, <2>5 DEF PushWrite, Fifo!chanVars
<1>8. ASSUME PushPublish PROVE Fifo!Put(pushMsg) /\ pushMsg \in Msg
  <2>1. len < Size /\ pushMsg \in Msg /\ slots[Index(tail)] = pushMsg
    BY <1>1, <1>2, <1>3, <1>8 DEF PushPublish, LaneInv, PositionsAgree
  <2>2. LaneStart' = LaneStart /\ Dist(tail', LaneStart) = len + 1
    <3>1. LaneStart' = LaneStart  BY <1>8 DEF PushPublish, drainVars, LaneStart, Plus
    <3>2. Dist(tail, LaneStart) < PosMod - 1  BY <1>1, <1>3, <2>1 DEF len
    <3>3. Dist(Plus(tail, 1), LaneStart) = Dist(tail, LaneStart) + 1
      BY <1>1, <1>2, <3>2, DistPlusOne
    <3>4. QED  BY <1>8, <3>1, <3>3 DEF PushPublish, len
  <2>3. InLane' = [k \in 1 .. len + 1 |-> slots[Index(Plus(LaneStart, k - 1))]]
    BY <1>8, <2>2 DEF InLane, PushPublish, drainVars, LaneStart, Plus, Dist, Index
  <2>4. InLane' = Append(InLane, pushMsg)
    <3>1. Len(InLane) = len  BY <1>1
    <3>2. InLane'[len + 1] = pushMsg
      <4>1. len + 1 \in 1 .. len + 1 /\ (len + 1) - 1 = len  BY <1>1, <1>3
      <4>2. QED  BY <1>4, <2>1, <2>3, <4>1
    <3>3. QED  BY <1>1, <2>3, <3>1, <3>2
  <2>5. Len(InLane) < Size  BY <1>1, <2>1
  <2>6. QED  BY <1>8, <2>1, <2>4, <2>5 DEF PushPublish, Fifo!Put
<1>9. ASSUME NEW b \in 0 .. Budget, DrainBegin(b) PROVE UNCHANGED Fifo!chanVars
  BY <1>5, <1>9 DEF DrainBegin, pushVars
<1>10. ASSUME DrainEnd PROVE UNCHANGED Fifo!chanVars
  BY <1>5, <1>10 DEF DrainEnd, pushVars
<1>11. ASSUME DrainLoad PROVE UNCHANGED Fifo!chanVars
  BY <1>5, <1>11 DEF DrainLoad, pushVars, LaneInv, PositionsAgree
<1>12. ASSUME DrainRoute PROVE Fifo!Get
  <2>1. chead = head /\ done < Dist(tail, head) /\ len > 0
    BY <1>1, <1>2, <1>3, <1>12 DEF DrainRoute, LaneInv, LaneTypes, PositionsAgree
  <2>2. LaneStart' = Plus(LaneStart, 1)
    <3>1. done + 1 < PosMod  BY <1>2, <1>3, <2>1
    <3>2. Plus(Plus(head, done), 1) = Plus(head, done + 1)
      BY <1>2, <3>1, PlusPlus
    <3>3. QED  BY <1>12, <3>2 DEF DrainRoute, LaneStart, Plus
  <2>3. Dist(tail, Plus(LaneStart, 1)) = len - 1
    BY <1>1, <1>2, <2>1, DistMinus DEF len
  <2>4. InLane' = [k \in 1 .. len - 1 |-> slots[Index(Plus(Plus(LaneStart, 1), k - 1))]]
    BY <1>12, <2>2, <2>3 DEF InLane, DrainRoute, pushVars, LaneStart, Plus, Dist, Index
  <2>5. ASSUME NEW k \in 1 .. len - 1
        PROVE  Plus(Plus(LaneStart, 1), k - 1) = Plus(LaneStart, (k + 1) - 1)
    <3>1. 1 \in Nat /\ k - 1 \in Nat /\ 1 + (k - 1) < PosMod
          /\ 1 + (k - 1) = (k + 1) - 1
      BY <1>1, <1>3
    <3>2. QED  BY <1>1, <3>1, PlusPlus
  <2>6. Tail(InLane) = [k \in 1 .. len - 1 |-> slots[Index(Plus(LaneStart, (k + 1) - 1))]]
    BY <1>1, <2>1
  <2>7. InLane' = Tail(InLane)  BY <2>4, <2>5, <2>6
  <2>8. routed' = Head(InLane)
    <3>1. Head(InLane) = slots[Index(Plus(LaneStart, 0))]  BY <1>1, <2>1
    <3>2. Plus(LaneStart, 0) = LaneStart
      BY <1>1, <1>3, PlusPlus
    <3>3. QED  BY <1>12, <2>1, <3>1, <3>2 DEF DrainRoute, LaneStart
  <2>9. InLane # << >>  BY <1>1, <2>1
  <2>10. QED  BY <2>7, <2>8, <2>9 DEF Fifo!Get
<1>13. ASSUME DrainRelease PROVE UNCHANGED Fifo!chanVars
  <2>1. chead = head /\ done = taken /\ done' = 0 /\ head' = LaneStart
    BY <1>13 DEF DrainRelease, LaneInv, PositionsAgree, LaneStart
  <2>2. LaneStart' = LaneStart
    <3>1. Plus(LaneStart, 0) = LaneStart  BY <1>1, <1>3, PlusPlus
    <3>2. QED  BY <2>1, <3>1 DEF LaneStart, Plus
  <2>3. InLane' = InLane
    BY <1>13, <2>2 DEF InLane, DrainRelease, pushVars, LaneStart, Plus, Dist, Index
  <2>4. QED  BY <1>13, <2>3 DEF DrainRelease, Fifo!chanVars
<1>14. CASE UNCHANGED laneVars
  BY <1>5, <1>14 DEF laneVars, drainVars
<1>15. QED
  BY <1>6, <1>7, <1>8, <1>9, <1>10, <1>11, <1>12, <1>13, <1>14
     DEF LaneNext, Fifo!Next

\* The lane implements a FIFO channel of Size messages: no accepted message is
\* lost, duplicated or overtaken, for every ring size and across the wrap.
THEOREM LaneImplementsFifo == LaneSpec => LaneIsFifo
<1>1. QED  BY LaneInitMaps, LaneStep, LaneSpecInv, PTL DEF LaneSpec, LaneIsFifo, Fifo!Spec

-----------------------------------------------------------------------------
(* The submit queue.                                                       *)

-----------------------------------------------------------------------------
(* The inductive invariant.                                                *)

TypeInv ==
  /\ seq \in [Slot -> Pos] /\ data \in [Slot -> Msg \cup {None}]
  /\ enq \in Pos /\ deq \in Pos /\ pushes \in 0 .. MaxPush
  /\ ppc \in [Producers -> {"idle", "compare", "claim", "write", "publish"}]
  /\ ppos \in [Producers -> Pos] /\ pmsg \in [Producers -> Msg \cup {None}]
  /\ cpc \in {"idle", "compare", "claim", "copy", "release"} /\ cpos \in Pos

Loading(p) == ppc[p] \in {"compare", "claim"}
Writing(p) == ppc[p] \in {"write", "publish"}
Loaders == {p \in Producers : Loading(p)}

\* The step thread is the only one to dequeue, and claims what was published.
Consumer ==
  /\ cpc \in {"compare", "claim"} => cpos = deq
  /\ cpc = "claim" => seq[Index(deq)] = Plus(deq, 1)
  /\ cpc \in {"copy", "release"} => deq = Plus(cpos, 1) /\ seq[Index(cpos)] = Plus(cpos, 1)

\* The slot of each position of this lap is free or being written for it, or was
\* published for it; only a claimed one was published.
Slots ==
  /\ Dist(enq, Released) <= Size
  /\ \A q \in Pos : Dist(q, Released) < Size =>
       \/ seq[Index(q)] = q
       \/ seq[Index(q)] = Plus(q, 1) /\ Dist(q, Released) < Dist(enq, Released)

\* A producer that writes claimed a position of its own, which it has not
\* published.
Writers ==
  \A p \in Producers : Writing(p) =>
    /\ Dist(ppos[p], Released) < Dist(enq, Released)
    /\ seq[Index(ppos[p])] = ppos[p]
    /\ ppc[p] = "publish" => data[Index(ppos[p])] = pmsg[p]
    /\ \A o \in Producers : Writing(o) /\ ppos[o] = ppos[p] => o = p

\* A producer that has not claimed yet loaded a position that enqueue_pos has
\* reached: it does not come round to it again, and if it is there still, the
\* slot that was seen free is free.
Claimers ==
  /\ \A p \in Producers : Loading(p) => Dist(ppos[p], Start) <= Dist(enq, Start)
  /\ \A p \in Producers : ppc[p] = "claim" /\ ppos[p] = enq => Dist(enq, Released) < Size
  /\ Dist(enq, Start) + Cardinality(Loaders) <= pushes
  /\ \A p \in Producers : ppc[p] # "idle" => pmsg[p] \in Msg

QInv == TypeInv /\ Consumer /\ Slots /\ Writers /\ Claimers

LEMMA Numbers ==
  /\ Size \in Nat /\ Size >= 2 /\ PosMod \in Nat /\ PosMod >= 2 * Size
  /\ Size \in 0 .. PosMod - 1 /\ 1 \in 0 .. PosMod - 1 /\ 0 \in Pos /\ Start \in Pos
  /\ MaxPush \in Nat /\ MaxPush < PosMod - Size
  /\ Pos = 0 .. PosMod - 1
BY PosModType, SizeAssumption, RingAssumption, StartAssumption, MaxPushAssumption DEF Pos

LEMMA DistNat ==
  ASSUME NEW a \in Pos, NEW b \in Pos
  PROVE  Dist(a, b) \in Nat /\ Dist(a, b) < PosMod
<1>1. Dist(a, b) \in Pos  BY DistCases
<1>2. QED  BY <1>1, Numbers

LEMMA FewLoaders == IsFiniteSet(Loaders) /\ Cardinality(Loaders) \in Nat
<1>1. Loaders \in SUBSET Producers  BY DEF Loaders
<1>2. IsFiniteSet(Loaders)  BY <1>1, FS_Subset, RingAssumption
<1>3. QED  BY <1>2, FS_CardinalityType

LEMMA ReleasedType == TypeInv => Released \in Pos
BY DEF TypeInv, Released

LEMMA QInit == Init => QInv
<1> SUFFICES ASSUME Init PROVE QInv
  OBVIOUS
<1>1. ASSUME NEW s \in Slot
      PROVE  /\ seq[s] \in Pos /\ Index(seq[s]) = s /\ Dist(seq[s], Start) < Size
  <2>1. \E q \in Pos : Index(q) = s /\ Dist(q, Start) < Size  BY Numbers, LapCovers
  <2>2. seq[s] = CHOOSE q \in Pos : Index(q) = s /\ Dist(q, Start) < Size  BY DEF Init
  <2>3. QED  BY <2>1, <2>2
<1>2. /\ enq = Start /\ deq = Start /\ cpc = "idle" /\ \A p \in Producers : ppc[p] = "idle"
      /\ Released = Start /\ pushes = 0
  BY DEF Init, Released
<1>3. TypeInv
  <2>1. seq \in [Slot -> Pos]  BY <1>1 DEF Init
  <2>2. /\ data = [s \in Slot |-> None] /\ ppc = [p \in Producers |-> "idle"]
        /\ ppos = [p \in Producers |-> 0] /\ pmsg = [p \in Producers |-> None] /\ cpos = 0
    BY DEF Init
  <2>3. QED  BY <1>2, <2>1, <2>2, Numbers DEF TypeInv
<1>4. Consumer  BY <1>2 DEF Consumer
<1>5. Dist(Start, Start) = 0  BY Numbers, DistCases
<1>6. Slots
  <2>1. ASSUME NEW q \in Pos, Dist(q, Start) < Size PROVE seq[Index(q)] = q
    <3>1. Index(q) \in Slot  BY IndexQuotient
    <3>2. QED  BY <1>1, <2>1, <3>1, Numbers, NearSlots
  <2>2. QED  BY <1>2, <1>5, <2>1, Numbers DEF Slots
<1>7. Writers  BY <1>2 DEF Writers, Writing
<1>8. Claimers
  <2>1. Loaders = {}  BY <1>2 DEF Loaders, Loading
  <2>2. QED  BY <1>2, <1>5, <2>1, FS_EmptySet DEF Claimers, Loading
<1>9. QED  BY <1>3, <1>4, <1>6, <1>7, <1>8 DEF QInv

-----------------------------------------------------------------------------
(* Steps of a producer.                                                    *)

\* Nothing but producers' places and positions changes, and none writes that did
\* not.
LEMMA RingStays ==
  ASSUME QInv, UNCHANGED <<seq, data, enq, deq, consVars>>,
         \A o \in Producers : Writing(o)' => Writing(o) /\ UNCHANGED <<ppos[o], pmsg[o], ppc[o]>>
  PROVE  Released' = Released /\ Consumer' /\ Slots' /\ Writers'
<1> USE DEF consVars
<1>1. Released' = Released  BY DEF Released
<1>2. Consumer'  BY DEF QInv, Consumer
<1>3. Slots'  BY <1>1 DEF QInv, Slots
<1>4. Writers'  BY <1>1 DEF QInv, Writers, Writing
<1>5. QED  BY <1>1, <1>2, <1>3, <1>4

LEMMA EnqLoadKeeps ==
  ASSUME QInv, NEW p \in Producers, NEW m \in Msg, EnqLoad(p, m)
  PROVE  QInv'
<1> USE DEF QInv, TypeInv
<1>1. /\ ppc[p] = "idle" /\ pushes < MaxPush /\ pushes' = pushes + 1
      /\ ppos' = [ppos EXCEPT ![p] = enq] /\ pmsg' = [pmsg EXCEPT ![p] = m]
      /\ ppc' = [ppc EXCEPT ![p] = "compare"] /\ UNCHANGED <<seq, data, enq, deq, consVars>>
  BY DEF EnqLoad
<1>2. TypeInv'  BY <1>1, Numbers, SMTT(30) DEF consVars
<1>3. Released' = Released /\ Consumer' /\ Slots' /\ Writers'
  BY <1>1, RingStays DEF Writing
<1>4. Loaders' = Loaders \cup {p} /\ p \notin Loaders  BY <1>1 DEF Loaders, Loading
<1>5. Cardinality(Loaders') = Cardinality(Loaders) + 1  BY <1>4, FewLoaders, FS_AddElement
<1>6. Dist(enq, Start)' = Dist(enq, Start) /\ Dist(enq, Released)' = Dist(enq, Released)
  BY <1>1, <1>3 DEF Dist
<1>7. Dist(enq, Start) \in Nat  BY StartAssumption, DistNat
<1>8. \A o \in Producers : Loading(o)' => Dist(ppos'[o], Start) <= Dist(enq, Start)
  BY <1>1, <1>7 DEF Claimers, Loading
<1>9. \A o \in Producers : ppc'[o] = "claim" /\ ppos'[o] = enq => Dist(enq, Released) < Size
  BY <1>1 DEF Claimers
<1>10. \A o \in Producers : ppc'[o] # "idle" => pmsg'[o] \in Msg  BY <1>1 DEF Claimers
<1>11. Dist(enq, Start) + Cardinality(Loaders') <= pushes'
  BY <1>1, <1>5, <1>7, FewLoaders DEF Claimers
<1>12. Claimers'
  BY <1>1, <1>3, <1>8, <1>9, <1>10, <1>11 DEF Claimers, Dist
<1>13. QED  BY <1>2, <1>3, <1>12

\* The slot that a producer sees free, while it is the next to claim, is free.
LEMMA EnqFreeKeeps ==
  ASSUME QInv, NEW p \in Producers, EnqFree(p)
  PROVE  QInv'
<1> USE DEF QInv, TypeInv
<1>1. /\ ppc[p] = "compare" /\ seq[Index(ppos[p])] - ppos[p] = 0
      /\ ppc' = [ppc EXCEPT ![p] = "claim"] /\ UNCHANGED <<seq, data, enq, deq, ppos, pmsg, consVars, pushes>>
  BY DEF EnqFree, EnqDif, Dif
<1>2. TypeInv'  BY <1>1 DEF consVars
<1>3. Released' = Released /\ Consumer' /\ Slots' /\ Writers'
  BY <1>1, RingStays DEF Writing
<1>4. Loaders' = Loaders  BY <1>1 DEF Loaders, Loading
<1>5. ASSUME ppos[p] = enq PROVE Dist(enq, Released) < Size
  <2>1. seq[Index(enq)] = enq
    <3>1. Index(enq) \in Slot /\ seq[Index(enq)] \in Pos  BY IndexQuotient
    <3>2. QED  BY <1>1, <1>5, <3>1, Numbers
  <2>2. Released \in Pos  BY ReleasedType
  <2>3. Dist(enq, Released) \in Nat /\ Dist(enq, Released) <= Size  BY <2>2, DistCases, Numbers DEF Slots
  <2>4. ASSUME Dist(enq, Released) = Size PROVE FALSE
    <3>1. enq = Plus(Released, Size)  BY <2>2, <2>4, PlusDist
    <3>2. Index(enq) = Index(Released)  BY <2>2, <3>1, LapSlot
    <3>3. Dist(Released, Released) = 0  BY <2>2, DistCases, Numbers
    <3>4. seq[Index(Released)] \in {Released, Plus(Released, 1)}
      BY <2>2, <3>3, Numbers DEF Slots
    <3>5. enq # Released /\ enq # Plus(Released, 1)
      <4>1. Plus(Released, Size) = IF Released + Size < PosMod THEN Released + Size ELSE Released + Size - PosMod
        BY <2>2, Numbers, PlusCases
      <4>2. Plus(Released, 1) = IF Released + 1 < PosMod THEN Released + 1 ELSE Released + 1 - PosMod
        BY <2>2, Numbers, PlusCases
      <4>3. QED  BY <2>2, <3>1, <4>1, <4>2, Numbers
    <3>6. QED  BY <2>1, <3>2, <3>4, <3>5
  <2>5. QED  BY <2>3, <2>4, Numbers
<1>6. /\ \A o \in Producers : Loading(o)' => Loading(o)
      /\ \A o \in Producers : ppc'[o] = "claim" => ppc[o] = "claim" \/ o = p
      /\ \A o \in Producers : ppc'[o] # "idle" => ppc[o] # "idle"
  BY <1>1 DEF Loading
<1>7. Claimers'
  BY <1>1, <1>3, <1>4, <1>5, <1>6 DEF Claimers, Dist
<1>8. QED  BY <1>2, <1>3, <1>7

\* A producer that gives up is not counted any longer; one that goes round its
\* loop begins where enqueue_pos is now.
LEMMA EnqAgainKeeps ==
  ASSUME QInv, NEW p \in Producers, EnqFull(p) \/ EnqReload(p) \/ EnqClaimFails(p)
  PROVE  QInv'
<1> USE DEF QInv, TypeInv
<1>1. CASE EnqFull(p)
  <2>1. /\ ppc[p] = "compare" /\ ppc' = [ppc EXCEPT ![p] = "idle"] /\ pmsg' = [pmsg EXCEPT ![p] = None]
        /\ pushes' = pushes - 1 /\ UNCHANGED <<seq, data, enq, deq, ppos, consVars>>
    BY <1>1 DEF EnqFull
  <2>2. Released' = Released /\ Consumer' /\ Slots' /\ Writers'
    BY <2>1, RingStays DEF Writing
  <2>3. Loaders' = Loaders \ {p} /\ p \in Loaders  BY <2>1 DEF Loaders, Loading
  <2>4. Cardinality(Loaders') = Cardinality(Loaders) - 1  BY <2>3, FewLoaders, FS_RemoveElement
  <2>5. Cardinality(Loaders') \in Nat  BY <2>3, FewLoaders, FS_RemoveElement, FS_CardinalityType
  <2>6. Dist(enq, Start) \in Nat  BY StartAssumption, DistNat
  <2>7. Dist(enq, Start) + Cardinality(Loaders') <= pushes' /\ pushes' \in 0 .. MaxPush
    BY <2>1, <2>4, <2>5, <2>6, FewLoaders, Numbers DEF Claimers
  <2>8. TypeInv'  BY <2>1, <2>7 DEF consVars
  <2>9. \A o \in Producers : ppc'[o] # "idle" => o # p /\ ppc'[o] = ppc[o] /\ pmsg'[o] = pmsg[o]
    BY <2>1
  <2>10. Claimers'
    BY <2>1, <2>2, <2>7, <2>9 DEF Claimers, Dist, Loading
  <2>11. QED  BY <2>2, <2>8, <2>10
<1>2. CASE EnqReload(p) \/ EnqClaimFails(p)
  <2>1. /\ ppc[p] \in {"compare", "claim"} /\ ppc' = [ppc EXCEPT ![p] = "compare"] /\ ppos' = [ppos EXCEPT ![p] = enq]
        /\ UNCHANGED <<seq, data, enq, deq, pmsg, consVars, pushes>>
    BY <1>2 DEF EnqReload, EnqClaimFails
  <2>2. Released' = Released /\ Consumer' /\ Slots' /\ Writers'
    BY <2>1, RingStays DEF Writing
  <2>3. Loaders' = Loaders  BY <2>1 DEF Loaders, Loading
  <2>4. TypeInv'  BY <2>1 DEF consVars
  <2>5. Dist(enq, Start) \in Nat  BY StartAssumption, DistNat
  <2>6. \A o \in Producers : Loading(o)' => Dist(ppos'[o], Start) <= Dist(enq, Start)
    BY <2>1, <2>5 DEF Claimers, Loading
  <2>7. \A o \in Producers : ppc'[o] = "claim" /\ ppos'[o] = enq => Dist(enq, Released) < Size
    BY <2>1 DEF Claimers
  <2>8. \A o \in Producers : ppc'[o] # "idle" => ppc[o] # "idle"  BY <2>1
  <2>9. Claimers'
    BY <2>1, <2>2, <2>3, <2>6, <2>7, <2>8 DEF Claimers, Dist
  <2>10. QED  BY <2>2, <2>4, <2>9
<1>3. QED  BY <1>1, <1>2

LEMMA NextDiffers ==
  ASSUME NEW a \in Pos
  PROVE  Plus(a, 1) \in Pos /\ Plus(a, 1) # a
<1>1. Plus(a, 1) \in Pos /\ Plus(a, 1) = IF a + 1 < PosMod THEN a + 1 ELSE a + 1 - PosMod
  BY Numbers, PlusCases
<1>2. QED  BY <1>1, Numbers

\* A producer that writes is less than a lap from the first slot not handed back;
\* no other writes there, and the step thread does not read there.
LEMMA WriterAlone ==
  ASSUME QInv, NEW p \in Producers, Writing(p)
  PROVE  /\ ppos[p] \in Pos /\ Released \in Pos /\ Dist(ppos[p], Released) < Size
         /\ Dist(ppos[p], Released) < Dist(enq, Released)
         /\ \A o \in Producers : Writing(o) /\ o # p => Index(ppos[o]) # Index(ppos[p])
         /\ cpc = "claim" => Index(deq) # Index(ppos[p])
         /\ cpc \in {"copy", "release"} => Index(cpos) # Index(ppos[p])
<1> USE DEF QInv, TypeInv
<1>1. Released \in Pos  BY ReleasedType
<1>2. \A o \in Producers : Writing(o) => Dist(ppos[o], Released) < Size
  <2>1. ASSUME NEW o \in Producers, Writing(o) PROVE Dist(ppos[o], Released) < Size
    <3>1. Dist(ppos[o], Released) < Dist(enq, Released) /\ Dist(enq, Released) <= Size
      BY <2>1 DEF Writers, Slots
    <3>2. Dist(ppos[o], Released) \in Nat /\ Dist(enq, Released) \in Nat  BY <1>1, DistNat
    <3>3. QED  BY <3>1, <3>2, Numbers
  <2>2. QED  BY <2>1
<1>3. ASSUME NEW o \in Producers, Writing(o), Index(ppos[o]) = Index(ppos[p]) PROVE o = p
  <2>1. ppos[o] = ppos[p]  BY <1>1, <1>2, <1>3, NearSlots
  <2>2. QED  BY <1>3, <2>1 DEF Writers
<1>4. Dist(Released, Released) = 0  BY <1>1, DistCases, Numbers
<1>5. ASSUME seq[Index(Released)] = Plus(Released, 1) PROVE Index(Released) # Index(ppos[p])
  <2>1. SUFFICES ASSUME Index(Released) = Index(ppos[p]) PROVE FALSE
    OBVIOUS
  <2>2. Released = ppos[p]  BY <1>1, <1>2, <1>4, <2>1, NearSlots, Numbers
  <2>3. seq[Index(ppos[p])] = ppos[p]  BY DEF Writers
  <2>4. QED  BY <1>1, <1>5, <2>2, <2>3, NextDiffers
<1>6. cpc = "claim" => Released = deq  BY DEF Released
<1>7. cpc \in {"copy", "release"} => Released = cpos  BY DEF Released
<1>8. QED  BY <1>1, <1>2, <1>3, <1>5, <1>6, <1>7 DEF Writers, Consumer

LEMMA EnqClaimKeeps ==
  ASSUME QInv, NEW p \in Producers, EnqClaim(p)
  PROVE  QInv'
<1> USE DEF QInv, TypeInv
<1>1. /\ ppc[p] = "claim" /\ enq = ppos[p] /\ enq' = Plus(enq, 1) /\ ppc' = [ppc EXCEPT ![p] = "write"]
      /\ UNCHANGED <<seq, data, deq, ppos, pmsg, consVars, pushes>>
  BY DEF EnqClaim
<1>2. TypeInv'  BY <1>1, NextDiffers DEF consVars
<1>3. Released' = Released /\ Released \in Pos  BY <1>1, ReleasedType DEF Released, consVars
<1>4. Consumer'  BY <1>1 DEF Consumer, consVars
<1>5. Dist(enq, Released) < Size  BY <1>1 DEF Claimers
<1>6. /\ Dist(enq, Released) \in Nat /\ Dist(enq, Start) \in Nat
  BY <1>3, StartAssumption, DistNat
<1>7. Dist(enq', Released') = Dist(enq, Released) + 1
  <2>1. Dist(enq, Released) < PosMod - 1  BY <1>5, <1>6, Numbers
  <2>2. QED  BY <1>1, <1>3, <2>1, DistPlusOne
<1>8. Loaders' = Loaders \ {p} /\ p \in Loaders  BY <1>1 DEF Loaders, Loading
<1>9. Cardinality(Loaders') = Cardinality(Loaders) - 1 /\ Cardinality(Loaders') \in Nat
  BY <1>8, FewLoaders, FS_RemoveElement, FS_CardinalityType
<1>10. Dist(enq', Start) = Dist(enq, Start) + 1
  <2>1. Dist(enq, Start) + Cardinality(Loaders) <= pushes  BY DEF Claimers
  <2>2. Dist(enq, Start) < PosMod - 1  BY <1>6, <1>9, <2>1, FewLoaders, Numbers
  <2>3. QED  BY <1>1, <2>2, StartAssumption, DistPlusOne
<1>11. Slots'
  <2>1. Dist(enq', Released') <= Size  BY <1>5, <1>6, <1>7, Numbers
  <2>2. ASSUME NEW q \in Pos, Dist(q, Released) < Dist(enq, Released)
        PROVE  Dist(q, Released) < Dist(enq', Released')
    <3>1. Dist(q, Released) \in Nat  BY <1>3, DistNat
    <3>2. QED  BY <1>6, <1>7, <2>2, <3>1
  <2>3. QED  BY <1>1, <1>3, <2>1, <2>2 DEF Slots, Dist
<1>12. Writers'
  <2>1. seq[Index(enq)] = enq
    BY <1>5, <1>6 DEF Slots
  <2>2. \A o \in Producers : Writing(o) => Dist(ppos[o], Released) < Dist(enq, Released) /\ ppos[o] # enq
    BY <1>6 DEF Writers
  <2>3. \A o \in Producers : Writing(o)' => o = p \/ (Writing(o) /\ ppc'[o] = ppc[o])
    BY <1>1 DEF Writing
  <2>4. ASSUME NEW o \in Producers, Writing(o)'
        PROVE  /\ Dist(ppos[o], Released) < Dist(enq', Released')
               /\ seq[Index(ppos[o])] = ppos[o]
               /\ ppc'[o] = "publish" => data[Index(ppos[o])] = pmsg[o]
               /\ \A x \in Producers : Writing(x)' /\ ppos[x] = ppos[o] => x = o
    <3>1. CASE o = p
      BY <1>1, <1>6, <1>7, <2>1, <2>2, <2>3, <3>1
    <3>2. CASE o # p
      <4>1. Writing(o) /\ ppc'[o] = ppc[o] /\ Dist(ppos[o], Released) < Dist(enq, Released) /\ ppos[o] # enq
        BY <2>2, <2>3, <2>4, <3>2
      <4>2. Dist(ppos[o], Released) \in Nat  BY <1>3, DistNat
      <4>3. Dist(ppos[o], Released) < Dist(enq', Released')  BY <1>6, <1>7, <4>1, <4>2
      <4>4. \A x \in Producers : Writing(x)' /\ ppos[x] = ppos[o] => x = o
        BY <1>1, <2>3, <4>1 DEF Writers
      <4>5. QED  BY <4>1, <4>3, <4>4 DEF Writers
    <3>3. QED  BY <3>1, <3>2
  <2>5. QED  BY <1>1, <1>3, <2>4 DEF Writers, Writing, Dist
<1>13. Claimers'
  <2>1. \A o \in Producers : Loading(o)' => Loading(o) /\ o # p /\ ppc'[o] = ppc[o]
    BY <1>1 DEF Loading
  <2>2. ASSUME NEW o \in Producers, Loading(o)'
        PROVE  /\ Dist(ppos[o], Start) <= Dist(enq', Start)
               /\ ppos[o] # enq'
    <3>1. Dist(ppos[o], Start) <= Dist(enq, Start)  BY <2>1, <2>2 DEF Claimers
    <3>2. Dist(ppos[o], Start) \in Nat  BY StartAssumption, DistNat
    <3>3. QED  BY <1>6, <1>10, <3>1, <3>2
  <2>3. Dist(enq', Start) + Cardinality(Loaders') <= pushes'
    BY <1>1, <1>6, <1>9, <1>10, FewLoaders, Numbers DEF Claimers
  <2>4. \A o \in Producers : ppc'[o] = "claim" => Loading(o)'  BY DEF Loading
  <2>5. \A o \in Producers : ppc'[o] # "idle" => ppc[o] # "idle"  BY <1>1
  <2>6. QED  BY <1>1, <2>2, <2>3, <2>4, <2>5 DEF Claimers, Dist
<1>14. QED  BY <1>2, <1>4, <1>11, <1>12, <1>13

LEMMA EnqWriteKeeps ==
  ASSUME QInv, NEW p \in Producers, EnqWrite(p)
  PROVE  QInv'
<1> USE DEF QInv, TypeInv
<1>1. /\ ppc[p] = "write" /\ data' = [data EXCEPT ![Index(ppos[p])] = pmsg[p]]
      /\ ppc' = [ppc EXCEPT ![p] = "publish"] /\ UNCHANGED <<seq, enq, deq, ppos, pmsg, consVars, pushes>>
  BY DEF EnqWrite
<1>2. Writing(p) /\ Index(ppos[p]) \in Slot  BY <1>1, IndexQuotient DEF Writing
<1>3. TypeInv'  BY <1>1 DEF consVars
<1>4. Released' = Released  BY <1>1 DEF Released, consVars
<1>5. Consumer' /\ Slots'  BY <1>1, <1>4 DEF Consumer, Slots, consVars
<1>6. \A o \in Producers : Writing(o)' <=> Writing(o)  BY <1>1 DEF Writing
<1>7. ASSUME NEW o \in Producers, ppc'[o] = "publish" PROVE data'[Index(ppos[o])] = pmsg[o]
  <2>1. CASE o = p  BY <1>1, <1>2, <2>1
  <2>2. CASE o # p
    <3>1. ppc[o] = "publish" /\ Writing(o)  BY <1>1, <1>7, <2>2 DEF Writing
    <3>2. Index(ppos[o]) # Index(ppos[p]) /\ Index(ppos[o]) \in Slot
      BY <1>2, <2>2, <3>1, WriterAlone, IndexQuotient
    <3>3. QED  BY <1>1, <3>1, <3>2 DEF Writers
  <2>3. QED  BY <2>1, <2>2
<1>8. Writers'  BY <1>1, <1>4, <1>6, <1>7 DEF Writers, Dist
<1>9. Claimers'
  <2>1. Loaders' = Loaders /\ \A o \in Producers : Loading(o)' <=> Loading(o)  BY <1>1 DEF Loaders, Loading
  <2>2. \A o \in Producers : /\ ppc'[o] = "claim" => ppc[o] = "claim"
                            /\ ppc'[o] # "idle" => ppc[o] # "idle"
    BY <1>1
  <2>3. QED  BY <1>1, <1>4, <2>1, <2>2 DEF Claimers, Dist
<1>10. QED  BY <1>3, <1>5, <1>8, <1>9

LEMMA EnqPublishKeeps ==
  ASSUME QInv, NEW p \in Producers, EnqPublish(p)
  PROVE  QInv'
<1> USE DEF QInv, TypeInv
<1>1. /\ ppc[p] = "publish" /\ seq' = [seq EXCEPT ![Index(ppos[p])] = Plus(ppos[p], 1)]
      /\ ppc' = [ppc EXCEPT ![p] = "idle"] /\ pmsg' = [pmsg EXCEPT ![p] = None]
      /\ UNCHANGED <<data, enq, deq, ppos, consVars, pushes>>
  BY DEF EnqPublish
<1>2. /\ Writing(p) /\ Index(ppos[p]) \in Slot /\ Plus(ppos[p], 1) \in Pos
  BY <1>1, IndexQuotient, NextDiffers DEF Writing
<1>3. TypeInv'  BY <1>1, <1>2 DEF consVars
<1>4. Released' = Released /\ Released \in Pos  BY <1>1, ReleasedType DEF Released, consVars
<1>5. Consumer'
  <2>1. \A i \in Slot : i # Index(ppos[p]) => seq'[i] = seq[i]  BY <1>1
  <2>2. Index(deq) \in Slot /\ Index(cpos) \in Slot  BY IndexQuotient
  <2>3. QED  BY <1>1, <1>2, <2>1, <2>2, WriterAlone DEF Consumer, consVars
<1>6. Slots'
  <2>1. ASSUME NEW q \in Pos, Dist(q, Released) < Size
        PROVE  \/ seq'[Index(q)] = q
               \/ seq'[Index(q)] = Plus(q, 1) /\ Dist(q, Released) < Dist(enq, Released)
    <3>1. CASE Index(q) = Index(ppos[p])
      <4>1. q = ppos[p]  BY <1>2, <1>4, <2>1, <3>1, WriterAlone, NearSlots
      <4>2. QED  BY <1>1, <1>2, <4>1, WriterAlone
    <3>2. CASE Index(q) # Index(ppos[p])
      <4>1. seq'[Index(q)] = seq[Index(q)]  BY <1>1, <3>2, IndexQuotient
      <4>2. QED  BY <2>1, <4>1 DEF Slots
    <3>3. QED  BY <3>1, <3>2
  <2>2. QED  BY <1>1, <1>4, <2>1 DEF Slots, Dist
<1>7. \A o \in Producers : Writing(o)' => Writing(o) /\ o # p /\ ppc'[o] = ppc[o] /\ pmsg'[o] = pmsg[o]
  BY <1>1 DEF Writing
<1>8. ASSUME NEW o \in Producers, Writing(o)' PROVE seq'[Index(ppos[o])] = ppos[o]
  <2>1. Index(ppos[o]) # Index(ppos[p]) /\ Index(ppos[o]) \in Slot
    BY <1>2, <1>7, <1>8, WriterAlone, IndexQuotient
  <2>2. QED  BY <1>1, <1>7, <1>8, <2>1 DEF Writers
<1>9. Writers'  BY <1>1, <1>4, <1>7, <1>8 DEF Writers, Dist
<1>10. Claimers'
  <2>1. Loaders' = Loaders /\ \A o \in Producers : Loading(o)' <=> Loading(o)  BY <1>1 DEF Loaders, Loading
  <2>2. \A o \in Producers : /\ ppc'[o] = "claim" => ppc[o] = "claim"
                            /\ ppc'[o] # "idle" => ppc[o] # "idle" /\ pmsg'[o] = pmsg[o]
    BY <1>1
  <2>3. QED  BY <1>1, <1>4, <2>1, <2>2 DEF Claimers, Dist
<1>11. QED  BY <1>3, <1>5, <1>6, <1>9, <1>10

-----------------------------------------------------------------------------
(* Steps of the step thread.                                               *)

\* Only the last step of a dequeue hands a slot back.
LEMMA DeqKeeps ==
  ASSUME QInv, NoteDepth \/ DeqLoad \/ DeqReady \/ DeqEmpty \/ DeqReload \/ DeqClaim \/ DeqClaimFails \/ DeqCopy
  PROVE  QInv' /\ Released' = Released
<1> USE DEF QInv, TypeInv
<1>1. UNCHANGED <<seq, data, enq, prodVars, pushes>>
  BY DEF NoteDepth, DeqLoad, DeqReady, DeqEmpty, DeqReload, DeqClaim, DeqClaimFails, DeqCopy
<1>2. CASE NoteDepth \/ DeqLoad \/ DeqReady \/ DeqEmpty \/ DeqReload \/ DeqClaimFails
  <2>1. deq' = deq /\ cpc' \in {"idle", "compare", "claim"} /\ cpc \in {"idle", "compare", "claim"}
        /\ cpos' \in {cpos, deq}
    BY <1>2 DEF NoteDepth, DeqLoad, DeqReady, DeqEmpty, DeqReload, DeqClaimFails
  <2>2. Released' = Released  BY <2>1 DEF Released
  <2>3. cpc' \in {"compare", "claim"} => cpos' = deq
    BY <1>2 DEF NoteDepth, DeqLoad, DeqReady, DeqEmpty, DeqReload, DeqClaimFails, Consumer
  <2>4. cpc' = "claim" => seq[Index(deq)] = Plus(deq, 1)
    <3>1. CASE DeqReady
      <4>1. cpos = deq /\ seq[Index(deq)] - Plus(deq, 1) = 0
        BY <3>1 DEF DeqReady, DeqDif, Dif, Consumer
      <4>2. Index(deq) \in Slot /\ Plus(deq, 1) \in Pos  BY IndexQuotient, NextDiffers
      <4>3. seq[Index(deq)] \in Int /\ Plus(deq, 1) \in Int  BY <4>2, Numbers
      <4>4. QED  BY <4>1, <4>3
    <3>2. CASE ~ DeqReady
      <4>1. cpc' = "claim" => cpc = "claim"
        BY <1>2, <3>2 DEF NoteDepth, DeqLoad, DeqEmpty, DeqReload, DeqClaimFails
      <4>2. QED  BY <4>1 DEF Consumer
    <3>3. QED  BY <3>1, <3>2
  <2>5. Consumer'  BY <1>1, <2>1, <2>3, <2>4 DEF Consumer
  <2>6. QED
    BY <1>1, <2>1, <2>2, <2>5 DEF prodVars, Slots, Writers, Writing, Claimers, Loaders, Loading, Dist
<1>3. CASE DeqClaim
  <2>1. cpc = "claim" /\ cpos = deq /\ deq' = Plus(deq, 1) /\ cpc' = "copy" /\ cpos' = cpos
    BY <1>3 DEF DeqClaim
  <2>2. Released' = Released  BY <2>1 DEF Released
  <2>3. Consumer'  BY <1>1, <2>1 DEF Consumer, Plus
  <2>4. QED
    BY <1>1, <2>1, <2>2, <2>3, NextDiffers
       DEF prodVars, Slots, Writers, Writing, Claimers, Loaders, Loading, Dist
<1>4. CASE DeqCopy
  <2>1. cpc = "copy" /\ deq' = deq /\ cpc' = "release" /\ cpos' = cpos
    BY <1>4 DEF DeqCopy
  <2>2. Released' = Released  BY <2>1 DEF Released
  <2>3. Consumer'  BY <1>1, <2>1 DEF Consumer, Plus
  <2>4. QED
    BY <1>1, <2>1, <2>2, <2>3
       DEF prodVars, Slots, Writers, Writing, Claimers, Loaders, Loading, Dist
<1>5. QED  BY <1>2, <1>3, <1>4

\* The slot that was copied is free for the position a lap later.
LEMMA DeqReleaseKeeps ==
  ASSUME QInv, DeqRelease
  PROVE  QInv'
<1> USE DEF QInv, TypeInv
<1>1. /\ cpc = "release" /\ seq' = [seq EXCEPT ![Index(cpos)] = Plus(cpos, Size)] /\ cpc' = "idle"
      /\ UNCHANGED <<data, enq, deq, prodVars, cpos, out, pushes>>
  BY DEF DeqRelease
<1>2. /\ Released = cpos /\ Released' = deq /\ deq = Plus(cpos, 1) /\ seq[Index(cpos)] = Plus(cpos, 1)
  BY <1>1 DEF Released, Consumer
<1>3. Index(cpos) \in Slot /\ Plus(cpos, Size) \in Pos  BY Numbers, IndexQuotient, PlusCases
<1>4. TypeInv'  BY <1>1, <1>3 DEF prodVars
<1>5. Consumer'  BY <1>1 DEF Consumer
<1>6. Dist(cpos, cpos) = 0  BY DistCases, Numbers
<1>7. Dist(enq, cpos) \in Nat /\ Dist(enq, cpos) >= 1 /\ Dist(enq, cpos) <= Size
  <2>1. Dist(enq, cpos) \in Nat /\ Dist(enq, cpos) <= Size  BY <1>2, DistNat DEF Slots
  <2>2. Plus(cpos, 1) # cpos  BY NextDiffers
  <2>3. 0 < Dist(enq, cpos)  BY <1>2, <1>6, <2>2, Numbers DEF Slots
  <2>4. QED  BY <2>1, <2>3
<1>8. \A q \in Pos : Dist(q, deq) = IF q = cpos THEN PosMod - 1 ELSE Dist(q, cpos) - 1
  BY <1>2, DistNext
<1>9. Dist(enq, deq) = Dist(enq, cpos) - 1
  BY <1>6, <1>7, <1>8
<1>10. ASSUME NEW q \in Pos, Dist(q, deq) < Size
       PROVE  \/ seq'[Index(q)] = q
              \/ seq'[Index(q)] = Plus(q, 1) /\ Dist(q, deq) < Dist(enq, deq)
  <2>1. Dist(q, cpos) \in Nat /\ q # cpos /\ Dist(q, deq) = Dist(q, cpos) - 1 /\ Dist(q, cpos) <= Size
    <3>1. q # cpos  BY <1>8, <1>10, Numbers
    <3>2. Dist(q, cpos) \in Nat  BY DistNat
    <3>3. QED  BY <1>8, <1>10, <3>1, <3>2, Numbers
  <2>2. CASE Dist(q, cpos) = Size
    <3>1. q = Plus(cpos, Size)  BY <2>2, PlusDist
    <3>2. Index(q) = Index(cpos)  BY <3>1, LapSlot
    <3>3. QED  BY <1>1, <1>3, <3>1, <3>2
  <2>3. CASE Dist(q, cpos) < Size
    <3>1. Index(q) # Index(cpos)  BY <1>6, <2>1, <2>3, NearSlots, Numbers
    <3>2. seq'[Index(q)] = seq[Index(q)]  BY <1>1, <3>1, IndexQuotient
    <3>3. \/ seq[Index(q)] = q
          \/ seq[Index(q)] = Plus(q, 1) /\ Dist(q, cpos) < Dist(enq, cpos)
      BY <1>2, <2>3 DEF Slots
    <3>4. QED  BY <1>7, <1>9, <2>1, <3>2, <3>3
  <2>4. QED  BY <2>1, <2>2, <2>3, Numbers
<1>11. Slots'
  <2>1. Dist(enq, deq) <= Size  BY <1>7, <1>9, Numbers
  <2>2. QED  BY <1>1, <1>2, <1>10, <2>1 DEF Slots, Dist
<1>12. ASSUME NEW p \in Producers, Writing(p)
       PROVE  Dist(ppos[p], deq) < Dist(enq, deq) /\ seq'[Index(ppos[p])] = ppos[p]
  <2>1. Index(ppos[p]) # Index(cpos) /\ ppos[p] \in Pos /\ Dist(ppos[p], cpos) < Dist(enq, cpos)
    BY <1>1, <1>2, <1>12, WriterAlone
  <2>2. Dist(ppos[p], deq) = Dist(ppos[p], cpos) - 1  BY <1>8, <2>1
  <2>3. Dist(ppos[p], cpos) \in Nat  BY <2>1, DistNat
  <2>4. seq'[Index(ppos[p])] = ppos[p]
    BY <1>1, <1>12, <2>1, IndexQuotient DEF Writers
  <2>5. QED  BY <1>7, <1>9, <2>1, <2>2, <2>3, <2>4
<1>13. Writers'
  BY <1>1, <1>2, <1>12 DEF Writers, Writing, prodVars, Dist
<1>14. Claimers'
  <2>1. Dist(enq, deq) < Size  BY <1>7, <1>9, Numbers
  <2>2. QED  BY <1>1, <1>2, <2>1 DEF Claimers, Loaders, Loading, prodVars, Dist
<1>15. QED  BY <1>4, <1>5, <1>11, <1>13, <1>14

-----------------------------------------------------------------------------
LEMMA QStep == QInv /\ [Next]_vars => QInv'
<1> SUFFICES ASSUME QInv, [Next]_vars PROVE QInv'
  OBVIOUS
<1>1. ASSUME NEW p \in Producers, NEW m \in Msg, EnqLoad(p, m) PROVE QInv'  BY <1>1, EnqLoadKeeps
<1>2. ASSUME NEW p \in Producers, EnqStep(p) \/ EnqClaimFails(p) PROVE QInv'
  BY <1>2, EnqFreeKeeps, EnqAgainKeeps, EnqClaimKeeps, EnqWriteKeeps, EnqPublishKeeps DEF EnqStep
<1>3. CASE NoteDepth \/ DeqLoad \/ DeqStep \/ DeqClaimFails
  BY <1>3, DeqKeeps, DeqReleaseKeeps DEF DeqStep
<1>4. CASE UNCHANGED vars
  <2>1. UNCHANGED <<seq, data, enq, deq, consVars, ppc, ppos, pmsg, pushes>>  BY <1>4 DEF vars, prodVars
  <2>2. Released' = Released /\ Consumer' /\ Slots' /\ Writers'
    BY <2>1, RingStays DEF Writing
  <2>3. QED  BY <2>1, <2>2 DEF QInv, TypeInv, consVars, Claimers, Loaders, Loading, Dist
<1>5. QED  BY <1>1, <1>2, <1>3, <1>4 DEF Next

LEMMA QInvariant == Spec => []QInv
BY QInit, QStep, PTL DEF Spec

\* A slot belongs to one thread at a time: no two producers in hs_submit_enqueue
\* write the same slot, and none writes the slot that hs_submit_dequeue copies out
\* of, for every ring size, across the wrap, with any number of producers.
THEOREM SubmitSlotOwnedByOne == Spec => []SlotOwnedByOne
<1>1. QInv => SlotOwnedByOne  BY WriterAlone DEF SlotOwnedByOne, Writing
<1>2. QED  BY QInvariant, <1>1, PTL

-----------------------------------------------------------------------------
(* The queue implements FifoChannel.                                       *)

\* What waits lies within one lap of the first position not handed back.
LEMMA Depth ==
  ASSUME QInv
  PROVE  /\ Released \in Pos /\ deq \in Pos /\ enq \in Pos
         /\ Dist(enq, deq) \in Nat /\ Dist(enq, Released) \in Nat
         /\ Dist(enq, deq) <= Dist(enq, Released) /\ Dist(enq, Released) <= Size
         /\ \A q \in Pos : Dist(q, deq) < Dist(enq, deq) => Dist(q, Released) < Dist(enq, Released)
<1> USE DEF QInv, TypeInv
<1>1. Released \in Pos  BY ReleasedType
<1>2. Dist(enq, deq) \in Nat /\ Dist(enq, Released) \in Nat  BY <1>1, DistNat
<1>3. Dist(enq, Released) <= Size  BY DEF Slots
<1>4. CASE Released = deq
  BY <1>1, <1>2, <1>3, <1>4
<1>5. CASE Released # deq
  <2>1. Released = cpos /\ deq = Plus(cpos, 1) /\ seq[Index(cpos)] = Plus(cpos, 1)
    BY <1>5 DEF Released, Consumer
  <2>2. Dist(cpos, cpos) = 0  BY DistCases, Numbers
  <2>3. 0 < Dist(enq, cpos)
    <3>1. Plus(cpos, 1) # cpos  BY NextDiffers
    <3>2. QED  BY <2>1, <2>2, <3>1, Numbers DEF Slots
  <2>4. \A q \in Pos : Dist(q, deq) = IF q = cpos THEN PosMod - 1 ELSE Dist(q, cpos) - 1
    BY <2>1, DistNext
  <2>5. Dist(enq, deq) = Dist(enq, cpos) - 1
    <3>1. enq # cpos  BY <2>2, <2>3
    <3>2. QED  BY <2>4, <3>1
  <2>6. ASSUME NEW q \in Pos, Dist(q, deq) < Dist(enq, deq) PROVE Dist(q, Released) < Dist(enq, Released)
    <3>1. q # cpos  BY <1>2, <1>3, <2>1, <2>4, <2>5, <2>6, Numbers
    <3>2. Dist(q, cpos) \in Nat  BY DistNat
    <3>3. QED  BY <1>2, <2>1, <2>4, <2>5, <2>6, <3>1, <3>2
  <2>7. QED  BY <1>1, <1>2, <1>3, <2>1, <2>5, <2>6
<1>6. QED  BY <1>4, <1>5

\* The position of the k-th waiting message.
LEMMA WaitingAt ==
  ASSUME QInv, NEW k \in 1 .. Dist(enq, deq)
  PROVE  /\ Plus(deq, k - 1) \in Pos /\ Dist(Plus(deq, k - 1), deq) = k - 1
         /\ Dist(Plus(deq, k - 1), Released) < Dist(enq, Released) /\ Plus(deq, k - 1) # enq
<1>1. /\ deq \in Pos /\ Dist(enq, deq) \in Nat /\ Dist(enq, deq) <= Size
  BY Depth, Numbers
<1>2. k - 1 \in Nat /\ k - 1 < Dist(enq, deq) /\ k - 1 \in 0 .. PosMod - 1
  BY <1>1, Numbers
<1>3. Plus(deq, k - 1) \in Pos
      /\ Plus(deq, k - 1) = IF deq + (k - 1) < PosMod THEN deq + (k - 1) ELSE deq + (k - 1) - PosMod
  BY <1>1, <1>2, PlusCases
<1>4. Dist(Plus(deq, k - 1), deq) = k - 1
  <2>1. Dist(Plus(deq, k - 1), deq)
          = IF Plus(deq, k - 1) >= deq THEN Plus(deq, k - 1) - deq ELSE Plus(deq, k - 1) - deq + PosMod
    BY <1>1, <1>3, DistCases
  <2>2. QED  BY <1>1, <1>2, <1>3, <2>1, Numbers
<1>5. Dist(Plus(deq, k - 1), Released) < Dist(enq, Released)  BY <1>2, <1>3, <1>4, Depth
<1>6. Plus(deq, k - 1) # enq  BY <1>2, <1>4
<1>7. QED  BY <1>3, <1>4, <1>5, <1>6

\* A position that is being written holds what its writer will publish.
LEMMA HoldsWriters ==
  ASSUME QInv, NEW p \in Producers, Writing(p)
  PROVE  Claimed(ppos[p]) = {p} /\ Holds(ppos[p]) = pmsg[p]
<1>1. \A o \in Producers : Writing(o) /\ ppos[o] = ppos[p] => o = p  BY DEF QInv, Writers
<1>2. Claimed(ppos[p]) = {p}  BY <1>1 DEF Claimed, Writing
<1>3. QED  BY <1>2 DEF Holds

\* Steps in which no producer begins or ends to write leave what positions hold.
LEMMA HoldsStays ==
  ASSUME data' = data, \A o \in Producers : Writing(o)' <=> Writing(o),
         \A o \in Producers : Writing(o) => UNCHANGED <<ppos[o], pmsg[o]>>
  PROVE  \A q \in Pos : Holds(q)' = Holds(q)
<1> TAKE q \in Pos
<1>1. Claimed(q)' = Claimed(q)  BY DEF Claimed, Writing
<1>2. CASE Claimed(q) = {}  BY <1>1, <1>2 DEF Holds
<1>3. CASE Claimed(q) # {}
  <2>1. (CHOOSE p \in Claimed(q) : TRUE) \in Claimed(q)  BY <1>3
  <2>2. \A p \in Claimed(q) : p \in Producers /\ Writing(p)  BY DEF Claimed, Writing
  <2>3. QED  BY <1>1, <1>3, <2>1, <2>2 DEF Holds
<1>4. QED  BY <1>2, <1>3

\* Then nothing is put, and nothing got unless deq moves.
LEMMA WaitingStays ==
  ASSUME QInv, UNCHANGED <<enq, deq>>,
         \A q \in Pos : Dist(q, Released) < Dist(enq, Released) => Holds(q)' = Holds(q)
  PROVE  Waiting' = Waiting
<1>1. \A k \in 1 .. Dist(enq, deq) : Holds(Plus(deq, k - 1))' = Holds(Plus(deq, k - 1))
  <2>1. TAKE k \in 1 .. Dist(enq, deq)
  <2>2. PICK q \in Pos : q = Plus(deq, k - 1) /\ Dist(q, Released) < Dist(enq, Released)  BY WaitingAt
  <2>3. Holds(Plus(deq, k - 1))' = Holds(q)'  BY <2>2 DEF Plus
  <2>4. QED  BY <2>2, <2>3
<1>2. Dist(enq, deq)' = Dist(enq, deq)  BY DEF Dist
<1>3. Waiting' = [k \in 1 .. Dist(enq, deq) |-> Holds(Plus(deq, k - 1))']
  BY <1>2 DEF Waiting, Plus
<1>4. QED  BY <1>1, <1>3 DEF Waiting

LEMMA QueueInit == Init => Chan!Init
<1> SUFFICES ASSUME Init PROVE Chan!Init
  OBVIOUS
<1>1. Dist(enq, deq) = 0 /\ cpc = "idle"  BY DistCases, Numbers DEF Init
<1>2. Waiting = << >>  BY <1>1 DEF Waiting
<1>3. QED  BY <1>1, <1>2 DEF Init, Chan!Init, Delivered

\* A claim puts the producer's message at the end of the queue.
LEMMA ClaimPuts ==
  ASSUME QInv, NEW p \in Producers, EnqClaim(p)
  PROVE  \E m \in Msg : Chan!Put(m)
<1>1. /\ ppc[p] = "claim" /\ enq = ppos[p] /\ enq' = Plus(enq, 1) /\ ppc' = [ppc EXCEPT ![p] = "write"]
      /\ UNCHANGED <<seq, data, deq, ppos, pmsg, cpc, cpos, out>>
  BY DEF EnqClaim, consVars
<1>2. pmsg[p] \in Msg /\ Dist(enq, Released) < Size  BY <1>1 DEF QInv, Claimers
<1>3. /\ deq \in Pos /\ enq \in Pos /\ Dist(enq, deq) \in Nat /\ Dist(enq, deq) < Size
  BY <1>2, Depth, Numbers
<1>4. ppc \in [Producers -> {"idle", "compare", "claim", "write", "publish"}]  BY DEF QInv, TypeInv
<1>5. Dist(enq', deq') = Dist(enq, deq) + 1
  <2>1. Dist(enq, deq) < PosMod - 1  BY <1>3, Numbers
  <2>2. QED  BY <1>1, <1>3, <2>1, DistPlusOne
<1>6. \A o \in Producers : Writing(o)' <=> Writing(o) \/ o = p  BY <1>1, <1>4 DEF Writing
<1>7. \A o \in Producers : Writing(o) => ppos[o] # enq
  <2>1. ASSUME NEW o \in Producers, Writing(o), ppos[o] = enq PROVE FALSE
    <3>1. Dist(enq, Released) < Dist(enq, Released)  BY <2>1 DEF QInv, Writers
    <3>2. QED  BY <3>1, Depth
  <2>2. QED  BY <2>1
<1>8. ASSUME NEW q \in Pos, q # enq PROVE Holds(q)' = Holds(q)
  <2>1. Claimed(q)' = Claimed(q)  BY <1>1, <1>6, <1>8 DEF Claimed, Writing
  <2>2. QED  BY <1>1, <2>1 DEF Holds
<1>9. ASSUME NEW q \in Pos, q = enq PROVE Holds(q)' = pmsg[p]
  <2>1. \A o \in Producers : Writing(o)' /\ ppos'[o] = q <=> o = p  BY <1>1, <1>6, <1>7, <1>9
  <2>2. Claimed(q)' = {p}  BY <2>1 DEF Claimed, Writing
  <2>3. QED  BY <1>1, <2>2 DEF Holds
<1> DEFINE len == Dist(enq, deq)
<1> DEFINE H == [q \in Pos |-> Holds(q)']
<1>10. Waiting' = [k \in 1 .. len + 1 |-> H[Plus(deq, k - 1)]]
  <2>1. ASSUME NEW k \in 1 .. len + 1 PROVE Plus(deq, k - 1) \in Pos
    <3>1. k - 1 \in 0 .. PosMod - 1  BY <1>3, Numbers
    <3>2. QED  BY <1>3, <3>1, PlusCases
  <2>2. ASSUME NEW k \in 1 .. len + 1 PROVE Holds(Plus(deq, k - 1))' = H[Plus(deq, k - 1)]
    <3>1. PICK q \in Pos : q = Plus(deq, k - 1)  BY <2>1
    <3>2. Holds(Plus(deq, k - 1))' = Holds(q)'  BY <1>1, <3>1 DEF Plus
    <3>3. H[q] = Holds(q)'  OBVIOUS
    <3>4. QED  BY <3>1, <3>2, <3>3
  <2>3. QED  BY <1>1, <1>5, <2>2 DEF Waiting, Plus
<1>11. /\ Waiting = [k \in 1 .. len |-> Holds(Plus(deq, k - 1))] /\ Len(Waiting) = len
  BY <1>3 DEF Waiting
<1>12. H[Plus(deq, len)] = pmsg[p]  BY <1>3, <1>9, PlusDist
<1>13. ASSUME NEW k \in 1 .. len PROVE H[Plus(deq, k - 1)] = Waiting[k]
  BY <1>8, <1>11, WaitingAt
<1> HIDE DEF len, H
<1>14. Waiting' = Append(Waiting, pmsg[p])
  <2>1. len \in Nat /\ (len + 1) - 1 = len  BY <1>3 DEF len
  <2>2. \A k \in 1 .. len + 1 : Append(Waiting, pmsg[p])[k] = IF k = len + 1 THEN pmsg[p] ELSE Waiting[k]
    BY <1>11, <2>1
  <2>3. \A k \in 1 .. len + 1 : H[Plus(deq, k - 1)] = IF k = len + 1 THEN pmsg[p] ELSE Waiting[k]
    BY <1>12, <1>13, <2>1
  <2>4. Append(Waiting, pmsg[p]) = [k \in 1 .. len + 1 |-> Append(Waiting, pmsg[p])[k]]
    BY <1>11, <2>1
  <2>5. QED  BY <1>10, <2>2, <2>3, <2>4
<1>15. QED
  BY <1>1, <1>2, <1>3, <1>11, <1>14 DEF Chan!Put, Delivered, len

\* A write or a publication changes neither what waits nor what was delivered.
LEMMA WriteStutters ==
  ASSUME QInv, NEW p \in Producers, EnqWrite(p) \/ EnqPublish(p)
  PROVE  UNCHANGED Chan!chanVars
<1>1. /\ Writing(p) /\ UNCHANGED <<enq, deq, ppos, cpc, cpos, out>>
      /\ ppc \in [Producers -> {"idle", "compare", "claim", "write", "publish"}]
      /\ ppos \in [Producers -> Pos] /\ pmsg \in [Producers -> Msg \cup {None}]
      /\ data \in [Slot -> Msg \cup {None}]
  BY DEF EnqWrite, EnqPublish, consVars, Writing, QInv, TypeInv
<1>2. /\ Index(ppos[p]) \in Slot /\ ppos[p] \in Pos /\ Released \in Pos
      /\ Dist(enq, Released) \in Nat /\ Dist(enq, Released) <= Size
      /\ Dist(ppos[p], Released) < Size
  BY <1>1, IndexQuotient, Depth, WriterAlone
<1>3. Claimed(ppos[p]) = {p} /\ Holds(ppos[p]) = pmsg[p]  BY <1>1, HoldsWriters
<1>4. ASSUME NEW q \in Pos, q # ppos[p], Claimed(q) # {}, Claimed(q)' = Claimed(q),
             \A o \in Producers : o # p => pmsg'[o] = pmsg[o]
      PROVE  Holds(q)' = Holds(q)
  <2>1. (CHOOSE o \in Claimed(q) : TRUE) \in Claimed(q)  BY <1>4
  <2>2. \A o \in Claimed(q) : o \in Producers /\ o # p  BY <1>4 DEF Claimed
  <2>3. QED  BY <1>4, <2>1, <2>2 DEF Holds
<1>5. CASE EnqWrite(p)
  <2>1. /\ ppc[p] = "write" /\ data' = [data EXCEPT ![Index(ppos[p])] = pmsg[p]]
        /\ ppc' = [ppc EXCEPT ![p] = "publish"] /\ pmsg' = pmsg
    BY <1>5 DEF EnqWrite
  <2>2. \A q \in Pos : Claimed(q)' = Claimed(q)
    <3>1. \A o \in Producers : Writing(o)' <=> Writing(o)  BY <1>1, <2>1 DEF Writing
    <3>2. QED  BY <1>1, <3>1 DEF Claimed, Writing
  <2>3. ASSUME NEW q \in Pos, Dist(q, Released) < Dist(enq, Released) PROVE Holds(q)' = Holds(q)
    <3>1. CASE q = ppos[p]
      <4>1. Claimed(q)' = {p}  BY <1>3, <2>2, <3>1
      <4>2. QED  BY <1>3, <2>1, <3>1, <4>1 DEF Holds
    <3>2. CASE q # ppos[p] /\ Claimed(q) # {}  BY <1>4, <2>1, <2>2, <3>2
    <3>3. CASE q # ppos[p] /\ Claimed(q) = {}
      <4>1. Dist(q, Released) \in Nat  BY <1>2, DistNat
      <4>2. Dist(q, Released) < Size  BY <1>2, <2>3, <4>1, Numbers
      <4>3. Index(q) # Index(ppos[p])  BY <1>2, <3>3, <4>2, NearSlots
      <4>4. data'[Index(q)] = data[Index(q)]  BY <1>1, <2>1, <4>3, IndexQuotient
      <4>5. QED  BY <2>2, <3>3, <4>4 DEF Holds, Index
    <3>4. QED  BY <3>1, <3>2, <3>3
  <2>4. Waiting' = Waiting  BY <1>1, <2>3, WaitingStays
  <2>5. Delivered' = Delivered
    <3>1. cpc = "copy" => Index(cpos) # Index(ppos[p]) /\ Index(cpos) \in Slot
      BY <1>1, WriterAlone, IndexQuotient DEF QInv, TypeInv
    <3>2. QED  BY <1>1, <2>1, <3>1 DEF Delivered, Index
  <2>6. QED  BY <2>4, <2>5 DEF Chan!chanVars
<1>6. CASE EnqPublish(p)
  <2>1. /\ ppc[p] = "publish" /\ data' = data /\ ppc' = [ppc EXCEPT ![p] = "idle"]
        /\ pmsg' = [pmsg EXCEPT ![p] = None]
    BY <1>6 DEF EnqPublish
  <2>2. data[Index(ppos[p])] = pmsg[p]  BY <1>1, <2>1 DEF QInv, Writers
  <2>3. \A o \in Producers : Writing(o)' <=> Writing(o) /\ o # p  BY <1>1, <2>1 DEF Writing
  <2>4. ASSUME NEW q \in Pos PROVE Holds(q)' = Holds(q)
    <3>1. Claimed(q)' = Claimed(q) \ {p}  BY <1>1, <2>3 DEF Claimed, Writing
    <3>2. CASE q = ppos[p]
      <4>1. Claimed(q)' = {}  BY <1>3, <3>1, <3>2
      <4>2. QED  BY <1>3, <2>1, <2>2, <3>2, <4>1 DEF Holds, Index
    <3>3. CASE q # ppos[p]
      <4>1. p \notin Claimed(q)  BY <3>3 DEF Claimed
      <4>2. Claimed(q)' = Claimed(q)  BY <3>1, <4>1
      <4>3. CASE Claimed(q) # {}  BY <1>4, <2>1, <3>3, <4>2, <4>3
      <4>4. CASE Claimed(q) = {}  BY <2>1, <4>2, <4>4 DEF Holds, Index
      <4>5. QED  BY <4>3, <4>4
    <3>4. QED  BY <3>2, <3>3
  <2>5. Waiting' = Waiting  BY <1>1, <2>4, WaitingStays
  <2>6. QED  BY <1>1, <2>1, <2>5 DEF Chan!chanVars, Delivered, Index
<1>7. QED  BY <1>5, <1>6

\* The claim of a dequeue gets the first message.
LEMMA ClaimGets ==
  ASSUME QInv, DeqClaim
  PROVE  Chan!Get
<1>1. /\ cpc = "claim" /\ deq = cpos /\ deq' = Plus(deq, 1) /\ cpc' = "copy"
      /\ UNCHANGED <<seq, data, enq, prodVars, cpos, out>>
  BY DEF DeqClaim
<1>2. seq[Index(deq)] = Plus(deq, 1) /\ Released = deq  BY <1>1 DEF QInv, Consumer, Released
<1>3. /\ deq \in Pos /\ enq \in Pos /\ Dist(enq, deq) \in Nat /\ Dist(enq, deq) <= Size
      /\ Plus(deq, 1) \in Pos /\ Plus(deq, 1) # deq
  BY Depth, NextDiffers, Numbers
<1>4. Dist(enq, deq) > 0
  <2>1. Dist(deq, deq) = 0  BY <1>3, DistCases, Numbers
  <2>2. QED  BY <1>2, <1>3, <2>1, Numbers DEF QInv, Slots
<1>5. Claimed(deq) = {}
  <2>1. ASSUME NEW p \in Producers, Writing(p), ppos[p] = deq PROVE FALSE
    BY <1>2, <1>3, <2>1 DEF QInv, Writers
  <2>2. QED  BY <2>1 DEF Claimed, Writing
<1>6. \A q \in Pos : Holds(q)' = Holds(q)
  <2>1. \A o \in Producers : (Writing(o)' <=> Writing(o)) /\ UNCHANGED <<ppos[o], pmsg[o]>>
    BY <1>1 DEF prodVars, Writing
  <2>2. QED  BY <1>1, <2>1, HoldsStays
<1>7. Dist(enq', deq') = Dist(enq, deq) - 1
  <2>1. enq # deq  BY <1>3, <1>4, DistCases, Numbers
  <2>2. QED  BY <1>1, <1>3, <2>1, DistNext
<1> DEFINE len == Dist(enq, deq)
<1> DEFINE H == [q \in Pos |-> Holds(q)]
<1>8. \A k \in 1 .. len : Plus(deq, k - 1) \in Pos  BY WaitingAt
<1>9. Waiting = [k \in 1 .. len |-> H[Plus(deq, k - 1)]]  BY <1>8 DEF Waiting
<1>10. ASSUME NEW k \in 1 .. len - 1
       PROVE  /\ k + 1 \in 1 .. len /\ Plus(Plus(deq, 1), k - 1) = Plus(deq, (k + 1) - 1)
              /\ Plus(Plus(deq, 1), k - 1) \in Pos
  <2>1. k \in Nat /\ k + 1 \in 1 .. len /\ k - 1 \in Nat /\ 1 + (k - 1) = (k + 1) - 1 /\ 1 + (k - 1) < PosMod
    BY <1>3, Numbers
  <2>2. Plus(Plus(deq, 1), k - 1) = Plus(deq, (k + 1) - 1)
    BY <1>3, <2>1, PlusPlus
  <2>3. QED  BY <1>8, <2>1, <2>2
<1>11. Waiting' = [k \in 1 .. len - 1 |-> H[Plus(Plus(deq, 1), k - 1)]]
  <2>1. ASSUME NEW k \in 1 .. len - 1
        PROVE  Holds(Plus(deq, k - 1))' = H[Plus(Plus(deq, 1), k - 1)]
    <3>1. PICK q \in Pos : q = Plus(Plus(deq, 1), k - 1)  BY <1>10
    <3>2. Holds(Plus(deq, k - 1))' = Holds(q)'  BY <1>1, <3>1 DEF Plus
    <3>3. H[q] = Holds(q)'  BY <1>6
    <3>4. QED  BY <3>1, <3>2, <3>3
  <2>2. Dist(enq, deq)' = len - 1  BY <1>7 DEF Dist
  <2>3. QED  BY <2>1, <2>2 DEF Waiting
<1>12. H[deq] = data[Index(deq)]  BY <1>3, <1>5 DEF Holds
<1> HIDE DEF H, len
<1>13. len \in Nat /\ len > 0  BY <1>3, <1>4 DEF len
<1>14. Waiting # << >> /\ Head(Waiting) = H[Plus(deq, 0)] /\ Plus(deq, 0) = deq
  <2>1. Plus(deq, 0) = deq  BY <1>3, Numbers, PlusPlus
  <2>2. QED  BY <1>9, <1>13, <2>1
<1>15. Waiting' = Tail(Waiting)
  <2>1. Tail(Waiting) = [k \in 1 .. len - 1 |-> H[Plus(deq, (k + 1) - 1)]]
    BY <1>9, <1>13
  <2>2. QED  BY <1>10, <1>11, <2>1
<1>16. Delivered' = data[Index(deq)]  BY <1>1 DEF Delivered, Index
<1>17. QED  BY <1>12, <1>14, <1>15, <1>16 DEF Chan!Get

\* Every other step of the step thread leaves what waits and what was delivered.
LEMMA DequeueStutters ==
  ASSUME QInv, UNCHANGED <<data, enq, deq, prodVars>>, UNCHANGED Delivered
  PROVE  UNCHANGED Chan!chanVars
<1>1. \A o \in Producers : (Writing(o)' <=> Writing(o)) /\ UNCHANGED <<ppos[o], pmsg[o]>>
  BY DEF prodVars, Writing
<1>2. \A q \in Pos : Holds(q)' = Holds(q)  BY <1>1, HoldsStays
<1>3. QED  BY <1>2, WaitingStays DEF Chan!chanVars

\* So do the steps in which a producer neither claims nor writes.
LEMMA LoadStutters ==
  ASSUME QInv, NEW p \in Producers,
         (\E m \in Msg : EnqLoad(p, m)) \/ EnqFree(p) \/ EnqFull(p) \/ EnqReload(p) \/ EnqClaimFails(p)
  PROVE  UNCHANGED Chan!chanVars
<1>1. /\ UNCHANGED <<data, enq, deq, cpc, cpos, out>> /\ ~ Writing(p)
      /\ \E s \in {"idle", "compare", "claim"} : ppc' = [ppc EXCEPT ![p] = s]
      /\ \A o \in Producers : o # p => UNCHANGED <<ppos[o], pmsg[o]>>
  BY DEF EnqLoad, EnqFree, EnqFull, EnqReload, EnqClaimFails, consVars, Writing, QInv, TypeInv
<1>2. ppc \in [Producers -> {"idle", "compare", "claim", "write", "publish"}]  BY DEF QInv, TypeInv
<1>3. \A o \in Producers : (Writing(o)' <=> Writing(o)) /\ (Writing(o) => UNCHANGED <<ppos[o], pmsg[o]>>)
  BY <1>1, <1>2 DEF Writing
<1>4. \A q \in Pos : Holds(q)' = Holds(q)  BY <1>1, <1>3, HoldsStays
<1>5. QED  BY <1>1, <1>4, WaitingStays DEF Chan!chanVars, Delivered, Index

LEMMA QueueStep == QInv /\ [Next]_vars => [Chan!Next]_(Chan!chanVars)
<1> SUFFICES ASSUME QInv, [Next]_vars PROVE [Chan!Next]_(Chan!chanVars)
  OBVIOUS
<1>1. ASSUME NEW p \in Producers,
             (\E m \in Msg : EnqLoad(p, m)) \/ EnqStep(p) \/ EnqClaimFails(p)
      PROVE  [Chan!Next]_(Chan!chanVars)
  <2>1. CASE EnqClaim(p)  BY <2>1, ClaimPuts DEF Chan!Next
  <2>2. CASE EnqWrite(p) \/ EnqPublish(p)  BY <2>2, WriteStutters
  <2>3. CASE (\E m \in Msg : EnqLoad(p, m)) \/ EnqFree(p) \/ EnqFull(p) \/ EnqReload(p) \/ EnqClaimFails(p)
    BY <2>3, LoadStutters
  <2>4. QED  BY <1>1, <2>1, <2>2, <2>3 DEF EnqStep
<1>2. CASE DeqClaim  BY <1>2, ClaimGets DEF Chan!Next
<1>3. CASE NoteDepth \/ DeqLoad \/ DeqReady \/ DeqEmpty \/ DeqReload \/ DeqClaimFails \/ DeqCopy \/ DeqRelease
  <2>1. UNCHANGED <<data, enq, deq, prodVars>>
    BY <1>3 DEF NoteDepth, DeqLoad, DeqReady, DeqEmpty, DeqReload, DeqClaimFails, DeqCopy, DeqRelease
  <2>2. UNCHANGED Delivered
    BY <1>3 DEF NoteDepth, DeqLoad, DeqReady, DeqEmpty, DeqReload, DeqClaimFails, DeqCopy, DeqRelease,
                Delivered, Index
  <2>3. QED  BY <2>1, <2>2, DequeueStutters
<1>4. CASE UNCHANGED vars
  BY <1>4, DequeueStutters DEF vars, consVars, prodVars, Delivered, Index
<1>5. QED  BY <1>1, <1>2, <1>3, <1>4 DEF Next, DeqStep

\* The submit queue is a FIFO channel of Size messages in the order of the
\* claims: what hs_submit_enqueue accepted is dequeued once and never overtaken,
\* for every ring size, across the wrap, with any number of producers.
THEOREM SubmitQueueIsFifo == Spec => SubmitIsFifo
BY QueueInit, QueueStep, QInvariant, PTL DEF Spec, SubmitIsFifo, Chan!Spec

-----------------------------------------------------------------------------
(* A full queue is full.                                                   *)

\* The first position not handed back lies between the start and enqueue_pos.
Behind == Dist(enq, Released) <= Dist(enq, Start)

LEMMA BehindStep == QInv /\ Behind /\ [Next]_vars => Behind'
<1> SUFFICES ASSUME QInv, Behind, [Next]_vars PROVE Behind'
  OBVIOUS
<1>1. ASSUME enq' = enq, Released' = Released PROVE Behind'  BY <1>1 DEF Behind, Dist
<1>2. /\ enq \in Pos /\ Released \in Pos /\ Dist(enq, Released) \in Nat /\ Dist(enq, Start) \in Nat
  BY ReleasedType, DistNat, StartAssumption DEF QInv, TypeInv
<1>3. ASSUME NEW p \in Producers, EnqClaim(p) PROVE Behind'
  <2>1. /\ enq' = Plus(enq, 1) /\ Released' = Released /\ ppc[p] = "claim" /\ enq = ppos[p]
    BY <1>3 DEF EnqClaim, Released, consVars
  <2>2. Dist(enq, Released) < Size /\ Dist(enq, Start) + Cardinality(Loaders) <= pushes /\ p \in Loaders
    BY <2>1 DEF QInv, Claimers, Loaders, Loading
  <2>3. Cardinality(Loaders) >= 1
    BY <2>2, FewLoaders, FS_EmptySet
  <2>4. pushes \in 0 .. MaxPush  BY DEF QInv, TypeInv
  <2>5. Dist(enq, Start) < PosMod - 1 /\ Dist(enq, Released) < PosMod - 1
    BY <1>2, <2>2, <2>3, <2>4, FewLoaders, Numbers
  <2>6. Dist(enq', Start) = Dist(enq, Start) + 1 /\ Dist(enq', Released) = Dist(enq, Released) + 1
    BY <1>2, <2>1, <2>5, StartAssumption, DistPlusOne
  <2>7. Dist(enq', Released) <= Dist(enq', Start)  BY <1>2, <2>6 DEF Behind
  <2>8. QED  BY <2>1, <2>7 DEF Behind, Dist
<1>4. CASE DeqRelease
  <2>1. /\ Released = cpos /\ Released' = deq /\ deq = Plus(cpos, 1) /\ seq[Index(cpos)] = Plus(cpos, 1)
        /\ enq' = enq /\ cpos \in Pos /\ deq \in Pos
    BY <1>4 DEF DeqRelease, Released, QInv, Consumer, TypeInv
  <2>2. enq # cpos
    <3>1. Dist(cpos, cpos) = 0  BY <2>1, DistCases, Numbers
    <3>2. seq[Index(cpos)] = cpos \/ Dist(cpos, cpos) < Dist(enq, cpos)
      BY <2>1, <3>1, Numbers DEF QInv, Slots
    <3>3. Dist(cpos, cpos) < Dist(enq, cpos)  BY <2>1, <3>2, NextDiffers
    <3>4. QED  BY <3>1, <3>3
  <2>3. Dist(enq, deq) = Dist(enq, cpos) - 1  BY <1>2, <2>1, <2>2, DistNext
  <2>4. Dist(enq, deq) <= Dist(enq, Start)  BY <1>2, <2>1, <2>3 DEF Behind
  <2>5. QED  BY <2>1, <2>4 DEF Behind, Dist
<1>5. ASSUME NEW p \in Producers, \/ \E m \in Msg : EnqLoad(p, m)
                                  \/ EnqFree(p) \/ EnqFull(p) \/ EnqReload(p) \/ EnqClaimFails(p)
                                  \/ EnqWrite(p) \/ EnqPublish(p)
      PROVE  Behind'
  <2>1. UNCHANGED <<enq, deq, cpc, cpos>>
    BY <1>5 DEF EnqLoad, EnqFree, EnqFull, EnqReload, EnqClaimFails, EnqWrite, EnqPublish, consVars
  <2>2. QED  BY <1>1, <2>1 DEF Released
<1>6. CASE NoteDepth \/ DeqLoad \/ DeqReady \/ DeqEmpty \/ DeqReload \/ DeqClaim \/ DeqClaimFails \/ DeqCopy
  <2>1. enq' = enq
    BY <1>6 DEF NoteDepth, DeqLoad, DeqReady, DeqEmpty, DeqReload, DeqClaim, DeqClaimFails, DeqCopy
  <2>2. QED  BY <1>1, <1>6, <2>1, DeqKeeps
<1>7. CASE UNCHANGED vars
  BY <1>1, <1>7 DEF vars, Released, consVars
<1>8. QED  BY <1>3, <1>4, <1>5, <1>6, <1>7 DEF Next, EnqStep, DeqStep

\* Two positions with one slot, a lap or more apart, the number there being the
\* first or its successor and less than a lap below the second: they are a lap apart.
LEMMA LapApart ==
  ASSUME NEW q \in Pos, NEW x \in Pos, NEW n \in {q, Plus(q, 1)},
         Index(q) = Index(x), n - x < 0, n - x >= 0 - Size
  PROVE  x = Plus(q, Size)
<1>1. PICK a \in Nat : q = a * Size + Index(q)  BY IndexQuotient
<1>2. PICK b \in Nat : x = b * Size + Index(x)  BY IndexQuotient
<1>3. Index(q) \in Nat /\ Size \in Nat /\ Size >= 2 /\ Laps \in Int /\ PosMod = Laps * Size /\ PosMod \in Nat
  BY IndexQuotient, Numbers, LapsAssumption DEF Slot, PosMod
<1>4. x - q = (b - a) * Size
  <2>1. a * Size \in Int /\ b * Size \in Int /\ (b - a) * Size = b * Size - a * Size  BY <1>3, SMT
  <2>2. QED  BY <1>1, <1>2, <1>3, <2>1
<1>5. Plus(q, 1) = IF q + 1 < PosMod THEN q + 1 ELSE q + 1 - PosMod  BY Numbers, PlusCases
<1>6. Plus(q, Size) = IF q + Size < PosMod THEN q + Size ELSE q + Size - PosMod  BY Numbers, PlusCases
<1>7. q \in Int /\ x \in Int /\ q >= 0 /\ x >= 0 /\ q < PosMod /\ x < PosMod  BY <1>3, Numbers
<1>8. (b - a - 1) * Size = x - q - Size
  <2>1. (b - a - 1) * Size = (b - a) * Size - Size  BY <1>3, SMT
  <2>2. QED  BY <1>4, <2>1
<1>9. (b - a - 1 + Laps) * Size = x - q - Size + PosMod
  <2>1. (b - a - 1 + Laps) * Size = (b - a - 1) * Size + Laps * Size  BY <1>3, SMT
  <2>2. QED  BY <1>3, <1>8, <2>1
<1>10. CASE n = q \/ q + 1 < PosMod
  <2>1. n \in {q, q + 1}  BY <1>5, <1>10
  <2>2. x - q - Size < Size /\ x - q - Size > 0 - Size  BY <1>3, <1>7, <2>1
  <2>3. b - a - 1 = 0
    <3>1. (b - a - 1) * Size > 0 - Size /\ (b - a - 1) * Size < Size  BY <1>8, <2>2
    <3>2. b - a - 1 \in Int /\ Size > 0  BY <1>3
    <3>3. QED  BY <1>3, <3>1, <3>2, SmallMultiple
  <2>4. x - q - Size = 0
    <3>1. 0 * Size = 0  BY <1>3
    <3>2. QED  BY <1>8, <2>3, <3>1
  <2>5. QED  BY <1>3, <1>6, <1>7, <2>4
<1>11. CASE n # q /\ q + 1 >= PosMod
  <2>1. q = PosMod - 1 /\ n = 0  BY <1>3, <1>5, <1>7, <1>11
  <2>2. x - q - Size + PosMod < Size /\ x - q - Size + PosMod > 0 - Size  BY <1>3, <1>7, <2>1
  <2>3. b - a - 1 + Laps = 0
    <3>1. (b - a - 1 + Laps) * Size > 0 - Size /\ (b - a - 1 + Laps) * Size < Size  BY <1>9, <2>2
    <3>2. b - a - 1 + Laps \in Int /\ Size > 0  BY <1>3
    <3>3. QED  BY <1>3, <3>1, <3>2, SmallMultiple
  <2>4. x - q - Size + PosMod = 0
    <3>1. 0 * Size = 0  BY <1>3
    <3>2. QED  BY <1>9, <2>3, <3>1
  <2>5. QED  BY <1>3, <1>6, <1>7, <2>1, <2>4
<1>12. QED  BY <1>7, <1>10, <1>11, <1>3

\* Distances from one position to the next and on to a third add up, if that is
\* no more than once round.
LEMMA DistAdds ==
  ASSUME NEW a \in Pos, NEW b \in Pos, NEW c \in Pos
  PROVE  /\ Dist(a, b) + Dist(b, c) < PosMod => Dist(a, c) = Dist(a, b) + Dist(b, c)
         /\ Dist(a, b) <= Dist(a, c) => Dist(b, c) = Dist(a, c) - Dist(a, b)
<1>1. /\ Dist(a, b) = IF a >= b THEN a - b ELSE a - b + PosMod
      /\ Dist(b, c) = IF b >= c THEN b - c ELSE b - c + PosMod
      /\ Dist(a, c) = IF a >= c THEN a - c ELSE a - c + PosMod
  BY DistCases
<1>2. PosMod \in Nat /\ \A p \in Pos : p \in Int /\ p >= 0 /\ p < PosMod  BY Numbers
<1>3. QED  BY <1>1, <1>2

\* hs_submit_enqueue says a channel's submit queue is full only if it is, for
\* every size and any number of producers, provided that fewer messages pass while
\* a thread is in the call than a position can count, less two laps.
THEOREM SubmitFullIsHonest == MaxPush <= PosMod - 2 * Size => (Spec => []FullIsHonest)
<1> SUFFICES ASSUME MaxPush <= PosMod - 2 * Size PROVE Spec => []FullIsHonest
  OBVIOUS
<1>1. Init => Behind
  <2> SUFFICES ASSUME Init PROVE Behind
    OBVIOUS
  <2>1. enq = Start /\ Released = Start  BY DEF Init, Released
  <2>2. Dist(Start, Start) = 0  BY Numbers, DistCases
  <2>3. QED  BY <2>1, <2>2 DEF Behind
<1>2. QInv /\ Behind => FullIsHonest
  <2> SUFFICES ASSUME QInv, Behind, NEW p \in Producers,
                      ppc[p] = "compare", EnqDif(p) < 0, ~ GoneRound(p)
               PROVE  Dist(enq, Released) >= Size
    BY DEF FullIsHonest
  <2> DEFINE x == ppos[p]
             n == seq[Index(ppos[p])]
  <2>1. x \in Pos /\ enq \in Pos /\ Released \in Pos /\ Index(x) \in Slot /\ n \in Pos /\ Start \in Pos
    BY ReleasedType, IndexQuotient, StartAssumption DEF QInv, TypeInv
  <2>2. n - x < 0 /\ n - x >= 0 - Size
    <3>1. n \in Int /\ x \in Int /\ Size \in Int  BY <2>1, Numbers
    <3>2. QED  BY <3>1 DEF EnqDif, Dif, GoneRound
  <2>3. Dist(x, Start) <= Dist(enq, Start) /\ Dist(enq, Start) + Cardinality(Loaders) <= pushes
    BY DEF QInv, Claimers, Loading
  <2>4. Cardinality(Loaders) >= 1
    <3>1. p \in Loaders  BY DEF Loaders, Loading
    <3>2. QED  BY <3>1, FewLoaders, FS_EmptySet
  <2>5. pushes \in 0 .. MaxPush  BY DEF QInv, TypeInv
  <2>6. PICK q \in Pos : Index(q) = Index(x) /\ Dist(q, Released) < Size  BY <2>1, LapCovers
  <2>7. n \in {q, Plus(q, 1)}  BY <2>6 DEF QInv, Slots
  <2> HIDE DEF x, n
  <2>8. x = Plus(q, Size)  BY <2>1, <2>2, <2>6, <2>7, LapApart
  <2>9. /\ Dist(x, q) \in Nat /\ Dist(q, Released) \in Nat /\ Dist(x, Released) \in Nat
        /\ Dist(enq, Released) \in Nat /\ Dist(enq, Start) \in Nat /\ Dist(Released, Start) \in Nat
        /\ Dist(x, Start) \in Nat
    BY <2>1, DistNat
  <2>10. Dist(x, q) = Size
    <3>1. Plus(q, Size) = IF q + Size < PosMod THEN q + Size ELSE q + Size - PosMod
      BY Numbers, PlusCases
    <3>2. Dist(x, q) = IF x >= q THEN x - q ELSE x - q + PosMod  BY <2>1, DistCases
    <3>3. q \in Int /\ q >= 0 /\ q < PosMod  BY Numbers
    <3>4. QED  BY <2>8, <3>1, <3>2, <3>3, Numbers
  <2>11. Dist(x, Released) = Size + Dist(q, Released)
    <3>1. Dist(x, q) + Dist(q, Released) < PosMod  BY <2>6, <2>9, <2>10, Numbers
    <3>2. QED  BY <2>1, <2>10, <3>1, DistAdds
  <2>12. Dist(Released, Start) = Dist(enq, Start) - Dist(enq, Released)
    BY <2>1, DistAdds DEF Behind
  <2>13. Dist(x, Start) = Dist(x, Released) + Dist(Released, Start)
    <3>1. Dist(Released, Start) <= MaxPush - 1
      BY <2>3, <2>4, <2>5, <2>9, <2>12, FewLoaders, Numbers
    <3>2. Dist(x, Released) + Dist(Released, Start) < PosMod
      BY <2>6, <2>9, <2>11, <3>1, Numbers
    <3>3. QED  BY <2>1, <3>2, DistAdds
  <2>14. QED  BY <2>3, <2>9, <2>11, <2>12, <2>13, Numbers, SMTT(30)
<1>3. QED  BY <1>1, <1>2, QInvariant, BehindStep, PTL DEF Spec
=============================================================================
