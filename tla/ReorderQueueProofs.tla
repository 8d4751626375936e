-------------------------- MODULE ReorderQueueProofs --------------------------
(***************************************************************************)
(* Proofs about ReorderQueue for every width of the sequence numbers,      *)
(* every ring size and every set of elements.                              *)
(***************************************************************************)
EXTENDS ReorderQueue, SeqNumProofs, TLAPS

(* The ring divides the sequence number space and is at most a quarter of  *)
(* it: this is what makes the slot of a number survive the wrap-around.    *)
LEMMA SizeFacts ==
  /\ Half \in Nat /\ Modulus = 2 * Half
  /\ Size \in Nat /\ Size >= 2 /\ 2 * Size <= Half
  /\ \E n \in Nat : Modulus = Size * n
<1>1. Half \in Nat /\ Modulus = 2 * Half /\ Size \in Nat /\ Size >= 2
  BY HalfAssumption, SizeAssumption DEF Modulus
<1>2. PICK k \in 2 .. Half : Half = k * Size
  BY SizeAssumption
<1>3. k \in Nat /\ k >= 2
  BY <1>1, <1>2
<1>4. PICK j \in Nat : k = 2 + j
  <2>1. k - 2 \in Nat /\ k = 2 + (k - 2)
    BY <1>3
  <2> QED BY <2>1
<1>5. Half = 2 * Size + j * Size /\ j * Size \in Nat
  BY <1>1, <1>2, <1>4
<1>6. Modulus = Size * (2 * k) /\ 2 * k \in Nat
  BY <1>1, <1>2, <1>3
<1> QED BY <1>1, <1>5, <1>6

(* Every sequence number has a slot.                                       *)
LEMMA SlotType ==
  ASSUME NEW s \in SeqNums
  PROVE  idx(s) \in Slots
<1>1. s \in Nat /\ Size \in Nat \ {0}
  BY SizeFacts DEF SeqNums
<1> QED BY <1>1, DivMod DEF idx, Slots

(* The slot at an offset is the offset's position on the ring.             *)
LEMMA SlotOfOffset ==
  ASSUME NEW b \in SeqNums, NEW i \in 0 .. Modulus
  PROVE  idx(SeqAdd(b, i)) = (b + i) % Size
<1>1. b \in 0 .. (Modulus - 1) /\ Modulus \in Nat /\ Size \in Nat \ {0}
  BY SizeFacts DEF SeqNums
<1>2. SeqAdd(b, i) = IF b + i < Modulus THEN b + i ELSE b + i - Modulus
  BY SeqAddWraps
<1>3. CASE b + i < Modulus
  BY <1>2, <1>3 DEF idx
<1>4. CASE ~(b + i < Modulus)
  <2>1. b + i - Modulus \in Nat /\ SeqAdd(b, i) = b + i - Modulus
    BY <1>1, <1>2, <1>4
  <2>2. PICK n \in Nat : Modulus = Size * n
    BY SizeFacts
  <2>3. ((b + i - Modulus) + Size * n) % Size = (b + i - Modulus) % Size
    BY <1>1, <2>1, ModPlus
  <2>4. (b + i - Modulus) + Size * n = b + i
    BY <1>1, <2>2
  <2> QED BY <2>1, <2>3, <2>4 DEF idx
<1> QED BY <1>3, <1>4

(* Two numbers of a window of at most Size never share a slot.             *)
LEMMA SlotsDistinct ==
  ASSUME NEW b \in SeqNums, NEW i \in 0 .. (Size - 1), NEW j \in 0 .. (Size - 1), i # j
  PROVE  idx(SeqAdd(b, i)) # idx(SeqAdd(b, j))
<1>1. ASSUME NEW x \in 0 .. (Size - 1), NEW y \in 0 .. (Size - 1), x < y
      PROVE  idx(SeqAdd(b, x)) # idx(SeqAdd(b, y))
  <2>1. x \in 0 .. Modulus /\ y \in 0 .. Modulus
    BY SizeFacts
  <2>2. b + x \in Nat /\ y - x \in 1 .. (Size - 1) /\ Size \in Nat \ {0}
    BY <1>1, SizeFacts DEF SeqNums
  <2>3. ((b + x) + (y - x)) % Size # (b + x) % Size
    BY <2>2, ModInjective
  <2>4. (b + x) + (y - x) = b + y
    BY SizeFacts DEF SeqNums
  <2> QED BY <2>1, <2>3, <2>4, SlotOfOffset
<1>2. i < j \/ j < i
  BY SizeFacts
<1> QED BY <1>1, <1>2

(* The least element of a set of numbers, as Min picks it.                 *)
LEMMA MinIs ==
  ASSUME NEW S \in SUBSET Int, NEW m \in S, \A x \in S : m <= x
  PROVE  Min(S) = m
<1>1. \A y \in S : (\A x \in S : y <= x) => y = m
  OBVIOUS
<1> QED BY <1>1 DEF Min

-----------------------------------------------------------------------------
(* Where push looks for a number, in terms of its offset from begin.       *)

(* The number is in the window exactly when its offset is below count.     *)
LEMMA InWindowOffset ==
  ASSUME begin \in SeqNums, count \in 0 .. Size, NEW o \in 0 .. (Modulus - 1)
  PROVE  /\ InWindow(SeqAdd(begin, o)) <=> o < count
         /\ ~InWindow(SeqAdd(begin, o)) /\ ~SeqLt(SeqAdd(begin, o), begin)
               => o \in count .. Half
<1> DEFINE s == SeqAdd(begin, o)
<1>1. /\ count \in 0 .. Modulus /\ 0 \in 0 .. (Modulus - 1) /\ o \in 0 .. Modulus
      /\ 0 \in 0 .. Modulus
  BY SizeFacts
<1>2. SeqAdd(begin, 0) = begin /\ s \in SeqNums
  <2>1. SeqAdd(begin, 0) = IF begin + 0 < Modulus THEN begin + 0 ELSE begin + 0 - Modulus
    BY <1>1, SeqAddWraps
  <2>2. s \in SeqNums
    BY <1>1, SeqAddWraps
  <2> QED BY <2>1, <2>2, SizeFacts DEF SeqNums
<1>3. SeqLt(s, End) <=> (o < count /\ count - o < Half) \/ (o > count /\ o - count > Half)
  BY <1>1, SeqLtOffsets DEF End, SeqAt
<1>4. SeqLt(begin, s) <=> (0 < o /\ o - 0 < Half) \/ (0 > o /\ 0 - o > Half)
  <2>1. SeqLt(SeqAdd(begin, 0), s) <=> (0 < o /\ o - 0 < Half) \/ (0 > o /\ 0 - o > Half)
    BY <1>1, SeqLtOffsets
  <2> QED BY <1>2, <2>1
<1>5. SeqLt(s, begin) <=> (o < 0 /\ 0 - o < Half) \/ (o > 0 /\ o - 0 > Half)
  <2>1. SeqLt(s, SeqAdd(begin, 0)) <=> (o < 0 /\ 0 - o < Half) \/ (o > 0 /\ o - 0 > Half)
    BY <1>1, SeqLtOffsets
  <2> QED BY <1>2, <2>1
<1>6. s = begin <=> o = 0
  <2>1. s = SeqAdd(begin, 0) => o = 0
    BY <1>1, SeqAddInjective
  <2> QED BY <1>2, <2>1
<1>7. SeqGt(s, begin) <=> SeqLt(begin, s)
  BY <1>2, SeqGtIsConverse
<1>8. InWindow(s) <=> (s = begin \/ SeqLt(begin, s)) /\ SeqLt(s, End)
  BY <1>7 DEF InWindow, SeqGe
<1> HIDE DEF s
<1>9. InWindow(s) <=> o < count
  BY <1>3, <1>4, <1>6, <1>8, SizeFacts
<1>10. ~InWindow(s) /\ ~SeqLt(s, begin) => o \in count .. Half
  BY <1>5, <1>9, SizeFacts
<1> QED BY <1>9, <1>10 DEF s

(* There is no space after k drops exactly when the offset is beyond the   *)
(* ring's end after k drops.                                               *)
LEMMA NoSpaceOffset ==
  ASSUME begin \in SeqNums, count \in 0 .. Size, NEW o \in 0 .. Half, NEW k \in 0 .. count
  PROVE  NoSpace(k, SeqAdd(begin, o)) <=> Size + k <= o
<1>1. /\ count \in Nat /\ Size - (count - k) \in Nat
      /\ count + (Size - (count - k)) = Size + k /\ Size + k <= Modulus
      /\ o \in Nat /\ 1 \in Nat /\ o + 1 <= Modulus
      /\ Size + k \in 0 .. (Modulus - 1) /\ o + 1 \in 0 .. Modulus
  BY SizeFacts
<1>2. TotalEnd(k) = SeqAdd(begin, Size + k)
  BY <1>1, SeqAddAssoc DEF TotalEnd, End, SeqAt
<1>3. SeqAdd(SeqAdd(begin, o), 1) = SeqAdd(begin, o + 1)
  BY <1>1, SeqAddAssoc
<1>4. NoSpace(k, SeqAdd(begin, o)) <=>
          \/ Size + k < o + 1 /\ (o + 1) - (Size + k) < Half
          \/ Size + k > o + 1 /\ (Size + k) - (o + 1) > Half
  BY <1>1, <1>2, <1>3, SeqLtOffsets DEF NoSpace
<1> QED BY <1>4, SizeFacts

(* The loop that moves the end stops right after the number pushed.        *)
LEMMA GrowTo ==
  ASSUME NEW b \in SeqNums, NEW e \in 0 .. (Size - 1), NEW c \in 0 .. e
  PROVE  Grow(b, c, SeqAdd(b, e)) = e + 1 - c
<1> DEFINE S == {g \in 0 .. Size : ~SeqLt(SeqAdd(b, c + g), SeqAdd(SeqAdd(b, e), 1))}
<1>1. SeqAdd(SeqAdd(b, e), 1) = SeqAdd(b, e + 1)
  <2>1. e \in Nat /\ 1 \in Nat /\ e + 1 <= Modulus
    BY SizeFacts
  <2> QED BY <2>1, SeqAddAssoc
<1>2. \A g \in 0 .. Size : SeqLt(SeqAdd(b, c + g), SeqAdd(SeqAdd(b, e), 1)) <=> c + g < e + 1
  <2> TAKE g \in 0 .. Size
  <2>1. c + g \in 0 .. (Modulus - 1) /\ e + 1 \in 0 .. Modulus
    BY SizeFacts
  <2>2. SeqLt(SeqAdd(b, c + g), SeqAdd(b, e + 1)) <=>
            \/ c + g < e + 1 /\ (e + 1) - (c + g) < Half
            \/ c + g > e + 1 /\ (c + g) - (e + 1) > Half
    BY <2>1, SeqLtOffsets
  <2> QED BY <1>1, <2>2, SizeFacts
<1>3. S = {g \in 0 .. Size : c + g >= e + 1}
  <2>1. \A g \in 0 .. Size : ~SeqLt(SeqAdd(b, c + g), SeqAdd(SeqAdd(b, e), 1)) <=> c + g >= e + 1
    BY <1>2, SizeFacts
  <2> QED BY <2>1
<1> HIDE DEF S
<1>4. e + 1 - c \in S /\ S \in SUBSET Int /\ \A x \in S : e + 1 - c <= x
  <2>1. e + 1 - c \in 0 .. Size /\ c + (e + 1 - c) >= e + 1
    BY SizeFacts
  <2>2. \A x \in S : x \in Int /\ e + 1 - c <= x
    BY <1>3, SizeFacts
  <2> QED BY <1>3, <2>1, <2>2
<1>5. Min(S) = e + 1 - c
  BY <1>4, MinIs
<1> QED BY <1>5 DEF S, Grow

-----------------------------------------------------------------------------
(* The inductive invariant: the elements of the window are labelled with   *)
(* their number and owned by the queue, and it owns no others.             *)
Held == alive => \A i \in 0 .. (count - 1) :
          SlotAt(i) \in set => /\ user[SlotAt(i)] \in Users
                               /\ tag[user[SlotAt(i)]] = SeqAt(i)
                               /\ fate[user[SlotAt(i)]] = "queued"

Accounted == \A u \in Users : fate[u] = "queued" =>
               alive /\ \E i \in 0 .. (count - 1) : SlotAt(i) \in set /\ user[SlotAt(i)] = u

IInv == TypeOK /\ Held /\ Accounted /\ LastOccupied

(* What push beyond the end computes: with d elements dropped from the     *)
(* front, the new window starts at b, keeps count - d old numbers and ends *)
(* with the number pushed, at offset e.                                    *)
Shape(s, u, d, b, e) ==
  /\ count - d <= e
  /\ s = SeqAdd(b, e)
  /\ count - d > 0 => b = SeqAt(d)
  /\ begin' = b
  /\ count' = e + 1
  /\ set' = (set \ {idx(SeqAdd(b, count - d + g)) : g \in 0 .. (e - (count - d))}) \cup {idx(s)}
  /\ user' = [user EXCEPT ![idx(s)] = u]
  /\ fate' = [Become(ElementsIn(d), "dropped") EXCEPT ![u] = "queued"]

LEMMA PushBeyondShape ==
  ASSUME TypeOK, NEW s \in SeqNums, NEW u \in Users, PushBeyond(s, u)
  PROVE  \E d \in 0 .. count, b \in SeqNums, e \in 0 .. (Size - 1) : Shape(s, u, d, b, e)
<1>0. begin \in SeqNums /\ count \in 0 .. Size
  BY DEF TypeOK
<1>1. PICK o \in 0 .. (Modulus - 1) : s = SeqAdd(begin, o)
  BY <1>0, SeqOffset
<1>2. o \in count .. Half
  BY <1>0, <1>1, InWindowOffset DEF PushBeyond
<1>3. o \in 0 .. Half /\ 0 \in 0 .. count
  BY <1>0, <1>2, SizeFacts
<1>4. \A k \in 0 .. count : NoSpace(k, s) <=> Size + k <= o
  BY <1>0, <1>1, <1>3, NoSpaceOffset
<1>5. ASSUME NEW d \in 0 .. count, NEW b \in SeqNums, NEW e \in 0 .. (Size - 1),
             count - d <= e, s = SeqAdd(b, e), count - d > 0 => b = SeqAt(d),
             d = (IF NoSpace(0, s) THEN FrontDrops(s) ELSE 0),
             b = (IF NoSpace(0, s) /\ d = count THEN s ELSE SeqAt(d))
      PROVE  \E x \in 0 .. count, y \in SeqNums, z \in 0 .. (Size - 1) : Shape(s, u, x, y, z)
  <2> DEFINE c == count - d
             grow == Grow(b, c, s)
  <2>1. c \in 0 .. e
    BY <1>0, <1>5, SizeFacts
  <2>2. grow = e + 1 - c
    BY <1>5, <2>1, GrowTo
  <2>3. /\ begin' = b
        /\ count' = c + grow
        /\ set' = (set \ {idx(SeqAdd(b, c + g)) : g \in 0 .. (grow - 1)}) \cup {idx(s)}
        /\ user' = [user EXCEPT ![idx(s)] = u]
        /\ fate' = [Become(ElementsIn(d), "dropped") EXCEPT ![u] = "queued"]
    BY <1>5 DEF PushBeyond, Passed
  <2> HIDE DEF grow
  <2>4. c + grow = e + 1 /\ grow - 1 = e - c
    BY <2>1, <2>2, <1>0, SizeFacts
  <2>5. set' = (set \ {idx(SeqAdd(b, c + g)) : g \in 0 .. (e - c)}) \cup {idx(s)}
    BY <2>3, <2>4
  <2>6. count' = e + 1
    BY <2>3, <2>4
  <2>7. Shape(s, u, d, b, e)
    BY <1>5, <2>3, <2>5, <2>6 DEF Shape
  <2> QED BY <2>7
<1>6. CASE o < Size
  <2>1. ~NoSpace(0, s) /\ o \in 0 .. (Size - 1) /\ count - 0 <= o
    BY <1>0, <1>2, <1>3, <1>4, <1>6, SizeFacts
  <2>2. SeqAt(0) = begin
    BY <1>0, SizeFacts DEF SeqAt, SeqAdd, SeqNums
  <2> QED BY <1>0, <1>1, <1>3, <1>5, <2>1, <2>2
<1>7. CASE o >= Size
  <2>1. NoSpace(0, s)
    BY <1>3, <1>4, <1>7, SizeFacts
  <2> DEFINE S == {k \in 0 .. count : k = count \/ ~NoSpace(k, s)}
  <2>2. S = {k \in 0 .. count : k = count \/ Size + k > o}
    <3>1. \A k \in 0 .. count : ~NoSpace(k, s) <=> Size + k > o
      BY <1>0, <1>3, <1>4, SizeFacts
    <3> QED BY <3>1
  <2>3. FrontDrops(s) = Min(S)
    BY DEF FrontDrops
  <2> HIDE DEF S
  <2>4. CASE o - Size + 1 < count
    <3> DEFINE d == o - Size + 1
    <3>1. d \in S /\ S \in SUBSET Int /\ \A x \in S : d <= x
      <4>1. d \in 0 .. count /\ Size + d > o
        BY <1>0, <1>3, <1>7, <2>4, SizeFacts
      <4>2. \A x \in S : x \in Int /\ d <= x
        BY <1>0, <1>3, <1>7, <2>2, <2>4, SizeFacts
      <4> QED BY <4>1, <4>2, <2>2
    <3>2. FrontDrops(s) = d
      BY <2>3, <3>1, MinIs
    <3>3. d \in 0 .. count /\ d # count /\ d \in Nat /\ Size - 1 \in Nat
             /\ d + (Size - 1) <= Modulus /\ d + (Size - 1) = o /\ d \in 0 .. Modulus
             /\ count - d <= Size - 1 /\ Size - 1 \in 0 .. (Size - 1)
      BY <1>0, <1>2, <1>3, <1>7, <2>4, SizeFacts
    <3> HIDE DEF d
    <3>4. SeqAt(d) \in SeqNums
      BY <1>0, <3>3, SeqAddWraps DEF SeqAt
    <3>5. s = SeqAdd(SeqAt(d), Size - 1)
      BY <1>0, <1>1, <3>3, SeqAddAssoc DEF SeqAt
    <3> QED BY <1>5, <2>1, <3>2, <3>3, <3>4, <3>5
  <2>5. CASE ~(o - Size + 1 < count)
    <3>1. count \in S /\ S \in SUBSET Int /\ \A x \in S : count <= x
      <4>1. \A x \in S : x \in Int /\ count <= x
        BY <1>0, <1>3, <1>7, <2>2, <2>5, SizeFacts
      <4>2. count \in 0 .. count
        BY <1>0, SizeFacts
      <4> QED BY <4>1, <4>2, <2>2
    <3>2. FrontDrops(s) = count
      BY <2>3, <3>1, MinIs
    <3>3. s = SeqAdd(s, 0) /\ 0 \in 0 .. (Size - 1) /\ count - count <= 0 /\ ~(count - count > 0)
             /\ count \in 0 .. count
      <4>1. 0 \in 0 .. Modulus
        BY SizeFacts
      <4>2. SeqAdd(s, 0) = IF s + 0 < Modulus THEN s + 0 ELSE s + 0 - Modulus
        BY <4>1, SeqAddWraps
      <4> QED BY <1>0, <4>2, SizeFacts DEF SeqNums
    <3> QED BY <1>5, <2>1, <3>2, <3>3
  <2> QED BY <2>4, <2>5
<1> QED BY <1>3, <1>6, <1>7, SizeFacts

(* An element of the window is not fresh, and two of them differ.          *)
LEMMA WindowFacts ==
  ASSUME TypeOK, Held, alive
  PROVE  /\ \A i \in 0 .. Size : SeqAt(i) \in SeqNums /\ SlotAt(i) \in Slots
         /\ \A i, j \in 0 .. (count - 1) :
              SlotAt(i) \in set /\ SlotAt(j) \in set /\ user[SlotAt(i)] = user[SlotAt(j)] => i = j
         /\ \A i, j \in 0 .. (Size - 1) : SlotAt(i) = SlotAt(j) => i = j
<1>0. begin \in SeqNums /\ count \in 0 .. Size
  BY DEF TypeOK
<1>1. \A i \in 0 .. Size : SeqAt(i) \in SeqNums /\ SlotAt(i) \in Slots
  <2> TAKE i \in 0 .. Size
  <2>1. i \in 0 .. Modulus
    BY SizeFacts
  <2>2. SeqAt(i) \in SeqNums
    BY <1>0, <2>1, SeqAddWraps DEF SeqAt
  <2> QED BY <2>2, SlotType DEF SlotAt
<1>2. \A i, j \in 0 .. (count - 1) :
        SlotAt(i) \in set /\ SlotAt(j) \in set /\ user[SlotAt(i)] = user[SlotAt(j)] => i = j
  <2> SUFFICES ASSUME NEW i \in 0 .. (count - 1), NEW j \in 0 .. (count - 1),
                      SlotAt(i) \in set, SlotAt(j) \in set, user[SlotAt(i)] = user[SlotAt(j)]
               PROVE  i = j
    OBVIOUS
  <2>1. SeqAt(i) = SeqAt(j)
    BY DEF Held
  <2>2. i \in 0 .. (Modulus - 1) /\ j \in 0 .. (Modulus - 1)
    BY <1>0, SizeFacts
  <2> QED BY <1>0, <2>1, <2>2, SeqAddInjective DEF SeqAt
<1>3. \A i, j \in 0 .. (Size - 1) : SlotAt(i) = SlotAt(j) => i = j
  BY <1>0, SlotsDistinct DEF SlotAt, SeqAt
<1> QED BY <1>1, <1>2, <1>3

(* Push inside the window preserves the invariant.                         *)
LEMMA PushInsideInv ==
  ASSUME IInv, NEW s \in SeqNums, NEW u \in Users, Push(s, u), PushInside(s, u)
  PROVE  IInv'
<1>0. /\ alive /\ alive' /\ fate[u] = "fresh" /\ begin' = begin /\ count' = count
      /\ tag' = [tag EXCEPT ![u] = s] /\ strategy' = strategy
  BY DEF Push, PushInside, IInv, TypeOK
<1>1. TypeOK /\ Held /\ Accounted /\ LastOccupied /\ begin \in SeqNums /\ count \in 0 .. Size
  BY DEF IInv, TypeOK
<1>2. PICK o \in 0 .. (Modulus - 1) : s = SeqAdd(begin, o)
  BY <1>1, SeqOffset
<1>3. o \in 0 .. (count - 1) /\ s = SeqAt(o) /\ idx(s) = SlotAt(o) /\ idx(s) \in Slots
  <2>1. o < count
    BY <1>1, <1>2, InWindowOffset DEF PushInside
  <2>2. o \in 0 .. (count - 1)
    BY <2>1, <1>1, SizeFacts
  <2> QED BY <1>2, <2>2, SlotType DEF SlotAt, SeqAt
<1>4. \A i : SeqAt(i)' = SeqAt(i) /\ SlotAt(i)' = SlotAt(i)
  BY <1>0 DEF SeqAt, SlotAt
<1>5. \A i \in 0 .. (count - 1) : SlotAt(i) \in set => user[SlotAt(i)] \in Users \ {u}
  BY <1>0, <1>1 DEF Held
<1>6. \A i \in 0 .. (count - 1) : SlotAt(i) = SlotAt(o) => i = o
  BY <1>0, <1>1, <1>3, WindowFacts, SizeFacts
<1>7. CASE idx(s) \in set
  <2>1. set' = set /\ user' = user /\ fate' = [fate EXCEPT ![u] = "dropped"]
    BY <1>1, <1>7 DEF PushInside, Become, TypeOK
  <2>2. TypeOK'
    BY <1>0, <1>1, <2>1 DEF TypeOK, Fates
  <2>3. Held'
    BY <1>0, <1>1, <1>4, <1>5, <2>1 DEF Held, TypeOK
  <2>4. Accounted'
    BY <1>0, <1>1, <1>4, <2>1 DEF Accounted, TypeOK
  <2>5. LastOccupied'
    BY <1>0, <1>1, <1>4, <2>1 DEF LastOccupied
  <2> QED BY <2>2, <2>3, <2>4, <2>5 DEF IInv
<1>8. CASE idx(s) \notin set
  <2>1. /\ set' = set \cup {SlotAt(o)} /\ user' = [user EXCEPT ![SlotAt(o)] = u]
        /\ fate' = [fate EXCEPT ![u] = "queued"]
    BY <1>1, <1>3, <1>8 DEF PushInside, Become, TypeOK
  <2>2. TypeOK'
    BY <1>0, <1>1, <1>3, <2>1 DEF TypeOK, Fates
  <2>3. Held'
    <3> SUFFICES ASSUME NEW i \in 0 .. (count - 1), SlotAt(i) \in set'
                 PROVE  /\ user'[SlotAt(i)] \in Users
                        /\ tag'[user'[SlotAt(i)]] = SeqAt(i)
                        /\ fate'[user'[SlotAt(i)]] = "queued"
      BY <1>0, <1>4 DEF Held
    <3>1. CASE i = o
      BY <1>0, <1>1, <1>3, <2>1, <3>1 DEF TypeOK
    <3>2. CASE i # o
      <4>1. SlotAt(i) # SlotAt(o) /\ SlotAt(i) \in set
        BY <1>6, <2>1, <3>2
      <4>2. user'[SlotAt(i)] = user[SlotAt(i)] /\ user[SlotAt(i)] \in Users \ {u}
        BY <1>1, <1>5, <2>1, <4>1 DEF TypeOK
      <4> QED BY <1>0, <1>1, <2>1, <4>1, <4>2 DEF Held, TypeOK
    <3> QED BY <3>1, <3>2
  <2>4. Accounted'
    <3> SUFFICES ASSUME NEW v \in Users, fate'[v] = "queued"
                 PROVE  \E i \in 0 .. (count - 1) : SlotAt(i) \in set' /\ user'[SlotAt(i)] = v
      BY <1>0, <1>4 DEF Accounted
    <3>1. CASE v = u
      BY <1>1, <1>3, <2>1, <3>1 DEF TypeOK
    <3>2. CASE v # u
      <4>1. PICK i \in 0 .. (count - 1) : SlotAt(i) \in set /\ user[SlotAt(i)] = v
        BY <1>1, <2>1, <3>2 DEF Accounted, TypeOK
      <4>2. SlotAt(i) # SlotAt(o)
        BY <1>3, <1>8, <4>1
      <4> QED BY <1>1, <2>1, <4>1, <4>2 DEF TypeOK
    <3> QED BY <3>1, <3>2
  <2>5. LastOccupied'
    BY <1>0, <1>1, <1>4, <2>1 DEF LastOccupied
  <2> QED BY <2>2, <2>3, <2>4, <2>5 DEF IInv
<1> QED BY <1>7, <1>8

(* Push that drops the element it was given preserves the invariant.       *)
LEMMA PushDropInv ==
  ASSUME IInv, NEW s \in SeqNums, NEW u \in Users, Push(s, u),
         PushOld(s, u) \/ PushNoSpace(s, u)
  PROVE  IInv'
<1>0. /\ alive /\ alive' /\ fate[u] = "fresh" /\ UNCHANGED <<begin, count, set, user, strategy>>
      /\ tag' = [tag EXCEPT ![u] = s]
  BY DEF Push, PushOld, PushNoSpace, IInv, TypeOK
<1>1. TypeOK /\ Held /\ Accounted /\ LastOccupied
  BY DEF IInv
<1>2. fate' = [fate EXCEPT ![u] = "dropped"]
  BY <1>1 DEF PushOld, PushNoSpace, Become, TypeOK
<1>3. \A i : SeqAt(i)' = SeqAt(i) /\ SlotAt(i)' = SlotAt(i)
  BY <1>0 DEF SeqAt, SlotAt
<1>4. TypeOK'
  BY <1>0, <1>1, <1>2 DEF TypeOK, Fates
<1>5. Held'
  BY <1>0, <1>1, <1>2, <1>3 DEF Held, TypeOK
<1>6. Accounted'
  BY <1>0, <1>1, <1>2, <1>3 DEF Accounted, TypeOK
<1>7. LastOccupied'
  BY <1>0, <1>1, <1>3 DEF LastOccupied
<1> QED BY <1>4, <1>5, <1>6, <1>7 DEF IInv

(* Push beyond the end preserves the invariant.                            *)
LEMMA PushBeyondInv ==
  ASSUME IInv, NEW s \in SeqNums, NEW u \in Users, Push(s, u), PushBeyond(s, u)
  PROVE  IInv'
<1>0. /\ alive /\ alive' /\ fate[u] = "fresh" /\ strategy' = strategy
      /\ tag' = [tag EXCEPT ![u] = s]
  BY DEF Push, IInv, TypeOK
<1>1. TypeOK /\ Held /\ Accounted /\ begin \in SeqNums /\ count \in 0 .. Size
  BY DEF IInv, TypeOK
<1>2. PICK d \in 0 .. count, b \in SeqNums, e \in 0 .. (Size - 1) : Shape(s, u, d, b, e)
  BY <1>1, PushBeyondShape
<1> DEFINE c == count - d
           slot(i) == idx(SeqAdd(b, i))
           passed == {idx(SeqAdd(b, count - d + g)) : g \in 0 .. (e - (count - d))}
<1>3. /\ c \in 0 .. e /\ s = SeqAdd(b, e)
      /\ c > 0 => b = SeqAt(d)
      /\ begin' = b /\ count' = e + 1
      /\ set' = (set \ passed) \cup {slot(e)}
      /\ user' = [user EXCEPT ![slot(e)] = u]
      /\ fate' = [Become(ElementsIn(d), "dropped") EXCEPT ![u] = "queued"]
  BY <1>1, <1>2, SizeFacts DEF Shape
<1>4. \A i : SeqAt(i)' = SeqAdd(b, i) /\ SlotAt(i)' = slot(i)
  BY <1>3 DEF SeqAt, SlotAt
<1>5. \A i \in 0 .. (Size - 1) : SeqAdd(b, i) \in SeqNums /\ slot(i) \in Slots
  <2> TAKE i \in 0 .. (Size - 1)
  <2>1. i \in 0 .. Modulus
    BY SizeFacts
  <2>2. SeqAdd(b, i) \in SeqNums
    BY <2>1, SeqAddWraps
  <2> QED BY <2>2, SlotType
<1>6. \A i, j \in 0 .. (Size - 1) : slot(i) = slot(j) => i = j
  BY SlotsDistinct
(* The part of the old window that is kept. *)
<1>7. \A i \in 0 .. (c - 1) : /\ d + i \in 0 .. (count - 1)
                             /\ SeqAdd(b, i) = SeqAt(d + i)
                             /\ slot(i) = SlotAt(d + i)
                             /\ slot(i) \notin passed
                             /\ slot(i) # slot(e)
  <2> TAKE i \in 0 .. (c - 1)
  <2>1. c > 0 /\ d \in Nat /\ i \in Nat /\ d + i <= Modulus /\ d + i \in 0 .. (count - 1)
    BY <1>1, <1>3, SizeFacts
  <2>2. SeqAdd(b, i) = SeqAt(d + i)
    BY <1>1, <1>3, <2>1, SeqAddAssoc DEF SeqAt
  <2>3. slot(i) # slot(e)
    <3>1. i \in 0 .. (Size - 1) /\ e \in 0 .. (Size - 1) /\ i # e
      BY <1>1, <1>3, SizeFacts
    <3> QED BY <3>1, <1>6
  <2>4. ASSUME NEW g \in 0 .. (e - (count - d)), slot(i) = idx(SeqAdd(b, count - d + g))
        PROVE  FALSE
    <3>1. count - d + g \in 0 .. (Size - 1) /\ i \in 0 .. (Size - 1) /\ i # count - d + g
      BY <1>1, <1>3, SizeFacts
    <3> QED BY <3>1, <2>4, <1>6
  <2> QED BY <2>1, <2>2, <2>3, <2>4 DEF SlotAt
<1>8. \A i \in c .. (e - 1) : slot(i) \notin set'
  <2> TAKE i \in c .. (e - 1)
  <2>1. i - (count - d) \in 0 .. (e - (count - d)) /\ count - d + (i - (count - d)) = i
    BY <1>1, <1>3, SizeFacts
  <2>2. slot(i) \in passed
    BY <2>1
  <2>3. i \in 0 .. (Size - 1) /\ i # e
    BY <1>1, <1>3, SizeFacts
  <2>4. slot(i) # slot(e)
    BY <1>6, <2>3
  <2> QED BY <1>3, <2>2, <2>4
<1> HIDE DEF passed, slot, c
<1>9. slot(e) \in Slots /\ e \in 0 .. (Size - 1) /\ e \in Nat /\ c \in Nat
  BY <1>3, <1>5, SizeFacts
<1>10. \A i \in 0 .. (c - 1) : /\ slot(i) \in set' <=> SlotAt(d + i) \in set
                              /\ user'[slot(i)] = user[SlotAt(d + i)]
  <2> TAKE i \in 0 .. (c - 1)
  <2>1. slot(i) \in Slots
    <3>1. i \in 0 .. (Size - 1)
      BY <1>3, <1>9, SizeFacts
    <3> QED BY <3>1, <1>5
  <2> QED BY <1>1, <1>3, <1>7, <2>1 DEF TypeOK
<1>11. user'[slot(e)] = u /\ slot(e) \in set'
  BY <1>1, <1>3, <1>9 DEF TypeOK
<1>12. \A i \in 0 .. e : i \in 0 .. (c - 1) \/ i \in c .. (e - 1) \/ i = e
  BY <1>3, <1>9
<1>13. /\ fate'[u] = "queued"
       /\ \A v \in Users \ {u} : fate'[v] = IF v \in ElementsIn(d) THEN "dropped" ELSE fate[v]
  BY <1>1, <1>3 DEF Become, TypeOK
<1>14. TypeOK'
  <2>1. fate' \in [Users -> Fates]
    BY <1>1, <1>3 DEF Become, TypeOK, Fates
  <2>2. set' \subseteq Slots /\ user' \in [Slots -> Users \cup {NoUser}]
    BY <1>1, <1>3, <1>9 DEF TypeOK
  <2>3. count' \in 0 .. Size
    BY <1>3, <1>9, SizeFacts
  <2> QED BY <1>0, <1>1, <1>3, <2>1, <2>2, <2>3 DEF TypeOK
<1>15. Held'
  <2> SUFFICES ASSUME NEW i \in 0 .. e, slot(i) \in set'
               PROVE  /\ user'[slot(i)] \in Users
                      /\ tag'[user'[slot(i)]] = SeqAdd(b, i)
                      /\ fate'[user'[slot(i)]] = "queued"
    <3>1. (count - 1)' = e
      BY <1>3, <1>9
    <3> QED BY <3>1, <1>4 DEF Held
  <2>1. CASE i = e
    BY <1>0, <1>1, <1>3, <1>11, <1>13, <2>1 DEF TypeOK
  <2>2. CASE i \in 0 .. (c - 1)
    <3>1. SlotAt(d + i) \in set /\ d + i \in 0 .. (count - 1) /\ user'[slot(i)] = user[SlotAt(d + i)]
      BY <1>7, <1>10, <2>2
    <3> DEFINE v == user[SlotAt(d + i)]
    <3>2. v \in Users /\ tag[v] = SeqAt(d + i) /\ fate[v] = "queued"
      BY <1>0, <1>1, <3>1 DEF Held
    <3>3. v \notin ElementsIn(d)
      <4> SUFFICES ASSUME NEW j \in 0 .. (d - 1), SlotAt(j) \in set, user[SlotAt(j)] = v
                   PROVE  FALSE
        BY DEF ElementsIn
      <4>1. j \in 0 .. (count - 1) /\ j # d + i
        BY <1>1, <2>2, SizeFacts
      <4> QED BY <4>1, <1>0, <1>1, <3>1, WindowFacts
    <3>4. v # u
      BY <1>0, <3>2
    <3> HIDE DEF v
    <3>5. fate'[v] = "queued" /\ tag'[v] = SeqAt(d + i)
      BY <1>0, <1>1, <1>13, <3>2, <3>3, <3>4 DEF TypeOK
    <3> QED BY <3>1, <3>2, <3>5, <1>7, <2>2 DEF v
  <2> QED BY <1>8, <1>12, <2>1, <2>2
<1>16. Accounted'
  <2> SUFFICES ASSUME NEW v \in Users, fate'[v] = "queued"
               PROVE  \E i \in 0 .. e : slot(i) \in set' /\ user'[slot(i)] = v
    <3>1. (count - 1)' = e
      BY <1>3, <1>9
    <3> QED BY <3>1, <1>0, <1>4 DEF Accounted
  <2>1. CASE v = u
    BY <1>9, <1>11, <2>1
  <2>2. CASE v # u
    <3>1. v \notin ElementsIn(d) /\ fate[v] = "queued"
      BY <1>13, <2>2
    <3>2. PICK j \in 0 .. (count - 1) : SlotAt(j) \in set /\ user[SlotAt(j)] = v
      BY <1>1, <3>1 DEF Accounted
    <3>3. j \notin 0 .. (d - 1)
      BY <3>1, <3>2 DEF ElementsIn
    <3>4. j - d \in 0 .. (c - 1) /\ d + (j - d) = j
      BY <1>1, <3>3, SizeFacts DEF c
    <3>5. slot(j - d) \in set' /\ user'[slot(j - d)] = v
      BY <1>10, <3>2, <3>4
    <3>6. j - d \in 0 .. e
      BY <1>3, <1>9, <3>4
    <3> QED BY <3>5, <3>6
  <2> QED BY <2>1, <2>2
<1>17. LastOccupied'
  <2>1. SlotAt(count - 1)' = slot(e)
    <3>1. (count - 1)' = e
      BY <1>3, <1>9
    <3> QED BY <1>3, <3>1 DEF SlotAt, SeqAt, slot
  <2> QED BY <1>11, <2>1 DEF LastOccupied
<1> QED BY <1>14, <1>15, <1>16, <1>17 DEF IInv

(* Pull preserves the invariant: the window loses its first number.        *)
LEMMA PullInv ==
  ASSUME IInv, Pull
  PROVE  IInv'
<1>0. /\ alive /\ alive' = alive /\ count > 0 /\ SlotAt(0) \in set /\ begin' = SeqAt(1)
      /\ count' = count - 1 /\ UNCHANGED <<set, user, strategy, tag>>
  BY DEF Pull
<1>1. TypeOK /\ Held /\ Accounted /\ LastOccupied /\ begin \in SeqNums /\ count \in 0 .. Size
  BY DEF IInv, TypeOK
<1> DEFINE w == user[SlotAt(0)]
<1>2. w \in Users /\ fate[w] = "queued" /\ 0 \in 0 .. (count - 1)
  <2>1. 0 \in 0 .. (count - 1)
    BY <1>0, <1>1, SizeFacts
  <2> QED BY <2>1, <1>0, <1>1 DEF Held
<1>3. fate' = [fate EXCEPT ![w] = "pulled"]
  BY <1>1 DEF Pull, Become, TypeOK
<1>4. \A i \in 0 .. (Size - 1) : SeqAt(i)' = SeqAt(i + 1) /\ SlotAt(i)' = SlotAt(i + 1)
  <2> TAKE i \in 0 .. (Size - 1)
  <2>1. 1 \in Nat /\ i \in Nat /\ 1 + i <= Modulus /\ 1 + i = i + 1
    BY SizeFacts
  <2>2. SeqAdd(SeqAdd(begin, 1), i) = SeqAdd(begin, i + 1)
    BY <1>1, <2>1, SeqAddAssoc
  <2> QED BY <1>0, <2>2 DEF SeqAt, SlotAt
<1>5. \A i \in 0 .. (count - 2) : i \in 0 .. (Size - 1) /\ i + 1 \in 0 .. (count - 1) /\ i + 1 # 0
  BY <1>0, <1>1, SizeFacts
<1>6. (count - 1)' = count - 2
  BY <1>0, <1>1, SizeFacts
<1> HIDE DEF w
<1>7. TypeOK'
  <2>1. begin' \in SeqNums
    <3>1. 1 \in 0 .. Modulus
      BY SizeFacts
    <3> QED BY <1>0, <1>1, <3>1, SeqAddWraps DEF SeqAt
  <2>2. count' \in 0 .. Size
    BY <1>0, <1>1, SizeFacts
  <2> QED BY <1>0, <1>1, <1>3, <2>1, <2>2 DEF TypeOK, Fates
<1>8. Held'
  <2> SUFFICES ASSUME NEW i \in 0 .. (count - 2), SlotAt(i + 1) \in set
               PROVE  /\ user[SlotAt(i + 1)] \in Users
                      /\ tag[user[SlotAt(i + 1)]] = SeqAt(i + 1)
                      /\ fate'[user[SlotAt(i + 1)]] = "queued"
    BY <1>0, <1>4, <1>5, <1>6 DEF Held
  <2>1. user[SlotAt(i + 1)] # w
    BY <1>0, <1>1, <1>2, <1>5, WindowFacts DEF w
  <2> QED BY <1>0, <1>1, <1>3, <1>5, <2>1 DEF Held, TypeOK
<1>9. Accounted'
  <2> SUFFICES ASSUME NEW v \in Users, fate'[v] = "queued"
               PROVE  \E i \in 0 .. (count - 2) : SlotAt(i + 1) \in set /\ user[SlotAt(i + 1)] = v
    BY <1>0, <1>4, <1>5, <1>6 DEF Accounted
  <2>1. v # w /\ fate[v] = "queued"
    BY <1>1, <1>3 DEF TypeOK
  <2>2. PICK j \in 0 .. (count - 1) : SlotAt(j) \in set /\ user[SlotAt(j)] = v
    BY <1>1, <2>1 DEF Accounted
  <2>3. j # 0
    BY <2>1, <2>2 DEF w
  <2>4. j - 1 \in 0 .. (count - 2) /\ (j - 1) + 1 = j
    BY <1>1, <2>3, SizeFacts
  <2> QED BY <2>2, <2>4
<1>10. LastOccupied'
  <2> SUFFICES ASSUME count' > 0
               PROVE  SlotAt(count - 1)' \in set
    BY <1>0 DEF LastOccupied
  <2>1. count - 2 \in 0 .. (Size - 1) /\ (count - 2) + 1 = count - 1 /\ count > 0
    BY <1>0, <1>1, SizeFacts
  <2>2. SlotAt(count - 1)' = SlotAt(count - 1)
    <3>1. SlotAt(count - 2)' = idx(SeqAdd(begin', (count - 2)'))
      BY DEF SlotAt, SeqAt
    <3>2. SlotAt(count - 1)' = idx(SeqAdd(begin', count - 2))
      BY <1>6 DEF SlotAt, SeqAt
    <3>3. idx(SeqAdd(begin', count - 2)) = SlotAt((count - 2) + 1)
      <4>1. \A i \in 0 .. (Size - 1) : idx(SeqAdd(begin', i)) = SlotAt(i + 1)
        BY <1>4 DEF SlotAt, SeqAt
      <4> QED BY <2>1, <4>1
    <3> QED BY <3>2, <3>3, <2>1
  <2> QED BY <1>0, <1>1, <2>1, <2>2 DEF LastOccupied
<1> QED BY <1>7, <1>8, <1>9, <1>10 DEF IInv

(* Fini preserves the invariant: the queue gives up all it owned.          *)
LEMMA FiniInv ==
  ASSUME IInv, Fini
  PROVE  IInv'
<1>0. /\ alive /\ ~alive' /\ fate' = Become(ElementsIn(count), "dropped")
      /\ UNCHANGED <<begin, count, set, user, strategy, tag>>
  BY DEF Fini
<1>1. TypeOK /\ Accounted
  BY DEF IInv
<1>2. TypeOK'
  <2>1. alive' \in BOOLEAN
    BY DEF Fini
  <2>2. fate' \in [Users -> Fates]
    BY <1>0, <1>1 DEF Become, TypeOK, Fates
  <2> QED BY <1>0, <1>1, <2>1, <2>2 DEF TypeOK
<1>3. Held' /\ LastOccupied'
  BY <1>0 DEF Held, LastOccupied
<1>4. ASSUME NEW v \in Users, fate'[v] = "queued"
      PROVE  FALSE
  <2>1. fate'[v] = IF v \in ElementsIn(count) THEN "dropped" ELSE fate[v]
    BY <1>0 DEF Become
  <2>2. fate[v] = "queued" /\ v \notin ElementsIn(count)
    BY <1>4, <2>1
  <2> QED BY <1>1, <2>2 DEF Accounted, ElementsIn
<1> QED BY <1>2, <1>3, <1>4 DEF IInv, Accounted

(* The invariant is inductive.                                             *)
LEMMA StepInv ==
  ASSUME IInv, [Next]_vars
  PROVE  IInv'
<1>1. ASSUME NEW s \in SeqNums, NEW u \in Users, Push(s, u)
      PROVE  IInv'
  <2>1. PushInside(s, u) \/ PushOld(s, u) \/ PushNoSpace(s, u) \/ PushBeyond(s, u)
    BY <1>1 DEF Push
  <2> QED BY <1>1, <2>1, PushInsideInv, PushDropInv, PushBeyondInv
<1>2. CASE Pull
  BY <1>2, PullInv
<1>3. ASSUME NEW x \in Strategies, SetDropStrategy(x)
      PROVE  IInv'
  BY <1>3 DEF SetDropStrategy, IInv, TypeOK, Held, Accounted, LastOccupied, SlotAt, SeqAt
<1>4. CASE Fini
  BY <1>4, FiniInv
<1>5. CASE UNCHANGED vars
  BY <1>5 DEF vars, IInv, TypeOK, Held, Accounted, LastOccupied, SlotAt, SeqAt
<1> QED BY <1>1, <1>2, <1>3, <1>4, <1>5 DEF Next

(* It holds initially.                                                     *)
LEMMA InitInv == Init => IInv
<1> SUFFICES ASSUME Init PROVE IInv
  OBVIOUS
<1>1. 0 \in 0 .. Size /\ 0 \in SeqNums
  BY SizeFacts DEF SeqNums
<1>2. TypeOK
  BY <1>1 DEF Init, TypeOK, Strategies, Fates
<1>3. Held /\ Accounted /\ LastOccupied
  BY DEF Init, Held, Accounted, LastOccupied
<1> QED BY <1>2, <1>3 DEF IInv

LEMMA Inductive == Spec => []IInv
<1>1. IInv /\ [Next]_vars => IInv'
  BY StepInv
<1> QED BY <1>1, InitInv, PTL DEF Spec

(* Every field keeps its range: in particular the window never outgrows    *)
(* the ring, the assertion count <= QUEUE_SIZE of push and pull.           *)
THEOREM TypeCorrect == Spec => []TypeOK
<1>1. IInv => TypeOK
  BY DEF IInv
<1> QED BY <1>1, Inductive, PTL

(* The assertion of push after its early exits, with the one exception a   *)
(* number of fixed width leaves.                                           *)
THEOREM BeyondIsGeHolds == Spec => []BeyondIsGe
<1>1. TypeOK => BeyondIsGe
  <2> SUFFICES ASSUME TypeOK, NEW s \in SeqNums, ~InWindow(s), ~SeqLt(s, begin)
               PROVE  SeqGe(s, End) \/ (count = 0 /\ s = SeqAdd(begin, Half))
    BY DEF BeyondIsGe
  <2>1. begin \in SeqNums /\ count \in 0 .. Size
    BY DEF TypeOK
  <2>2. PICK o \in 0 .. (Modulus - 1) : s = SeqAdd(begin, o)
    BY <2>1, SeqOffset
  <2>3. o \in count .. Half
    BY <2>1, <2>2, InWindowOffset
  <2>4. CASE o = count
    BY <2>2, <2>4 DEF SeqGe, End, SeqAt
  <2>5. CASE o # count /\ o - count < Half
    <3>1. count \in 0 .. (Modulus - 1) /\ o \in 0 .. Modulus /\ count \in 0 .. Modulus
      BY <2>1, <2>3, SizeFacts
    <3>2. SeqLt(SeqAdd(begin, count), SeqAdd(begin, o))
      BY <2>1, <2>3, <2>5, <3>1, SeqLtOffsets, SizeFacts
    <3>3. SeqAdd(begin, count) \in SeqNums
      BY <2>1, <3>1, SeqAddWraps
    <3> QED BY <2>2, <3>2, <3>3, SeqGtIsConverse DEF SeqGe, End, SeqAt
  <2>6. CASE o - count >= Half
    <3>1. count = 0 /\ o = Half
      BY <2>1, <2>3, <2>6, SizeFacts
    <3> QED BY <2>2, <3>1
  <2> QED BY <2>4, <2>5, <2>6, <2>1, <2>3, SizeFacts
<1> QED BY <1>1, TypeCorrect, PTL

(* No element pushed is lost, held twice or freed while it is held.        *)
THEOREM OwnershipHolds == Spec => []Ownership
<1>1. IInv => Ownership
  <2> SUFFICES ASSUME IInv
               PROVE  Ownership
    OBVIOUS
  <2>1. CASE alive
    <3>1. ASSUME NEW u \in Users, fate[u] = "queued"
          PROVE  u \in ElementsIn(count)
      BY <3>1 DEF IInv, Accounted, ElementsIn
    <3>2. ASSUME NEW u \in ElementsIn(count)
          PROVE  u \in Users /\ fate[u] = "queued"
      BY <2>1 DEF IInv, Held, ElementsIn
    <3> QED BY <2>1, <3>1, <3>2 DEF Ownership
  <2>2. CASE ~alive
    BY <2>2 DEF IInv, Accounted, Ownership
  <2> QED BY <2>1, <2>2
<1> QED BY <1>1, Inductive, PTL

(* Pull returns, for the number it reports, the element pushed with it.    *)
THEOREM LabelledHolds == Spec => []Labelled
<1>1. IInv => Labelled
  BY DEF IInv, Held, Labelled
<1> QED BY <1>1, Inductive, PTL

(* A non-empty window always ends with an element.                         *)
THEOREM LastOccupiedHolds == Spec => []LastOccupied
<1>1. IInv => LastOccupied
  BY DEF IInv
<1> QED BY <1>1, Inductive, PTL

(* Once an element has been pulled or dropped, no later call hands it out  *)
(* or frees it again.                                                      *)
THEOREM LeavesOnceHolds == Spec => LeavesOnce
<1> DEFINE Stays == \A u \in Users : fate[u] \in {"pulled", "dropped"} => fate'[u] = fate[u]
<1>1. ASSUME IInv, [Next]_vars
      PROVE  [Stays]_vars
  <2>0. TypeOK /\ Held /\ fate \in [Users -> Fates] /\ count \in 0 .. Size
    BY <1>1 DEF IInv, TypeOK
  <2>1. \A d \in 0 .. count : alive => \A v \in ElementsIn(d) : v \in Users /\ fate[v] = "queued"
    <3> SUFFICES ASSUME NEW d \in 0 .. count, alive,
                        NEW i \in 0 .. (d - 1), SlotAt(i) \in set
                 PROVE  user[SlotAt(i)] \in Users /\ fate[user[SlotAt(i)]] = "queued"
      BY DEF ElementsIn
    <3>1. i \in 0 .. (count - 1)
      BY <2>0, SizeFacts
    <3> QED BY <2>0, <3>1 DEF Held
  <2>2. ASSUME NEW s \in SeqNums, NEW u \in Users, Push(s, u)
        PROVE  Stays
    <3>1. alive /\ fate[u] = "fresh"
      BY <2>2 DEF Push
    <3>2. CASE PushInside(s, u) \/ PushOld(s, u) \/ PushNoSpace(s, u)
      BY <3>1, <3>2 DEF PushInside, PushOld, PushNoSpace, Become
    <3>3. CASE PushBeyond(s, u)
      <4>1. PICK d \in 0 .. count, b \in SeqNums, e \in 0 .. (Size - 1) : Shape(s, u, d, b, e)
        BY <2>0, <3>3, PushBeyondShape
      <4>2. \A v \in Users \ {u} : fate'[v] = IF v \in ElementsIn(d) THEN "dropped" ELSE fate[v]
        BY <4>1 DEF Shape, Become
      <4> QED BY <2>1, <3>1, <4>2
    <3> QED BY <2>2, <3>2, <3>3 DEF Push
  <2>3. CASE Pull
    <3>1. 0 \in 0 .. (count - 1) /\ SlotAt(0) \in set /\ alive
      BY <2>0, <2>3, SizeFacts DEF Pull
    <3>2. fate[user[SlotAt(0)]] = "queued"
      BY <2>0, <3>1 DEF Held
    <3> QED BY <2>3, <3>2 DEF Pull, Become
  <2>4. ASSUME NEW x \in Strategies, SetDropStrategy(x)
        PROVE  Stays
    BY <2>4 DEF SetDropStrategy
  <2>5. CASE Fini
    <3>1. count \in 0 .. count
      BY <2>0, SizeFacts
    <3>2. \A v \in ElementsIn(count) : fate[v] = "queued"
      BY <2>1, <2>5, <3>1 DEF Fini
    <3> QED BY <2>5, <3>2 DEF Fini, Become
  <2> QED BY <1>1, <2>2, <2>3, <2>4, <2>5 DEF Next
<1>2. IInv /\ [Next]_vars => [Stays]_vars
  BY <1>1
<1> QED BY <1>2, Inductive, PTL DEF Spec, LeavesOnce
=============================================================================
