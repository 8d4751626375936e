------------------------------ MODULE KeysProofs ------------------------------
(***************************************************************************)
(* The positions and bytes of the key stream (the components of MCKeys):   *)
(* the ring of KeyBuffer, the completion of received positions by KeyState *)
(* and the positions, MACs and key stream of packets sent by TakionCrypt,  *)
(* for every size and width.                                               *)
(***************************************************************************)
EXTENDS KeyBuffer, KeyState, TakionCrypt, SeqNumProofs, SequenceTheorems

-----------------------------------------------------------------------------
(* KeyBuffer.  The invariant says that the offsets are multiples of the    *)
(* chunk size (so a chunk is contiguous in the ring), that cell start + k  *)
(* of the ring holds the key stream at min + k for every k below           *)
(* populated, and that the buffer is not ahead of the last request.        *)
Aligned == /\ \E a \in 0 .. (Chunks - 1) : start = ChunkSize * a
           /\ \E b \in 0 .. Chunks : populated = ChunkSize * b

Window == \A k \in 0 .. (populated - 1) : buf[Cell(start + k)] = min + k

IInv == TypeOK /\ Aligned /\ Window /\ NeverAhead

LEMMA SizeFacts == /\ Size \in Nat \ {0}
                   /\ ChunkSize \in Nat \ {0}
                   /\ 2 * ChunkSize <= Size
                   /\ Size = ChunkSize * Chunks
                   /\ Chunks \in Nat
<1>1. Chunks >= 2 /\ Chunks \in Nat /\ ChunkSize \in Nat /\ ChunkSize >= 1
  BY KeyBufferAssumption
<1>2. ChunkSize * Chunks = 2 * ChunkSize + ChunkSize * (Chunks - 2)
  BY <1>1
<1>3. ChunkSize * (Chunks - 2) \in Nat
  BY <1>1
<1> QED
  BY <1>1, <1>2, <1>3 DEF Size

LEMMA SizeBounds == /\ Size \in Nat /\ ChunkSize \in Nat
                    /\ ChunkSize > 0 /\ 2 * ChunkSize <= Size
  BY SizeFacts

(* An offset of at most two rings wraps around at most once.               *)
LEMMA Wrap == \A x \in 0 .. (2 * Size - 1) : Cell(x) = IF x < Size THEN x ELSE x - Size
<1> TAKE x \in 0 .. (2 * Size - 1)
<1> QED
  BY SizeFacts DEF Cell

(* A chunk at a multiple of the chunk size does not straddle the end.      *)
LEMMA ChunkFits ==
  ASSUME NEW s \in Nat, NEW p \in Nat,
         \E a \in 0 .. (Chunks - 1) : s = ChunkSize * a,
         \E b \in 0 .. (Chunks - 1) : p = ChunkSize * b
  PROVE  /\ p + ChunkSize <= Size
         /\ s + ChunkSize <= Size
         /\ Cell(s + p) \in Nat
         /\ Cell(s + p) + ChunkSize <= Size
<1>1. PICK a \in 0 .. (Chunks - 1) : s = ChunkSize * a
  OBVIOUS
<1>2. PICK b \in 0 .. (Chunks - 1) : p = ChunkSize * b
  OBVIOUS
<1>3. \A n \in 0 .. (Chunks - 1) : ChunkSize * n + ChunkSize <= Size /\ ChunkSize * n \in Nat
  <2> SUFFICES ASSUME NEW n \in 0 .. (Chunks - 1)
               PROVE  ChunkSize * n + ChunkSize <= Size /\ ChunkSize * n \in Nat
    OBVIOUS
  <2>1. Size = ChunkSize * n + ChunkSize + ChunkSize * (Chunks - 1 - n)
    BY SizeFacts
  <2>2. ChunkSize * (Chunks - 1 - n) \in Nat /\ ChunkSize * n \in Nat
    BY SizeFacts
  <2> QED
    BY <2>1, <2>2, SizeFacts
<1>4. s + ChunkSize <= Size /\ p + ChunkSize <= Size
  BY <1>1, <1>2, <1>3
<1>5. s + p \in 0 .. (2 * Size - 1)
  BY <1>4, SizeFacts
<1>6. CASE s + p < Size
  <2>1. Cell(s + p) = s + p
    BY <1>5, <1>6, Wrap, SizeBounds
  <2>2. a + b < Chunks
    <3> SUFFICES ASSUME a + b >= Chunks PROVE FALSE
      BY SizeFacts
    <3>1. s + p = Size + ChunkSize * (a + b - Chunks)
      BY <1>1, <1>2, SizeFacts
    <3>2. ChunkSize * (a + b - Chunks) \in Nat
      BY SizeFacts
    <3> QED
      BY <3>1, <3>2, <1>6, SizeFacts
  <2>3. a + b \in 0 .. (Chunks - 1) /\ s + p = ChunkSize * (a + b)
    BY <2>2, <1>1, <1>2, SizeFacts
  <2> QED
    BY <2>1, <2>3, <1>3, <1>4
<1>7. CASE s + p >= Size
  <2>1. Cell(s + p) = s + p - Size
    BY <1>5, <1>7, Wrap, SizeFacts
  <2> QED
    BY <2>1, <1>4, <1>7, SizeFacts
<1> QED
  BY <1>6, <1>7, SizeFacts

(* The cells of the window are cells; the chunk after the window is apart  *)
(* from them and in order.                                                 *)
LEMMA NextChunk ==
  ASSUME NEW s \in Cells, NEW p \in Nat, p + ChunkSize <= Size,
         Cell(s + p) + ChunkSize <= Size
  PROVE  /\ \A k \in 0 .. (p - 1) :
              /\ Cell(s + k) \in Cells
              /\ Cell(s + k) \notin Cell(s + p) .. (Cell(s + p) + ChunkSize - 1)
         /\ \A k \in p .. (p + ChunkSize - 1) : Cell(s + k) = Cell(s + p) + (k - p)
<1>0. s \in Nat /\ s < Size
  BY SizeFacts DEF Cells
<1>1. \A k \in 0 .. (p + ChunkSize - 1) : s + k \in 0 .. (2 * Size - 1)
  BY SizeFacts DEF Cells
<1>2. \A k \in 0 .. (p + ChunkSize - 1) : Cell(s + k) = IF s + k < Size THEN s + k ELSE s + k - Size
  <2> TAKE k \in 0 .. (p + ChunkSize - 1)
  <2>1. s + k \in 0 .. (2 * Size - 1)
    BY <1>1
  <2> QED
    BY <2>1, <1>0, Wrap, SizeBounds
<1>3. Cell(s + p) = IF s + p < Size THEN s + p ELSE s + p - Size
  BY <1>2, SizeFacts
<1>5. ASSUME NEW k \in 0 .. (p - 1)
      PROVE  /\ Cell(s + k) \in Cells
             /\ Cell(s + k) \notin Cell(s + p) .. (Cell(s + p) + ChunkSize - 1)
  <2>1. k \in 0 .. (p + ChunkSize - 1) /\ k < p
    BY SizeFacts
  <2>2. Cell(s + k) = IF s + k < Size THEN s + k ELSE s + k - Size
    BY <1>2, <2>1
  <2> QED
    BY <1>3, <1>0, <2>1, <2>2, SizeFacts DEF Cells
<1>6. ASSUME NEW k \in p .. (p + ChunkSize - 1)
      PROVE  Cell(s + k) = Cell(s + p) + (k - p)
  <2>1. k \in 0 .. (p + ChunkSize - 1) /\ k >= p /\ k < p + ChunkSize
    BY SizeFacts
  <2>2. Cell(s + k) = IF s + k < Size THEN s + k ELSE s + k - Size
    BY <1>2, <2>1
  <2> QED
    BY <1>3, <1>0, <2>1, <2>2, SizeFacts
<1> QED
  BY <1>5, <1>6

LEMMA InitIInv == Init => IInv
<1> SUFFICES ASSUME Init PROVE IInv
  OBVIOUS
<1> USE SizeFacts DEF Init
<1>1. TypeOK
  <2>1. buf \in [Cells -> Nat \cup {Garbage}] /\ 0 \in Cells /\ 0 \in 0 .. Size
    BY DEF Cells
  <2>2. stop \in BOOLEAN /\ signal \subseteq Readers
    OBVIOUS
  <2>3. pc # "generate"
    OBVIOUS
  <2> QED
    BY <2>1, <2>2, <2>3 DEF TypeOK
<1>2. Aligned
  <2>1. 0 \in 0 .. (Chunks - 1) /\ 0 \in 0 .. Chunks /\ ChunkSize * 0 = 0
    BY KeyBufferAssumption
  <2> QED
    BY <2>1 DEF Aligned
<1>3. Window /\ NeverAhead
  BY DEF Window, NeverAhead
<1> QED
  BY <1>1, <1>2, <1>3 DEF IInv

(* Steps that leave the ring alone, and do not set last back.              *)
LEMMA RingUnchanged ==
  ASSUME IInv, UNCHANGED <<buf, populated, min, start>>, last' \in Nat, last' >= last, TypeOK'
  PROVE  IInv'
  BY DEF IInv, TypeOK, Aligned, Window, NeverAhead

LEMMA StepIInv == IInv /\ [Next]_vars => IInv'
<1> SUFFICES ASSUME IInv, [Next]_vars PROVE IInv'
  OBVIOUS
<1>1. /\ TypeOK /\ Aligned /\ Window /\ NeverAhead
      /\ start \in Cells /\ populated \in Nat /\ min \in Nat /\ last \in Nat
      /\ populated <= Size
  BY SizeFacts DEF IInv, TypeOK
<1>2. ASSUME NEW r \in Readers, NEW q \in Requests, Get(r, q[1], q[2]) PROVE IInv'
  <2>1. q[1] + q[2] \in Nat
    BY DEF Requests, Positions
  <2>2. last' \in Nat /\ last' >= last
    BY <1>1, <1>2, <2>1 DEF Get
  <2>3. TypeOK'
    BY <1>1, <1>2, <2>2 DEF TypeOK, Get
  <2> QED
    BY <1>2, <2>2, <2>3, RingUnchanged DEF Get
<1>3. ASSUME NEW r \in Readers, GetSignal(r) PROVE IInv'
  <2>1. TypeOK'
    BY <1>1, <1>3 DEF TypeOK, GetSignal, Wake
  <2> QED
    BY <1>1, <1>3, <2>1, RingUnchanged DEF GetSignal
<1>4. CASE Stop \/ Wait \/ Failed \/ Spurious \/ FiniFlag \/ FiniSignal \/ FiniJoin \/ UNCHANGED vars
  <2>1. TypeOK'
    BY <1>1, <1>4 DEF TypeOK, Stop, Wait, Failed, Spurious, FiniFlag, FiniSignal, FiniJoin, Wake, vars
  <2>2. UNCHANGED <<buf, populated, min, start, last>>
    BY <1>4 DEF Stop, Wait, Failed, Spurious, FiniFlag, FiniSignal, FiniJoin, vars
  <2> QED
    BY <1>1, <2>1, <2>2, RingUnchanged
<1>5. CASE Skip
  <2>1. /\ start' = 0 /\ populated' = 0 /\ min' = (last \div ChunkSize) * ChunkSize
        /\ last' = last /\ pc' = "generate"
        /\ UNCHANGED <<stop, signal, fini>>
    BY <1>5 DEF Skip, Generate
  <2>2. min' \in Nat /\ min' <= last
    <3>1. /\ last \div ChunkSize \in Nat
          /\ last = ChunkSize * (last \div ChunkSize) + (last % ChunkSize)
          /\ last % ChunkSize \in Nat
      BY <1>1, SizeFacts
    <3>2. (last \div ChunkSize) * ChunkSize = ChunkSize * (last \div ChunkSize)
      BY <3>1, SizeFacts
    <3>3. ChunkSize * (last \div ChunkSize) \in Nat
      BY <3>1, SizeFacts
    <3> HIDE DEF Size
    <3> QED
      BY <2>1, <3>1, <3>2, <3>3, <1>1
  <2>3. buf' \in [Cells -> Nat \cup {Garbage}]
    BY <1>1, <1>5 DEF Skip, Generate, TypeOK
  <2>4. TypeOK'
    BY <1>1, <2>1, <2>2, <2>3, SizeFacts DEF TypeOK, Cells
  <2>5. Aligned'
    <3>1. 0 \in 0 .. (Chunks - 1) /\ 0 \in 0 .. Chunks /\ ChunkSize * 0 = 0
      BY KeyBufferAssumption
    <3> QED
      BY <2>1, <3>1 DEF Aligned
  <2>6. Window' /\ NeverAhead'
    BY <2>1, <2>2 DEF Window, NeverAhead
  <2> QED
    BY <2>4, <2>5, <2>6 DEF IInv
<1>6. CASE Rotate
  <2>1. /\ populated = Size /\ ShouldGenerate(last)
        /\ start' = Cell(start + ChunkSize) /\ min' = min + ChunkSize
        /\ populated' = Size - ChunkSize /\ last' = last /\ pc' = "generate"
        /\ UNCHANGED <<stop, signal, fini>>
    BY <1>1, <1>6, SizeFacts DEF Rotate, Generate, Pred
  <2>2. PICK a \in 0 .. (Chunks - 1) : start = ChunkSize * a
    BY <1>1 DEF Aligned
  <2>3. \E b \in 0 .. (Chunks - 1) : populated' = ChunkSize * b
    <3>1. Size - ChunkSize = ChunkSize * (Chunks - 1) /\ Chunks - 1 \in 0 .. (Chunks - 1)
      BY SizeFacts, KeyBufferAssumption
    <3> QED
      BY <2>1, <3>1
  <2>4. \E n \in 0 .. (Chunks - 1) : start' = ChunkSize * n
    <3>1. start + ChunkSize = ChunkSize * (a + 1)
      BY <2>2, SizeFacts
    <3>2. start + ChunkSize \in 0 .. (2 * Size - 1)
      BY <1>1, SizeFacts DEF Cells
    <3>3. CASE start + ChunkSize < Size
      <4>1. start' = ChunkSize * (a + 1)
        BY <2>1, <3>1, <3>2, <3>3, Wrap, SizeBounds
      <4>2. a + 1 # Chunks
        BY <3>1, <3>3, SizeFacts
      <4>3. a + 1 \in 0 .. (Chunks - 1)
        BY <4>2, SizeFacts
      <4> QED
        BY <4>1, <4>3
    <3>4. CASE start + ChunkSize >= Size
      <4>1. ChunkSize * a + ChunkSize <= Size
        <5>1. Size = ChunkSize * a + ChunkSize + ChunkSize * (Chunks - 1 - a)
          BY SizeFacts
        <5>2. ChunkSize * (Chunks - 1 - a) \in Nat /\ ChunkSize * a \in Nat
          BY SizeFacts
        <5> QED
          BY <5>1, <5>2, SizeFacts
      <4>2. start + ChunkSize = Size
        BY <4>1, <2>2, <3>4, SizeFacts
      <4>3. start' = ChunkSize * 0
        BY <2>1, <3>2, <4>2, Wrap, SizeFacts
      <4> QED
        BY <4>3, KeyBufferAssumption
    <3> QED
      BY <3>3, <3>4, <3>2, SizeFacts
  <2>5. Aligned'
    BY <2>3, <2>4, SizeFacts DEF Aligned
  <2>6. start' \in Cells /\ min' \in Nat /\ populated' \in Nat /\ populated' = Size - ChunkSize
    <3>1. start' \in Cells
      <4>1. start + ChunkSize \in 0 .. (2 * Size - 1)
        BY <1>1, SizeBounds DEF Cells
      <4> QED
        BY <2>1, <4>1, Wrap, SizeBounds DEF Cells
    <3> QED
      BY <1>1, <2>1, <3>1, SizeFacts
  <2>7. Cell(start' + populated') + ChunkSize <= Size
    <3>1. start' \in Nat
      BY <2>6, SizeFacts DEF Cells
    <3> QED
      BY <2>3, <2>4, <2>6, <3>1, ChunkFits
  <2>8. buf' = [c \in Cells |-> IF c \in Cell(start' + populated') .. (Cell(start' + populated') + ChunkSize - 1)
                                THEN Garbage ELSE buf[c]]
    BY <1>6 DEF Rotate, Generate
  <2>9. TypeOK'
    BY <1>1, <2>1, <2>6, <2>8, SizeFacts DEF TypeOK
  <2>10. Window'
    <3>1. PICK s1 \in Nat, p1 \in Nat : /\ s1 = start' /\ p1 = populated'
                                       /\ s1 \in Cells /\ s1 < Size /\ p1 = Size - ChunkSize
      BY <2>6, SizeBounds DEF Cells
    <3>2. Cell(s1 + p1) + ChunkSize <= Size
      BY <2>7, <3>1
    <3> SUFFICES ASSUME NEW k \in 0 .. (p1 - 1) PROVE buf'[Cell(s1 + k)] = min + (k + ChunkSize)
      BY <1>1, <2>1, <3>1, SizeBounds DEF Window
    <3>3. k \in Nat /\ k < p1 /\ k + ChunkSize \in 0 .. (Size - 1)
      BY <3>1, SizeBounds
    <3>4. Cell(s1 + k) \in Cells /\ Cell(s1 + k) \notin Cell(s1 + p1) .. (Cell(s1 + p1) + ChunkSize - 1)
      BY <3>1, <3>2, NextChunk, SizeBounds
    <3>5. buf'[Cell(s1 + k)] = buf[Cell(s1 + k)]
      BY <2>8, <3>1, <3>4
    <3>6. Cell(s1 + k) = Cell(start + (k + ChunkSize))
      <4>1. start + ChunkSize \in 0 .. (2 * Size - 1) /\ start \in Nat /\ start < Size
        BY <1>1, SizeBounds DEF Cells
      <4>2. s1 = IF start + ChunkSize < Size THEN start + ChunkSize ELSE start + ChunkSize - Size
        BY <2>1, <3>1, <4>1, Wrap, SizeBounds
      <4>a. s1 \in Nat /\ s1 < Size
        BY <3>1
      <4>3. s1 + k \in 0 .. (2 * Size - 1) /\ start + (k + ChunkSize) \in 0 .. (2 * Size - 1)
        BY <3>3, <4>1, <4>a, SizeBounds
      <4>4. Cell(s1 + k) = IF s1 + k < Size THEN s1 + k ELSE s1 + k - Size
        BY <3>3, <4>3, <4>a, Wrap, SizeBounds
      <4>5. Cell(start + (k + ChunkSize))
              = IF start + (k + ChunkSize) < Size THEN start + (k + ChunkSize) ELSE start + (k + ChunkSize) - Size
        BY <3>3, <4>1, <4>3, Wrap, SizeBounds
      <4> QED
        BY <3>1, <3>3, <4>1, <4>2, <4>4, <4>5, SizeBounds
    <3>7. buf[Cell(start + (k + ChunkSize))] = min + (k + ChunkSize)
      BY <1>1, <2>1, <3>3 DEF Window
    <3> QED
      BY <3>5, <3>6, <3>7
  <2>11. NeverAhead'
    <3>1. Size \div 2 >= ChunkSize
      BY SizeFacts
    <3> QED
      BY <1>1, <2>1, <3>1, SizeFacts DEF NeverAhead, ShouldGenerate
  <2> QED
    BY <2>5, <2>9, <2>10, <2>11 DEF IInv
<1>7. CASE Extend
  <2>1. /\ populated < Size
        /\ UNCHANGED <<populated, min, start, last, stop, signal, fini>> /\ pc' = "generate"
    BY <1>1, <1>7, SizeFacts DEF Extend, Generate
  <2>2. \E b \in 0 .. (Chunks - 1) : populated = ChunkSize * b
    <3>1. PICK b \in 0 .. Chunks : populated = ChunkSize * b
      BY <1>1 DEF Aligned
    <3>2. b # Chunks
      BY <2>1, <3>1, SizeFacts
    <3> QED
      BY <3>1, <3>2, SizeFacts
  <2>3. /\ populated + ChunkSize <= Size
        /\ Cell(start + populated) + ChunkSize <= Size
    <3>1. start \in Nat
      BY <1>1, SizeFacts DEF Cells
    <3>2. \E a \in 0 .. (Chunks - 1) : start = ChunkSize * a
      BY <1>1 DEF Aligned
    <3> QED
      BY <1>1, <2>2, <3>1, <3>2, ChunkFits
  <2>4. buf' = [c \in Cells |-> IF c \in Cell(start + populated) .. (Cell(start + populated) + ChunkSize - 1)
                                THEN Garbage ELSE buf[c]]
    BY <1>7 DEF Extend, Generate
  <2>5. TypeOK'
    BY <1>1, <2>1, <2>3, <2>4 DEF TypeOK
  <2>6. Aligned' /\ NeverAhead'
    BY <1>1, <2>1 DEF Aligned, NeverAhead
  <2>7. Window'
    <3> SUFFICES ASSUME NEW k \in 0 .. (populated - 1) PROVE buf'[Cell(start + k)] = min + k
      BY <2>1 DEF Window
    <3>1. /\ Cell(start + k) \in Cells
          /\ Cell(start + k) \notin Cell(start + populated) .. (Cell(start + populated) + ChunkSize - 1)
      BY <1>1, <2>3, NextChunk
    <3> QED
      BY <1>1, <2>4, <3>1 DEF Window
  <2> QED
    BY <2>5, <2>6, <2>7 DEF IInv
<1>8. CASE Generated
  <2>1. /\ populated + ChunkSize <= Size /\ populated' = populated + ChunkSize
        /\ UNCHANGED <<min, start, last, stop, signal, fini>> /\ pc' = "test"
        /\ buf' = [c \in Cells |-> IF c \in Cell(start + populated) .. (Cell(start + populated) + ChunkSize - 1)
                                   THEN min + populated + (c - Cell(start + populated)) ELSE buf[c]]
    BY <1>1, <1>8 DEF Generated, TypeOK
  <2>2. PICK b \in 0 .. (Chunks - 1) : populated = ChunkSize * b
    <3>1. PICK b \in 0 .. Chunks : populated = ChunkSize * b
      BY <1>1 DEF Aligned
    <3>2. b # Chunks
      BY <1>1, <2>1, <3>1, SizeFacts
    <3> QED
      BY <3>1, <3>2, SizeFacts
  <2>3. Cell(start + populated) \in Nat /\ Cell(start + populated) + ChunkSize <= Size
    <3>1. start \in Nat
      BY <1>1, SizeFacts DEF Cells
    <3>2. \E a \in 0 .. (Chunks - 1) : start = ChunkSize * a
      BY <1>1 DEF Aligned
    <3> QED
      BY <1>1, <2>2, <3>1, <3>2, ChunkFits
  <2> DEFINE off == Cell(start + populated)
  <2>4. TypeOK'
    <3>1. \A c \in Cells : c \in off .. (off + ChunkSize - 1) => min + populated + (c - off) \in Nat
      BY <1>1, <2>3, SizeFacts DEF Cells
    <3>2. buf' \in [Cells -> Nat \cup {Garbage}]
      BY <1>1, <2>1, <3>1 DEF TypeOK
    <3>3. populated' \in 0 .. Size
      BY <1>1, <2>1, SizeFacts
    <3> QED
      BY <1>1, <2>1, <3>2, <3>3 DEF TypeOK
  <2>5. Aligned'
    <3>1. populated' = ChunkSize * (b + 1) /\ b + 1 \in 0 .. Chunks
      BY <2>1, <2>2, SizeFacts
    <3> QED
      BY <1>1, <2>1, <3>1 DEF Aligned
  <2>6. NeverAhead'
    BY <1>1, <2>1 DEF NeverAhead
  <2>7. Window'
    <3>0. populated' = populated + ChunkSize /\ start' = start /\ min' = min
      BY <2>1
    <3> SUFFICES ASSUME NEW k \in 0 .. (populated + ChunkSize - 1) PROVE buf'[Cell(start + k)] = min + k
      BY <3>0, <1>1, SizeBounds DEF Window
    <3>1. CASE k < populated
      <4>0. k \in 0 .. (populated - 1)
        BY <1>1, <3>1, SizeFacts
      <4>1. Cell(start + k) \in Cells /\ Cell(start + k) \notin off .. (off + ChunkSize - 1)
        BY <1>1, <2>1, <2>3, <4>0, NextChunk
      <4> QED
        BY <1>1, <2>1, <4>0, <4>1 DEF Window
    <3>2. CASE k >= populated
      <4>0. k \in populated .. (populated + ChunkSize - 1)
        BY <1>1, <3>2, SizeFacts
      <4>1. Cell(start + k) = off + (k - populated)
        BY <1>1, <2>1, <2>3, <4>0, NextChunk
      <4> HIDE DEF off
      <4>2. off + (k - populated) \in Cells /\ off + (k - populated) \in off .. (off + ChunkSize - 1)
        BY <1>1, <2>3, <4>0, SizeFacts DEF Cells, off
      <4>3. buf'[off + (k - populated)] = min + populated + ((off + (k - populated)) - off)
        BY <2>1, <4>2 DEF off
      <4>4. min + populated + ((off + (k - populated)) - off) = min + k
        BY <1>1, <2>3, <4>0 DEF off
      <4> QED
        BY <4>1, <4>3, <4>4
    <3> QED
      BY <3>1, <3>2, <1>1, SizeFacts
  <2> QED
    BY <2>4, <2>5, <2>6, <2>7 DEF IInv
<1> QED
  BY <1>2, <1>3, <1>4, <1>5, <1>6, <1>7, <1>8 DEF Next, Generator

LEMMA Inductive == Spec => []IInv
  BY InitIInv, StepIInv, PTL DEF Spec

(* The types, and the assertion of gkcrypt_generate_next_chunk that there  *)
(* is room for another chunk.                                              *)
THEOREM KeyBufferTypeCorrect == Spec => []TypeOK
<1>1. IInv => TypeOK
  BY DEF IInv
<1> QED
  BY Inductive, <1>1, PTL

(* The buffer never runs ahead of the last request.                        *)
THEOREM NeverAheadHolds == Spec => []NeverAhead
<1>1. IInv => NeverAhead
  BY DEF IInv
<1> QED
  BY Inductive, <1>1, PTL

(* The generator never sleeps over its predicate: whoever makes it true,   *)
(* a reader's request or chiaki_gkcrypt_fini, still has to signal.         *)
THEOREM SignalDueHolds == Spec => []SignalDue
<1>1. Init => SignalDue
  BY DEF Init, SignalDue
<1>2. SignalDue /\ [Next]_vars => SignalDue'
  <2> SUFFICES ASSUME SignalDue, [Next]_vars PROVE SignalDue'
    OBVIOUS
  <2>1. ASSUME NEW r \in Readers, NEW q \in Requests, Get(r, q[1], q[2]) PROVE SignalDue'
    <3>1. CASE ShouldGenerate(last')
      BY <2>1, <3>1 DEF Get, SignalDue
    <3>2. CASE ~ShouldGenerate(last')
      <4>1. Pred' => stop \/ populated < Size
        BY <2>1, <3>2 DEF Get, Pred, ShouldGenerate
      <4> QED BY <2>1, <4>1 DEF Get, SignalDue, Pred
    <3> QED BY <3>1, <3>2
  <2>2. ASSUME NEW r \in Readers, GetSignal(r) PROVE SignalDue'
    BY <2>2 DEF GetSignal, Wake, SignalDue
  <2>3. CASE Wait
    BY <2>3 DEF Wait, Pred, ShouldGenerate, SignalDue
  <2>4. CASE Stop \/ Skip \/ Rotate \/ Extend \/ Generated \/ Failed \/ Spurious \/ FiniSignal \/ FiniJoin
    BY <2>4 DEF Stop, Skip, Rotate, Extend, Generate, Generated, Failed, Spurious, FiniSignal, FiniJoin, Wake, SignalDue
  <2>5. CASE FiniFlag
    BY <2>5 DEF FiniFlag, SignalDue
  <2>6. CASE UNCHANGED vars
    BY <2>6 DEF vars, SignalDue, Pred, ShouldGenerate
  <2> QED BY <2>1, <2>2, <2>3, <2>4, <2>5, <2>6 DEF Next, Generator
<1> QED
  BY <1>1, <1>2, PTL DEF Spec

(* Every request served from the buffer gets the key stream of its own     *)
(* positions: the two memcpy of chiaki_gkcrypt_get_key_stream read the     *)
(* window in order.                                                        *)
THEOREM ReadsRightHolds == Spec => []ReadsRight
<1>1. IInv => ReadsRight
  <2> SUFFICES ASSUME IInv, NEW q \in Requests, Hit(q[1], q[2]), NEW k \in 0 .. (q[2] - 1)
               PROVE  Copied(q[1], q[2], k) = q[1] + k
    BY DEF ReadsRight
  <2>1. /\ Window /\ start \in Nat /\ start < Size /\ populated \in Nat /\ min \in Nat
        /\ populated <= Size
    BY SizeFacts DEF IInv, TypeOK, Cells
  <2>2. q[1] \in Nat /\ q[2] \in Nat /\ q[2] > 0
    BY DEF Requests, Positions
  <2> DEFINE p == q[1]
             n == q[2]
             d == p - min
             offset == Cell(d + start)
  <2>3. d \in Nat /\ d + n < populated /\ k \in Nat /\ k < n /\ d + k \in 0 .. (populated - 1)
    BY <2>1, <2>2 DEF Hit
  <2>4. buf[Cell(start + (d + k))] = min + (d + k)
    BY <2>1, <2>3 DEF Window
  <2>5. min + (d + k) = p + k
    BY <2>1, <2>2, <2>3
  <2> HIDE DEF p, n, d
  <2>6. d + start \in 0 .. (2 * Size - 1) /\ start + (d + k) \in 0 .. (2 * Size - 1)
    BY <2>1, <2>3, SizeFacts
  <2>7. offset = IF d + start < Size THEN d + start ELSE d + start - Size
    BY <2>1, <2>3, <2>6, Wrap, SizeBounds DEF offset
  <2>8. Cell(start + (d + k)) = IF start + (d + k) < Size THEN start + (d + k) ELSE start + (d + k) - Size
    BY <2>1, <2>3, <2>6, Wrap, SizeBounds
  <2> HIDE DEF offset
  <2> DEFINE excess == IF offset + n > Size THEN (offset + n) - Size ELSE 0
             at == IF k < n - excess THEN offset + k ELSE k - (n - excess)
  <2>9. at = Cell(start + (d + k))
    <3>1. n \in Nat
      BY <2>2 DEF n
    <3> QED
      BY <2>1, <2>3, <2>7, <2>8, <3>1, SizeFacts
  <2>10. Copied(q[1], q[2], k) = buf[at]
    BY DEF Copied, offset, n, p, d
  <2> QED
    BY <2>4, <2>5, <2>9, <2>10 DEF p
<1> QED
  BY Inductive, <1>1, PTL

-----------------------------------------------------------------------------
(* KeyState.  The completion is right as long as the console is less than  *)
(* half of the low range ahead of what arrives.                            *)

(* The two halves of a position, and that the upper one fits its width.    *)
LEMMA Halves ==
  ASSUME NEW p \in KeyPositions
  PROVE  /\ Modulus \in Nat \ {0}
         /\ High(p) \in 0 .. (Modulus - 1)
         /\ Low(p) \in 0 .. (Modulus - 1)
         /\ p = Modulus * High(p) + Low(p)
<1>1. Modulus \in Nat \ {0}
  BY HalfAssumption DEF Modulus
<1>2. p \in Nat /\ p < Modulus * Modulus
  BY PosAssumption, <1>1 DEF KeyPositions
<1>3. /\ High(p) \in Nat
      /\ Low(p) \in 0 .. (Modulus - 1)
      /\ p = Modulus * High(p) + Low(p)
  BY <1>1, <1>2, DivMod DEF High, Low
<1>4. High(p) < Modulus
  <2> SUFFICES ASSUME High(p) >= Modulus PROVE FALSE
    BY <1>1, <1>3
  <2>1. PICK e \in Nat : High(p) = Modulus + e
    <3>1. High(p) - Modulus \in Nat
      BY <1>1, <1>3
    <3> QED BY <3>1, <1>1, <1>3
  <2>2. Modulus * High(p) = Modulus * Modulus + Modulus * e /\ Modulus * e \in Nat
    BY <2>1, <1>1
  <2> QED BY <1>1, <1>2, <1>3, <2>2
<1> QED BY <1>1, <1>3, <1>4

(* The upper halves of two positions less than Half apart differ by at     *)
(* most one, and the low halves then differ by the rest.                   *)
LEMMA NearHalves ==
  ASSUME NEW m \in Nat \ {0}, NEW a \in Nat, NEW b \in Nat,
         NEW r \in 0 .. (m - 1), NEW s \in 0 .. (m - 1),
         (m * a + r) - (m * b + s) < m, (m * b + s) - (m * a + r) < m
  PROVE  \/ a = b
         \/ a = b + 1 /\ m * a = m * b + m
         \/ b = a + 1 /\ m * b = m * a + m
<1>1. CASE a >= b + 2
  <2>1. PICK e \in Nat : a = b + 2 + e
    <3>1. a - b - 2 \in Nat
      BY <1>1
    <3> QED BY <3>1
  <2>2. m * a = m * b + 2 * m + m * e /\ m * e \in Nat /\ m * b \in Nat
    BY <2>1
  <2> QED BY <2>2
<1>2. CASE b >= a + 2
  <2>1. PICK e \in Nat : b = a + 2 + e
    <3>1. b - a - 2 \in Nat
      BY <1>2
    <3> QED BY <3>1
  <2>2. m * b = m * a + 2 * m + m * e /\ m * e \in Nat /\ m * a \in Nat
    BY <2>1
  <2> QED BY <2>2
<1>3. CASE a = b + 1
  BY <1>3
<1>4. CASE b = a + 1
  BY <1>4
<1> QED BY <1>1, <1>2, <1>3, <1>4

(* chiaki_key_state_request_pos returns the position that was truncated    *)
(* when it is less than Half away from the previous one, in either         *)
(* direction and across any number of wrap-arounds.                        *)
THEOREM RequestPosCorrect ==
  ASSUME NEW p \in KeyPositions, NEW t \in KeyPositions, t - p < Half, p - t < Half
  PROVE  request_pos(p, Low(t)) = t
<1> DEFINE a == High(t)   r == Low(t)   b == High(p)   s == Low(p)
<1>1. Half \in Nat /\ Half > 0 /\ Modulus = 2 * Half
  BY HalfAssumption DEF Modulus
<1>2. /\ Modulus \in Nat \ {0}
      /\ a \in 0 .. (Modulus - 1) /\ r \in 0 .. (Modulus - 1) /\ t = Modulus * a + r
      /\ b \in 0 .. (Modulus - 1) /\ s \in 0 .. (Modulus - 1) /\ p = Modulus * b + s
  BY Halves
<1> HIDE DEF a, r, b, s
<1>3. Modulus * a \in Nat /\ Modulus * b \in Nat
  BY <1>2
<1>4. (Modulus * a + r) - (Modulus * b + s) < Half /\ (Modulus * b + s) - (Modulus * a + r) < Half
  BY <1>2
<1>5. \/ a = b
      \/ a = b + 1 /\ Modulus * a = Modulus * b + Modulus
      \/ b = a + 1 /\ Modulus * b = Modulus * a + Modulus
  <2>1. (Modulus * a + r) - (Modulus * b + s) < Modulus /\ (Modulus * b + s) - (Modulus * a + r) < Modulus
    BY <1>1, <1>2, <1>3, <1>4
  <2>2. a \in Nat /\ b \in Nat
    BY <1>2
  <2> QED BY <1>2, <2>1, <2>2, NearHalves
<1>6. Completed(p, r) = IF SeqGt(r, s) /\ r < s THEN (b + 1) % Modulus
                        ELSE IF SeqLt(r, s) /\ r > s /\ b # 0 THEN b - 1 ELSE b
  BY DEF Completed, b, s
<1> DEFINE ma == Modulus * a   mb == Modulus * b
<1>7. ma \in Nat /\ mb \in Nat /\ (ma + r) - (mb + s) < Half /\ (mb + s) - (ma + r) < Half
  BY <1>3, <1>4
<1>8. r \in Int /\ s \in Int /\ 0 <= r /\ r < 2 * Half /\ 0 <= s /\ s < 2 * Half
  BY <1>1, <1>2
<1>9. Completed(p, r) = a
  <2>1. CASE a = b
    <3>1. ma = mb
      BY <2>1
    <3> HIDE DEF ma, mb
    <3>2. ~(SeqGt(r, s) /\ r < s) /\ ~(SeqLt(r, s) /\ r > s)
      BY <1>1, <1>7, <1>8, <3>1 DEF SeqGt, SeqLt
    <3> QED BY <2>1, <3>2, <1>6
  <2>2. CASE a = b + 1 /\ ma = mb + Modulus
    <3> HIDE DEF ma, mb
    <3>1. SeqGt(r, s) /\ r < s
      BY <1>1, <1>7, <1>8, <2>2 DEF SeqGt
    <3>2. (b + 1) % Modulus = a
      <4>1. Modulus * 0 + a = a
        BY <1>2
      <4>2. a % Modulus = a
        BY <1>2, <4>1, ModUnique
      <4> QED BY <2>2, <4>2
    <3> QED BY <3>1, <3>2, <1>6
  <2>3. CASE b = a + 1 /\ mb = ma + Modulus
    <3> HIDE DEF ma, mb
    <3>1. SeqLt(r, s) /\ r > s /\ ~(r < s)
      BY <1>1, <1>7, <1>8, <2>3 DEF SeqLt
    <3>2. b # 0 /\ b - 1 = a
      BY <1>2, <2>3
    <3> QED BY <3>1, <3>2, <1>6
  <2> QED BY <1>5, <2>1, <2>2, <2>3
<1>10. request_pos(p, r) = Modulus * a + r
  BY <1>9 DEF request_pos
<1> QED BY <1>2, <1>10 DEF r

(* The inductive invariant: types and the assumed bound on the lag.        *)
KeyStateInv == KeyStateTypeOK /\ Near

LEMMA KeyStateInductive ==
  /\ KeyStateInit => KeyStateInv
  /\ KeyStateInv /\ [KeyStateNext]_keyStateVars => KeyStateInv'
<1>1. Half \in Nat /\ Half > 0 /\ MaxPos \in Nat
  BY HalfAssumption, PosAssumption
<1>2. KeyStateInit => KeyStateInv
  BY <1>1 DEF KeyStateInit, KeyStateInv, KeyStateTypeOK, Near, KeyPositions
<1>3. ASSUME KeyStateInv, [KeyStateNext]_keyStateVars
      PROVE  KeyStateInv'
  <2>1. /\ prev \in 0 .. sent /\ sent \in 0 .. MaxPos /\ net \subseteq 0 .. sent
        /\ \A p \in net \cup {prev} : sent - p < Half
    BY <1>3 DEF KeyStateInv, KeyStateTypeOK, Near, KeyPositions
  <2>2. ASSUME NEW d \in 1 .. Step, Send(d)
        PROVE  KeyStateInv'
    <3>1. /\ sent + d \in 0 .. MaxPos
          /\ \A p \in net \cup {prev} : sent + d - p < Half
          /\ sent' = sent + d /\ net' = net \cup {sent + d} /\ prev' = prev
      BY <2>2 DEF Send, KeyPositions
    <3>2. d \in Nat /\ d > 0
      BY StepAssumption
    <3>3. KeyStateTypeOK'
      <4>1. prev' \in 0 .. sent' /\ sent' \in 0 .. MaxPos
        BY <2>1, <3>1, <3>2
      <4>2. ASSUME NEW p \in net' PROVE p \in 0 .. sent'
        BY <4>2, <2>1, <3>1, <3>2
      <4> QED BY <4>1, <4>2 DEF KeyStateTypeOK, KeyPositions
    <3>4. Near'
      <4>1. PICK n \in Nat : n = sent + d
        BY <2>1, <3>2
      <4>2. PICK w : w = net \cup {n} \cup {prev}
        OBVIOUS
      <4>3. ASSUME NEW p \in w PROVE n - p < Half
        BY <4>1, <4>2, <2>1, <3>1, <1>1
      <4>4. net' \cup {prev'} = w /\ sent' = n
        BY <4>1, <4>2, <3>1
      <4>5. \A p \in net' \cup {prev'} : sent' - p < Half
        BY <4>3, <4>4, Zenon
      <4> QED BY <4>5 DEF Near
    <3> QED BY <3>3, <3>4 DEF KeyStateInv
  <2>3. ASSUME NEW p \in net, Lose(p)
        PROVE  KeyStateInv'
    BY <2>1, <2>3 DEF Lose, KeyStateInv, KeyStateTypeOK, Near, KeyPositions
  <2>4. ASSUME NEW p \in net, HandleMac(p)
        PROVE  KeyStateInv'
    <3>1. p \in 0 .. sent /\ p \in KeyPositions /\ p - p < Half
      BY <2>1, <1>1 DEF KeyPositions
    <3>2. prev' = p
      BY <2>4, <3>1, RequestPosCorrect DEF HandleMac
    <3>3. sent' = sent /\ net' \subseteq net
      BY <2>4 DEF HandleMac
    <3> QED BY <2>1, <3>1, <3>2, <3>3 DEF KeyStateInv, KeyStateTypeOK, Near, KeyPositions
  <2>5. CASE UNCHANGED keyStateVars
    BY <2>1, <2>5 DEF keyStateVars, KeyStateInv, KeyStateTypeOK, Near, KeyPositions
  <2> QED BY <1>3, <2>2, <2>3, <2>4, <2>5 DEF KeyStateNext, HandleMacMismatch
<1> QED BY <1>2, <1>3

(* The state of the key positions is always well typed: what is committed  *)
(* in chiaki_key_state_commit is a position the console has reached.       *)
THEOREM KeyStateTypeCorrect == KeyStateSpec => []KeyStateTypeOK
<1>1. KeyStateInv => KeyStateTypeOK
  BY DEF KeyStateInv
<1> QED BY <1>1, KeyStateInductive, PTL DEF KeyStateSpec

(* No genuine packet is rejected, for every width of the two halves: the   *)
(* position is within Half of the committed one in both directions.        *)
THEOREM NoneRejectedHolds == KeyStateSpec => []NoneRejected
<1>1. KeyStateInv => NoneRejected
  <2> SUFFICES ASSUME KeyStateInv, NEW p \in net
               PROVE  request_pos(prev, Low(p)) = p
    BY DEF NoneRejected
  <2>1. /\ prev \in 0 .. sent /\ sent \in 0 .. MaxPos /\ p \in 0 .. sent
        /\ sent - p < Half /\ sent - prev < Half
    BY DEF KeyStateInv, KeyStateTypeOK, Near, KeyPositions
  <2>2. prev \in KeyPositions /\ p \in KeyPositions /\ p - prev < Half /\ prev - p < Half
    BY <2>1, HalfAssumption, PosAssumption DEF KeyPositions
  <2> QED BY <2>2, RequestPosCorrect
<1> QED BY <1>1, KeyStateInductive, PTL DEF KeyStateSpec

-----------------------------------------------------------------------------
(* TakionCrypt.  A payload is encrypted with the key stream at its own     *)
(* positions, though that is made in whole blocks.                         *)
LEMMA EncryptsOwn ==
  ASSUME NEW p \in Nat, NEW n \in Nat \ {0}
  PROVE  Encrypted(p, n) = p .. (p + n - 1)
<1> DEFINE B == BlockSize
           k == p \div B
           pre == p % B
           full == ((pre + n + B - 1) \div B) * B
           stream == KeyStream(p - pre, full)
<1>1. B \in Nat \ {0}
  BY TakionCryptAssumption
<1>2. k \in Nat /\ pre \in 0 .. (B - 1) /\ p = B * k + pre /\ B * k \in Nat
  <2>1. k \in Nat /\ pre \in 0 .. (B - 1) /\ p = B * k + pre
    BY <1>1, DivMod
  <2> HIDE DEF k
  <2> QED
    BY <1>1, <2>1
<1>3. p - pre = B * k
  BY <1>2
<1>4. (p - pre) \div B = k
  <2>1. 0 \in 0 .. (B - 1) /\ B * k + 0 = B * k
    BY <1>1, <1>2
  <2> QED
    BY <1>1, <1>2, <1>3, <2>1, DivUnique
<1>5. full \in Nat /\ full >= pre + n
  <2> DEFINE a == pre + n + B - 1
             h == a \div B
             l == a % B
  <2>1. a \in Nat
    BY <1>1, <1>2
  <2>2. h \in Nat /\ l \in 0 .. (B - 1) /\ a = B * h + l
    BY <1>1, <2>1, DivMod
  <2>3. full = h * B
    OBVIOUS
  <2> HIDE DEF h, l, full
  <2>4. h * B = B * h /\ B * h \in Nat
    BY <1>1, <2>2
  <2> QED
    BY <1>1, <1>2, <2>2, <2>3, <2>4
<1>6. ASSUME NEW i \in 0 .. n - 1 PROVE stream[pre + i] = p + i
  <2> DEFINE j == pre + i
  <2>1. j \in 0 .. full - 1 /\ j \in Nat
    BY <1>2, <1>5
  <2>2. stream[j] = B * (((p - pre) \div B) + (j \div B)) + (j % B)
    BY <2>1 DEF KeyStream
  <2>3. j \div B \in Nat /\ j % B \in 0 .. (B - 1) /\ j = B * (j \div B) + (j % B)
    BY <1>1, <2>1, DivMod
  <2>4. PICK h \in Nat, l \in 0 .. (B - 1) : h = j \div B /\ l = j % B
    BY <2>3
  <2>5. stream[j] = B * (k + h) + l
    BY <1>4, <2>2, <2>4
  <2>6. j = B * h + l
    BY <2>3, <2>4
  <2>7. B * (k + h) = B * k + B * h
    BY <1>1, <1>2, <2>4
  <2> HIDE DEF stream, k, pre
  <2> QED
    BY <1>1, <1>2, <2>4, <2>5, <2>6, <2>7
<1>7. Encrypted(p, n) = {stream[pre + i] : i \in 0 .. n - 1}
  BY DEF Encrypted
<1>8. Encrypted(p, n) = {p + i : i \in 0 .. n - 1}
  BY <1>6, <1>7
<1> QED
  BY <1>8

(* The key that gkcrypt makes for an index, and the types of the records.  *)
IndexKey(index) == IF index = 0 THEN GmacBase ELSE GmacKey(index)
MacKeys == [from : {"none", "key_base", "key_gmac_base"}, index : Nat]
TakenPackets == [taken : {TRUE}, pos : Nat, size : Nat \ {0}, keyed : BOOLEAN]
SentPackets == [pos : Nat, size : Nat \ {0}, key : MacKeys, bytes : SUBSET Nat, raced : BOOLEAN]

Apart(a, b) == a.pos + a.size <= b.pos \/ b.pos + b.size <= a.pos
HoldsPos(t) == packet[t].taken /\ packet[t].keyed
Regular == {i \in Keyed : ~packets_sent[i].raced}

CryptTypes ==
  /\ key_pos_local \in Nat
  /\ packet \in [Senders -> {NoPacket} \cup TakenPackets]
  /\ packets_sent \in Seq(SentPackets)

KeyMade == key_gmac.index \in Nat /\ key_gmac.key = IndexKey(key_gmac.index)

(* Without keys there are no positions.                                    *)
Unkeyed ==
  /\ ~gkcrypt_local => key_pos_local = 0 /\ Keyed = {} /\ \A t \in Senders : ~HoldsPos(t)
  /\ \A t \in Senders : packet[t].taken /\ ~packet[t].keyed => packet[t].pos = 0

(* The positions of packets sent and of those whose sender only has taken  *)
(* them lie apart from each other and behind the next one.                 *)
Behind ==
  /\ \A t \in Senders : HoldsPos(t) => packet[t].pos + packet[t].size <= key_pos_local
  /\ \A i \in Regular : packets_sent[i].pos + packets_sent[i].size <= key_pos_local
AllApart ==
  /\ \A t, u \in Senders : t # u /\ HoldsPos(t) /\ HoldsPos(u) => Apart(packet[t], packet[u])
  /\ \A i \in Regular, t \in Senders : HoldsPos(t) => Apart(packets_sent[i], packet[t])
  /\ \A i, j \in Regular : i # j => Apart(packets_sent[i], packets_sent[j])

OwnBytes ==
  \A i \in Keyed : /\ packets_sent[i].bytes \subseteq packets_sent[i].pos .. packets_sent[i].pos + packets_sent[i].size - 1
                   /\ packets_sent[i].raced => packets_sent[i].pos = 0

CryptInv == gkcrypt_local \in BOOLEAN /\ CryptTypes /\ KeyMade /\ Unkeyed /\ Behind /\ AllApart /\ OwnBytes /\ MacKeyRight

LEMMA CryptInit == TakionCryptInit => CryptInv
<1> SUFFICES ASSUME TakionCryptInit PROVE CryptInv
  OBVIOUS
<1>1. gkcrypt_local \in BOOLEAN
  BY Zenon DEF TakionCryptInit
<1>2. CryptTypes /\ KeyMade /\ Unkeyed /\ Behind /\ AllApart /\ OwnBytes /\ MacKeyRight
  BY DEF TakionCryptInit, CryptTypes, KeyMade, Unkeyed, Behind, AllApart, OwnBytes, MacKeyRight, Keyed, Regular,
         HoldsPos, NoPacket, IndexKey
<1> QED
  BY <1>1, <1>2 DEF CryptInv

(* The key used for a MAC belongs to the position, and the state stays a   *)
(* key with its index.                                                     *)
LEMMA MacKey ==
  ASSUME KeyMade, NEW pos \in Nat
  PROVE  /\ GmacUsed(pos) = KeyOf(pos) /\ GmacUsed(pos) \in MacKeys /\ GmacUsed(pos) # NoKey
         /\ GmacState(pos).index \in Nat /\ GmacState(pos).key = IndexKey(GmacState(pos).index)
<1>1. KeyIndex(pos) \in Nat
  <2>1. PICK p \in Nat : p = IF pos > 0 THEN pos - 1 ELSE 0
    OBVIOUS
  <2> QED
    BY <2>1, TakionCryptAssumption, DivMod DEF KeyIndex
<1>2. PICK index \in Nat : index = KeyIndex(pos)
  BY <1>1
<1>3. IndexKey(index) \in MacKeys /\ IndexKey(index) # NoKey
  BY DEF IndexKey, GmacBase, GmacKey, NoKey, MacKeys
<1>4. KeyOf(pos) = IndexKey(index) /\ TmpKey(index) = IndexKey(index)
  BY <1>2 DEF KeyOf, IndexKey, TmpKey
<1>5. CASE index > key_gmac.index
  <2>1. GmacState(pos) = NewKey(index) /\ GmacUsed(pos) = NewKey(index).key
    BY <1>2, <1>5 DEF KeyMade, GmacState, GmacUsed
  <2>2. NewKey(index).key = IndexKey(index) /\ NewKey(index).index = index
    BY <1>5 DEF NewKey, IndexKey, KeyMade
  <2> QED
    BY <1>3, <1>4, <2>1, <2>2
<1>6. CASE ~(index > key_gmac.index)
  <2>1. GmacState(pos) = key_gmac
    BY <1>2, <1>6 DEF GmacState
  <2>2. GmacUsed(pos) = IndexKey(index)
    BY <1>2, <1>4, <1>6, <2>1 DEF KeyMade, GmacUsed
  <2> QED
    BY <1>3, <1>4, <2>1, <2>2 DEF KeyMade
<1> QED
  BY <1>5, <1>6

LEMMA SentIsAppended ==
  ASSUME CryptTypes, NEW p \in SentPackets, packets_sent' = Append(packets_sent, p)
  PROVE  \E n \in Nat : /\ packets_sent' \in Seq(SentPackets)
                        /\ DOMAIN packets_sent = 1 .. n /\ DOMAIN packets_sent' = 1 .. n + 1
                        /\ \A i \in 1 .. n : packets_sent'[i] = packets_sent[i]
                        /\ packets_sent'[n + 1] = p
<1>1. packets_sent \in Seq(SentPackets)
  BY DEF CryptTypes
<1>2. PICK n \in Nat : n = Len(packets_sent)
  BY <1>1
<1>3. DOMAIN packets_sent = 1 .. n
  BY <1>1, <1>2
<1>4. /\ packets_sent' \in Seq(SentPackets) /\ Len(packets_sent') = n + 1
      /\ \A i \in 1 .. n : packets_sent'[i] = packets_sent[i]
      /\ packets_sent'[n + 1] = p
  BY <1>1, <1>2, AppendProperties
<1>5. DOMAIN packets_sent' = 1 .. n + 1
  BY <1>4
<1> QED
  BY <1>3, <1>4, <1>5

LEMMA TakenTyped ==
  ASSUME CryptTypes, NEW t \in Senders, packet[t].taken
  PROVE  packet[t].pos \in Nat /\ packet[t].size \in Nat \ {0} /\ packet[t].keyed \in BOOLEAN
<1>1. packet[t] # NoPacket
  BY DEF NoPacket
<1>2. packet[t] \in TakenPackets
  BY <1>1 DEF CryptTypes
<1> QED
  BY <1>2 DEF TakenPackets

(* A packet is sent: of those whose senders hold positions none is new,    *)
(* and its own positions, if it has any, lie apart from all others.        *)
LEMMA SendKeeps ==
  ASSUME CryptInv, UNCHANGED gkcrypt_local, packet' \in [Senders -> {NoPacket} \cup TakenPackets], KeyMade',
         key_pos_local' \in Nat, key_pos_local <= key_pos_local', ~gkcrypt_local => key_pos_local' = 0,
         NEW p \in SentPackets, packets_sent' = Append(packets_sent, p),
         p.key # NoKey => gkcrypt_local /\ p.key = KeyOf(p.pos),
         p.key # NoKey => p.bytes \subseteq p.pos .. p.pos + p.size - 1,
         p.raced => p.pos = 0,
         p.key # NoKey /\ ~p.raced => /\ p.pos + p.size <= key_pos_local'
                                      /\ \A i \in Regular : Apart(packets_sent[i], p)
                                      /\ \A t \in Senders : HoldsPos(t)' => Apart(p, packet[t]),
         \A t \in Senders : packet'[t].taken => packet[t].taken /\ packet'[t] = packet[t]
  PROVE  CryptInv'
<1>1. PICK n \in Nat : /\ packets_sent' \in Seq(SentPackets)
                       /\ DOMAIN packets_sent = 1 .. n /\ DOMAIN packets_sent' = 1 .. n + 1
                       /\ \A i \in 1 .. n : packets_sent'[i] = packets_sent[i]
                       /\ packets_sent'[n + 1] = p
  BY SentIsAppended DEF CryptInv
<1>2. ASSUME NEW i \in Keyed' PROVE \/ i \in Keyed /\ packets_sent'[i] = packets_sent[i]
                                    \/ i = n + 1 /\ packets_sent'[i] = p /\ p.key # NoKey
  BY <1>1 DEF Keyed
<1>3. ASSUME NEW i \in Regular' PROVE \/ i \in Regular /\ packets_sent'[i] = packets_sent[i]
                                      \/ i = n + 1 /\ packets_sent'[i] = p /\ p.key # NoKey /\ ~p.raced
  BY <1>2 DEF Regular
<1>4. ASSUME NEW t \in Senders, HoldsPos(t)' PROVE HoldsPos(t) /\ packet'[t] = packet[t]
  BY <1>4 DEF HoldsPos
<1>5. CryptTypes' /\ KeyMade'
  BY <1>1 DEF CryptTypes
<1>6. Unkeyed'
  BY <1>2, <1>4 DEF CryptInv, Unkeyed
<1>7. Behind'
  <2>1. ASSUME NEW t \in Senders, HoldsPos(t)' PROVE (packet[t].pos + packet[t].size <= key_pos_local)'
    <3>1. packet[t].pos + packet[t].size <= key_pos_local /\ packet[t].pos \in Nat /\ packet[t].size \in Nat
      BY <1>4, <2>1, TakenTyped DEF CryptInv, Behind, HoldsPos
    <3> QED
      BY <1>4, <2>1, <3>1 DEF CryptInv, CryptTypes
  <2>2. ASSUME NEW i \in Regular' PROVE (packets_sent[i].pos + packets_sent[i].size <= key_pos_local)'
    <3>1. CASE i \in Regular /\ packets_sent'[i] = packets_sent[i]
      <4>1. packets_sent[i] \in SentPackets
        BY <3>1 DEF Regular, Keyed, CryptInv, CryptTypes
      <4>2. packets_sent[i].pos \in Nat /\ packets_sent[i].size \in Nat
        BY <4>1 DEF SentPackets
      <4> QED
        BY <3>1, <4>2 DEF CryptInv, Behind, CryptTypes
    <3> QED
      BY <1>3, <2>2, <3>1
  <2> QED
    BY <2>1, <2>2 DEF Behind
<1>8. AllApart'
  <2>1. \A t, u \in Senders : t # u /\ HoldsPos(t)' /\ HoldsPos(u)' => Apart(packet[t], packet[u])'
    BY <1>4 DEF CryptInv, AllApart, Apart
  <2>2. \A i \in Regular', t \in Senders : HoldsPos(t)' => Apart(packets_sent[i], packet[t])'
    BY <1>3, <1>4 DEF CryptInv, AllApart, Apart
  <2>3. ASSUME NEW i \in Regular', NEW j \in Regular', i # j PROVE Apart(packets_sent[i], packets_sent[j])'
    <3>1. CASE i \in Regular /\ packets_sent'[i] = packets_sent[i] /\ j \in Regular /\ packets_sent'[j] = packets_sent[j]
      BY <2>3, <3>1 DEF CryptInv, AllApart, Apart
    <3>2. CASE packets_sent'[i] = p /\ p.key # NoKey /\ ~p.raced /\ j \in Regular /\ packets_sent'[j] = packets_sent[j]
      BY <3>2 DEF Apart
    <3>3. CASE i \in Regular /\ packets_sent'[i] = packets_sent[i] /\ packets_sent'[j] = p /\ p.key # NoKey /\ ~p.raced
      BY <3>3 DEF Apart
    <3> QED
      BY <1>3, <2>3, <3>1, <3>2, <3>3
  <2> QED
    BY <2>1, <2>2, <2>3 DEF AllApart
<1>9. OwnBytes'
  BY <1>2 DEF CryptInv, OwnBytes
<1>10. MacKeyRight'
  <2>1. ASSUME NEW i \in Keyed' PROVE packets_sent'[i].key = KeyOf(packets_sent'[i].pos)
    BY <1>2 DEF CryptInv, MacKeyRight
  <2>2. \A pos : KeyOf(pos)' = KeyOf(pos)
    BY DEF KeyOf, KeyIndex, GmacKey, GmacBase
  <2> QED
    BY <2>1, <2>2 DEF MacKeyRight
<1>11. gkcrypt_local' \in BOOLEAN
  BY Zenon DEF CryptInv
<1> QED
  BY <1>5, <1>6, <1>7, <1>8, <1>9, <1>10, <1>11 DEF CryptInv

LEMMA CryptNext == CryptInv /\ [TakionCryptNext]_takionCryptVars => CryptInv'
<1> SUFFICES ASSUME CryptInv, [TakionCryptNext]_takionCryptVars PROVE CryptInv'
  OBVIOUS
<1> USE TakionCryptAssumption
<1>1. /\ key_pos_local \in Nat /\ packet \in [Senders -> {NoPacket} \cup TakenPackets]
      /\ packets_sent \in Seq(SentPackets) /\ KeyMade
  BY DEF CryptInv, CryptTypes
<1>2. \A n \in Nat : n % BlockSize \in Nat
  BY DivMod
<1>3. ASSUME NEW n \in Nat PROVE /\ Advanced(n) \in Nat /\ key_pos_local <= Advanced(n)
                                 /\ gkcrypt_local => key_pos_local + n <= Advanced(n)
                                 /\ ~gkcrypt_local => Advanced(n) = 0
  <2>1. PICK r \in Nat : r = n % BlockSize
    BY <1>2
  <2>2. ~gkcrypt_local => key_pos_local = 0
    BY DEF CryptInv, Unkeyed
  <2> QED
    BY <1>1, <2>1, <2>2 DEF Advanced, Advance
<1>4. CASE SetCrypt
  <2>1. gkcrypt_local' /\ UNCHANGED <<key_pos_local, key_gmac, packet, packets_sent>>
    BY <1>4 DEF SetCrypt
  <2> QED
    BY <2>1 DEF CryptInv, CryptTypes, KeyMade, Unkeyed, Behind, AllApart, OwnBytes, MacKeyRight, Keyed, Regular, HoldsPos
<1>5. ASSUME NEW t \in Senders, NEW n \in Sizes, TakeKeyPos(t, n) PROVE CryptInv'
  <2> DEFINE r == [taken |-> TRUE, pos |-> IF gkcrypt_local THEN key_pos_local ELSE 0, size |-> n, keyed |-> gkcrypt_local]
  <2>1. /\ ~packet[t].taken /\ packet' = [packet EXCEPT ![t] = r] /\ key_pos_local' = Advanced(n)
        /\ UNCHANGED <<gkcrypt_local, key_gmac, packets_sent>>
    BY <1>5 DEF TakeKeyPos
  <2>2. /\ n \in Nat \ {0} /\ Advanced(n) \in Nat /\ key_pos_local <= Advanced(n)
        /\ gkcrypt_local => key_pos_local + n <= Advanced(n)
        /\ ~gkcrypt_local => Advanced(n) = 0
    BY <1>3
  <2>3. /\ r.taken /\ (r.keyed <=> gkcrypt_local) /\ r.size = n
        /\ gkcrypt_local => r.pos = key_pos_local
        /\ ~gkcrypt_local => r.pos = 0
    OBVIOUS
  <2>4. r \in TakenPackets
    <3>1. gkcrypt_local \in BOOLEAN
      BY DEF CryptInv
    <3>2. (IF gkcrypt_local THEN key_pos_local ELSE 0) \in Nat
      BY <1>1
    <3> QED
      BY <2>2, <3>1, <3>2 DEF TakenPackets
  <2> HIDE DEF r
  <2>5. /\ packet' \in [Senders -> {NoPacket} \cup TakenPackets] /\ packet'[t] = r
        /\ \A u \in Senders : u # t => packet'[u] = packet[u]
    BY <1>1, <2>1, <2>4
  <2>6. CryptTypes' /\ KeyMade'
    BY <1>1, <2>1, <2>2, <2>5 DEF CryptTypes, KeyMade
  <2>7. Keyed' = Keyed /\ Regular' = Regular
    BY <2>1 DEF Keyed, Regular
  <2>8. Unkeyed'
    BY <2>1, <2>2, <2>3, <2>5, <2>7 DEF CryptInv, Unkeyed, HoldsPos
  <2>9. ASSUME NEW u \in Senders, u # t, HoldsPos(u)'
        PROVE  /\ HoldsPos(u) /\ packet'[u] = packet[u] /\ packet[u].pos \in Nat /\ packet[u].size \in Nat
               /\ packet[u].pos + packet[u].size <= key_pos_local
    BY <2>5, <2>9, TakenTyped DEF CryptInv, Behind, HoldsPos
  <2>10. HoldsPos(t)' => gkcrypt_local /\ r.pos = key_pos_local
    BY <2>3, <2>5 DEF HoldsPos
  <2>11. ASSUME NEW i \in Regular
         PROVE  /\ packets_sent[i].pos \in Nat /\ packets_sent[i].size \in Nat
                /\ packets_sent[i].pos + packets_sent[i].size <= key_pos_local
    <3>1. packets_sent[i] \in SentPackets
      BY <1>1 DEF Regular, Keyed
    <3> QED
      BY <3>1 DEF SentPackets, CryptInv, Behind
  <2>12. Behind'
    <3>1. ASSUME NEW u \in Senders, HoldsPos(u)' PROVE (packet[u].pos + packet[u].size <= key_pos_local)'
      <4>1. CASE u = t
        BY <1>1, <2>1, <2>2, <2>3, <2>5, <2>10, <3>1, <4>1
      <4>2. CASE u # t
        BY <1>1, <2>1, <2>2, <2>9, <3>1, <4>2
      <4> QED
        BY <4>1, <4>2
    <3>2. ASSUME NEW i \in Regular PROVE (packets_sent[i].pos + packets_sent[i].size <= key_pos_local)'
      BY <1>1, <2>1, <2>2, <2>11
    <3> QED
      BY <2>7, <3>1, <3>2 DEF Behind
  <2>13. AllApart'
    <3>1. ASSUME NEW u \in Senders, NEW v \in Senders, u # v, HoldsPos(u)', HoldsPos(v)'
          PROVE  Apart(packet[u], packet[v])'
      <4>1. CASE u = t
        BY <2>5, <2>9, <2>10, <3>1, <4>1 DEF Apart
      <4>2. CASE v = t
        BY <2>5, <2>9, <2>10, <3>1, <4>2 DEF Apart
      <4>3. CASE u # t /\ v # t
        BY <2>9, <3>1, <4>3 DEF CryptInv, AllApart, Apart
      <4> QED
        BY <4>1, <4>2, <4>3
    <3>2. ASSUME NEW i \in Regular, NEW u \in Senders, HoldsPos(u)' PROVE Apart(packets_sent[i], packet[u])'
      <4>1. CASE u = t
        BY <2>1, <2>5, <2>10, <2>11, <3>2, <4>1 DEF Apart
      <4>2. CASE u # t
        BY <2>1, <2>9, <3>2, <4>2 DEF CryptInv, AllApart, Apart
      <4> QED
        BY <4>1, <4>2
    <3>3. \A i, j \in Regular : i # j => Apart(packets_sent[i], packets_sent[j])'
      BY <2>1 DEF CryptInv, AllApart, Apart
    <3> QED
      BY <2>7, <3>1, <3>2, <3>3 DEF AllApart
  <2>14. OwnBytes' /\ MacKeyRight'
    BY <2>1, <2>7 DEF CryptInv, OwnBytes, MacKeyRight
  <2>15. gkcrypt_local' \in BOOLEAN
    BY <2>1, Zenon DEF CryptInv
  <2> QED
    BY <2>6, <2>8, <2>12, <2>13, <2>14, <2>15 DEF CryptInv
<1>6. ASSUME NEW t \in Senders, SendPacket(t) PROVE CryptInv'
  <2> DEFINE p == packet[t]
             keyed == [pos |-> p.pos, size |-> p.size, key |-> GmacUsed(p.pos), bytes |-> {}, raced |-> ~p.keyed]
             plain == [pos |-> p.pos, size |-> p.size, key |-> NoKey, bytes |-> {}, raced |-> FALSE]
  <2>1. /\ p.taken /\ packet' = [packet EXCEPT ![t] = NoPacket] /\ UNCHANGED <<gkcrypt_local, key_pos_local>>
        /\ gkcrypt_local => key_gmac' = GmacState(p.pos) /\ packets_sent' = Append(packets_sent, keyed)
        /\ ~gkcrypt_local => UNCHANGED key_gmac /\ packets_sent' = Append(packets_sent, plain)
    BY <1>6 DEF SendPacket, Sent
  <2>2. p.pos \in Nat /\ p.size \in Nat \ {0} /\ p.keyed \in BOOLEAN
    BY <2>1, TakenTyped DEF CryptInv
  <2>3. /\ packet' \in [Senders -> {NoPacket} \cup TakenPackets]
        /\ \A u \in Senders : packet'[u].taken => packet[u].taken /\ packet'[u] = packet[u] /\ u # t
    BY <1>1, <2>1 DEF NoPacket
  <2>4. ~gkcrypt_local => key_pos_local = 0
    BY DEF CryptInv, Unkeyed
  <2>5. CASE gkcrypt_local
    <3>1. /\ GmacUsed(p.pos) = KeyOf(p.pos) /\ GmacUsed(p.pos) \in MacKeys /\ KeyMade'
      BY <1>1, <2>1, <2>2, <2>5, MacKey DEF KeyMade
    <3>2. keyed \in SentPackets
      BY <2>2, <3>1 DEF SentPackets
    <3>3. keyed.raced => p.pos = 0
      BY <2>1 DEF CryptInv, Unkeyed
    <3>4. ~keyed.raced => HoldsPos(t)
      BY <2>1 DEF HoldsPos
    <3>5. ~keyed.raced => /\ p.pos + p.size <= key_pos_local
                          /\ \A i \in Regular : Apart(packets_sent[i], p)
                          /\ \A u \in Senders : u # t /\ HoldsPos(u) => Apart(p, packet[u])
      BY <3>4 DEF CryptInv, Behind, AllApart
    <3>6. /\ keyed.pos = p.pos /\ keyed.size = p.size /\ keyed.key = KeyOf(p.pos) /\ keyed.bytes = {}
      BY <3>1
    <3> HIDE DEF keyed, p
    <3>7. \A u \in Senders : HoldsPos(u)' => u # t /\ HoldsPos(u)
      BY <2>3 DEF HoldsPos
    <3> QED
      BY <1>1, <2>1, <2>3, <2>4, <2>5, <3>1, <3>2, <3>3, <3>5, <3>6, <3>7, SendKeeps DEF Apart
  <2>6. CASE ~gkcrypt_local
    <3>1. plain \in SentPackets /\ plain.key = NoKey
      BY <2>2 DEF SentPackets, NoKey, MacKeys
    <3>2. plain.raced = FALSE
      OBVIOUS
    <3>3. KeyMade'
      BY <1>1, <2>1, <2>6 DEF KeyMade
    <3> HIDE DEF plain, p
    <3> QED
      BY <1>1, <2>1, <2>3, <2>4, <2>6, <3>1, <3>2, <3>3, SendKeeps
  <2> QED
    BY <2>5, <2>6
<1>7. ASSUME NEW n \in Sizes, NEW ok \in BOOLEAN, SendEncrypted(n, ok) PROVE CryptInv'
  <2> DEFINE pos == key_pos_local
             p == [pos |-> pos, size |-> n + BlockSize, key |-> GmacUsed(pos), bytes |-> Encrypted(pos + BlockSize, n),
                   raced |-> FALSE]
  <2>1. /\ gkcrypt_local /\ key_pos_local' = Advanced(n + BlockSize) /\ UNCHANGED <<gkcrypt_local, packet>>
        /\ \/ key_gmac' = GmacState(pos) /\ packets_sent' = Append(packets_sent, p)
           \/ UNCHANGED <<key_gmac, packets_sent>>
    BY <1>7 DEF SendEncrypted, Sent
  <2>2. n \in Nat \ {0} /\ BlockSize \in Nat \ {0} /\ n + BlockSize \in Nat \ {0} /\ pos + BlockSize \in Nat
    BY <1>1
  <2>3. /\ key_pos_local' \in Nat /\ key_pos_local <= key_pos_local' /\ pos + (n + BlockSize) <= key_pos_local'
    BY <1>3, <2>1, <2>2
  <2>4. /\ GmacUsed(pos) = KeyOf(pos) /\ GmacUsed(pos) \in MacKeys
        /\ GmacState(pos).index \in Nat /\ GmacState(pos).key = IndexKey(GmacState(pos).index)
    BY <1>1, MacKey
  <2>5. Encrypted(pos + BlockSize, n) = (pos + BlockSize) .. (pos + BlockSize + n - 1)
    BY <2>2, EncryptsOwn
  <2>6. KeyMade'
    BY <1>1, <2>1, <2>4 DEF KeyMade
  <2>7. ASSUME NEW t \in Senders, HoldsPos(t)
        PROVE  packet[t].pos \in Nat /\ packet[t].size \in Nat /\ packet[t].pos + packet[t].size <= pos
    BY <2>7, TakenTyped DEF CryptInv, Behind, HoldsPos
  <2>8. ASSUME NEW i \in Regular
        PROVE  /\ packets_sent[i].pos \in Nat /\ packets_sent[i].size \in Nat
               /\ packets_sent[i].pos + packets_sent[i].size <= pos
    <3>1. packets_sent[i] \in SentPackets
      BY <1>1 DEF Regular, Keyed
    <3> QED
      BY <3>1 DEF SentPackets, CryptInv, Behind
  <2>9. CASE key_gmac' = GmacState(pos) /\ packets_sent' = Append(packets_sent, p)
    <3>1. /\ p.pos = pos /\ p.size = n + BlockSize /\ p.key = KeyOf(pos) /\ ~p.raced
          /\ p.bytes = (pos + BlockSize) .. (pos + BlockSize + n - 1)
      BY <2>4, <2>5
    <3>2. p \in SentPackets
      BY <1>1, <2>2, <2>4, <2>5 DEF SentPackets
    <3>3. p.bytes \subseteq p.pos .. p.pos + p.size - 1
      BY <1>1, <2>2, <3>1
    <3> HIDE DEF p
    <3>4. \A i \in Regular : Apart(packets_sent[i], p)
      BY <2>8, <3>1 DEF Apart
    <3>5. \A t \in Senders : HoldsPos(t)' => Apart(p, packet[t])
      <4>1. \A t \in Senders : HoldsPos(t)' => HoldsPos(t)
        BY <2>1 DEF HoldsPos
      <4> QED
        BY <2>7, <3>1, <4>1 DEF Apart
    <3> QED
      BY <1>1, <2>1, <2>3, <2>6, <2>9, <3>1, <3>2, <3>3, <3>4, <3>5, SendKeeps
  <2>10. CASE UNCHANGED <<key_gmac, packets_sent>>
    <3>1. Keyed' = Keyed /\ Regular' = Regular /\ \A t \in Senders : HoldsPos(t)' <=> HoldsPos(t)
      BY <2>1, <2>10 DEF Keyed, Regular, HoldsPos
    <3>2. Behind'
      <4>1. \A t \in Senders : HoldsPos(t)' => (packet[t].pos + packet[t].size <= key_pos_local)'
        BY <1>1, <2>1, <2>3, <2>7, <3>1
      <4>2. \A i \in Regular : (packets_sent[i].pos + packets_sent[i].size <= key_pos_local)'
        BY <1>1, <2>3, <2>8, <2>10
      <4> QED
        BY <3>1, <4>1, <4>2 DEF Behind
    <3>3. Unkeyed'
      BY <2>1, <2>10, <3>1 DEF CryptInv, Unkeyed
    <3>4. AllApart' /\ OwnBytes' /\ MacKeyRight'
      BY <2>1, <2>10, <3>1 DEF CryptInv, AllApart, OwnBytes, MacKeyRight, Apart
    <3>5. CryptTypes'
      BY <1>1, <2>1, <2>3, <2>10 DEF CryptTypes
    <3>6. gkcrypt_local' \in BOOLEAN
      BY <2>1, Zenon DEF CryptInv
    <3> QED
      BY <2>6, <3>2, <3>3, <3>4, <3>5, <3>6 DEF CryptInv
  <2> QED
    BY <2>1, <2>9, <2>10
<1>8. CASE UNCHANGED takionCryptVars
  BY <1>8 DEF takionCryptVars, CryptInv, CryptTypes, KeyMade, Unkeyed, Behind, AllApart, OwnBytes, MacKeyRight, Keyed, Regular,
              HoldsPos
<1> QED
  BY <1>4, <1>5, <1>6, <1>7, <1>8 DEF TakionCryptNext

(* No key position is used by two packets sent under the keys, the MAC of  *)
(* each is made with the key of its own position and its payload encrypted *)
(* with its own key stream: for any number of senders and packets, and any *)
(* block size and refresh of the MAC keys.                                 *)
THEOREM SentUnderOwnKeyHolds == TakionCryptSpec => []SentUnderOwnKey
<1>1. CryptInv => SentUnderOwnKey
  <2> SUFFICES ASSUME CryptInv PROVE SentUnderOwnKey
    OBVIOUS
  <2>1. MacKeyRight /\ AllApart /\ OwnBytes
    BY DEF CryptInv
  <2>2. PositionsApart
    BY <2>1 DEF PositionsApart, AllApart, OwnBytes, Regular, Apart
  <2> QED
    BY <2>1, <2>2 DEF SentUnderOwnKey
<1> QED
  BY CryptInit, CryptNext, <1>1, PTL DEF TakionCryptSpec
=============================================================================
