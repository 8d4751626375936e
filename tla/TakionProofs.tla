---------------------------- MODULE TakionProofs ----------------------------
(***************************************************************************)
(* The data messages of a Takion connection are delivered once and in      *)
(* order, the console's knowledge of them is accounted for, and audio and  *)
(* video stay in order across the arrival of the keys: for every size of   *)
(* the queue, every number of messages and every behaviour of the network. *)
(* And the acknowledgement of sent messages compacts their array.          *)
(***************************************************************************)
EXTENDS Takion, SendBufferAck, FiniteSetTheorems, SequenceTheorems, TLAPS

-----------------------------------------------------------------------------
(* What takion_flush_data_queue pulls is the run of numbers from begin on, *)
(* and after it the queue does not have the number it begins with.         *)
InWindow(q) == begin \in Nat /\ QueueSize \in Nat /\ q \subseteq begin .. begin + QueueSize - 1

IsRun(q, S, c) == /\ c \in Nat /\ c = Cardinality(S)
                  /\ S = begin .. begin + c - 1
                  /\ S \subseteq q
                  /\ begin + c \notin q

LEMMA PulledIsARun ==
  ASSUME NEW q, InWindow(q)
  PROVE  \E c : IsRun(q, Pulled(q), c)
<1>a. PICK S : S = Pulled(q)
  OBVIOUS
<1>b. PICK c : c = Cardinality(S)
  OBVIOUS
<1>c. S = {n \in q : begin .. n \subseteq q}
  BY <1>a DEF Pulled
<1>d. begin \in Nat /\ QueueSize \in Nat /\ q \subseteq begin .. begin + QueueSize - 1
  BY DEF InWindow
<1>1. S \subseteq q /\ \A n \in S : begin .. n \subseteq S
  <2>1. S \subseteq q
    BY <1>c
  <2>2. ASSUME NEW n \in S, NEW m \in begin .. n PROVE m \in S
    <3>1. n \in Int /\ m \in Int /\ m <= n
      BY <1>d, <2>1
    <3>2. begin .. n \subseteq q
      BY <1>c
    <3>3. begin .. m \subseteq begin .. n
      BY <3>1
    <3> QED
      BY <1>c, <3>2, <3>3
  <2> QED
    BY <2>1, <2>2
<1>2. IsFiniteSet(S) /\ c \in Nat
  <2>1. IsFiniteSet(begin .. begin + QueueSize - 1)
    BY <1>d, FS_Interval
  <2>2. S \in SUBSET (begin .. begin + QueueSize - 1)
    BY <1>1, <1>d
  <2>3. IsFiniteSet(S)
    BY <2>1, <2>2, FS_Subset
  <2> QED
    BY <1>b, <2>3, FS_CardinalityType
<1>3. S \subseteq begin .. begin + c - 1
  <2> SUFFICES ASSUME NEW n \in S PROVE n \in begin .. begin + c - 1
    OBVIOUS
  <2>1. n \in Int /\ n >= begin
    BY <1>1, <1>d
  <2>2. Cardinality(begin .. n) = n - begin + 1
    BY <1>d, <2>1, FS_Interval
  <2>3. begin .. n \in SUBSET S
    BY <1>1
  <2>4. Cardinality(begin .. n) <= c
    BY <1>2, <1>b, <2>3, FS_Subset
  <2> QED
    BY <1>2, <1>d, <2>1, <2>2, <2>4
<1>4. S = begin .. begin + c - 1
  <2>1. /\ IsFiniteSet(begin .. begin + c - 1)
        /\ Cardinality(begin .. begin + c - 1) = c
    <3>1. begin \in Int /\ begin + c - 1 \in Int
      BY <1>2, <1>d
    <3> QED
      BY <1>2, <1>d, <3>1, FS_Interval
  <2> QED
    BY <1>3, <1>b, <2>1, FS_Subset
<1>5. begin + c \notin q
  <2> SUFFICES ASSUME begin + c \in q PROVE FALSE
    OBVIOUS
  <2>1. begin \in Int /\ c \in Int /\ c >= 0 /\ S = begin .. begin + c - 1 /\ S \subseteq q
    BY <1>1, <1>2, <1>4, <1>d
  <2>2. ASSUME NEW m \in Int, begin <= m, m <= begin + c PROVE m \in q
    <3>1. m = begin + c \/ m <= begin + c - 1
      BY <2>1, <2>2
    <3>2. m <= begin + c - 1 => m \in S
      BY <2>1, <2>2
    <3> QED
      BY <2>1, <3>1, <3>2
  <2>3. begin .. begin + c \subseteq q
    BY <2>1, <2>2
  <2>4. begin + c \in S
    BY <1>c, <2>3
  <2>5. begin + c <= begin + c - 1
    BY <2>1, <2>4
  <2> QED
    BY <2>1, <2>5
<1> QED
  BY <1>1, <1>2, <1>4, <1>5, <1>a, <1>b DEF IsRun

(* The numbers of a run, in order.                                         *)
LEMMA InOrderOfRun ==
  ASSUME NEW b \in Nat, NEW c \in Nat
  PROVE  InOrder(b .. b + c - 1) = [j \in 1 .. c |-> b + j - 1]
<1> DEFINE S == b .. b + c - 1
<1>1. Cardinality(S) = c
  BY FS_Interval
<1>2. ASSUME NEW n \in S PROVE Cardinality({k \in S : k <= n}) = n - b + 1
  <2>1. {k \in S : k <= n} = b .. n
    OBVIOUS
  <2>2. n \in Int /\ n >= b
    OBVIOUS
  <2>3. Cardinality(b .. n) = n - b + 1
    BY <2>2, FS_Interval
  <2> QED
    BY <2>1, <2>3
<1>3. ASSUME NEW j \in 1 .. c
      PROVE  (CHOOSE n \in S : Cardinality({k \in S : k <= n}) = j) = b + j - 1
  <2>1. b + j - 1 \in S /\ Cardinality({k \in S : k <= b + j - 1}) = j
    <3>1. b + j - 1 \in S
      OBVIOUS
    <3>2. Cardinality({k \in S : k <= b + j - 1}) = (b + j - 1) - b + 1
      BY <1>2, <3>1
    <3> QED
      BY <3>1, <3>2
  <2>2. \A n \in S : Cardinality({k \in S : k <= n}) = j => n = b + j - 1
    BY <1>2
  <2> QED
    BY <2>1, <2>2
<1> QED
  BY <1>1, <1>3 DEF InOrder

(* The acknowledgement is for the last number of the run.                  *)
LEMMA AckOfRun ==
  ASSUME NEW b \in Nat, NEW c \in Nat
  PROVE  DataAck(b .. b + c - 1) = IF c = 0 THEN {} ELSE {ACK(b + c - 1)}
<1> DEFINE S == b .. b + c - 1
<1>1. CASE c = 0
  BY <1>1 DEF DataAck
<1>2. CASE c # 0
  <2>1. b + c - 1 \in S /\ \A k \in S : k <= b + c - 1
    BY <1>2
  <2>2. \A n \in S : (\A k \in S : k <= n) => n = b + c - 1
    BY <2>1
  <2>3. (CHOOSE n \in S : \A k \in S : k <= n) = b + c - 1
    BY <2>1, <2>2
  <2> QED
    BY <1>2, <2>1, <2>3 DEF DataAck
<1> QED
  BY <1>1, <1>2
-----------------------------------------------------------------------------
(* A run of n numbers; two of them, one behind the other, are one.         *)
Numbers(s, from, n) == s \in Seq(Nat) /\ Len(s) = n /\ \A j \in 1 .. n : s[j] = from + j - 1

LEMMA RunsJoin ==
  ASSUME NEW b \in Nat, NEW c \in Nat, b >= 1, NEW d, NEW e, Numbers(d, 1, b - 1), Numbers(e, b, c)
  PROVE  Numbers(d \o e, 1, b + c - 1)
<1> USE DEF Numbers
<1>1. d \o e \in Seq(Nat) /\ Len(d \o e) = b + c - 1
  OBVIOUS
<1>2. ASSUME NEW j \in 1 .. b + c - 1 PROVE (d \o e)[j] = j
  <2>1. (d \o e)[j] = IF j <= b - 1 THEN d[j] ELSE e[j - (b - 1)]
    OBVIOUS
  <2>2. j > b - 1 => j - (b - 1) \in 1 .. c
    OBVIOUS
  <2> QED
    BY <2>1, <2>2
<1> QED
  BY <1>1, <1>2

LEMMA ConcatAppend ==
  ASSUME NEW s \in Seq(Nat), NEW t \in Seq(Nat), NEW n \in Nat
  PROVE  s \o Append(t, n) = Append(s \o t, n)
<1>1. s \o t \in Seq(Nat) /\ Append(t, n) \in Seq(Nat)
  OBVIOUS
<1>2. s \o Append(t, n) \in Seq(Nat) /\ Append(s \o t, n) \in Seq(Nat)
  BY <1>1
<1>3. Len(s \o Append(t, n)) = Len(Append(s \o t, n))
  BY <1>1
<1>4. ASSUME NEW j \in 1 .. Len(s \o Append(t, n)) PROVE (s \o Append(t, n))[j] = Append(s \o t, n)[j]
  BY <1>1
<1> QED
  BY <1>2, <1>3, <1>4, SeqEqual

(* Delivered and still queued: the callback got the messages before begin, *)
(* in order; the queue has numbers behind begin, and nothing has a number  *)
(* the console has not sent.                                               *)
Delivered == /\ begin \in Nat \ {0} /\ begin <= sent + 1
             /\ Numbers(delivered, 1, begin - 1)

Queued == /\ data_queue \subseteq begin + 1 .. begin + QueueSize - 1
          /\ data_queue \subseteq 1 .. sent

SentSoFar == /\ sent \in 0 .. MaxData
             /\ \A p \in to_client : p.type = "DATA" => p.n \in 1 .. sent

DataInv == Delivered /\ Queued /\ SentSoFar

(* What handling one data message does, said with the length of the run it *)
(* completes.                                                              *)
LEMMA HandleDataRun ==
  ASSUME DataInv, NEW p \in to_client, HandleData(p)
  PROVE  \E c \in Nat :
           /\ begin' = begin + c
           /\ begin + c <= sent + 1
           /\ delivered' = delivered \o [j \in 1 .. c |-> begin + j - 1]
           /\ data_queue' \subseteq begin + c + 1 .. begin + c + QueueSize - 1
           /\ data_queue' \subseteq 1 .. sent
           /\ \/ /\ to_console' = to_console \cup (IF c = 0 THEN {} ELSE {ACK(begin + c - 1)})
                 /\ ack_lost' = (ack_lost /\ c = 0)
              \/ c # 0 /\ ack_lost' = TRUE /\ UNCHANGED to_console
<1>a. PICK q : q = Push(p.n)
  OBVIOUS
<1>b. PICK S : S = Pulled(q)
  OBVIOUS
<1>1. /\ begin \in Nat /\ begin <= sent + 1 /\ sent \in Nat
      /\ QueueSize \in Nat \ {0}
      /\ p.n \in 1 .. sent
  BY TakionAssumption DEF TakionAssumption, DataInv, Delivered, SentSoFar, HandleData
<1>2. q \subseteq begin .. begin + QueueSize - 1 /\ q \subseteq 1 .. sent
  <2>1. CASE p.n \in begin .. begin + QueueSize - 1
    <3>1. q = data_queue \cup {p.n}
      BY <1>a, <2>1 DEF Push
    <3>2. \A n \in data_queue : n \in begin .. begin + QueueSize - 1 /\ n \in 1 .. sent
      BY <1>1 DEF DataInv, Queued
    <3> QED
      BY <1>1, <2>1, <3>1, <3>2
  <2>2. CASE p.n \notin begin .. begin + QueueSize - 1
    <3>1. q = data_queue
      BY <1>a, <2>2 DEF Push
    <3> QED
      BY <1>1, <3>1 DEF DataInv, Queued
  <2> QED
    BY <2>1, <2>2
<1>c. PICK c : IsRun(q, S, c)
  BY <1>1, <1>2, <1>b, PulledIsARun DEF InWindow
<1>d. c = Cardinality(S)
  BY <1>c DEF IsRun
<1>3. /\ c \in Nat
      /\ S = begin .. begin + c - 1
      /\ S \subseteq q
      /\ begin + c \notin q
  BY <1>c DEF IsRun
<1>4. /\ data_queue' = q \ S
      /\ begin' = begin + c
      /\ delivered' = delivered \o InOrder(S)
      /\ \/ /\ to_console' = to_console \cup DataAck(S)
            /\ ack_lost' = (ack_lost /\ S = {})
         \/ S # {} /\ ack_lost' = TRUE /\ UNCHANGED to_console
  BY <1>d, <1>a, <1>b, Zenon DEF HandleData
<1>5. InOrder(S) = [j \in 1 .. c |-> begin + j - 1]
  BY <1>1, <1>3, InOrderOfRun
<1>6. DataAck(S) = IF c = 0 THEN {} ELSE {ACK(begin + c - 1)}
  BY <1>1, <1>3, AckOfRun
<1>7. begin + c <= sent + 1
  <2>1. CASE c = 0
    BY <1>1, <2>1
  <2>2. CASE c # 0
    <3>1. begin + c - 1 \in S
      BY <1>1, <1>3, <2>2
    <3> QED
      BY <1>1, <1>2, <1>3, <3>1
  <2> QED
    BY <2>1, <2>2
<1>8. data_queue' \subseteq begin + c + 1 .. begin + c + QueueSize - 1
  <2> SUFFICES ASSUME NEW n \in q, n \notin S PROVE n \in begin + c + 1 .. begin + c + QueueSize - 1
    BY <1>4
  <2>1. n \in Int /\ n >= begin /\ n <= begin + QueueSize - 1 /\ n # begin + c
    BY <1>1, <1>2, <1>3
  <2>2. n > begin + c - 1
    BY <1>1, <1>3, <2>1
  <2> QED
    BY <1>1, <1>3, <2>1, <2>2
<1>9. S = {} <=> c = 0
  BY <1>1, <1>3
<1>10. \/ /\ to_console' = to_console \cup (IF c = 0 THEN {} ELSE {ACK(begin + c - 1)})
          /\ ack_lost' = (ack_lost /\ c = 0)
       \/ c # 0 /\ ack_lost' = TRUE /\ UNCHANGED to_console
  BY <1>4, <1>6, <1>9, Zenon
<1>11. data_queue' \subseteq 1 .. sent
  BY <1>2, <1>4
<1> QED
  BY <1>3, <1>4, <1>5, <1>7, <1>8, <1>10, <1>11, Zenon

(* Most steps leave the queue and the messages alone; a packet they put on *)
(* its way to the client is none of data.                                  *)
Idle == /\ UNCHANGED <<begin, delivered, sent>>
        /\ data_queue' \subseteq data_queue
        /\ \A p \in to_client' : p \in to_client \/ p.type # "DATA"

LEMMA IdleKeeps == DataInv /\ Idle => DataInv'
<1> SUFFICES ASSUME DataInv, Idle PROVE DataInv'
  OBVIOUS
<1>1. Delivered'
  BY DEF DataInv, Idle, Delivered
<1>2. Queued'
  BY DEF DataInv, Idle, Queued
<1>3. SentSoFar'
  BY DEF DataInv, Idle, SentSoFar
<1> QED
  BY <1>1, <1>2, <1>3 DEF DataInv

LEMMA DataInit == TakionInit => DataInv
<1> SUFFICES ASSUME TakionInit PROVE DataInv
  OBVIOUS
<1>1. Delivered
  BY EmptySeq DEF TakionInit, Delivered, Numbers
<1>2. Queued /\ SentSoFar
  BY TakionAssumption DEF TakionAssumption, TakionInit, Queued, SentSoFar
<1> QED
  BY <1>1, <1>2 DEF DataInv

LEMMA DataNext == DataInv /\ [TakionNext]_takionVars => DataInv'
<1> SUFFICES ASSUME DataInv, [TakionNext]_takionVars PROVE DataInv'
  OBVIOUS
<1> USE DEF queue, keys, net, peer, history
<1>1. CASE TakionThread \/ TakionClose \/ UNCHANGED takionVars
  <2>1. Idle
    BY <1>1 DEF Idle, TakionThread, TakionClose, takionVars, SendInit, RecvFails, LoopTop, Beach
  <2> QED
    BY <2>1, IdleKeeps
<1>2. ASSUME NEW p \in to_client, RecvInitAck(p) \/ RecvCookieAck(p) \/ HandleAv(p) \/ HandleUnknown(p)
      PROVE  DataInv'
  <2>1. Idle
    BY <1>2 DEF Idle, RecvInitAck, RecvCookieAck, HandleAv, HandleUnknown, Takes
  <2> QED
    BY <2>1, IdleKeeps
<1>3. ASSUME NEW p \in to_client, HandleData(p) PROVE DataInv'
  <2>1. PICK c \in Nat :
          /\ begin' = begin + c
          /\ begin + c <= sent + 1
          /\ delivered' = delivered \o [j \in 1 .. c |-> begin + j - 1]
          /\ data_queue' \subseteq begin + c + 1 .. begin + c + QueueSize - 1
          /\ data_queue' \subseteq 1 .. sent
    BY <1>3, HandleDataRun, Zenon
  <2>2. sent' = sent /\ to_client' \subseteq to_client
    BY <1>3 DEF HandleData, Takes
  <2>3. PICK b \in Nat : b = begin /\ b >= 1 /\ Numbers(delivered, 1, b - 1)
    BY DEF DataInv, Delivered
  <2>4. PICK e : e = [j \in 1 .. c |-> b + j - 1]
    OBVIOUS
  <2>5. Numbers(e, b, c)
    BY <2>3, <2>4 DEF Numbers
  <2>6. delivered' = delivered \o e /\ begin' = b + c
    BY <2>1, <2>3, <2>4
  <2>7. Numbers(delivered', 1, b + c - 1)
    BY <2>3, <2>5, <2>6, RunsJoin
  <2>8. Delivered'
    BY <2>1, <2>2, <2>3, <2>6, <2>7 DEF Delivered
  <2>9. Queued'
    BY <2>1, <2>2 DEF Queued
  <2>10. SentSoFar'
    BY <2>2 DEF DataInv, SentSoFar
  <2> QED
    BY <2>8, <2>9, <2>10 DEF DataInv
<1>4. CASE Answer("INIT", "INIT_ACK") \/ Answer("COOKIE", "COOKIE_ACK")
  <2>1. Idle
    BY <1>4 DEF Idle, Answer, Carried, Control
  <2> QED
    BY <2>1, IdleKeeps
<1>5. CASE ConsoleSends
  <2>1. /\ UNCHANGED <<begin, data_queue, delivered>>
        /\ sent' \in 0 .. MaxData /\ sent' >= sent
        /\ \A p \in to_client' : p \in to_client \/ p.type # "DATA" \/ p.n \in 1 .. sent'
    <3>1. sent \in 0 .. MaxData /\ MaxData \in Nat
      BY TakionAssumption DEF DataInv, SentSoFar, TakionAssumption
    <3> QED
      BY <1>5, <3>1 DEF ConsoleSends, Carried, DATA, AV
  <2>2. Delivered'
    <3>1. sent \in Nat /\ sent' \in Nat /\ begin \in Nat /\ begin <= sent + 1
      BY <2>1, TakionAssumption DEF DataInv, SentSoFar, Delivered, TakionAssumption
    <3>2. begin <= sent' + 1
      <4>1. \A b, s, t \in Nat : b <= s + 1 /\ t >= s => b <= t + 1
        OBVIOUS
      <4> QED
        BY <2>1, <3>1, <4>1
    <3> QED
      BY <2>1, <3>2 DEF DataInv, Delivered
  <2>3. Queued'
    BY <2>1 DEF DataInv, SentSoFar, Queued
  <2>4. SentSoFar'
    BY <2>1 DEF DataInv, SentSoFar
  <2> QED
    BY <2>2, <2>3, <2>4 DEF DataInv
<1>6. ASSUME NEW n \in 1 .. MaxData, Repeats(n) PROVE DataInv'
  <2>1. /\ UNCHANGED <<begin, data_queue, delivered, sent>>
        /\ to_client' = to_client \cup {DATA(n)}
        /\ n <= sent
    <3>1. sent \in Nat
      BY DEF DataInv, SentSoFar
    <3>2. n \in acked + 1 .. sent /\ n \in Int
      BY <1>6 DEF Repeats
    <3> QED
      BY <1>6, <3>1, <3>2 DEF Repeats
  <2>2. SentSoFar'
    BY <2>1 DEF DataInv, SentSoFar, DATA
  <2>3. Delivered' /\ Queued'
    BY <2>1 DEF DataInv, Delivered, Queued
  <2> QED
    BY <2>2, <2>3 DEF DataInv
<1>7. ASSUME NEW p \in to_console, ConsoleAcked(p) PROVE DataInv'
  <2>1. Idle
    BY <1>7 DEF Idle, ConsoleAcked
  <2> QED
    BY <2>1, IdleKeeps
<1> QED
  BY <1>1, <1>2, <1>3, <1>4, <1>5, <1>6, <1>7 DEF TakionNext, Receive, ConsoleSteps

-----------------------------------------------------------------------------
(* What the console knows: nothing that was not delivered, and the last    *)
(* message delivered unless its acknowledgement is under way or was lost.  *)
AcksTrue == /\ acked \in Nat /\ acked <= begin - 1
            /\ \A p \in to_console : p.type = "DATA_ACK" =>
                 p.n \in Nat /\ p.n <= begin - 1 /\ p = ACK(p.n)

LastKnown == acked = begin - 1 \/ ACK(begin - 1) \in to_console \/ ack_lost

AckInv == AcksTrue /\ LastKnown

(* The steps that touch neither.                                           *)
NoAck == /\ UNCHANGED <<begin, acked, ack_lost>>
         /\ to_console \subseteq to_console'
         /\ \A p \in to_console' : p \in to_console \/ p.type # "DATA_ACK"

LEMMA NoAckKeeps == AckInv /\ NoAck => AckInv'
<1> SUFFICES ASSUME AckInv, NoAck PROVE AckInv'
  OBVIOUS
<1>1. AcksTrue'
  BY DEF AckInv, NoAck, AcksTrue
<1>2. LastKnown'
  BY Zenon DEF AckInv, NoAck, LastKnown
<1> QED
  BY <1>1, <1>2 DEF AckInv

LEMMA AckInit == TakionInit => AckInv
<1> SUFFICES ASSUME TakionInit PROVE AckInv
  OBVIOUS
<1>1. AcksTrue
  BY DEF TakionInit, AcksTrue
<1>2. acked = begin - 1
  BY DEF TakionInit
<1> QED
  BY <1>1, <1>2 DEF AckInv, LastKnown

LEMMA AckHandleData ==
  ASSUME DataInv, AckInv, NEW p \in to_client, HandleData(p)
  PROVE  AckInv'
<1>1. PICK c \in Nat :
        /\ begin' = begin + c
        /\ \/ /\ to_console' = to_console \cup (IF c = 0 THEN {} ELSE {ACK(begin + c - 1)})
              /\ ack_lost' = (ack_lost /\ c = 0)
           \/ c # 0 /\ ack_lost' = TRUE /\ UNCHANGED to_console
  BY HandleDataRun, Zenon
<1>2. PICK b \in Nat : b = begin /\ b >= 1
  BY DEF DataInv, Delivered
<1>3. acked' = acked /\ acked \in Nat /\ acked <= b - 1
  BY <1>2 DEF HandleData, peer, AckInv, AcksTrue
<1>4. \A m \in to_console' : m \in to_console \/ m = ACK(b + c - 1)
  <2>1. CASE c = 0
    BY <1>1, <2>1
  <2>2. CASE c # 0
    BY <1>1, <1>2, <2>2
  <2> QED
    BY <2>1, <2>2
<1>5. AcksTrue'
  <2>1. acked <= b + c - 1
    BY <1>3
  <2>2. ASSUME NEW m \in to_console', m.type = "DATA_ACK"
        PROVE  m.n \in Nat /\ m.n <= b + c - 1 /\ m = ACK(m.n)
    <3>1. CASE m \in to_console
      <4>1. m.n \in Nat /\ m.n <= b - 1 /\ m = ACK(m.n)
        BY <1>2, <2>2, <3>1 DEF AckInv, AcksTrue
      <4>2. \A k \in Nat : k <= b - 1 => k <= b + c - 1
        OBVIOUS
      <4> QED
        BY <4>1, <4>2
    <3>2. CASE m = ACK(b + c - 1)
      <4>1. b + c - 1 \in Nat
        BY <1>2
      <4> QED
        BY <3>2, <4>1 DEF ACK
    <3> QED
      BY <1>4, <3>1, <3>2
  <2> QED
    BY <1>1, <1>2, <1>3, <2>1, <2>2 DEF AcksTrue
<1>6. LastKnown'
  <2>1. CASE c = 0
    <3>1. begin' = begin
      BY <1>1, <1>2, <2>1
    <3>2. to_console' = to_console /\ (ack_lost => ack_lost')
      <4>1. to_console' = to_console
        BY <1>1, <2>1
      <4>2. ack_lost => ack_lost'
        BY <1>1, <2>1, Zenon
      <4> QED
        BY <4>1, <4>2
    <3> QED
      BY <1>3, <3>1, <3>2, Zenon DEF AckInv, LastKnown
  <2>2. CASE c # 0
    <3>1. ack_lost' \/ to_console' = to_console \cup {ACK(begin + c - 1)}
      BY <1>1, <2>2, Zenon
    <3>2. begin' = begin + c
      BY <1>1
    <3>3. begin' - 1 = begin + c - 1
      BY <1>2, <3>2
    <3> QED
      BY <3>1, <3>3, Zenon DEF LastKnown
  <2> QED
    BY <2>1, <2>2
<1> QED
  BY <1>5, <1>6 DEF AckInv

LEMMA AckAcked ==
  ASSUME DataInv, AckInv, NEW p \in to_console, ConsoleAcked(p)
  PROVE  AckInv'
<1>1. /\ UNCHANGED <<begin, ack_lost>>
      /\ acked' = IF p.n > acked THEN p.n ELSE acked
      /\ to_console' = to_console \ {p}
      /\ p.type = "DATA_ACK"
  BY Zenon DEF ConsoleAcked, queue, history
<1>2. PICK b \in Nat : b = begin /\ b >= 1
  BY DEF DataInv, Delivered
<1>3. PICK a \in Nat : a = acked /\ a <= b - 1
  BY <1>2 DEF AckInv, AcksTrue
<1>4. PICK k \in Nat : k = p.n /\ k <= b - 1 /\ p = ACK(k)
  BY <1>1, <1>2 DEF AckInv, AcksTrue
<1>5. acked' = IF k > a THEN k ELSE a
  BY <1>1, <1>3, <1>4
<1>6. AcksTrue'
  BY <1>1, <1>2, <1>3, <1>4, <1>5 DEF AckInv, AcksTrue
<1>7. LastKnown'
  <2>1. CASE acked = begin - 1
    <3>1. acked' = begin' - 1
      BY <1>1, <1>2, <1>3, <1>4, <1>5, <2>1
    <3> QED
      BY <3>1 DEF LastKnown
  <2>2. CASE ACK(begin - 1) \in to_console
    <3>1. CASE p = ACK(begin - 1)
      <4>1. k = b - 1
        BY <1>2, <1>4, <3>1 DEF ACK
      <4>2. acked' = begin' - 1
        BY <1>1, <1>2, <1>3, <1>5, <4>1
      <4> QED
        BY <4>2 DEF LastKnown
    <3>2. CASE p # ACK(begin - 1)
      <4>1. ACK(begin' - 1) \in to_console'
        BY <1>1, <2>2, <3>2
      <4> QED
        BY <4>1 DEF LastKnown
    <3> QED
      BY <3>1, <3>2
  <2>3. CASE ack_lost
    BY <1>1, <2>3, Zenon DEF LastKnown
  <2> QED
    BY <2>1, <2>2, <2>3 DEF AckInv, LastKnown
<1> QED
  BY <1>6, <1>7 DEF AckInv

LEMMA AckNext == DataInv /\ AckInv /\ [TakionNext]_takionVars => AckInv'
<1> SUFFICES ASSUME DataInv, AckInv, [TakionNext]_takionVars PROVE AckInv'
  OBVIOUS
<1> USE DEF queue, keys, net, peer, history
<1>1. CASE TakionThread \/ TakionClose \/ UNCHANGED takionVars
  <2>1. NoAck
    BY <1>1 DEF NoAck, TakionThread, TakionClose, takionVars, SendInit, RecvFails, LoopTop, Beach, Carried, Control
  <2> QED
    BY <2>1, NoAckKeeps
<1>2. ASSUME NEW p \in to_client, RecvInitAck(p) \/ RecvCookieAck(p) \/ HandleAv(p) \/ HandleUnknown(p)
      PROVE  AckInv'
  <2>1. NoAck
    BY <1>2 DEF NoAck, RecvInitAck, RecvCookieAck, HandleAv, HandleUnknown, Carried, Control
  <2> QED
    BY <2>1, NoAckKeeps
<1>3. ASSUME NEW p \in to_client, HandleData(p) PROVE AckInv'
  BY <1>3, AckHandleData
<1>4. ASSUME NEW t, NEW a, t # "DATA_ACK", Answer(t, a) PROVE AckInv'
  <2>1. /\ UNCHANGED <<begin, acked, ack_lost>>
        /\ to_console' = to_console \ {Control(t)}
    BY <1>4 DEF Answer
  <2>2. AcksTrue'
    BY <2>1 DEF AckInv, AcksTrue
  <2>3. ACK(begin - 1) # Control(t)
    BY <1>4 DEF ACK, Control
  <2>4. LastKnown'
    BY <2>1, <2>3, Zenon DEF AckInv, LastKnown
  <2> QED
    BY <2>2, <2>4 DEF AckInv
<1>5. CASE ConsoleSends
  <2>1. NoAck
    BY <1>5 DEF NoAck, ConsoleSends
  <2> QED
    BY <2>1, NoAckKeeps
<1>6. ASSUME NEW n \in 1 .. MaxData, Repeats(n) PROVE AckInv'
  <2>1. NoAck
    BY <1>6 DEF NoAck, Repeats
  <2> QED
    BY <2>1, NoAckKeeps
<1>7. ASSUME NEW p \in to_console, ConsoleAcked(p) PROVE AckInv'
  BY <1>7, AckAcked
<1>8. Answer("INIT", "INIT_ACK") \/ Answer("COOKIE", "COOKIE_ACK") => AckInv'
  BY <1>4
<1> QED
  BY <1>1, <1>2, <1>3, <1>5, <1>6, <1>7, <1>8 DEF TakionNext, Receive, ConsoleSteps

LEMMA AckAccountedFollows == DataInv /\ AckInv => AckAccounted
<1> SUFFICES ASSUME DataInv, AckInv PROVE AckAccounted
  OBVIOUS
<1>1. PICK b \in Nat : b = begin /\ b >= 1
  BY DEF DataInv, Delivered
<1>2. (IF delivered = << >> THEN 0 ELSE delivered[Len(delivered)]) = b - 1
  <2>1. delivered \in Seq(Nat) /\ Len(delivered) = b - 1 /\ \A j \in 1 .. b - 1 : delivered[j] = j
    BY <1>1 DEF DataInv, Delivered, Numbers
  <2>2. CASE delivered = << >>
    <3>1. Len(delivered) = 0
      BY <2>2
    <3> QED
      BY <1>1, <2>1, <2>2, <3>1
  <2>3. CASE delivered # << >>
    <3>1. b - 1 \in 1 .. b - 1
      BY <1>1, <2>1, <2>3
    <3> QED
      BY <2>1, <2>3, <3>1
  <2> QED
    BY <2>2, <2>3
<1> QED
  BY <1>1, <1>2, Zenon DEF AckAccounted, AckInv, LastKnown

-----------------------------------------------------------------------------
(* Audio and video: when packets are handled with the keys none is         *)
(* postponed any more, as the loop has been at its top in between.         *)
AvTypes == /\ av_sent \in 0 .. MaxAv
           /\ \A p \in to_client : p.type = "AV" => p.n \in Nat
           /\ av \in Seq(Nat) /\ postponed_packets \in Seq(Nat) /\ arrived \in Seq(Nat)
           /\ Len(postponed_packets) <= PostponeSize

Flushed == tpc = "recv" /\ gkcrypt_remote => postponed_packets = << >>

AvInv == AvTypes /\ Flushed /\ AvInOrder

NoAv == /\ UNCHANGED <<av_sent, av, postponed_packets, arrived>>
        /\ \A p \in to_client' : p \in to_client \/ p.type # "AV"
        /\ tpc' = "recv" => tpc = "recv"
        /\ gkcrypt_remote => gkcrypt_remote'
        /\ gkcrypt_remote' => gkcrypt_remote \/ tpc' # "recv"

LEMMA NoAvKeeps == AvInv /\ NoAv => AvInv'
<1> SUFFICES ASSUME AvInv, NoAv PROVE AvInv'
  OBVIOUS
<1>1. AvTypes'
  BY DEF AvInv, NoAv, AvTypes
<1>2. Flushed'
  BY Zenon DEF AvInv, NoAv, Flushed
<1>3. AvInOrder'
  BY Zenon DEF AvInv, NoAv, AvInOrder
<1> QED
  BY <1>1, <1>2, <1>3 DEF AvInv

LEMMA AvInit == TakionInit => AvInv
<1> SUFFICES ASSUME TakionInit PROVE AvInv
  OBVIOUS
<1>1. av = << >> /\ postponed_packets = << >> /\ arrived = << >>
  BY DEF TakionInit
<1>2. AvTypes
  BY <1>1, EmptySeq, TakionAssumption DEF TakionInit, TakionAssumption, AvTypes
<1>3. Flushed /\ AvInOrder
  BY <1>1 DEF Flushed, AvInOrder
<1> QED
  BY <1>2, <1>3 DEF AvInv

LEMMA AvLoopTop == AvInv /\ LoopTop => AvInv'
<1> SUFFICES ASSUME AvInv, LoopTop PROVE AvInv'
  OBVIOUS
<1>1. /\ UNCHANGED <<av_sent, to_client, arrived>>
      /\ gkcrypt_remote' = gkcrypt_remote
  BY Zenon DEF LoopTop, net, peer
<1>2. \/ tpc' = "crashed" /\ UNCHANGED <<av, postponed_packets>>
      \/ tpc' = "recv" /\ ~gkcrypt_remote /\ UNCHANGED <<av, postponed_packets>>
      \/ gkcrypt_remote /\ av' = av \o postponed_packets /\ postponed_packets' = << >>
  BY Zenon DEF LoopTop
<1>3. /\ av \in Seq(Nat) /\ postponed_packets \in Seq(Nat) /\ arrived \in Seq(Nat)
      /\ Len(postponed_packets) <= PostponeSize /\ Len(postponed_packets) \in Nat
      /\ av \o postponed_packets = arrived
  BY DEF AvInv, AvTypes, AvInOrder
<1>4. CASE UNCHANGED <<av, postponed_packets>>
  <2>1. AvTypes'
    BY <1>1, <1>4 DEF AvInv, AvTypes
  <2>2. AvInOrder'
    BY <1>1, <1>4, Zenon DEF AvInv, AvInOrder
  <2>3. Flushed'
    <3>1. CASE tpc' = "crashed"
      BY <3>1 DEF Flushed
    <3>2. CASE ~gkcrypt_remote
      BY <1>1, <3>2, Zenon DEF Flushed
    <3>3. CASE postponed_packets' = << >>
      BY <3>3, Zenon DEF Flushed
    <3> QED
      BY <1>2, <3>1, <3>2, <3>3
  <2> QED
    BY <2>1, <2>2, <2>3 DEF AvInv
<1>5. CASE gkcrypt_remote /\ av' = av \o postponed_packets /\ postponed_packets' = << >>
  <2>1. av' \in Seq(Nat) /\ av' = arrived /\ postponed_packets' \in Seq(Nat) /\ Len(postponed_packets') = 0
    BY <1>3, <1>5
  <2>2. AvTypes'
    <3>1. Len(postponed_packets') <= PostponeSize
      BY <1>3, <2>1, TakionAssumption DEF TakionAssumption
    <3> QED
      BY <1>1, <2>1, <3>1 DEF AvInv, AvTypes
  <2>3. av' \o postponed_packets' = arrived'
    BY <1>1, <1>3, <1>5, <2>1, ConcatEmptySeq
  <2>4. AvInOrder'
    BY <1>1, <1>5, <2>3, Zenon DEF AvInOrder
  <2>5. Flushed'
    BY <1>5, Zenon DEF Flushed
  <2> QED
    BY <2>2, <2>4, <2>5 DEF AvInv
<1> QED
  BY <1>2, <1>4, <1>5, Zenon

LEMMA AvHandle ==
  ASSUME AvInv, NEW p \in to_client, HandleAv(p)
  PROVE  AvInv'
<1>1. /\ tpc = "recv" /\ tpc' = "top" /\ p.type = "AV"
      /\ UNCHANGED av_sent
      /\ to_client' = to_client \ {p}
      /\ gkcrypt_remote' = gkcrypt_remote
  BY Zenon DEF HandleAv, keys, peer
<1>2. /\ av \in Seq(Nat) /\ postponed_packets \in Seq(Nat) /\ arrived \in Seq(Nat)
      /\ Len(postponed_packets) <= PostponeSize /\ Len(postponed_packets) \in Nat
      /\ av \o postponed_packets = arrived
      /\ p.n \in Nat
  BY <1>1 DEF AvInv, AvTypes, AvInOrder
<1>3. Flushed'
  BY <1>1 DEF Flushed
<1>4. CASE gkcrypt_remote /\ av' = Append(av, p.n) /\ arrived' = Append(arrived, p.n) /\ UNCHANGED postponed_packets
  <2>1. postponed_packets = << >>
    BY <1>1, <1>4, Zenon DEF AvInv, Flushed
  <2>2. av = arrived
    BY <1>2, <2>1, ConcatEmptySeq
  <2>3. av' \in Seq(Nat) /\ arrived' \in Seq(Nat) /\ av' = arrived'
    BY <1>2, <1>4, <2>2
  <2>4. av' \o postponed_packets' = arrived'
    BY <1>4, <2>1, <2>3, ConcatEmptySeq
  <2>5. AvInOrder'
    BY <1>1, <1>4, <2>4, Zenon DEF AvInOrder
  <2>6. AvTypes'
    BY <1>1, <1>2, <1>4, <2>3 DEF AvInv, AvTypes
  <2> QED
    BY <1>3, <2>5, <2>6 DEF AvInv
<1>5. CASE /\ ~gkcrypt_remote /\ Len(postponed_packets) < PostponeSize
           /\ postponed_packets' = Append(postponed_packets, p.n) /\ arrived' = Append(arrived, p.n)
           /\ UNCHANGED av
  <2>1. /\ postponed_packets' \in Seq(Nat) /\ arrived' \in Seq(Nat)
        /\ Len(postponed_packets') = Len(postponed_packets) + 1
    BY <1>2, <1>5
  <2>2. av \o Append(postponed_packets, p.n) = Append(av \o postponed_packets, p.n)
    BY <1>2, ConcatAppend
  <2>3. av' \o postponed_packets' = arrived'
    BY <1>2, <1>5, <2>2
  <2>4. AvInOrder'
    BY <1>1, <1>5, <2>3, Zenon DEF AvInv, AvInOrder
  <2>5. Len(postponed_packets') <= PostponeSize
    BY <1>2, <1>5, <2>1, TakionAssumption DEF TakionAssumption
  <2>6. AvTypes'
    BY <1>1, <1>5, <2>1, <2>5 DEF AvInv, AvTypes
  <2> QED
    BY <1>3, <2>4, <2>6 DEF AvInv
<1>6. CASE UNCHANGED <<postponed_packets, av, arrived>>
  <2>1. AvTypes'
    BY <1>1, <1>6 DEF AvInv, AvTypes
  <2>2. AvInOrder'
    BY <1>1, <1>6, Zenon DEF AvInv, AvInOrder
  <2> QED
    BY <1>3, <2>1, <2>2 DEF AvInv
<1> QED
  BY <1>4, <1>5, <1>6, Zenon DEF HandleAv

LEMMA AvNext == AvInv /\ [TakionNext]_takionVars => AvInv'
<1> SUFFICES ASSUME AvInv, [TakionNext]_takionVars PROVE AvInv'
  OBVIOUS
<1> USE DEF queue, keys, net, peer, history
<1>1. CASE SendInit \/ RecvFails \/ Beach \/ TakionClose \/ UNCHANGED takionVars
  <2>1. CASE SendInit \/ RecvFails \/ Beach
    <3>1. UNCHANGED <<av_sent, av, postponed_packets, arrived, to_client, gkcrypt_remote>> /\ tpc' # "recv"
      BY <2>1 DEF SendInit, RecvFails, Beach
    <3>2. NoAv
      BY <3>1, Zenon DEF NoAv
    <3> QED
      BY <3>2, NoAvKeeps
  <2>2. CASE TakionClose \/ UNCHANGED takionVars
    <3>1. NoAv
      BY <2>2 DEF NoAv, TakionClose, takionVars
    <3> QED
      BY <3>1, NoAvKeeps
  <2> QED
    BY <1>1, <2>1, <2>2
<1>2. CASE LoopTop
  BY <1>2, AvLoopTop
<1>3. ASSUME NEW p \in to_client, RecvInitAck(p) \/ RecvCookieAck(p) \/ HandleUnknown(p) \/ HandleData(p)
      PROVE  AvInv'
  <2>1. /\ UNCHANGED <<av_sent, av, postponed_packets, arrived>>
        /\ to_client' \subseteq to_client
        /\ tpc' # "recv"
    BY <1>3 DEF RecvInitAck, RecvCookieAck, HandleUnknown, HandleData, Takes
  <2>2. gkcrypt_remote => gkcrypt_remote'
    BY <1>3, Zenon DEF RecvInitAck, RecvCookieAck, HandleUnknown, HandleData
  <2>3. NoAv
    BY <2>1, <2>2, Zenon DEF NoAv
  <2> QED
    BY <2>3, NoAvKeeps
<1>4. ASSUME NEW p \in to_client, HandleAv(p) PROVE AvInv'
  BY <1>4, AvHandle
<1>5. ASSUME NEW t, NEW a, a # "AV", Answer(t, a) PROVE AvInv'
  <2>1. \A m \in to_client' : m \in to_client \/ m.type # "AV"
    BY <1>5 DEF Answer, Carried, Control
  <2>2. NoAv
    BY <1>5, <2>1, Zenon DEF NoAv, Answer
  <2> QED
    BY <2>2, NoAvKeeps
<1>6. CASE ConsoleSends
  <2>1. /\ UNCHANGED <<av, postponed_packets, arrived>>
        /\ av_sent' \in 0 .. MaxAv
        /\ \A m \in to_client' : m \in to_client \/ m.type # "AV" \/ m.n \in Nat
    <3>1. av_sent \in 0 .. MaxAv /\ MaxAv \in Nat
      BY TakionAssumption DEF AvInv, AvTypes, TakionAssumption
    <3> QED
      BY <1>6, <3>1 DEF ConsoleSends, Carried, DATA, AV
  <2>2. AvTypes'
    BY <2>1 DEF AvInv, AvTypes
  <2>3. Flushed' /\ AvInOrder'
    BY <1>6, Zenon DEF ConsoleSends, AvInv, Flushed, AvInOrder
  <2> QED
    BY <2>2, <2>3 DEF AvInv
<1>7. ASSUME NEW n \in 1 .. MaxData, Repeats(n) PROVE AvInv'
  <2>1. \A m \in to_client' : m \in to_client \/ m.type # "AV"
    BY <1>7 DEF Repeats, DATA
  <2>2. NoAv
    BY <1>7, <2>1, Zenon DEF NoAv, Repeats
  <2> QED
    BY <2>2, NoAvKeeps
<1>8. ASSUME NEW p \in to_console, ConsoleAcked(p) PROVE AvInv'
  <2>1. NoAv
    BY <1>8, Zenon DEF NoAv, ConsoleAcked
  <2> QED
    BY <2>1, NoAvKeeps
<1>9. Answer("INIT", "INIT_ACK") \/ Answer("COOKIE", "COOKIE_ACK") => AvInv'
  BY <1>5
<1> QED
  BY <1>1, <1>2, <1>3, <1>4, <1>6, <1>7, <1>8, <1>9 DEF TakionNext, TakionThread, Receive, ConsoleSteps

-----------------------------------------------------------------------------
(* Where the thread is, and the flags.                                     *)
ThreadOK == /\ tpc \in {"init", "init_ack", "cookie_ack", "cookie_ack_again", "top", "recv", "beach", "ended", "crashed"}
            /\ stop_pipe \in BOOLEAN /\ gkcrypt_remote \in BOOLEAN /\ crypt_available \in BOOLEAN

LEMMA ControlInit == TakionInit => ThreadOK
BY DEF TakionInit, ThreadOK

LEMMA ControlNext == ThreadOK /\ [TakionNext]_takionVars => ThreadOK'
<1> SUFFICES ASSUME ThreadOK, [TakionNext]_takionVars PROVE ThreadOK'
  OBVIOUS
<1> USE DEF queue, keys, net, peer, history, ThreadOK
<1>1. CASE UNCHANGED takionVars
  BY <1>1 DEF takionVars
<1>2. CASE SendInit \/ RecvFails \/ Beach
  BY <1>2 DEF SendInit, RecvFails, Beach
<1>3. CASE LoopTop
  BY <1>3, Zenon DEF LoopTop
<1>4. CASE TakionClose
  BY <1>4 DEF TakionClose
<1>5. ASSUME NEW p \in to_client, RecvInitAck(p) \/ RecvCookieAck(p) \/ HandleAv(p) \/ HandleUnknown(p)
      PROVE  ThreadOK'
  BY <1>5 DEF RecvInitAck, RecvCookieAck, HandleAv, HandleUnknown
<1>6. ASSUME NEW p \in to_client, HandleData(p) PROVE ThreadOK'
  <2>1. tpc' = "top" /\ UNCHANGED <<stop_pipe, crypt_available>>
    BY <1>6 DEF HandleData
  <2>2. gkcrypt_remote' \in BOOLEAN
    BY <1>6, Zenon DEF HandleData
  <2> QED
    BY <2>1, <2>2
<1>7. CASE ConsoleSteps
  BY <1>7 DEF ConsoleSteps, Answer, ConsoleSends, Repeats, ConsoleAcked
<1> QED
  BY <1>1, <1>2, <1>3, <1>4, <1>5, <1>6, <1>7 DEF TakionNext, TakionThread, Receive

-----------------------------------------------------------------------------
TakionInv == ThreadOK /\ DataInv /\ AckInv /\ AvInv

LEMMA TakionInductive == TakionSpec => []TakionInv
<1>1. TakionInit => TakionInv
  BY ControlInit, DataInit, AckInit, AvInit DEF TakionInv
<1>2. TakionInv /\ [TakionNext]_takionVars => TakionInv'
  BY ControlNext, DataNext, AckNext, AvNext DEF TakionInv
<1> QED
  BY <1>1, <1>2, PTL DEF TakionSpec

(* The queue never has a message that could be pulled or one beyond its    *)
(* window, no more packets are postponed than there is space for, and the  *)
(* console takes nothing for acknowledged that it has not sent.            *)
THEOREM TakionTypeCorrect == TakionSpec => []TakionTypeOK
<1>1. TakionInv => TakionTypeOK
  <2> SUFFICES ASSUME TakionInv PROVE TakionTypeOK
    OBVIOUS
  <2>1. sent \in Nat /\ acked \in Nat /\ begin \in Nat /\ begin <= sent + 1 /\ acked <= begin - 1
    BY TakionAssumption DEF TakionInv, DataInv, Delivered, SentSoFar, AckInv, AcksTrue, TakionAssumption
  <2>2. \A b, s, a \in Nat : b <= s + 1 /\ a <= b - 1 => a \in 0 .. s
    OBVIOUS
  <2>3. acked \in 0 .. sent
    BY <2>1, <2>2
  <2>4. ThreadOK
    BY DEF TakionInv
  <2> QED
    BY <2>3, <2>4, Zenon DEF TakionInv, ThreadOK, TakionTypeOK, DataInv, Queued, SentSoFar, AvInv, AvTypes
<1> QED
  BY TakionInductive, <1>1, PTL

(* After every packet the console knows what the callback got, or an       *)
(* acknowledgement of exactly that is under way or was lost.               *)
THEOREM AckAccountedHolds == TakionSpec => []AckAccounted
<1>1. TakionInv => AckAccounted
  BY AckAccountedFollows DEF TakionInv
<1> QED
  BY TakionInductive, <1>1, PTL

(* Postponed audio and video packets are handled before later ones, once,  *)
(* and none without the keys, however many are postponed.                  *)
THEOREM AvInOrderHolds == TakionSpec => []AvInOrder
<1>1. TakionInv => AvInOrder
  BY DEF TakionInv, AvInv
<1> QED
  BY TakionInductive, <1>1, PTL

-----------------------------------------------------------------------------
(* The steps are those of a ReliableStream: what is handed to the callback *)
(* is the next run of messages sent, or the connection ends.               *)
Open == tpc \notin {"beach", "ended", "crashed"}

LEMMA StreamInit == TakionInit => Stream!Init
BY DEF TakionInit, Stream!Init

LEMMA Stutter ==
  UNCHANGED <<sent, delivered>> /\ (Open' <=> Open) => UNCHANGED Stream!vars
<1> SUFFICES ASSUME UNCHANGED <<sent, delivered>>, Open' <=> Open PROVE UNCHANGED Stream!vars
  OBVIOUS
<1>1. (tpc' \notin {"beach", "ended", "crashed"}) = (tpc \notin {"beach", "ended", "crashed"})
  BY DEF Open
<1> QED
  BY <1>1 DEF Stream!vars

LEMMA Closes == UNCHANGED <<sent, delivered>> /\ ~Open' => Stream!Close
BY DEF Open, Stream!Close

LEMMA StreamHandleData ==
  ASSUME DataInv, NEW p \in to_client, HandleData(p)
  PROVE  [Stream!Next]_(Stream!vars)
<1>1. PICK c \in Nat :
        /\ begin' = begin + c
        /\ begin + c <= sent + 1
        /\ delivered' = delivered \o [j \in 1 .. c |-> begin + j - 1]
  BY HandleDataRun, Zenon
<1>2. tpc = "recv" /\ tpc' = "top" /\ sent' = sent
  BY DEF HandleData, peer
<1>3. PICK b \in Nat : b = begin /\ b >= 1 /\ delivered \in Seq(Nat) /\ Len(delivered) = b - 1
  BY DEF DataInv, Delivered, Numbers
<1>4. sent \in Nat
  BY TakionAssumption DEF DataInv, SentSoFar, TakionAssumption
<1>5. CASE c = 0
  <2>1. [j \in 1 .. c |-> begin + j - 1] = << >>
    BY <1>5
  <2>2. delivered' = delivered
    BY <1>1, <1>3, <2>1, ConcatEmptySeq
  <2> QED
    BY <1>2, <2>2, Stutter DEF Open
<1>6. CASE c # 0
  <2>1. PICK k \in Nat : k = b + c - 1
    BY <1>3
  <2>2. k \in Len(delivered) + 1 .. sent
    BY <1>1, <1>3, <1>4, <1>6, <2>1
  <2>3. [j \in 1 .. c |-> begin + j - 1] = [j \in 1 .. k - Len(delivered) |-> Len(delivered) + j]
    BY <1>3, <2>1
  <2>4. \E m \in Len(delivered) + 1 .. sent :
          delivered' = delivered \o [j \in 1 .. m - Len(delivered) |-> Len(delivered) + j]
    BY <1>1, <2>2, <2>3
  <2>5. Stream!Receive
    BY <1>2, <2>4 DEF Stream!Receive
  <2> QED
    BY <2>5 DEF Stream!Next
<1> QED
  BY <1>5, <1>6

LEMMA StreamNext == DataInv /\ [TakionNext]_takionVars => [Stream!Next]_(Stream!vars)
<1> SUFFICES ASSUME DataInv, [TakionNext]_takionVars PROVE [Stream!Next]_(Stream!vars)
  OBVIOUS
<1> USE DEF queue, keys, net, peer, history
<1>1. CASE TakionThread \/ TakionClose \/ UNCHANGED takionVars
  <2>1. UNCHANGED <<sent, delivered>> /\ ((Open' <=> Open) \/ ~Open')
    BY <1>1 DEF Open, TakionThread, TakionClose, takionVars, SendInit, RecvFails, LoopTop, Beach
  <2> QED
    BY <2>1, Stutter, Closes DEF Stream!Next
<1>2. ASSUME NEW p \in to_client, RecvInitAck(p) \/ RecvCookieAck(p) \/ HandleAv(p) \/ HandleUnknown(p)
      PROVE  [Stream!Next]_(Stream!vars)
  <2>1. UNCHANGED <<sent, delivered>> /\ ((Open' <=> Open) \/ ~Open')
    BY <1>2 DEF Open, RecvInitAck, RecvCookieAck, HandleAv, HandleUnknown
  <2> QED
    BY <2>1, Stutter, Closes DEF Stream!Next
<1>3. ASSUME NEW p \in to_client, HandleData(p) PROVE [Stream!Next]_(Stream!vars)
  BY <1>3, StreamHandleData
<1>4. CASE ConsoleSends
  <2>1. tpc' = tpc /\ delivered' = delivered /\ (sent' = sent \/ sent' = sent + 1)
    BY <1>4 DEF ConsoleSends
  <2>2. CASE sent' = sent
    BY <2>1, <2>2, Stutter DEF Open
  <2>3. CASE sent' = sent + 1
    <3>1. Stream!Send
      BY <2>1, <2>3 DEF Stream!Send
    <3> QED
      BY <3>1 DEF Stream!Next
  <2> QED
    BY <2>1, <2>2, <2>3
<1>5. ASSUME \/ Answer("INIT", "INIT_ACK") \/ Answer("COOKIE", "COOKIE_ACK")
             \/ \E n \in 1 .. MaxData : Repeats(n)
             \/ \E p \in to_console : ConsoleAcked(p)
      PROVE  [Stream!Next]_(Stream!vars)
  <2>1. UNCHANGED <<sent, delivered, tpc>>
    BY <1>5 DEF Answer, Repeats, ConsoleAcked
  <2> QED
    BY <2>1, Stutter DEF Open
<1> QED
  BY <1>1, <1>2, <1>3, <1>4, <1>5 DEF TakionNext, Receive, ConsoleSteps

(* Every behaviour of the Takion thread and its network is one of a        *)
(* ReliableStream, as far as safety goes: every data message at most once, *)
(* in the order they were sent, without a gap.                             *)
THEOREM TakionRefinesStream == TakionSpec => Stream!Init /\ [][Stream!Next]_(Stream!vars)
<1>1. TakionInv => DataInv
  BY DEF TakionInv
<1> QED
  BY TakionInductive, <1>1, StreamInit, StreamNext, PTL DEF TakionSpec
-----------------------------------------------------------------------------
(* The compaction of the array of sent messages in SendBufferAck, for      *)
(* arrays of every length and sequence numbers of every width.             *)
(*                                                                         *)
(* The invariant describes the array in the middle of the loop: below      *)
(* start it is compacted, from start to start + shift lies the gap that is *)
(* still open, behind it are packets to be moved back by shift, and        *)
(* nothing from start on has been overwritten yet.                         *)
(* Positions: how many packets were kept, where the open gap is.           *)
Positions == /\ Len(kept) = i - shift
             /\ start = Unset => shift = 0
             /\ start # Unset => shift >= 1 /\ start + shift <= i
             /\ ~done => count = N
             /\ done => i = N

(* The array while the loop runs.                                          *)
Untouched == \A j \in Index : j >= start \/ start = Unset => packets[j] = original[j]
Front == \A j \in Index : j < start /\ j < i => packets[j] = kept[j + 1]
Pending == start # Unset => \A j \in Index : start + shift <= j /\ j < i => packets[j] = kept[j - shift + 1]

IInv == /\ TypeOK
        /\ Positions
        /\ ~done => Untouched /\ Front /\ Pending
        /\ Compacted

LEMMA InitIInv == Init => IInv
<1> SUFFICES ASSUME Init PROVE IInv
  OBVIOUS
<1> USE NAssumption, HalfAssumption DEF Init
<1>1. TypeOK
  <2>1. acked_seq_nums \in Seq(SeqNums) /\ kept \in Seq(SeqNums) /\ done \in BOOLEAN
    BY EmptySeq
  <2>2. start \in (0 .. N) \cup {Unset} /\ shift \in 0 .. i /\ i \in 0 .. N /\ count \in 0 .. N
    BY DEF Unset
  <2> QED
    BY <2>1, <2>2 DEF TypeOK
<1>2. Positions
  BY DEF Positions, Unset
<1>3. Untouched /\ Front /\ Pending
  BY DEF Untouched, Front, Pending, Unset, Index
<1>4. Compacted
  BY DEF Compacted
<1> QED
  BY <1>1, <1>2, <1>3, <1>4 DEF IInv

LEMMA KeepIInv == IInv /\ Keep => IInv'
<1> SUFFICES ASSUME IInv, Keep PROVE IInv'
  OBVIOUS
<1> USE NAssumption, HalfAssumption
<1>1. /\ TypeOK /\ Positions /\ ~done
      /\ Untouched /\ Front /\ Pending
  BY DEF IInv, Keep, Positions, TypeOK
<1>2. /\ i \in Index /\ i' = i + 1 /\ i \in Nat
      /\ kept' = Append(kept, original[i])
      /\ UNCHANGED <<seq, packets, shift, start, acked_seq_nums, count, done, original>>
  BY <1>1 DEF Keep, TypeOK, Index
<1>3. original[i] \in SeqNums /\ kept \in Seq(SeqNums)
  BY <1>1, <1>2 DEF TypeOK
<1>4. /\ kept' \in Seq(SeqNums) /\ Len(kept') = Len(kept) + 1
      /\ kept'[Len(kept) + 1] = original[i]
      /\ \A k \in 1 .. Len(kept) : kept'[k] = kept[k]
  BY <1>2, <1>3
<1>5. TypeOK'
  BY <1>1, <1>2, <1>4 DEF TypeOK, Index
<1>6. Positions'
  BY <1>1, <1>2, <1>4 DEF Positions, TypeOK, Unset
<1>7. packets[i] = original[i]
  BY <1>1, <1>2 DEF Untouched, Positions, TypeOK, Unset
<1>8. Untouched'
  BY <1>1, <1>2 DEF Untouched, Index, Unset
<1>9. Front'
  <2> SUFFICES ASSUME NEW j \in Index, j < start, j < i + 1 PROVE packets[j] = kept'[j + 1]
    BY <1>2 DEF Front, Index
  <2>1. CASE j < i
    <3>1. j + 1 \in 1 .. Len(kept)
      BY <1>1, <2>1 DEF Positions, TypeOK, Unset, Index
    <3> QED
      BY <1>1, <1>4, <2>1, <3>1 DEF Front
  <2>2. CASE j = i
    <3>1. start = Unset
      BY <1>1, <1>2, <2>2 DEF Positions, TypeOK, Unset, Index
    <3> QED
      BY <1>1, <1>4, <1>7, <2>2, <3>1 DEF Positions, TypeOK
  <2>3. i \in Int /\ j \in Int
    BY <1>2 DEF Index
  <2>4. j < i \/ j = i
    BY <2>3
  <2> QED
    BY <2>1, <2>2, <2>4
<1>10. Pending'
  <2> SUFFICES ASSUME start # Unset, NEW j \in Index, start + shift <= j, j < i + 1
               PROVE  packets[j] = kept'[j - shift + 1]
    BY <1>2 DEF Pending, Index, Unset
  <2>1. CASE j < i
    <3>1. j - shift + 1 \in 1 .. Len(kept)
      BY <1>1, <2>1 DEF Positions, TypeOK, Unset, Index
    <3> QED
      BY <1>1, <1>4, <2>1, <3>1 DEF Pending
  <2>2. CASE j = i
    BY <1>1, <1>4, <1>7, <2>2 DEF Positions, TypeOK
  <2>3. i \in Int /\ j \in Int
    BY <1>2 DEF Index
  <2>4. j < i \/ j = i
    BY <2>3
  <2> QED
    BY <2>1, <2>2, <2>4
<1>11. Compacted'
  BY <1>1, <1>2 DEF Compacted
<1> QED
  BY <1>5, <1>6, <1>8, <1>9, <1>10, <1>11 DEF IInv

LEMMA RemoveIInv == IInv /\ Remove => IInv'
<1> SUFFICES ASSUME IInv, Remove PROVE IInv'
  OBVIOUS
<1> USE NAssumption, HalfAssumption
<1>1. /\ TypeOK /\ Positions /\ ~done
      /\ Untouched /\ Front /\ Pending
  BY DEF IInv, Remove, Positions, TypeOK
<1>2. /\ i \in Index /\ i' = i + 1 /\ i \in Nat /\ shift \in Nat
      /\ acked_seq_nums' = Append(acked_seq_nums, packets[i]) /\ shift' = shift + 1
      /\ UNCHANGED <<seq, count, done, original, kept>>
  BY <1>1 DEF Remove, TypeOK, Index
<1>3. acked_seq_nums' \in Seq(SeqNums)
  BY <1>1, <1>2 DEF TypeOK
<1>4. Compacted'
  BY <1>1, <1>2 DEF Compacted
<1>5. CASE start = Unset
  <2>1. start' = i /\ packets' = packets /\ shift = 0
    <3>1. shift = 0 /\ start + shift # i
      BY <1>1, <1>2, <1>5 DEF Positions, Unset, Index
    <3> QED
      BY <1>5, <3>1 DEF Remove
  <2>2. TypeOK' /\ Positions'
    <3>1. TypeOK'
      BY <1>1, <1>2, <1>3, <2>1 DEF TypeOK, Index
    <3>2. Positions'
      BY <1>1, <1>2, <2>1 DEF Positions, Unset, Index
    <3> QED
      BY <3>1, <3>2
  <2>3. Untouched'
    BY <1>1, <1>2, <1>5, <2>1 DEF Untouched, Index
  <2>4. Front'
    BY <1>1, <1>2, <1>5, <2>1 DEF Front, Index, Unset
  <2>5. Pending'
    BY <1>1, <1>2, <1>5, <2>1 DEF Pending, Index, Unset
  <2> QED
    BY <1>1, <1>2, <1>4, <2>2, <2>3, <2>4, <2>5 DEF IInv
<1>6. CASE start # Unset /\ start + shift = i
  <2>1. start' = start /\ packets' = packets
    BY <1>6 DEF Remove
  <2>2. TypeOK' /\ Positions'
    <3>1. TypeOK'
      BY <1>1, <1>2, <1>3, <2>1 DEF TypeOK, Index
    <3>2. start \in Nat /\ shift \in Nat /\ i \in Nat
      BY <1>1, <1>6 DEF TypeOK, Unset
    <3>3. Positions'
      BY <1>1, <1>2, <1>6, <2>1, <3>2 DEF Positions, Unset, Index
    <3> QED
      BY <3>1, <3>3
  <2>3. Untouched'
    BY <1>1, <1>2, <2>1 DEF Untouched, Index
  <2>4. Front'
    BY <1>1, <1>2, <1>6, <2>1 DEF Front, Index, Unset, TypeOK
  <2>5. Pending'
    BY <1>1, <1>2, <1>6, <2>1 DEF Pending, Index, Unset, TypeOK
  <2> QED
    BY <1>1, <1>2, <1>4, <2>2, <2>3, <2>4, <2>5 DEF IInv
<1>7. CASE start # Unset /\ start + shift # i
  <2>1. packets' = Memmove(start, start + shift, i - (start + shift)) /\ start' = i - shift
    BY <1>7 DEF Remove
  <2>2. /\ start \in Nat /\ shift >= 1 /\ start + shift < i
        /\ Len(kept) = i - shift
    BY <1>1, <1>2, <1>7 DEF TypeOK, Positions, Unset
  <2>3. \A j \in Index : packets'[j] = IF start <= j /\ j < i - shift THEN packets[j + shift] ELSE packets[j]
    BY <1>2, <2>1, <2>2 DEF Memmove, Index
  <2>4. packets' \in [Index -> SeqNums]
    <3>1. \A j \in Index : packets'[j] \in SeqNums
      BY <1>1, <1>2, <2>2, <2>3 DEF TypeOK, Index
    <3>2. packets' = [j \in Index |-> packets'[j]]
      BY <2>1 DEF Memmove
    <3> QED
      BY <3>1, <3>2
  <2>5. TypeOK'
    BY <1>1, <1>2, <1>3, <2>1, <2>2, <2>4 DEF TypeOK, Index
  <2>6. Positions'
    BY <1>1, <1>2, <2>1, <2>2 DEF Positions, Unset, Index
  <2>7. Untouched'
    <3> SUFFICES ASSUME NEW j \in Index, j >= i - shift PROVE packets'[j] = original[j]
      BY <1>1, <1>2, <2>1, <2>2 DEF Untouched, Index, Unset
    <3>1. packets'[j] = packets[j]
      BY <1>2, <2>2, <2>3 DEF Index
    <3>2. j >= start
      BY <1>2, <2>2 DEF Index
    <3> QED
      BY <1>1, <3>1, <3>2 DEF Untouched
  <2>8. Front'
    <3> SUFFICES ASSUME NEW j \in Index, j < i - shift PROVE packets'[j] = kept[j + 1]
      BY <1>2, <2>1 DEF Front, Index
    <3>1. CASE j < start
      <4>1. packets'[j] = packets[j] /\ j < i
        BY <1>2, <2>2, <2>3, <3>1 DEF Index
      <4> QED
        BY <1>1, <3>1, <4>1 DEF Front
    <3>2. CASE start <= j
      <4>1. packets'[j] = packets[j + shift]
        BY <2>3, <3>2
      <4>2. j + shift \in Index /\ start + shift <= j + shift /\ j + shift < i
        BY <1>2, <2>2, <3>2 DEF Index
      <4>3. packets[j + shift] = kept[(j + shift) - shift + 1]
        BY <1>1, <1>7, <4>2 DEF Pending
      <4>4. (j + shift) - shift + 1 = j + 1
        BY <1>2 DEF Index
      <4> QED
        BY <4>1, <4>3, <4>4
    <3> QED
      BY <3>1, <3>2, <2>2 DEF Index
  <2>9. Pending'
    BY <1>2, <2>1 DEF Pending, Index
  <2> QED
    BY <1>1, <1>2, <1>4, <2>5, <2>6, <2>7, <2>8, <2>9 DEF IInv
<1> QED
  BY <1>5, <1>6, <1>7

LEMMA FinalShiftIInv == IInv /\ FinalShift => IInv'
<1> SUFFICES ASSUME IInv, FinalShift PROVE IInv'
  OBVIOUS
<1> USE NAssumption, HalfAssumption
<1>1. /\ TypeOK /\ Positions /\ i = N /\ done' = TRUE
      /\ Untouched /\ Front /\ Pending
      /\ UNCHANGED <<seq, i, shift, start, acked_seq_nums, original, kept>>
  BY DEF IInv, FinalShift
<1>2. CASE start = Unset \/ start + shift >= N
  <2>1. packets' = packets
    BY <1>1, <1>2 DEF FinalShift, Positions, TypeOK, Unset
  <2>2. count' = N - shift
    BY <1>1, <1>2 DEF FinalShift, Positions, TypeOK, Unset
  <2>3. TypeOK' /\ Positions'
    BY <1>1, <2>1, <2>2 DEF TypeOK, Positions, Unset
  <2>4. count' = Len(kept)
    BY <1>1, <2>2 DEF Positions
  <2>5. start = Unset \/ start = count'
    BY <1>1, <1>2, <2>2 DEF Positions, TypeOK, Unset
  <2>6. \A j \in 0 .. (count' - 1) : packets[j] = kept[j + 1]
    BY <1>1, <2>2, <2>5 DEF Front, Index, TypeOK, Positions, Unset
  <2>7. \A j \in count' .. (N - 1) : packets[j] = original[j]
    BY <1>1, <2>2, <2>5 DEF Untouched, Index, TypeOK, Positions, Unset
  <2>8. Compacted'
    BY <1>1, <2>1, <2>4, <2>6, <2>7 DEF Compacted
  <2> QED
    BY <1>1, <2>3, <2>8 DEF IInv
<1>3. CASE start # Unset /\ start + shift < N
  <2>1. packets' = Memmove(start, start + shift, N - (start + shift)) /\ count' = N - shift
    BY <1>3 DEF FinalShift
  <2>2. /\ start \in Nat /\ shift \in Nat /\ shift >= 1
        /\ Len(kept) = N - shift
    BY <1>1, <1>3 DEF TypeOK, Positions, Unset
  <2>3. \A j \in Index : packets'[j] = IF start <= j /\ j < N - shift THEN packets[j + shift] ELSE packets[j]
    BY <2>1, <2>2, <1>3 DEF Memmove, Index
  <2>4. packets' \in [Index -> SeqNums]
    <3>1. \A j \in Index : packets'[j] \in SeqNums
      BY <1>1, <2>2, <2>3 DEF TypeOK, Index
    <3>2. packets' = [j \in Index |-> packets'[j]]
      BY <2>1 DEF Memmove
    <3> QED
      BY <3>1, <3>2
  <2>5. TypeOK' /\ Positions'
    BY <1>1, <2>1, <2>2, <2>4 DEF TypeOK, Positions, Unset
  <2>6. \A j \in 0 .. (count' - 1) : packets'[j] = kept[j + 1]
    <3> SUFFICES ASSUME NEW j \in 0 .. (N - shift - 1) PROVE packets'[j] = kept[j + 1]
      BY <2>1
    <3>0. j \in Index /\ j < N
      BY <2>2 DEF Index
    <3>1. CASE j < start
      BY <1>1, <2>2, <2>3, <3>0, <3>1 DEF Front
    <3>2. CASE start <= j
      <4>1. packets'[j] = packets[j + shift]
        BY <2>2, <2>3, <3>0, <3>2
      <4>2. j + shift \in Index /\ start + shift <= j + shift /\ j + shift < i
        BY <1>1, <2>2, <3>2 DEF Index
      <4>3. packets[j + shift] = kept[(j + shift) - shift + 1]
        BY <1>1, <1>3, <4>2 DEF Pending
      <4>4. (j + shift) - shift + 1 = j + 1
        BY <2>2
      <4> QED
        BY <4>1, <4>3, <4>4
    <3> QED
      BY <3>1, <3>2, <2>2
  <2>7. \A j \in count' .. (N - 1) : packets'[j] = original[j]
    <3> SUFFICES ASSUME NEW j \in (N - shift) .. (N - 1) PROVE packets'[j] = original[j]
      BY <2>1
    <3>1. j \in Index /\ j >= start /\ ~(j < N - shift)
      BY <1>1, <1>3, <2>2 DEF Index, TypeOK
    <3> QED
      BY <1>1, <2>3, <3>1 DEF Untouched
  <2>8. Compacted'
    BY <1>1, <2>1, <2>2, <2>6, <2>7 DEF Compacted
  <2> QED
    BY <1>1, <2>5, <2>8 DEF IInv
<1> QED
  BY <1>2, <1>3, <1>1 DEF TypeOK, Unset

LEMMA Inductive == Spec => []IInv
<1>1. IInv /\ [Next]_vars => IInv'
  <2> SUFFICES ASSUME IInv, [Next]_vars PROVE IInv'
    OBVIOUS
  <2>1. CASE UNCHANGED vars
    BY <2>1 DEF vars, IInv, TypeOK, Positions, Untouched, Front, Pending, Compacted
  <2> QED
    BY <2>1, KeepIInv, RemoveIInv, FinalShiftIInv DEF Next
<1> QED
  BY InitIInv, <1>1, PTL DEF Spec

(* The indices of the loop never leave the array, for every N.             *)
THEOREM AckTypeCorrect == Spec => []TypeOK
<1>1. IInv => TypeOK
  BY DEF IInv
<1> QED
  BY Inductive, <1>1, PTL

(* chiaki_takion_send_buffer_ack compacts the array correctly for every    *)
(* number of packets and every pattern of acknowledged ones.               *)
THEOREM CompactedHolds == Spec => []Compacted
<1>1. IInv => Compacted
  BY DEF IInv
<1> QED
  BY Inductive, <1>1, PTL
=============================================================================
