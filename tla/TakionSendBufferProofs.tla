----------------------- MODULE TakionSendBufferProofs -----------------------
(***************************************************************************)
(* No packet of the send buffer is leaked or freed too early, whatever     *)
(* pushes, acknowledgements, re-sends and give-ups interleave, for every   *)
(* size of the buffer, number of tries and number of messages.             *)
(***************************************************************************)
EXTENDS TakionSendBuffer, SeqNumProofs

Packets == [seq : SeqNums, tries : 0 .. TriesMax, age : 0 .. AgeMax]

(* Less than half of the sequence numbers are used, so that they are in    *)
(* the order of the messages.                                              *)
LEMMA SeqOfMessages ==
  ASSUME NEW m \in Msgs, NEW n \in Msgs
  PROVE  /\ SeqOf(m) \in SeqNums
         /\ SeqOf(m) = SeqOf(n) => m = n
         /\ SeqLt(SeqOf(m), SeqOf(n)) <=> m < n
<1>1. /\ m \in 0 .. (Modulus - 1) /\ n \in 0 .. (Modulus - 1) /\ m \in 0 .. Modulus /\ n \in 0 .. Modulus
      /\ n - m < Half /\ m - n < Half /\ First \in SeqNums
  BY SendBufferAssumption, HalfAssumption DEF Msgs, Modulus
<1>2. SeqOf(m) \in SeqNums
  BY <1>1, SeqAddWraps DEF SeqOf
<1>3. SeqOf(m) = SeqOf(n) => m = n
  BY <1>1, SeqAddInjective DEF SeqOf
<1>4. SeqLt(SeqOf(m), SeqOf(n)) <=> m < n
  BY <1>1, SeqLtOffsets, HalfAssumption DEF SeqOf
<1> QED
  BY <1>2, <1>3, <1>4

(* What chiaki_takion_send_buffer_ack leaves in the slots: exactly the     *)
(* packets it does not acknowledge, each once.                             *)
LEMMA CompactKeeps ==
  ASSUME packet \in [Slots -> Packets], count \in 0 .. Size, NEW seq, Compact(seq)
  PROVE  /\ count' \in 0 .. count
         /\ packet' \in [Slots -> Packets]
         /\ \A j \in 1 .. count' : \E k \in KeptSlots(seq) : packet'[j] = packet[k]
         /\ \A k \in KeptSlots(seq) : \E j \in 1 .. count' : packet'[j] = packet[k]
         /\ (\A j, k \in Live : packet[j].seq = packet[k].seq => j = k)
              => \A j, k \in 1 .. count' : packet'[j].seq = packet'[k].seq => j = k
<1>0. PICK n \in 0 .. count : \E from \in Moves(seq, n) :
        count' = n /\ packet' = [k \in Slots |-> IF k <= n THEN packet[from[k]] ELSE packet[k]]
  BY DEF Compact
<1>1. PICK from \in Moves(seq, n) :
        count' = n /\ packet' = [k \in Slots |-> IF k <= n THEN packet[from[k]] ELSE packet[k]]
  BY <1>0
<1>2. /\ from \in [1 .. n -> KeptSlots(seq)]
      /\ \A k \in KeptSlots(seq) : \E j \in 1 .. n : from[j] = k
      /\ \A j, l \in 1 .. n : j < l => from[j] < from[l]
  BY DEF Moves
<1>3. Size \in Nat /\ KeptSlots(seq) \subseteq Live /\ Live \subseteq Slots /\ 1 .. n \subseteq Slots
  BY SendBufferAssumption DEF KeptSlots, Live, Slots
<1>4. \A j \in 1 .. n : from[j] \in KeptSlots(seq) /\ packet'[j] = packet[from[j]]
  BY <1>1, <1>2, <1>3
<1>5. packet' \in [Slots -> Packets]
  <2>1. ASSUME NEW k \in Slots PROVE (IF k <= n THEN packet[from[k]] ELSE packet[k]) \in Packets
    <3>1. k <= n => k \in 1 .. n
      BY <1>3 DEF Slots
    <3>2. k <= n => packet[from[k]] \in Packets
      BY <1>2, <1>3, <3>1
    <3> QED
      BY <2>1, <3>2
  <2> QED
    BY <1>1, <2>1
<1>6. ASSUME \A j, k \in Live : packet[j].seq = packet[k].seq => j = k,
             NEW j \in 1 .. n, NEW k \in 1 .. n, packet'[j].seq = packet'[k].seq
      PROVE  j = k
  <2>1. from[j] = from[k]
    BY <1>3, <1>4, <1>6
  <2>2. from[j] \in Int
    BY <1>3, <1>4 DEF Live
  <2> QED
    BY <1>2, <2>1, <2>2
<1>7. \A k \in KeptSlots(seq) : \E j \in 1 .. n : packet'[j] = packet[k]
  BY <1>2, <1>4
<1> QED
  BY <1>1, <1>4, <1>5, <1>6, <1>7

-----------------------------------------------------------------------------
(* Type correctness.                                                       *)
LEMMA TypeInit == Init => TypeOK
<1> SUFFICES ASSUME Init PROVE TypeOK
  OBVIOUS
<1> USE SendBufferAssumption DEF Init
<1>1. {stop, freed, sockOpen, mutex, timed} \subseteq BOOLEAN
  BY Zenon
<1> QED
  BY <1>1 DEF TypeOK, Slots, AgeMax, LateMax, Msgs

(* The slot that a give-up reads is one of the array, if no longer live.   *)
TypeInv == TypeOK /\ (rpc = "read" => i <= Size)

LEMMA TypeNext == TypeInv /\ [Next]_vars => TypeInv'
<1> SUFFICES ASSUME TypeInv, [Next]_vars PROVE TypeInv'
  OBVIOUS
<1> USE SendBufferAssumption DEF TypeInv
<1>0. ASSUME UNCHANGED vars PROVE TypeInv'
  BY <1>0 DEF vars, resender, sender, history, TypeOK
<1>1. ASSUME NEW s \in Senders, Send(s) PROVE TypeInv'
  <2>1. sent \in Msgs /\ sent' \in 0 .. Messages
    BY <1>1 DEF Send, TypeOK, Msgs
  <2>2. sending' \in [Senders -> SUBSET Msgs] /\ wire' \subseteq Msgs
    <3>1. sending' = sending \/ sending' = [sending EXCEPT ![s] = {sent}]
      BY <1>1 DEF Send
    <3>2. wire' = wire \/ wire' = wire \cup {sent}
      BY <1>1 DEF Send
    <3>3. {sent} \in SUBSET Msgs
      BY <2>1
    <3>4. sending \in [Senders -> SUBSET Msgs] /\ wire \in SUBSET Msgs
      BY DEF TypeOK
    <3>5. sending' \in [Senders -> SUBSET Msgs]
      BY <3>1, <3>3, <3>4
    <3>6. wire' \subseteq Msgs
      BY <3>2, <3>3, <3>4
    <3> QED
      BY <3>5, <3>6
  <2>3. buf' \in [Msgs -> {"unsent", "sender", "buffer", "freed"}]
    BY <1>1, <2>1 DEF Send, TypeOK
  <2> QED
    BY <1>1, <2>1, <2>2, <2>3 DEF Send, TypeOK, resender, history
<1>2. ASSUME NEW s \in Senders, Push(s) PROVE TypeInv'
  <2>1. PICK m \in sending[s] :
          /\ sending' = [sending EXCEPT ![s] = {}]
          /\ \/ /\ Refused(m)
                /\ buf' = [buf EXCEPT ![m] = "freed"]
                /\ UNCHANGED <<packet, count, rpc>>
             \/ /\ ~Refused(m)
                /\ buf' = [buf EXCEPT ![m] = "buffer"]
                /\ packet' = [packet EXCEPT ![count + 1] = [seq |-> SeqOf(m), tries |-> 0, age |-> 0]]
                /\ count' = count + 1
                /\ rpc' = IF count + 1 = 1 THEN Signalled ELSE rpc
          /\ UNCHANGED <<stop, freed, sockOpen, mutex, timed, i, reg, late, tpc, sent, wire, history>>
    BY <1>2, Zenon DEF Push
  <2>2. m \in Msgs
    BY <1>2, <2>1 DEF TypeOK
  <2>3. sending' \in [Senders -> SUBSET Msgs] /\ buf' \in [Msgs -> {"unsent", "sender", "buffer", "freed"}]
    BY <2>1, <2>2 DEF TypeOK
  <2>4. [seq |-> SeqOf(m), tries |-> 0, age |-> 0] \in Packets
    BY <2>2, SeqOfMessages DEF AgeMax, LateMax, Packets
  <2>5. packet' \in [Slots -> Packets] /\ count' \in 0 .. Size
    <3>1. CASE Refused(m)
      BY <2>1, <3>1 DEF TypeOK, Packets
    <3>2. CASE ~Refused(m)
      <4>1. count + 1 \in Slots /\ count + 1 \in 0 .. Size
        BY <3>2 DEF TypeOK, Refused, Slots
      <4> QED
        BY <2>1, <2>4, <3>2, <4>1 DEF TypeOK, Packets
    <3> QED
      BY <3>1, <3>2
  <2>6. rpc' \in {rpc, "woken"}
    BY <2>1 DEF Signalled
  <2> QED
    BY <2>1, <2>3, <2>5, <2>6 DEF TypeOK, history, Packets
<1>3. ASSUME NEW s \in Senders, PushFreed(s) PROVE TypeInv'
  BY <1>3 DEF PushFreed, TypeOK, resender, history
<1>4. ASSUME NEW m \in Msgs, HandleAck(m) PROVE TypeInv'
  BY <1>4, CompactKeeps DEF HandleAck, Ack, TypeOK, resender, sender, Packets, Msgs
<1>5. ASSUME ResendThread PROVE TypeInv'
  <2>1. CASE Lock
    BY <2>1 DEF Lock, TypeOK, sender, history
  <2>2. CASE Check
    BY <2>2 DEF Check, TypeOK, sender, history
  <2>3. CASE Sleep
    BY <2>3 DEF Sleep, TypeOK, sender, history
  <2>4. CASE Expire
    BY <2>4 DEF Expire, TypeOK, sender, history
  <2>5. CASE Awake
    BY <2>5 DEF Awake, TypeOK, sender, history, LateMax
  <2>6. CASE ScanSkip
    BY <2>6 DEF ScanSkip, TypeOK, sender, history, Live
  <2>7. CASE Resend
    <3>1. packet' \in [Slots -> Packets]
      <4>1. i \in Slots /\ packet[i] \in Packets /\ packet[i].tries + 1 \in 0 .. TriesMax /\ late \in 0 .. AgeMax
        BY <2>7 DEF Resend, TypeOK, Packets, LateMax, AgeMax, Live, Slots
      <4>2. packet' = [packet EXCEPT ![i] = [packet[i] EXCEPT !.age = late, !.tries = packet[i].tries + 1]]
        BY <2>7, <4>1 DEF Resend, TypeOK, Packets
      <4>3. [packet[i] EXCEPT !.age = late, !.tries = packet[i].tries + 1] \in Packets
        BY <4>1 DEF Packets
      <4> QED
        BY <4>2, <4>3 DEF TypeOK, Packets
    <3> QED
      BY <2>7, <3>1 DEF Resend, TypeOK, Packets, sender, history, Live
  <2>8. CASE ScanEnd
    BY <2>8 DEF ScanEnd, TypeOK, sender, history
  <2>9. CASE GiveUp
    <3>1. i <= Size
      BY <2>9 DEF GiveUp, TypeOK, Live
    <3> QED
      BY <2>9, <3>1 DEF GiveUp, TypeOK, sender, history
  <2>10. CASE GiveUpRead
    <3>1. packet[i].seq \in SeqNums
      BY <2>10 DEF GiveUpRead, TypeOK, Slots
    <3> QED
      BY <2>10, <3>1 DEF GiveUpRead, TypeOK, sender, history
  <2>11. CASE GiveUpAck
    BY <2>11, CompactKeeps DEF GiveUpAck, Ack, TypeOK, sender, history, Packets
  <2>12. CASE Relock
    BY <2>12 DEF Relock, TypeOK, sender, history
  <2> QED
    BY <1>5, <2>1, <2>2, <2>3, <2>4, <2>5, <2>6, <2>7, <2>8, <2>9, <2>10, <2>11, <2>12 DEF ResendThread
<1>6. CASE Spurious
  BY <1>6 DEF Spurious, TypeOK, sender, history
<1>7. CASE FiniFlag
  BY <1>7 DEF FiniFlag, TypeOK, resender, sender, history
<1>8. CASE TearDown
  BY <1>8 DEF TearDown, FiniSignal, FiniFree, CloseSocket, Signalled, TypeOK, resender, sender, history
<1>9. CASE Tick
  <2>1. ASSUME NEW k \in Slots
        PROVE  (IF k \in Live /\ packet[k].age < AgeMax THEN [packet[k] EXCEPT !.age = @ + 1]
                                                          ELSE packet[k]) \in Packets
    BY DEF TypeOK, Packets, AgeMax, LateMax
  <2>2. packet' \in [Slots -> Packets]
    BY <1>9, <2>1 DEF Tick
  <2>3. late' \in 0 .. LateMax
    BY <1>9 DEF Tick, TypeOK, LateMax
  <2> QED
    BY <1>9, <2>2, <2>3 DEF Tick, TypeOK, Packets, sender, history
<1> QED
  BY <1>0, <1>1, <1>2, <1>3, <1>4, <1>5, <1>6, <1>7, <1>8, <1>9 DEF Next

-----------------------------------------------------------------------------
(* Who has the buffer of a message: nobody before it is sent, one sender   *)
(* until it is pushed, then the one slot with its number; what was         *)
(* reported acknowledged has been freed.                                   *)
Held == /\ \A k \in Live : \E m \in Msgs : packet[k].seq = SeqOf(m)
        /\ \A j, k \in Live : packet[j].seq = packet[k].seq => j = k

Owned == /\ \A m \in Msgs : buf[m] = "unsent" <=> m >= sent
         /\ \A s \in Senders : \A m \in sending[s] : buf[m] = "sender"
         /\ \A s, t \in Senders : \A m \in sending[s] : m \in sending[t] => s = t

Reported == \A m \in Msgs : /\ acked[m] <= 1
                            /\ acked[m] = 1 => m < cumAcked /\ buf[m] = "freed"

Torn == freed => tpc \in {"event", "closed"} /\ rpc = "done"

(* The re-send thread decides with the mutex held how long to sleep.       *)
Decided == /\ rpc \in {"check", "sleep", "scan"} => mutex
           /\ rpc \in {"sleep", "wait"} /\ ~timed => count = 0

IInv == TypeInv /\ Held /\ Owned /\ Reported /\ Torn /\ Decided /\ OneSlotEach

LEMMA IInit == Init => IInv
<1> SUFFICES ASSUME Init PROVE IInv
  OBVIOUS
<1> USE SendBufferAssumption DEF Init
<1>1. TypeInv
  BY TypeInit DEF TypeInv
<1>2. Held /\ OneSlotEach /\ Torn /\ Decided
  BY DEF Held, OneSlotEach, Live, Torn, Decided
<1>3. Owned /\ Reported
  BY DEF Owned, Reported, Msgs
<1> QED
  BY <1>1, <1>2, <1>3 DEF IInv

(* Acknowledging frees exactly the packets it takes out of the slots.      *)
LEMMA AckKeeps ==
  ASSUME IInv, ~freed, NEW seq, Ack(seq)
  PROVE  /\ \A m \in Msgs : buf'[m] = "buffer" => \E k \in 1 .. count' : packet'[k].seq = SeqOf(m)
         /\ \A m \in Msgs : \A k \in 1 .. count' : packet'[k].seq = SeqOf(m) => buf'[m] = "buffer"
         /\ \A j, k \in 1 .. count' : packet'[j].seq = packet'[k].seq => j = k
         /\ \A k \in 1 .. count' : \E m \in Msgs : packet'[k].seq = SeqOf(m)
         /\ \A m \in Msgs : buf'[m] = IF m \in AckedMsgs(seq) THEN "freed" ELSE buf[m]
         /\ \A m \in AckedMsgs(seq) : buf[m] = "buffer"
         /\ count' \in 0 .. count
<1>0. packet \in [Slots -> Packets] /\ count \in 0 .. Size
  BY DEF IInv, TypeInv, TypeOK, Packets
<1>1. /\ count' \in 0 .. count
      /\ \A j \in 1 .. count' : \E k \in KeptSlots(seq) : packet'[j] = packet[k]
      /\ \A k \in KeptSlots(seq) : \E j \in 1 .. count' : packet'[j] = packet[k]
      /\ (\A j, k \in Live : packet[j].seq = packet[k].seq => j = k)
           => \A j, k \in 1 .. count' : packet'[j].seq = packet'[k].seq => j = k
  BY <1>0, CompactKeeps DEF Ack
<1>2. \A m \in Msgs : buf'[m] = IF m \in AckedMsgs(seq) THEN "freed" ELSE buf[m]
  BY DEF Ack
<1>3. \A k \in KeptSlots(seq) : k \in Live /\ ~AckedBy(packet[k], seq)
  BY DEF KeptSlots
<1>4. \A m \in AckedMsgs(seq) : m \in Msgs /\ buf[m] = "buffer"
  BY DEF AckedMsgs, IInv, OneSlotEach
<1>5. ASSUME NEW m \in Msgs, buf'[m] = "buffer" PROVE \E k \in 1 .. count' : packet'[k].seq = SeqOf(m)
  <2>1. m \notin AckedMsgs(seq) /\ buf[m] = "buffer"
    BY <1>2, <1>5
  <2>2. PICK k \in Live : packet[k].seq = SeqOf(m)
    BY <2>1 DEF IInv, OneSlotEach
  <2>3. k \in KeptSlots(seq)
    BY <2>1, <2>2 DEF KeptSlots, AckedMsgs
  <2> QED
    BY <1>1, <2>2, <2>3
<1>6. ASSUME NEW m \in Msgs, NEW k \in 1 .. count', packet'[k].seq = SeqOf(m) PROVE buf'[m] = "buffer"
  <2>1. PICK l \in KeptSlots(seq) : packet[l].seq = SeqOf(m)
    BY <1>1, <1>6
  <2>2. l \in Live /\ ~AckedBy(packet[l], seq) /\ buf[m] = "buffer"
    BY <1>3, <2>1 DEF IInv, OneSlotEach
  <2>3. m \notin AckedMsgs(seq)
    <3> SUFFICES ASSUME m \in AckedMsgs(seq) PROVE FALSE
      OBVIOUS
    <3>1. PICK h \in Live : packet[h].seq = SeqOf(m) /\ AckedBy(packet[h], seq)
      BY DEF AckedMsgs
    <3>2. h = l
      BY <2>1, <2>2, <3>1 DEF IInv, OneSlotEach
    <3> QED
      BY <2>2, <3>1, <3>2
  <2> QED
    BY <1>2, <2>2, <2>3
<1>7. \A k \in 1 .. count' : \E m \in Msgs : packet'[k].seq = SeqOf(m)
  BY <1>1, <1>3 DEF IInv, Held
<1>8. \A j, k \in 1 .. count' : packet'[j].seq = packet'[k].seq => j = k
  BY <1>1 DEF IInv, Held
<1> QED
  BY <1>1, <1>2, <1>4, <1>5, <1>6, <1>7, <1>8

LEMMA AckIInv ==
  ASSUME IInv, ~freed, NEW seq, Ack(seq), UNCHANGED <<sender, freed>>
  PROVE  (Held /\ Owned /\ OneSlotEach)'
<1>1. (Held /\ OneSlotEach)'
  BY AckKeeps DEF Held, OneSlotEach, Live
<1>2. Owned'
  BY AckKeeps DEF IInv, Owned, sender, TypeInv, TypeOK
<1> QED
  BY <1>1, <1>2

LEMMA INext == IInv /\ [Next]_vars => IInv'
<1> SUFFICES ASSUME IInv, [Next]_vars PROVE IInv'
  OBVIOUS
<1> USE SendBufferAssumption
<1>t. TypeInv'
  BY TypeNext DEF IInv
<1>a. TypeOK /\ count \in Nat
  BY DEF IInv, TypeInv, TypeOK
<1>0. ASSUME UNCHANGED <<packet, count, freed, sent, sending, buf, history>>
      PROVE  (Held /\ Owned /\ Reported /\ OneSlotEach)'
  BY <1>0 DEF IInv, Held, Owned, Reported, OneSlotEach, Live, history
<1>1. ASSUME NEW s \in Senders, Send(s) PROVE IInv'
  <2>1. sent \in Msgs /\ buf[sent] = "unsent" /\ sent' = sent + 1 /\ sending[s] = {}
    BY <1>1, <1>a DEF Send, IInv, Owned, TypeOK, Msgs
  <2>2. /\ buf' = [buf EXCEPT ![sent] = "sender"] \/ buf' = [buf EXCEPT ![sent] = "freed"]
        /\ UNCHANGED <<packet, count, freed, history, tpc, rpc, mutex, timed>>
    BY <1>1 DEF Send, resender
  <2>3. \A m \in Msgs : m # sent => buf'[m] = buf[m]
    BY <2>2, <1>a DEF TypeOK
  <2>4. buf'[sent] \in {"sender", "freed"}
    BY <2>1, <2>2, <1>a DEF TypeOK
  <2>5. Held' /\ OneSlotEach'
    BY <2>1, <2>2, <2>3, <2>4 DEF IInv, Held, OneSlotEach, Live
  <2>6. Owned'
    <3>1. \A m \in Msgs : buf'[m] = "unsent" <=> m >= sent'
      BY <2>1, <2>3, <2>4, <1>a DEF IInv, Owned, TypeOK, Msgs
    <3>2. \/ sending' = sending
          \/ sending' = [sending EXCEPT ![s] = {sent}] /\ buf'[sent] = "sender"
      BY <1>1, <2>1, <1>a DEF Send, TypeOK
    <3>3. \A r \in Senders : sending[r] \subseteq Msgs /\ sent \notin sending[r]
      BY <2>1, <1>a DEF IInv, Owned, TypeOK
    <3>4. \A r \in Senders : sending'[r] = sending[r] \/ (r = s /\ sending'[r] = {sent} /\ buf'[sent] = "sender")
      BY <1>a, <3>2 DEF TypeOK
    <3>5. Owned
      BY DEF IInv
    <3>6. \A r \in Senders : \A m \in sending'[r] : buf'[m] = "sender"
      BY <2>3, <3>3, <3>4, <3>5 DEF Owned
    <3>7. \A r, t \in Senders : \A m \in sending'[r] : m \in sending'[t] => r = t
      BY <3>3, <3>4, <3>5 DEF Owned
    <3> QED
      BY <3>1, <3>6, <3>7 DEF Owned
  <2>7. Reported'
    BY <2>1, <2>2, <2>3, <2>4 DEF IInv, Reported, history
  <2>8. Torn' /\ Decided'
    BY <2>2 DEF IInv, Torn, Decided
  <2> QED
    BY <1>t, <2>5, <2>6, <2>7, <2>8 DEF IInv
<1>2. ASSUME NEW s \in Senders, Push(s) PROVE IInv'
  <2>1. PICK m \in sending[s] :
          /\ ~freed /\ ~mutex
          /\ sending' = [sending EXCEPT ![s] = {}]
          /\ \/ /\ Refused(m)
                /\ buf' = [buf EXCEPT ![m] = "freed"]
                /\ UNCHANGED <<packet, count, rpc>>
             \/ /\ ~Refused(m)
                /\ buf' = [buf EXCEPT ![m] = "buffer"]
                /\ packet' = [packet EXCEPT ![count + 1] = [seq |-> SeqOf(m), tries |-> 0, age |-> 0]]
                /\ count' = count + 1
                /\ rpc' = IF count + 1 = 1 THEN Signalled ELSE rpc
          /\ UNCHANGED <<stop, freed, sockOpen, mutex, timed, i, reg, late, tpc, sent, wire, history>>
    BY <1>2, Zenon DEF Push
  <2>2. m \in Msgs /\ buf[m] = "sender" /\ m < sent
    BY <1>a, <2>1 DEF IInv, Owned, TypeOK, Msgs
  <2>3. /\ \A n \in Msgs : n # m => buf'[n] = buf[n]
        /\ buf'[m] \in {"freed", "buffer"}
    BY <1>a, <2>1, <2>2 DEF TypeOK
  <2>4. Owned'
    <3>1. \A n \in Msgs : buf'[n] = "unsent" <=> n >= sent'
      BY <1>a, <2>1, <2>2, <2>3 DEF IInv, Owned, TypeOK, Msgs
    <3>2. \A r \in Senders : sending'[r] = IF r = s THEN {} ELSE sending[r]
      BY <1>a, <2>1 DEF TypeOK
    <3>3. \A r \in Senders : \A n \in sending[r] : n \in Msgs /\ (r # s => n # m)
      BY <1>a, <2>1 DEF IInv, Owned, TypeOK
    <3> QED
      BY <2>3, <3>1, <3>2, <3>3 DEF IInv, Owned
  <2>5. Reported' /\ Torn'
    BY <2>1, <2>2, <2>3 DEF IInv, Reported, Torn, history
  <2>6. CASE Refused(m)
    <3>1. Held' /\ OneSlotEach'
      BY <2>1, <2>2, <2>3, <2>6, <1>a DEF IInv, Held, OneSlotEach, Live, TypeOK
    <3>2. Decided'
      BY <2>1, <2>6 DEF IInv, Decided
    <3> QED
      BY <1>t, <2>4, <2>5, <3>1, <3>2 DEF IInv
  <2>7. CASE ~Refused(m)
    <3>1. /\ count + 1 \in Slots /\ count' = count + 1
          /\ \A k \in Live : packet[k].seq # SeqOf(m)
      BY <1>a, <2>1, <2>7 DEF Refused, Slots, TypeOK
    <3>2. /\ packet'[count + 1].seq = SeqOf(m)
          /\ \A k \in Live : k \in 1 .. count' /\ k # count + 1 /\ packet'[k] = packet[k]
          /\ \A k \in 1 .. count' : k \in Live \/ k = count + 1
          /\ count + 1 \in 1 .. count'
      <4>1. packet' = [packet EXCEPT ![count + 1] = [seq |-> SeqOf(m), tries |-> 0, age |-> 0]]
        BY <2>1, <2>7
      <4>2. \A k \in Live : k \in Slots /\ k # count + 1 /\ k \in 1 .. count'
        <5>1. count \in 0 .. Size /\ Size \in Nat
          BY <1>a DEF TypeOK
        <5> QED
          BY <3>1, <5>1 DEF Live, Slots
      <4>3. \A k \in 1 .. count' : k \in Live \/ k = count + 1
        BY <1>a, <3>1 DEF Live
      <4>4. count + 1 \in 1 .. count'
        BY <1>a, <3>1
      <4>5. packet \in [Slots -> Packets]
        BY <1>a DEF TypeOK, Packets
      <4> QED
        BY <3>1, <4>1, <4>2, <4>3, <4>4, <4>5
    <3>3. Held'
      BY <2>2, <3>1, <3>2 DEF IInv, Held, Live
    <3>4. buf'[m] = "buffer"
      BY <1>a, <2>1, <2>2, <2>7 DEF TypeOK
    <3>5. \A n \in Msgs : SeqOf(n) = SeqOf(m) => n = m
      BY <2>2, SeqOfMessages
    <3>6. OneSlotEach'
      <4>1. ASSUME NEW n \in Msgs, buf'[n] = "buffer" PROVE \E k \in 1 .. count' : packet'[k].seq = SeqOf(n)
        BY <2>1, <2>2, <2>3, <3>2, <4>1 DEF IInv, OneSlotEach
      <4>2. ASSUME NEW n \in Msgs, NEW k \in 1 .. count', packet'[k].seq = SeqOf(n) PROVE buf'[n] = "buffer"
        BY <2>1, <2>3, <3>2, <3>4, <3>5, <4>2 DEF IInv, OneSlotEach
      <4> QED
        BY <3>3, <4>1, <4>2 DEF OneSlotEach, Held, Live
    <3>7. Decided'
      <4>1. (rpc' # "wait" /\ rpc' \in {rpc, "woken"}) \/ (count # 0 /\ rpc' = rpc)
        BY <1>a, <2>1, <2>7, <3>1 DEF Signalled
      <4> QED
        BY <1>a, <2>1, <4>1 DEF IInv, Decided
    <3> QED
      BY <1>t, <2>4, <2>5, <3>3, <3>6, <3>7 DEF IInv
  <2> QED
    BY <2>6, <2>7
<1>3. ASSUME NEW s \in Senders, PushFreed(s) PROVE IInv'
  <2>1. /\ freed /\ sending' = [sending EXCEPT ![s] = {}]
        /\ UNCHANGED <<packet, count, freed, rpc, mutex, timed, tpc, sent, buf, history>>
    BY <1>3 DEF PushFreed, resender
  <2>2. \A r \in Senders : sending'[r] \subseteq sending[r]
    BY <1>a, <2>1 DEF TypeOK
  <2>3. Owned'
    BY <2>1, <2>2 DEF IInv, Owned
  <2>4. Held' /\ Reported' /\ OneSlotEach' /\ Torn' /\ Decided'
    BY <2>1 DEF IInv, Held, Reported, OneSlotEach, Torn, Decided, Live, history
  <2> QED
    BY <1>t, <2>3, <2>4 DEF IInv
<1>4. ASSUME NEW m \in Msgs, HandleAck(m) PROVE IInv'
  <2>1. /\ ~freed /\ ~mutex /\ Ack(SeqOf(m))
        /\ UNCHANGED <<sender, freed, tpc, rpc, mutex, timed>>
    BY <1>4 DEF HandleAck, IInv, Torn, resender
  <2>2. (Held /\ Owned /\ OneSlotEach)'
    BY <2>1, AckIInv
  <2>3. Torn' /\ Decided'
    <3>1. count' \in 0 .. count
      BY <2>1, AckKeeps
    <3> QED
      BY <1>a, <2>1, <3>1 DEF IInv, Torn, Decided
  <2>4. Reported'
    <3>1. \A n \in AckedMsgs(SeqOf(m)) : n \in Msgs /\ n <= m
      <4> SUFFICES ASSUME NEW n \in AckedMsgs(SeqOf(m)) PROVE n \in Msgs /\ n <= m
        OBVIOUS
      <4>1. n \in Msgs /\ (SeqOf(n) = SeqOf(m) \/ SeqLt(SeqOf(n), SeqOf(m)))
        BY DEF AckedMsgs, AckedBy
      <4>2. (SeqOf(n) = SeqOf(m) => n = m) /\ (SeqLt(SeqOf(n), SeqOf(m)) <=> n < m)
        BY <4>1, SeqOfMessages
      <4> QED
        BY <4>1, <4>2 DEF Msgs
    <3>2. /\ \A n \in Msgs : acked'[n] = IF n \in AckedMsgs(SeqOf(m)) THEN acked[n] + 1 ELSE acked[n]
          /\ m < cumAcked' /\ cumAcked <= cumAcked'
      BY <1>4, <1>a DEF HandleAck, TypeOK, Msgs
    <3>3. /\ \A n \in Msgs : buf'[n] = IF n \in AckedMsgs(SeqOf(m)) THEN "freed" ELSE buf[n]
          /\ \A n \in AckedMsgs(SeqOf(m)) : buf[n] = "buffer"
      BY <2>1, AckKeeps
    <3>4. cumAcked \in Nat /\ cumAcked' \in Nat /\ acked \in [Msgs -> Nat]
      BY <1>a, <1>t DEF TypeInv, TypeOK
    <3> SUFFICES ASSUME NEW n \in Msgs
                 PROVE  acked'[n] <= 1 /\ (acked'[n] = 1 => n < cumAcked' /\ buf'[n] = "freed")
      BY DEF Reported
    <3>5. acked[n] <= 1 /\ (acked[n] = 1 => n < cumAcked /\ buf[n] = "freed") /\ acked[n] \in Nat
      <4>1. Reported
        BY DEF IInv
      <4> QED
        BY <3>4, <4>1 DEF Reported
    <3>6. CASE n \in AckedMsgs(SeqOf(m))
      BY <3>1, <3>2, <3>3, <3>4, <3>5, <3>6 DEF Msgs
    <3>7. CASE n \notin AckedMsgs(SeqOf(m))
      BY <3>2, <3>3, <3>4, <3>5, <3>7 DEF Msgs
    <3> QED
      BY <3>6, <3>7
  <2> QED
    BY <1>t, <2>2, <2>3, <2>4 DEF IInv
<1>5. ASSUME ResendThread PROVE IInv'
  <2>1. CASE Lock \/ Check \/ Sleep \/ Expire \/ Awake \/ ScanSkip \/ ScanEnd \/ GiveUp \/ GiveUpRead \/ Relock
    <3>1. UNCHANGED <<packet, count, freed, sent, sending, buf, history, tpc>>
      BY <2>1 DEF Lock, Check, Sleep, Expire, Awake, ScanSkip, ScanEnd, GiveUp, GiveUpRead, Relock, sender
    <3>2. Torn'
      BY <2>1, <3>1 DEF IInv, Torn, Lock, Check, Sleep, Expire, Awake, ScanSkip, ScanEnd, GiveUp, GiveUpRead, Relock
    <3>3. Decided'
      <4>1. CASE Check
        <5>1. rpc' = "done" \/ (rpc' = "sleep" /\ mutex')
          BY <4>1, Zenon DEF Check
        <5>2. count' = count /\ (count > 0 => timed')
          BY <4>1 DEF Check
        <5> QED
          BY <1>a, <5>1, <5>2 DEF Decided
      <4>2. CASE Awake
        <5>1. rpc' = "done" \/ (rpc' \in {"sleep", "scan"} /\ mutex')
          BY <4>2, Zenon DEF Awake
        <5>2. count' = count /\ timed' = timed /\ (rpc' = "sleep" => timed \/ count = 0)
          BY <1>a, <4>2 DEF Awake
        <5> QED
          BY <5>1, <5>2 DEF Decided
      <4>3. CASE Lock \/ Sleep \/ Expire \/ ScanSkip \/ ScanEnd
        BY <3>1, <4>3 DEF IInv, Decided, Lock, Sleep, Expire, ScanSkip, ScanEnd
      <4>4. CASE GiveUp \/ GiveUpRead \/ Relock
        BY <3>1, <4>4 DEF IInv, Decided, GiveUp, GiveUpRead, Relock
      <4> QED
        BY <2>1, <4>1, <4>2, <4>3, <4>4
    <3> QED
      BY <1>0, <1>t, <3>1, <3>2, <3>3 DEF IInv
  <2>2. CASE Resend
    <3>1. /\ rpc = "scan" /\ i \in Live
          /\ packet' = [packet EXCEPT ![i].age = late, ![i].tries = @ + 1]
          /\ UNCHANGED <<count, freed, mutex, rpc, timed, tpc, sender, buf, history>>
      BY <2>2 DEF Resend
    <3>2. \A k \in Live : packet'[k].seq = packet[k].seq
      BY <1>a, <3>1 DEF TypeOK, Live, Slots
    <3>6. count' = count /\ freed' = freed /\ buf' = buf
      BY <3>1
    <3>3. Held'
      BY <3>2, <3>6 DEF IInv, Held, Live
    <3>5. OneSlotEach'
      BY <3>2, <3>6 DEF IInv, OneSlotEach, Live
    <3>4. Owned' /\ Reported' /\ Torn' /\ Decided'
      BY <3>1 DEF IInv, Owned, Reported, Torn, Decided, sender, history
    <3> QED
      BY <1>t, <3>3, <3>4, <3>5 DEF IInv
  <2>3. CASE GiveUpAck
    <3>1. /\ rpc = "ack" /\ ~freed /\ Ack(reg) /\ rpc' = "relock"
          /\ UNCHANGED <<freed, tpc, sender, history>>
      BY <2>3 DEF GiveUpAck, IInv, Torn
    <3>2. (Held /\ Owned /\ OneSlotEach)'
      BY <3>1, AckIInv
    <3>3. Reported'
      BY <3>1, AckKeeps DEF IInv, Reported, history
    <3>4. Torn' /\ Decided'
      BY <3>1 DEF IInv, Torn, Decided
    <3> QED
      BY <1>t, <3>2, <3>3, <3>4 DEF IInv
  <2> QED
    BY <1>5, <2>1, <2>2, <2>3 DEF ResendThread
<1>6. CASE Spurious \/ FiniFlag \/ FiniSignal \/ CloseSocket
  <2>1. UNCHANGED <<packet, count, freed, sent, sending, buf, history, mutex, timed>>
    BY <1>6 DEF Spurious, FiniFlag, FiniSignal, CloseSocket, sender, resender
  <2>2. Torn'
    BY <1>6, <2>1 DEF IInv, Torn, Spurious, FiniFlag, FiniSignal, CloseSocket, Signalled, resender
  <2>3. Decided'
    BY <1>6, <2>1 DEF IInv, Decided, Spurious, FiniFlag, FiniSignal, CloseSocket, Signalled, resender
  <2> QED
    BY <1>0, <1>t, <2>1, <2>2, <2>3 DEF IInv
<1>7. CASE FiniFree
  <2>1. /\ tpc = "join" /\ rpc = "done" /\ freed' /\ tpc' = "event"
        /\ UNCHANGED <<packet, count, sent, sending, history, rpc, mutex, timed>>
    BY <1>7 DEF FiniFree, sender, resender
  <2>2. ~freed
    BY <2>1 DEF IInv, Torn
  <2>3. \A m \in Msgs : buf'[m] = IF \E k \in Live : packet[k].seq = SeqOf(m) THEN "freed" ELSE buf[m]
    BY <1>7 DEF FiniFree
  <2>4. \A m \in Msgs : (\E k \in Live : packet[k].seq = SeqOf(m)) => buf[m] = "buffer"
    BY <2>2 DEF IInv, OneSlotEach
  <2>5. Held' /\ OneSlotEach' /\ Torn' /\ Decided'
    BY <2>1 DEF IInv, Held, OneSlotEach, Torn, Decided, Live
  <2>6. Reported'
    BY <2>1, <2>3 DEF IInv, Reported, history
  <2>7. Owned'
    <3>1. \A s \in Senders : sending[s] \subseteq Msgs
      BY <1>a DEF TypeOK
    <3> QED
      BY <2>1, <2>3, <2>4, <3>1 DEF IInv, Owned
  <2> QED
    BY <1>t, <2>5, <2>6, <2>7 DEF IInv
<1>8. CASE Tick
  <2>1. \A k \in Live : packet'[k].seq = packet[k].seq
    <3> SUFFICES ASSUME NEW k \in Live PROVE packet'[k].seq = packet[k].seq
      OBVIOUS
    <3>1. k \in Slots /\ packet[k] \in Packets
      BY <1>a DEF TypeOK, Live, Slots, Packets
    <3>2. packet'[k] = packet[k] \/ packet'[k] = [packet[k] EXCEPT !.age = packet[k].age + 1]
      BY <1>8, <3>1 DEF Tick
    <3> QED
      BY <3>1, <3>2 DEF Packets
  <2>2. UNCHANGED <<count, freed, mutex, rpc, timed, tpc, sender, buf, history>>
    BY <1>8 DEF Tick
  <2>3. Held' /\ OneSlotEach'
    BY <2>1, <2>2 DEF IInv, Held, OneSlotEach, Live
  <2>4. Owned' /\ Reported' /\ Torn' /\ Decided'
    BY <2>2 DEF IInv, Owned, Reported, Torn, Decided, sender, history
  <2> QED
    BY <1>t, <2>3, <2>4 DEF IInv
<1>9. CASE UNCHANGED vars
  <2>1. Torn' /\ Decided'
    BY <1>9 DEF IInv, Torn, Decided, vars, resender
  <2> QED
    BY <1>0, <1>9, <1>t, <2>1 DEF IInv, vars, sender
<1> QED
  BY <1>1, <1>2, <1>3, <1>4, <1>5, <1>6, <1>7, <1>8, <1>9 DEF Next, TearDown

-----------------------------------------------------------------------------
(* The send buffer stays within its array.                                 *)
THEOREM SendBufferTypeCorrect == Spec => []TypeOK
<1>1. IInv => TypeOK
  BY DEF IInv, TypeInv
<1> QED
  BY <1>1, IInit, INext, PTL DEF Spec

(* Every packet pushed stays in exactly one slot until it is acknowledged, *)
(* given up or torn down, is reported at most once, and the re-send thread *)
(* does not sleep on it.                                                   *)
THEOREM PacketsKeptHolds == Spec => []PacketsKept
<1>1. IInv => PacketsKept
  <2>1. IInv => AckedOnce
    BY DEF IInv, AckedOnce, Reported
  <2>2. IInv => NoSleepOnPackets
    BY DEF IInv, NoSleepOnPackets, Decided
  <2>3. IInv => OneSlotEach
    BY DEF IInv
  <2> QED
    BY <2>1, <2>2, <2>3 DEF PacketsKept
<1> QED
  BY <1>1, IInit, INext, PTL DEF Spec
=============================================================================
