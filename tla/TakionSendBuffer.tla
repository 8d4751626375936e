-------------------------- MODULE TakionSendBuffer --------------------------
(***************************************************************************)
(* The send buffer of lib/src/takionsendbuffer.c and the threads around    *)
(* it: the senders of data messages (the stream connection's thread and    *)
(* the Takion thread itself), the Takion thread handling acknowledgements  *)
(* and tearing the buffer down, and the buffer's own re-send thread.       *)
(*                                                                         *)
(* What a thread does while it holds the mutex and neither sleeps nor      *)
(* releases it is one step.  The peer is external: it may acknowledge,     *)
(* cumulatively and again and again, any prefix of what has been sent.     *)
(*                                                                         *)
(* Time is counted in ticks.  A slot keeps the ticks since its last_send,  *)
(* late the ticks since the scan of the re-send thread read "now".         *)
(***************************************************************************)
EXTENDS SeqNum

CONSTANTS Size,      \* packets_size
          TriesMax,  \* TAKION_DATA_RESEND_TRIES_MAX
          Timeout,   \* TAKION_DATA_RESEND_TIMEOUT_MS, in ticks
          First,     \* seq_num_local after connect (random)
          Messages,  \* bound: data messages sent
          Main       \* the senders other than the Takion thread

Takion == "takion"
Senders == Main \cup {Takion}
Slots == 1 .. Size
LateMax == 1                        \* bound: ticks during one scan
AgeMax == Timeout + LateMax + 1     \* bound: an older packet is as due as this

ASSUME SendBufferAssumption ==
  /\ Size \in Nat \ {0} /\ TriesMax \in Nat /\ Timeout \in Nat /\ Messages \in Nat
  /\ First \in SeqNums /\ Messages < Half /\ Takion \notin Main

VARIABLES packet,    \* packets[]: a slot keeps its content when the count shrinks
          count,     \* packets_count
          stop,      \* should_stop
          freed,     \* fini has destroyed the mutex and freed the slots
          sockOpen,  \* the Takion thread has not closed the socket yet
          mutex,     \* the re-send thread holds send_buffer->mutex
          rpc,       \* where the re-send thread is
          timed,     \* it waits with a timeout
          i,         \* its loop index
          reg,       \* the sequence number it read for the give-up ack
          late,      \* ticks since it read the time
          tpc,       \* where the Takion thread is in its tear-down
          sent,      \* sequence numbers taken from seq_num_local
          sending,   \* per sender, the message sent but not yet pushed
          wire,      \* history: the messages send() has accepted
          buf,       \* history: the owner of each message's buffer
          acked,     \* history: DATA_ACK events per message
          cumAcked   \* history: how many messages the peer has acknowledged

resender == <<mutex, rpc, timed, i, reg, late>>
sender == <<sent, sending, wire>>
history == <<acked, cumAcked>>
vars == <<packet, count, stop, freed, sockOpen, resender, tpc, sender, buf, history>>

Msgs == 0 .. (Messages - 1)
SeqOf(m) == SeqAdd(First, m)
Live == 1 .. count

(* chiaki_takion_send_buffer_init: the thread starts by locking the mutex. *)
Init == /\ packet = [k \in Slots |-> [seq |-> First, tries |-> 0, age |-> 0]]
        /\ count = 0
        /\ stop = FALSE
        /\ freed = FALSE
        /\ sockOpen = TRUE
        /\ mutex = FALSE
        /\ rpc = "lock"
        /\ timed = FALSE
        /\ i = 1
        /\ reg = First
        /\ late = 0
        /\ tpc = "run"
        /\ sent = 0
        /\ sending = [s \in Senders |-> {}]
        /\ wire = {}
        /\ buf = [m \in Msgs |-> "unsent"]
        /\ acked = [m \in Msgs |-> 0]
        /\ cumAcked = 0
-----------------------------------------------------------------------------
(* chiaki_takion_send_message_data(_cont): take a sequence number and send *)
(* the packet; the push follows later.  If send() fails, the buffer is     *)
(* freed and the number stays unused.                                      *)
Send(s) ==
  /\ sending[s] = {}
  /\ s = Takion => tpc = "run"
  /\ sent < Messages
  /\ sent' = sent + 1
  /\ \/ /\ sockOpen
        /\ sending' = [sending EXCEPT ![s] = {sent}]
        /\ wire' = wire \cup {sent}
        /\ buf' = [buf EXCEPT ![sent] = "sender"]
     \/ /\ buf' = [buf EXCEPT ![sent] = "freed"]
        /\ UNCHANGED <<sending, wire>>
  /\ UNCHANGED <<packet, count, stop, freed, sockOpen, resender, tpc, history>>

(* What chiaki_cond_signal does to the re-send thread.                     *)
Signalled == IF rpc = "wait" THEN "woken" ELSE rpc

(* The two errors of push.                                                 *)
Refused(m) == count >= Size \/ \E k \in Live : packet[k].seq = SeqOf(m)

(* chiaki_takion_send_buffer_push: overflow and a duplicate number free    *)
(* the packet (the sender ignores the error).                              *)
Push(s) ==
  \E m \in sending[s] :
    /\ ~freed
    /\ ~mutex
    /\ sending' = [sending EXCEPT ![s] = {}]
    /\ IF Refused(m)
       THEN /\ buf' = [buf EXCEPT ![m] = "freed"]
            /\ UNCHANGED <<packet, count, rpc>>
       ELSE /\ buf' = [buf EXCEPT ![m] = "buffer"]
            /\ packet' = [packet EXCEPT ![count + 1] = [seq |-> SeqOf(m), tries |-> 0, age |-> 0]]
            /\ count' = count + 1
            /\ rpc' = IF count + 1 = 1 THEN Signalled ELSE rpc
    /\ UNCHANGED <<stop, freed, sockOpen, mutex, timed, i, reg, late, tpc, sent, wire, history>>

(* The push into a buffer that fini has freed: undefined behaviour; here   *)
(* nobody takes the packet.                                                *)
PushFreed(s) ==
  /\ freed
  /\ sending[s] # {}
  /\ sending' = [sending EXCEPT ![s] = {}]
  /\ UNCHANGED <<packet, count, stop, freed, sockOpen, resender, tpc, sent, wire, buf, history>>
-----------------------------------------------------------------------------
(* chiaki_takion_send_buffer_ack: every packet up to seq is freed, the     *)
(* others close the gaps in order, the slot j taking over what slot        *)
(* from[j] had; the slots beyond the new count keep what they had (module  *)
(* SendBufferAck has the loop that does this).                             *)
AckedBy(p, seq) == p.seq = seq \/ SeqLt(p.seq, seq)
KeptSlots(seq) == {k \in Live : ~AckedBy(packet[k], seq)}
Moves(seq, n) == {from \in [1 .. n -> KeptSlots(seq)] :
                    /\ \A k \in KeptSlots(seq) : \E j \in 1 .. n : from[j] = k
                    /\ \A j, l \in 1 .. n : j < l => from[j] < from[l]}
AckedMsgs(seq) == {m \in Msgs : \E k \in Live : packet[k].seq = SeqOf(m) /\ AckedBy(packet[k], seq)}

Compact(seq) ==
  \E n \in 0 .. count : \E from \in Moves(seq, n) :
    /\ count' = n
    /\ packet' = [k \in Slots |-> IF k <= n THEN packet[from[k]] ELSE packet[k]]

(* Mutant: the packets below seq are removed but not freed.                *)
AckLeaks(seq) ==
  /\ Compact(seq)
  /\ buf' = [m \in Msgs |-> IF m \in AckedMsgs(seq) /\ SeqOf(m) = seq THEN "freed" ELSE buf[m]]

Ack(seq) ==
  /\ Compact(seq)
  /\ buf' = [m \in Msgs |-> IF m \in AckedMsgs(seq) THEN "freed" ELSE buf[m]]

(* takion_handle_packet_message_data_ack for a peer that has received      *)
(* every message up to m: one DATA_ACK event per packet acknowledged.      *)
HandleAck(m) ==
  /\ tpc = "run"
  /\ sending[Takion] = {}
  /\ ~mutex
  /\ 0 .. m \subseteq wire
  /\ Ack(SeqOf(m))
  /\ acked' = [n \in Msgs |-> IF n \in AckedMsgs(SeqOf(m)) THEN acked[n] + 1 ELSE acked[n]]
  /\ cumAcked' = IF m + 1 > cumAcked THEN m + 1 ELSE cumAcked
  /\ UNCHANGED <<stop, freed, sockOpen, resender, tpc, sender>>
-----------------------------------------------------------------------------
(* takion_send_buffer_thread_func.  First, the mutex.                      *)
Lock ==
  /\ rpc = "lock"
  /\ mutex' = TRUE
  /\ rpc' = "check"
  /\ UNCHANGED <<packet, count, stop, freed, sockOpen, timed, i, reg, late, tpc, sender, buf, history>>

(* The predicate is tested with the mutex held, but should_stop is written *)
(* without it: Sleep is a step of its own.                                 *)
Check ==
  /\ rpc = "check"
  /\ timed' = (count > 0)
  /\ rpc' = IF stop THEN "done" ELSE "sleep"
  /\ mutex' = ~stop
  /\ UNCHANGED <<packet, count, stop, freed, sockOpen, i, reg, late, tpc, sender, buf, history>>

Sleep ==
  /\ rpc = "sleep"
  /\ rpc' = "wait"
  /\ mutex' = FALSE
  /\ UNCHANGED <<packet, count, stop, freed, sockOpen, timed, i, reg, late, tpc, sender, buf, history>>

(* The timed wait runs out; either wait may end spuriously.                *)
Expire ==
  /\ rpc = "wait"
  /\ timed
  /\ rpc' = "expired"
  /\ UNCHANGED <<packet, count, stop, freed, sockOpen, mutex, timed, i, reg, late, tpc, sender, buf, history>>

Spurious ==
  /\ rpc = "wait"
  /\ rpc' = "woken"
  /\ UNCHANGED <<packet, count, stop, freed, sockOpen, mutex, timed, i, reg, late, tpc, sender, buf, history>>

(* Awake with the mutex again: leave, start a scan, or sleep on because    *)
(* the predicate does not hold (a time-out ends the wait anyway).          *)
Awake ==
  /\ rpc \in {"woken", "expired"}
  /\ rpc' = IF stop THEN "done"
            ELSE IF rpc = "expired" \/ (~timed /\ count > 0) THEN "scan" ELSE "sleep"
  /\ mutex' = ~stop
  /\ i' = 1
  /\ late' = 0
  /\ UNCHANGED <<packet, count, stop, freed, sockOpen, timed, reg, tpc, sender, buf, history>>

(* takion_send_buffer_resend: now - last_send_ms is unsigned, so a packet  *)
(* pushed after now was read is due at once.                               *)
Due(k) == LET elapsed == packet[k].age - late IN elapsed < 0 \/ elapsed > Timeout

ScanSkip ==
  /\ rpc = "scan"
  /\ i \in Live
  /\ ~Due(i)
  /\ i' = i + 1
  /\ UNCHANGED <<packet, count, stop, freed, sockOpen, mutex, rpc, timed, reg, late, tpc, sender, buf, history>>

(* Mutant: tries is not counted.                                           *)
ResendForever ==
  /\ rpc = "scan"
  /\ i \in Live
  /\ Due(i)
  /\ packet[i].tries < TriesMax
  /\ packet' = [packet EXCEPT ![i].age = late]
  /\ i' = i + 1
  /\ UNCHANGED <<count, stop, freed, sockOpen, mutex, rpc, timed, reg, late, tpc, sender, buf, history>>

Resend ==
  /\ rpc = "scan"
  /\ i \in Live
  /\ Due(i)
  /\ packet[i].tries < TriesMax
  /\ packet' = [packet EXCEPT ![i].age = late, ![i].tries = @ + 1]
  /\ i' = i + 1
  /\ UNCHANGED <<count, stop, freed, sockOpen, mutex, rpc, timed, reg, late, tpc, sender, buf, history>>

ScanEnd ==
  /\ rpc = "scan"
  /\ i \notin Live
  /\ rpc' = "check"
  /\ UNCHANGED <<packet, count, stop, freed, sockOpen, mutex, timed, i, reg, late, tpc, sender, buf, history>>

(* Giving up: the mutex is released, then the slot is read, then the       *)
(* packets up to the number read are acknowledged (under the mutex, which  *)
(* ack takes and releases), then the scan goes on at the same index.       *)
GiveUp ==
  /\ rpc = "scan"
  /\ i \in Live
  /\ Due(i)
  /\ packet[i].tries >= TriesMax
  /\ mutex' = FALSE
  /\ rpc' = "read"
  /\ UNCHANGED <<packet, count, stop, freed, sockOpen, timed, i, reg, late, tpc, sender, buf, history>>

GiveUpRead ==
  /\ rpc = "read"
  /\ reg' = packet[i].seq
  /\ rpc' = "ack"
  /\ UNCHANGED <<packet, count, stop, freed, sockOpen, mutex, timed, i, late, tpc, sender, buf, history>>

GiveUpAck ==
  /\ rpc = "ack"
  /\ Ack(reg)
  /\ rpc' = "relock"
  /\ UNCHANGED <<stop, freed, sockOpen, mutex, timed, i, reg, late, tpc, sender, history>>

Relock ==
  /\ rpc = "relock"
  /\ mutex' = TRUE
  /\ rpc' = "scan"
  /\ UNCHANGED <<packet, count, stop, freed, sockOpen, timed, i, reg, late, tpc, sender, buf, history>>
-----------------------------------------------------------------------------
(* chiaki_takion_send_buffer_fini, at the end of the Takion thread; then   *)
(* the thread closes the socket.                                           *)
FiniFlag ==
  /\ tpc = "run"
  /\ sending[Takion] = {}
  /\ stop' = TRUE
  /\ tpc' = "signal"
  /\ UNCHANGED <<packet, count, freed, sockOpen, resender, sender, buf, history>>

FiniSignal ==
  /\ tpc = "signal"
  /\ rpc' = Signalled
  /\ tpc' = "join"
  /\ UNCHANGED <<packet, count, stop, freed, sockOpen, mutex, timed, i, reg, late, sender, buf, history>>

FiniFree ==
  /\ tpc = "join"
  /\ rpc = "done"
  /\ freed' = TRUE
  /\ buf' = [m \in Msgs |-> IF \E k \in Live : packet[k].seq = SeqOf(m) THEN "freed" ELSE buf[m]]
  /\ tpc' = "event"
  /\ UNCHANGED <<packet, count, stop, sockOpen, resender, sender, history>>

CloseSocket ==
  /\ tpc = "event"
  /\ sockOpen' = FALSE
  /\ tpc' = "closed"
  /\ UNCHANGED <<packet, count, stop, freed, resender, sender, buf, history>>

(* Time passes.                                                            *)
Scanning == rpc \in {"scan", "read", "ack", "relock"}
Tick ==
  /\ Scanning => late < LateMax
  /\ late' = IF Scanning THEN late + 1 ELSE late
  /\ packet' = [k \in Slots |->
                  IF k \in Live /\ packet[k].age < AgeMax THEN [packet[k] EXCEPT !.age = @ + 1]
                                                          ELSE packet[k]]
  /\ UNCHANGED <<count, stop, freed, sockOpen, mutex, rpc, timed, i, reg, tpc, sender, buf, history>>
-----------------------------------------------------------------------------
ResendThread == \/ Lock \/ Check \/ Sleep \/ Expire \/ Awake
                \/ ScanSkip \/ Resend \/ ScanEnd \/ GiveUp \/ GiveUpRead \/ GiveUpAck \/ Relock
TearDown == FiniSignal \/ FiniFree \/ CloseSocket

Next == \/ \E s \in Senders : Send(s) \/ Push(s) \/ PushFreed(s)
        \/ \E m \in Msgs : HandleAck(m)
        \/ ResendThread
        \/ Spurious
        \/ FiniFlag
        \/ TearDown
        \/ Tick

(* Every thread that can run does; time passes; the deadline of the timed  *)
(* wait is absolute, so spurious wake-ups do not put it off.  Nothing      *)
(* forces messages, acknowledgements or the end of the connection.         *)
Fairness == /\ WF_vars(ResendThread)
            /\ SF_vars(Expire)
            /\ WF_vars(TearDown)
            /\ WF_vars(Tick)
            /\ \A s \in Senders : WF_vars(Push(s))

Spec == Init /\ [][Next]_vars
FairSpec == Spec /\ Fairness
-----------------------------------------------------------------------------
(* The state is well typed; the buffer holds at most Size packets.         *)
TypeOK ==
  /\ packet \in [Slots -> [seq : SeqNums, tries : 0 .. TriesMax, age : 0 .. AgeMax]]
  /\ count \in 0 .. Size
  /\ {stop, freed, sockOpen, mutex, timed} \subseteq BOOLEAN
  /\ rpc \in {"lock", "check", "sleep", "wait", "woken", "expired", "scan", "read", "ack", "relock", "done"}
  /\ i \in 1 .. (Size + 1)
  /\ reg \in SeqNums
  /\ late \in 0 .. LateMax
  /\ tpc \in {"run", "signal", "join", "event", "closed"}
  /\ sent \in 0 .. Messages
  /\ sending \in [Senders -> SUBSET Msgs]
  /\ wire \subseteq Msgs
  /\ buf \in [Msgs -> {"unsent", "sender", "buffer", "freed"}]
  /\ acked \in [Msgs -> Nat]
  /\ cumAcked \in 0 .. Messages

(* No packet buffer is leaked, freed while a slot holds it, or held by two *)
(* slots, whatever acks, pushes and give-ups interleave.                   *)
OneSlotEach ==
  ~freed => \A m \in Msgs :
    /\ buf[m] = "buffer" => \E k \in Live : packet[k].seq = SeqOf(m)
    /\ \A k \in Live : packet[k].seq = SeqOf(m) => buf[m] = "buffer"
    /\ \A j, k \in Live : packet[j].seq = packet[k].seq => j = k

(* Every message is reported acknowledged at most once, and only if the    *)
(* peer acknowledged it: giving up reports nothing.                        *)
AckedOnce == \A m \in Msgs : acked[m] <= 1 /\ (acked[m] = 1 => m < cumAcked)

(* "buffer was empty before, so it will sleep without timeout => WAKE      *)
(* UP!!": the re-send thread never sleeps without a timeout on a buffer    *)
(* that holds packets.                                                     *)
NoSleepOnPackets == rpc = "wait" /\ ~timed => count = 0

(* Packets are kept as long as they are needed, and no longer.             *)
PacketsKept == OneSlotEach /\ AckedOnce /\ NoSleepOnPackets

(* Re-sending always ends: every packet in the buffer is acknowledged,     *)
(* given up, or freed by fini.                                             *)
RetryEnds == \A m \in Msgs : buf[m] = "buffer" ~> buf[m] = "freed"

(* The assertions of fini: the signal is sent and the thread joined.       *)
FiniJoins == tpc = "signal" ~> tpc = "closed"
=============================================================================
