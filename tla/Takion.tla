------------------------------- MODULE Takion -------------------------------
(***************************************************************************)
(* The Takion thread of lib/src/takion.c: the handshake, then one packet   *)
(* after the other.  Data messages go through the reorder queue to the     *)
(* callback and are acknowledged; audio and video packets that come before *)
(* the keys are postponed.  The keys are there when the callback has       *)
(* handled the data message BANG.                                          *)
(*                                                                         *)
(* The queue is the set of numbers in it, as module ReorderQueue shows it  *)
(* to be; data messages are numbered from 1.  The network loses, reorders  *)
(* and repeats packets; the console is external, keeps a window and sends  *)
(* again what was not acknowledged.                                        *)
(***************************************************************************)
EXTENDS Naturals, Sequences, FiniteSets

CONSTANTS
  QueueSize,       \* TAKION_REORDER_QUEUE_SIZE_EXP, as a size
  PostponeSize,    \* TAKION_POSTPONE_PACKETS_SIZE
  MaxData, MaxAv,  \* how many messages and audio/video packets the console sends
  Bang             \* the number of the message BANG

ASSUME TakionAssumption ==
  /\ QueueSize \in Nat \ {0} /\ PostponeSize \in Nat
  /\ MaxData \in Nat /\ MaxAv \in Nat /\ Bang \in 1 .. MaxData

VARIABLES
  tpc,                  \* where the Takion thread is
  stop_pipe,
  begin, data_queue,    \* the reorder queue
  gkcrypt_remote, crypt_available,
  postponed_packets,
  to_client, to_console,\* packets in flight
  console, sent, acked, \* the console: sent and acknowledged data messages
  av_sent,
  delivered,            \* history: data messages the callback got
  av, arrived,          \* history: audio/video it got, and that came
  ack_lost              \* history: the network lost the last acknowledgement

queue == <<begin, data_queue>>
keys == <<gkcrypt_remote, crypt_available>>
net == <<to_client, to_console>>
peer == <<console, sent, acked, av_sent>>
history == <<delivered, av, arrived, ack_lost>>
takionVars == <<tpc, stop_pipe, queue, keys, postponed_packets, net, peer, history>>

DATA(n) == [type |-> "DATA", n |-> n]
ACK(n)  == [type |-> "DATA_ACK", n |-> n]
AV(n)   == [type |-> "AV", n |-> n]
Control(t) == [type |-> t, n |-> 0]

TakionInit ==
  /\ tpc = "init" /\ stop_pipe = FALSE
  /\ begin = 1 /\ data_queue = {}
  /\ gkcrypt_remote = FALSE /\ crypt_available = FALSE
  /\ postponed_packets = << >>
  /\ to_client = {} /\ to_console = {}
  /\ console = "listening" /\ sent = 0 /\ acked = 0 /\ av_sent = 0
  /\ delivered = << >> /\ av = << >> /\ arrived = << >> /\ ack_lost = FALSE

-----------------------------------------------------------------------------
(* The network: a packet gets on its way or is lost, and one that arrives  *)
(* may arrive again.                                                       *)
Carried(packets, p) == {packets, packets \cup {p}}
Takes(p) == to_client' \in {to_client, to_client \ {p}}

(* takion_handshake: INIT and COOKIE are sent once each.  Any other answer *)
(* than the one expected, or none in time, ends the thread, except that a  *)
(* second INIT_ACK is skipped once.                                        *)
SendInit ==
  /\ tpc = "init"
  /\ tpc' = "init_ack"
  /\ to_console' \in Carried(to_console, Control("INIT"))
  /\ UNCHANGED <<stop_pipe, queue, keys, postponed_packets, to_client, peer, history>>

RecvInitAck(p) ==
  /\ tpc = "init_ack"
  /\ Takes(p)
  /\ IF p.type = "INIT_ACK"
     THEN tpc' = "cookie_ack" /\ to_console' \in Carried(to_console, Control("COOKIE"))
     ELSE tpc' = "beach" /\ UNCHANGED to_console
  /\ UNCHANGED <<stop_pipe, queue, keys, postponed_packets, peer, history>>

RecvCookieAck(p) ==
  /\ tpc \in {"cookie_ack", "cookie_ack_again"}
  /\ Takes(p)
  /\ tpc' = CASE p.type = "COOKIE_ACK" -> "top"
              [] p.type = "INIT_ACK" /\ tpc = "cookie_ack" -> "cookie_ack_again"
              [] OTHER -> "beach"
  /\ UNCHANGED <<stop_pipe, queue, keys, postponed_packets, to_console, peer, history>>

(* The select of takion_recv: its timeout in the handshake, the stop pipe, *)
(* or an error.                                                            *)
RecvFails ==
  /\ \/ tpc \in {"init_ack", "cookie_ack", "cookie_ack_again"}
     \/ tpc = "recv" /\ stop_pipe
  /\ tpc' = "beach"
  /\ UNCHANGED <<stop_pipe, queue, keys, postponed_packets, net, peer, history>>

-----------------------------------------------------------------------------
(* Mutant: the flushed packets stay postponed.                             *)
LoopTopKeeps ==
  /\ tpc = "top"
  /\ crypt_available' = gkcrypt_remote
  /\ IF gkcrypt_remote /\ ~crypt_available /\ data_queue # {}
     THEN tpc' = "crashed" /\ UNCHANGED av
     ELSE /\ tpc' = "recv"
          /\ av' = IF gkcrypt_remote THEN av \o postponed_packets ELSE av
  /\ UNCHANGED <<stop_pipe, queue, gkcrypt_remote, postponed_packets, net, peer, delivered, arrived, ack_lost>>

(* The top of the loop.  When the keys have just become available, the     *)
(* MACs of the messages in the queue are checked again; to get at them the *)
(* queue is asked to peek without a place for the number, which it writes. *)
(* Then the postponed packets are handled.                                 *)
LoopTop ==
  /\ tpc = "top"
  /\ crypt_available' = gkcrypt_remote
  /\ IF gkcrypt_remote /\ ~crypt_available /\ data_queue # {}
     THEN tpc' = "crashed" /\ UNCHANGED <<av, postponed_packets>>
     ELSE /\ tpc' = "recv"
          /\ av' = IF gkcrypt_remote THEN av \o postponed_packets ELSE av
          /\ postponed_packets' = IF gkcrypt_remote THEN << >> ELSE postponed_packets
  /\ UNCHANGED <<stop_pipe, queue, gkcrypt_remote, net, peer, delivered, arrived, ack_lost>>

(* chiaki_reorder_queue_push with the strategy to drop at the end: what is *)
(* old, there already or beyond the window is dropped.                     *)
Push(n) == IF n \in begin .. begin + QueueSize - 1 THEN data_queue \cup {n} ELSE data_queue

(* Mutant: a gap does not end the pulling.                                 *)
PulledGaps(q) == q

(* takion_flush_data_queue: what follows on without a gap is pulled.       *)
Pulled(q) == { n \in q : begin .. n \subseteq q }

(* Numbers as they are pulled, one after the other.                        *)
InOrder(pulled) ==
  [j \in 1 .. Cardinality(pulled) |-> CHOOSE n \in pulled : Cardinality({k \in pulled : k <= n}) = j]

(* Mutant: the acknowledgement is for the first of the messages pulled.    *)
DataAckFirst(pulled) ==
  IF pulled = {} THEN {} ELSE {ACK(CHOOSE n \in pulled : \A k \in pulled : n <= k)}

(* An acknowledgement is cumulative, and sent only if something was pulled.*)
DataAck(pulled) ==
  IF pulled = {} THEN {} ELSE {ACK(CHOOSE n \in pulled : \A k \in pulled : k <= n)}

(* takion_handle_packet_message_data, with the callback.                   *)
HandleData(p) ==
  /\ tpc = "recv" /\ ~stop_pipe /\ p.type = "DATA"
  /\ Takes(p)
  /\ LET q == Push(p.n)
         pulled == Pulled(q)
     IN  /\ data_queue' = q \ pulled
         /\ begin' = begin + Cardinality(pulled)
         /\ delivered' = delivered \o InOrder(pulled)
         /\ \/ /\ to_console' = to_console \cup DataAck(pulled)
               /\ ack_lost' = (ack_lost /\ pulled = {})
            \/ pulled # {} /\ ack_lost' = TRUE /\ UNCHANGED to_console
         /\ gkcrypt_remote' = (gkcrypt_remote \/ Bang \in pulled)
  /\ tpc' = "top"
  /\ UNCHANGED <<stop_pipe, crypt_available, postponed_packets, peer, av, arrived>>

(* takion_handle_packet for audio and video: to the callback, or postponed *)
(* while there is space.                                                   *)
HandleAv(p) ==
  /\ tpc = "recv" /\ ~stop_pipe /\ p.type = "AV"
  /\ to_client' = to_client \ {p}
  /\ \/ /\ gkcrypt_remote
        /\ av' = Append(av, p.n) /\ arrived' = Append(arrived, p.n)
        /\ UNCHANGED postponed_packets
     \/ /\ ~gkcrypt_remote /\ Len(postponed_packets) < PostponeSize
        /\ postponed_packets' = Append(postponed_packets, p.n) /\ arrived' = Append(arrived, p.n)
        /\ UNCHANGED av
     \/ /\ ~gkcrypt_remote /\ Len(postponed_packets) = PostponeSize
        /\ UNCHANGED <<postponed_packets, av, arrived>>
  /\ tpc' = "top"
  /\ UNCHANGED <<stop_pipe, queue, keys, to_console, peer, delivered, ack_lost>>

(* A late answer of the handshake is of an unknown type now.               *)
HandleUnknown(p) ==
  /\ tpc = "recv" /\ ~stop_pipe /\ p.type \in {"INIT_ACK", "COOKIE_ACK"}
  /\ Takes(p)
  /\ tpc' = "top"
  /\ UNCHANGED <<stop_pipe, queue, keys, postponed_packets, to_console, peer, history>>

(* The label beach and what comes before it: the queue is dropped and the  *)
(* callback told.                                                          *)
Beach ==
  /\ tpc = "beach"
  /\ tpc' = "ended"
  /\ data_queue' = {}
  /\ UNCHANGED <<stop_pipe, begin, keys, postponed_packets, net, peer, history>>

(* chiaki_takion_close.                                                    *)
TakionClose ==
  /\ ~stop_pipe
  /\ stop_pipe' = TRUE
  /\ UNCHANGED <<tpc, queue, keys, postponed_packets, net, peer, history>>

-----------------------------------------------------------------------------
(* The console.                                                            *)
Answer(t, answer) ==
  /\ Control(t) \in to_console
  /\ to_console' = to_console \ {Control(t)}
  /\ to_client' \in Carried(to_client, Control(answer))
  /\ console' = IF t = "COOKIE" THEN "connected" ELSE console
  /\ UNCHANGED <<tpc, stop_pipe, queue, keys, postponed_packets, sent, acked, av_sent, history>>

ConsoleSends ==
  /\ console = "connected"
  /\ \/ /\ sent < MaxData
        /\ sent' = sent + 1 /\ to_client' \in Carried(to_client, DATA(sent + 1))
        /\ UNCHANGED av_sent
     \/ /\ av_sent < MaxAv
        /\ av_sent' = av_sent + 1 /\ to_client' \in Carried(to_client, AV(av_sent + 1))
        /\ UNCHANGED sent
  /\ UNCHANGED <<tpc, stop_pipe, queue, keys, postponed_packets, to_console, console, acked, history>>

(* A copy that is lost is as if it had not been sent.                      *)
Repeats(n) ==
  /\ n \in acked + 1 .. sent /\ DATA(n) \notin to_client
  /\ to_client' = to_client \cup {DATA(n)}
  /\ UNCHANGED <<tpc, stop_pipe, queue, keys, postponed_packets, to_console, peer, history>>

ConsoleAcked(p) ==
  /\ p.type = "DATA_ACK"
  /\ acked' = IF p.n > acked THEN p.n ELSE acked
  /\ to_console' = to_console \ {p}
  /\ UNCHANGED <<tpc, stop_pipe, queue, keys, postponed_packets, to_client, console, sent, av_sent, history>>

-----------------------------------------------------------------------------
Receive(p) == RecvInitAck(p) \/ RecvCookieAck(p) \/ HandleData(p) \/ HandleAv(p) \/ HandleUnknown(p)
ConsoleSteps ==
  \/ Answer("INIT", "INIT_ACK") \/ Answer("COOKIE", "COOKIE_ACK") \/ ConsoleSends
  \/ \E n \in 1 .. MaxData : Repeats(n)
  \/ \E p \in to_console : ConsoleAcked(p)
TakionThread == SendInit \/ RecvFails \/ LoopTop \/ Beach

TakionNext ==
  \/ TakionThread \/ \E p \in to_client : Receive(p)
  \/ TakionClose \/ ConsoleSteps

(* The thread runs and its selects end, and of a message that the console  *)
(* repeats until it is acknowledged one copy arrives.                      *)
TakionFairness ==
  /\ WF_takionVars(TakionThread)
  /\ \A n \in 1 .. MaxData :
       /\ WF_takionVars(Repeats(n))
       /\ SF_takionVars(DATA(n) \in to_client /\ HandleData(DATA(n)))

TakionSpec == TakionInit /\ [][TakionNext]_takionVars /\ TakionFairness

-----------------------------------------------------------------------------
(* The state of the Takion thread is well typed; the queue has no message  *)
(* that could be pulled and none beyond its window.                        *)
TakionTypeOK ==
  /\ tpc \in {"init", "init_ack", "cookie_ack", "cookie_ack_again", "top", "recv", "beach", "ended", "crashed"}
  /\ stop_pipe \in BOOLEAN /\ gkcrypt_remote \in BOOLEAN /\ crypt_available \in BOOLEAN
  /\ data_queue \subseteq begin + 1 .. begin + QueueSize - 1
  /\ Len(postponed_packets) <= PostponeSize
  /\ acked \in 0 .. sent /\ sent \in 0 .. MaxData /\ av_sent \in 0 .. MaxAv

(* The connection is a ReliableStream while it is open: it ends with its   *)
(* thread.                                                                 *)
Stream == INSTANCE ReliableStream WITH
  received <- delivered,
  open     <- tpc \notin {"beach", "ended", "crashed"}

(* Whatever the network loses, repeats or reorders, and however far the    *)
(* console is ahead of the queue, every data message gets to the callback, *)
(* once and in order, or the connection ends.                              *)
IsReliable == Stream!Spec

(* The console knows what was delivered, or the acknowledgement of the     *)
(* last message is on its way, or it was lost: flush_data_queue never      *)
(* repeats one, so that the console repeats the message in vain until the  *)
(* next one is acknowledged.                                               *)
AckAccounted == LET last == IF delivered = << >> THEN 0 ELSE delivered[Len(delivered)]
                IN  last = acked \/ ACK(last) \in to_console \/ ack_lost

(* Audio and video that is not refused for want of space is handled once   *)
(* and in the order it came, postponed or not, and none is handled without *)
(* the keys.                                                               *)
AvInOrder ==
  /\ av \o postponed_packets = arrived
  /\ av # << >> => gkcrypt_remote
=============================================================================
