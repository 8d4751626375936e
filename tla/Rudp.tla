-------------------------------- MODULE Rudp --------------------------------
(***************************************************************************)
(* lib/src/remote/rudp.c and rudpsendbuffer.c: what replaces TCP over a    *)
(* punched hole.  First one thread after the other makes its exchanges     *)
(* with chiaki_rudp_send_recv: a request, repeated a few times until its   *)
(* answer is there.  Then control messages are sent by the ctrl thread and *)
(* the session thread, and kept in the send buffer until acknowledged; its *)
(* thread sends them again and gives up after some tries.                  *)
(*                                                                         *)
(* The network loses, delays and reorders packets.  The console is         *)
(* external: it answers each request and takes control messages in order.  *)
(* There are too few of them for their 16-bit numbers to wrap around.      *)
(***************************************************************************)
EXTENDS Integers, Sequences, FiniteSets

CONSTANTS
  Exchanges,     \* the types of the requests, one after the other
  Tries,         \* tries of chiaki_rudp_send_recv
  BufferSize,    \* RUDP_SEND_BUFFER_SIZE
  ResendTries,   \* RUDP_DATA_RESEND_TRIES_MAX
  MaxCtrlMessages    \* bound on the control messages of each thread

ASSUME RudpAssumption ==
  /\ Exchanges \in Seq(STRING)
  /\ Tries \in Nat \ {0} /\ BufferSize \in Nat \ {0} /\ ResendTries \in Nat
  /\ MaxCtrlMessages \in 0 .. 16383

Senders == {"ctrl", "session"}

VARIABLES
  at, tries, receiving,   \* chiaki_rudp_send_recv
  answers,                \* of each exchange, on their way
  accepted,               \* history: which answer each exchange got
  requests,               \* history: requests sent for each exchange
  counter,                \* control messages are numbered from 0
  sender,                 \* where each thread is in chiaki_rudp_send_ctrl_message
  packets,                \* the send buffer, in no order
  to_remote, to_local,    \* control messages and acknowledgements on their way
  taken,                  \* external: the number of the next message the console takes
  given_up, refused,      \* history: numbers of messages no longer sent again
  raced                   \* history: a thread has read a counter that another had increased

exchange == <<at, tries, receiving, answers, accepted, requests>>
control == <<counter, sender, packets, to_remote, to_local, taken, given_up, refused, raced>>
rudpVars == <<exchange, control>>

Idle == [at |-> "idle", n |-> -1, ack |-> -1, sent |-> 0]

RudpInit ==
  /\ at = 1 /\ tries = 0 /\ receiving = FALSE
  /\ answers = [x \in DOMAIN Exchanges |-> 0] /\ requests = answers
  /\ accepted = << >>
  /\ counter = 0 /\ sender = [t \in Senders |-> Idle]
  /\ packets = {} /\ to_remote = {} /\ to_local = {} /\ taken = 0
  /\ given_up = {} /\ refused = {} /\ raced = FALSE

Opened == at = Len(Exchanges) + 2

-----------------------------------------------------------------------------
(* chiaki_rudp_send_recv.                                                  *)
SendRequest ==
  /\ at <= Len(Exchanges) /\ ~receiving /\ tries < Tries
  /\ receiving' = TRUE
  /\ requests' = [requests EXCEPT ![at] = @ + 1]
  /\ answers' \in {answers, [answers EXCEPT ![at] = @ + 1]}
  /\ UNCHANGED <<at, tries, accepted, control>>

(* The type of the message, or of a message within it.                     *)
Accepts(x) == Exchanges[x] = Exchanges[at]

(* What is not expected, or too small, uses up a try like a timeout.       *)
Receive(x) ==
  /\ receiving /\ answers[x] > 0
  /\ answers' = [answers EXCEPT ![x] = @ - 1]
  /\ receiving' = FALSE
  /\ IF Accepts(x)
     THEN at' = at + 1 /\ tries' = 0 /\ accepted' = Append(accepted, x)
     ELSE tries' = tries + 1 /\ UNCHANGED <<at, accepted>>
  /\ UNCHANGED <<requests, control>>

RudpTimeout ==
  /\ receiving
  /\ receiving' = FALSE /\ tries' = tries + 1
  /\ UNCHANGED <<at, answers, accepted, requests, control>>

(* The ctrl thread starts its loop, in which late answers are dropped.     *)
OpenCtrl ==
  /\ at = Len(Exchanges) + 1
  /\ at' = at + 1
  /\ answers' = [x \in DOMAIN Exchanges |-> 0] /\ requests' = answers' /\ accepted' = << >>
  /\ UNCHANGED <<tries, receiving, control>>

-----------------------------------------------------------------------------
(* chiaki_rudp_send_ctrl_message: get_then_increase_counter is atomic, but *)
(* the number to be acknowledged is read after it.                         *)
TakeCounter(t) ==
  /\ Opened /\ sender[t].at = "idle" /\ sender[t].sent < MaxCtrlMessages
  /\ sender' = [sender EXCEPT ![t].at = "read", ![t].n = counter, ![t].sent = @ + 1]
  /\ counter' = counter + 1
  /\ UNCHANGED <<exchange, packets, to_remote, to_local, taken, given_up, refused, raced>>

ReadCounter(t) ==
  /\ sender[t].at = "read"
  /\ sender' = [sender EXCEPT ![t].at = "push", ![t].ack = counter]
  /\ to_remote' \in {to_remote, to_remote \cup {sender[t].n}}
  /\ raced' = (raced \/ counter # sender[t].n + 1)
  /\ UNCHANGED <<exchange, counter, packets, to_local, taken, given_up, refused>>

Unsent(t, seq_num) == [seq_num |-> seq_num, n |-> sender[t].n, tries |-> 0]

(* Mutant: the packet is kept under the number it was sent with.           *)
PushNumber(t) ==
  /\ sender[t].at = "push"
  /\ packets' = packets \cup {Unsent(t, sender[t].n)}
  /\ sender' = [sender EXCEPT ![t].at = "idle", ![t].n = -1, ![t].ack = -1]
  /\ UNCHANGED <<exchange, counter, to_remote, to_local, taken, given_up, refused, raced>>

(* chiaki_rudp_send_buffer_push refuses when it is full and a number that  *)
(* is there already: the message has been sent, but is never sent again.   *)
PushPacket(t) ==
  /\ sender[t].at = "push"
  /\ \/ /\ Cardinality(packets) = BufferSize
        /\ given_up' = given_up \cup {sender[t].n} /\ UNCHANGED <<packets, refused>>
     \/ /\ Cardinality(packets) # BufferSize /\ \E p \in packets : p.seq_num = sender[t].ack
        /\ refused' = refused \cup {sender[t].n} /\ UNCHANGED <<packets, given_up>>
     \/ /\ Cardinality(packets) # BufferSize /\ \A p \in packets : p.seq_num # sender[t].ack
        /\ packets' = packets \cup {Unsent(t, sender[t].ack)}
        /\ UNCHANGED <<given_up, refused>>
  /\ sender' = [sender EXCEPT ![t].at = "idle", ![t].n = -1, ![t].ack = -1]
  /\ UNCHANGED <<exchange, counter, to_remote, to_local, taken, raced>>

(* chiaki_rudp_send_buffer_ack: everything up to the number.               *)
Acknowledged(n) == {p \in packets : p.seq_num <= n}
AckPackets(n) == packets' = packets \ Acknowledged(n)

AckReceived(n) ==
  /\ n \in to_local
  /\ AckPackets(n)
  /\ to_local' = to_local \ {n}
  /\ UNCHANGED <<exchange, counter, sender, to_remote, taken, given_up, refused, raced>>

(* rudp_send_buffer_resend, packet by packet: again, or, after the last    *)
(* try, given up together with all that come before it.                    *)
Resend(p) ==
  /\ p \in packets
  /\ IF p.tries >= ResendTries
     THEN /\ AckPackets(p.seq_num)
          /\ given_up' = given_up \cup {q.n : q \in Acknowledged(p.seq_num)}
          /\ UNCHANGED to_remote
     ELSE /\ packets' = (packets \ {p}) \cup {[p EXCEPT !.tries = @ + 1]}
          /\ to_remote' \in {to_remote, to_remote \cup {p.n}}
          /\ UNCHANGED given_up
  /\ UNCHANGED <<exchange, counter, sender, to_local, taken, refused, raced>>

(* The console takes the next message and acknowledges what it has.        *)
RemoteTakes(n) ==
  /\ n \in to_remote
  /\ to_remote' = to_remote \ {n}
  /\ taken' = IF n = taken THEN taken + 1 ELSE taken
  /\ to_local' \in {to_local, to_local \cup {taken'}}
  /\ UNCHANGED <<exchange, counter, sender, packets, given_up, refused, raced>>

RudpSending == \E t \in Senders : ReadCounter(t) \/ PushPacket(t)
ResendThread == \E p \in packets : Resend(p)

RudpNext ==
  \/ SendRequest \/ RudpTimeout \/ OpenCtrl \/ (\E x \in DOMAIN Exchanges : Receive(x))
  \/ RudpSending \/ ResendThread
  \/ \E t \in Senders : TakeCounter(t)
  \/ \E n \in to_local : AckReceived(n)
  \/ \E n \in to_remote : RemoteTakes(n)
RudpSpec == RudpInit /\ [][RudpNext]_rudpVars
-----------------------------------------------------------------------------
(* The answer to a request is of its type, and the one to that very        *)
(* request, unless an earlier exchange of the same type had to repeat its  *)
(* request: its second answer, or by it that to another one in between, is *)
(* then taken for the answer to this one, since answers are told apart by  *)
(* their type only.                                                        *)
Repeated(x) == \E y \in 1 .. x - 1 : Exchanges[y] = Exchanges[x] /\ requests[y] > 1
OwnAnswer == \A x \in DOMAIN accepted :
  /\ Exchanges[accepted[x]] = Exchanges[x]
  /\ accepted[x] # x => Repeated(x)

(* A control message that was numbered is sent again until the console has *)
(* it, unless it is given up (after its tries, or with a full buffer) or   *)
(* the send buffer refused it, which happens only when both threads read   *)
(* the counter after both had increased it.                                *)
KeptUntilTaken == \A n \in 0 .. counter - 1 :
  /\ n \in refused => raced
  /\ \/ n < taken
     \/ \E t \in Senders : sender[t].n = n
     \/ \E p \in packets : p.n = n
     \/ n \in given_up \cup refused

(* What the control connection over RUDP may count on.                     *)
RudpDelivers == OwnAnswer /\ KeptUntilTaken
=============================================================================
