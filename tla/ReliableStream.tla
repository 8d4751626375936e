--------------------------- MODULE ReliableStream ---------------------------
(***************************************************************************)
(* What a Takion connection promises for the data messages of the console: *)
(* as long as it is open, the callback gets every one of them, once and in *)
(* the order they were sent.                                               *)
(***************************************************************************)
EXTENDS Naturals, Sequences

VARIABLES sent,      \* number of messages sent
          received,  \* what the callback got, message by message
          open

vars == <<sent, received, open>>

Init == sent = 0 /\ received = << >> /\ open = TRUE

Send ==
  /\ sent' = sent + 1
  /\ UNCHANGED <<received, open>>

(* One packet may make several messages available.                         *)
Receive ==
  /\ open
  /\ \E k \in Len(received) + 1 .. sent :
       received' = received \o [j \in 1 .. k - Len(received) |-> Len(received) + j]
  /\ UNCHANGED <<sent, open>>

Close ==
  /\ open' = FALSE
  /\ UNCHANGED <<sent, received>>

Next == Send \/ Receive \/ Close

Spec == Init /\ [][Next]_vars /\ WF_vars(Receive)
=============================================================================
