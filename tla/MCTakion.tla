------------------------------ MODULE MCTakion ------------------------------
(***************************************************************************)
(* Takion, for TLC: four data messages through a queue for three, two      *)
(* audio/video packets and space to postpone one; and the loop that takes  *)
(* acknowledged packets out of the send buffer, for all arrays of N        *)
(* packets over the 2 * Half sequence numbers and every number             *)
(* acknowledged: 5 packets over 6 numbers have every pattern of gaps (a    *)
(* first gap, a longer one, a second and a third one).  A behaviour is one *)
(* of one of the two; the other rests.                                     *)
(***************************************************************************)
EXTENDS Takion, SendBufferAck

VARIABLE part

MCInit ==
  /\ part \in {"takion", "compaction"}
  /\ TakionInit /\ Init
  /\ part # "compaction" => seq = 0 /\ \A k \in Index : packets[k] = 0

MCNext ==
  /\ UNCHANGED part
  /\ \/ part = "takion" /\ TakionNext /\ UNCHANGED vars
     \/ part = "compaction" /\ Next /\ UNCHANGED takionVars

MCFairness ==
  /\ WF_takionVars(part = "takion" /\ TakionThread)
  /\ \A n \in 1 .. MaxData :
       /\ WF_takionVars(part = "takion" /\ Repeats(n))
       /\ SF_takionVars(part = "takion" /\ DATA(n) \in to_client /\ HandleData(DATA(n)))

MCSpec == MCInit /\ [][MCNext]_<<part, vars, takionVars>> /\ MCFairness
=============================================================================
