------------------------------ MODULE MCMedia -------------------------------
(***************************************************************************)
(* What is received, for TLC: video frames of two data and two redundant   *)
(* units whose indices wrap around; audio packets of one frame that repeat *)
(* the two before it; and the counting and reporting of what was lost, for *)
(* two frames of one unit and up to three audio packets: enough for        *)
(* seq_max to wrap around, and for a collection to fall into the middle of *)
(* each push.  A behaviour is one of one of these; the others rest.        *)
(***************************************************************************)
EXTENDS VideoReceiver, AudioReceiver, CongestionControl

VARIABLE part

MCInit == part \in {"video", "audio", "statistics"} /\ Init /\ AudioInit /\ CongestionInit

MCNext ==
  /\ UNCHANGED part
  /\ \/ part = "video" /\ Next /\ UNCHANGED <<audioVars, congestionVars>>
     \/ part = "audio" /\ AudioNext /\ UNCHANGED <<vars, congestionVars>>
     \/ part = "statistics" /\ CongestionNext /\ UNCHANGED <<vars, audioVars>>

MCSpec == MCInit /\ [][MCNext]_<<part, vars, audioVars, congestionVars>>
=============================================================================
