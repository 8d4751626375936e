------------------------------ MODULE MCRemote ------------------------------
(***************************************************************************)
(* The parts of a connection through the internet, for TLC.  They follow   *)
(* each other and share nothing but the sockets they hand on, so that each *)
(* behaviour is one of one part; the other parts rest.                     *)
(***************************************************************************)
EXTENDS Holepunch, Candidates, Stun, Rudp

CONSTANTS c1, c2, d1, n1, n2

VARIABLE part

ExchangesDef == <<"INIT", "COOKIE", "SESSION", "FINISH", "INIT", "COOKIE", "SESSION">>
NatStepsDef == {-1, 0, 1, 2, 3}

vars == <<part, holepunchVars, candidateVars, stunVars, rudpVars>>

Init ==
  /\ part \in {"holepunch", "candidates", "stun", "rudp"}
  /\ HolepunchInit /\ CandidatesInit /\ StunInit /\ RudpInit
  /\ part # "candidates" => ~random /\ usable = {}
  /\ part # "stun" => nat_step = 0 /\ nat = PortMax

Next ==
  /\ UNCHANGED part
  /\ \/ part = "holepunch" /\ HolepunchNext /\ UNCHANGED <<candidateVars, stunVars, rudpVars>>
     \/ part = "candidates" /\ CandidatesNext /\ UNCHANGED <<holepunchVars, stunVars, rudpVars>>
     \/ part = "stun" /\ StunNext /\ UNCHANGED <<holepunchVars, candidateVars, rudpVars>>
     \/ part = "rudp" /\ RudpNext /\ UNCHANGED <<holepunchVars, candidateVars, stunVars>>

Fairness ==
  /\ WF_vars(part = "holepunch" /\ MainThread /\ UNCHANGED <<part, candidateVars, stunVars, rudpVars>>)
  /\ WF_vars(part = "holepunch" /\ WsThread /\ UNCHANGED <<part, candidateVars, stunVars, rudpVars>>)

Spec == Init /\ [][Next]_vars /\ Fairness
=============================================================================
