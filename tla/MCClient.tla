------------------------------ MODULE MCClient ------------------------------
(***************************************************************************)
(* The client's calls, for TLC: consoles are discovered, the client        *)
(* registers at one, Senkusha measures the path to it, the stream          *)
(* connection runs, where every step that the code expects to fail may     *)
(* fail, and the user interface makes and ends sessions.  These share no   *)
(* state, so that each behaviour is one of one of them; the others rest.   *)
(***************************************************************************)
EXTENDS StreamConnection, DiscoveryManager, Regist, Senkusha, Backend

CONSTANTS c1, c2

VARIABLE part

MCInit ==
  /\ part \in {"stream", "discovery", "regist", "senkusha", "backend"}
  /\ Init /\ DiscoveryInit /\ RegistInit /\ SenkushaInit /\ BackendInit

MCNext ==
  /\ UNCHANGED part
  /\ \/ part = "stream" /\ Next /\ UNCHANGED <<discoveryVars, registVars, senkushaVars, backendVars>>
     \/ part = "discovery" /\ DiscoveryNext /\ UNCHANGED <<vars, registVars, senkushaVars, backendVars>>
     \/ part = "regist" /\ RegistNext /\ UNCHANGED <<vars, discoveryVars, senkushaVars, backendVars>>
     \/ part = "senkusha" /\ SenkushaNext /\ UNCHANGED <<vars, discoveryVars, registVars, backendVars>>
     \/ part = "backend" /\ BackendNext /\ UNCHANGED <<vars, discoveryVars, registVars, senkushaVars>>

(* FairSpec of StreamConnection, and the fairness of the others.           *)
MCFairness ==
  /\ WF_vars(part = "stream" /\ Run)
  /\ WF_vars(part = "stream" /\ Sleep) /\ WF_vars(part = "stream" /\ Expire)
  /\ WF_vars(part = "stream" /\ stop_pipe /\ TakionEnd) /\ WF_vars(part = "stream" /\ Data)
  /\ SF_vars(part = "stream" /\ StopSet) /\ WF_vars(part = "stream" /\ StopSignal)
  /\ \A s \in Services : SF_discoveryVars(part = "discovery" /\ ServicePing(s))
  /\ WF_discoveryVars(part = "discovery" /\ HandleEvent)
  /\ WF_registVars(part = "regist" /\ RegistThread)
  /\ WF_senkushaVars(part = "senkusha" /\ SenkushaThread)
  /\ WF_backendVars(part = "backend" /\ HandleSignal)
  /\ \A n \in Sessions :
       /\ WF_backendVars(part = "backend" /\ RetryStart(n))
       /\ WF_backendVars(part = "backend" /\ obj[n].stopped /\ \E error \in BOOLEAN : EventQuit(n, error))
  /\ WF_backendVars(part = "backend" /\ Tick) /\ WF_backendVars(part = "backend" /\ TokenAnswer)

MCSpec ==
  MCInit /\ [][MCNext]_<<part, vars, discoveryVars, registVars, senkushaVars, backendVars>> /\ MCFairness

(* What the user starts comes to an end: a registration reports, Senkusha  *)
(* returns, a session that was stopped goes and reconnecting stops.        *)
CallsEnd == RegistEnds /\ SenkushaEnds /\ BackendSettles
=============================================================================
