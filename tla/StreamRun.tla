------------------------------ MODULE StreamRun ------------------------------
(***************************************************************************)
(* What chiaki_stream_connection_run promises to the session thread that   *)
(* calls it: it returns once, and what it returns says what happened.  The *)
(* session relies on this and on nothing else of the stream connection.    *)
(***************************************************************************)
VARIABLES
  phase,    \* "idle", "running" or "returned"
  result,   \* what run returned
  stop,     \* chiaki_stream_connection_stop was called
  remote    \* the console ended the stream

vars == <<phase, result, stop, remote>>

Failed == {"UNKNOWN", "NETWORK", "THREAD", "TIMEOUT"}

Init == phase = "idle" /\ result = "none" /\ stop = FALSE /\ remote = FALSE

Start ==
  /\ phase = "idle"
  /\ phase' = "running"
  /\ UNCHANGED <<result, stop, remote>>

Stop ==
  /\ stop' = TRUE
  /\ UNCHANGED <<phase, result, remote>>

Remote ==
  /\ phase = "running"
  /\ remote' = TRUE
  /\ UNCHANGED <<phase, result, stop>>

(* A stop is CANCELED, or SUCCESS when it came while Takion connected.     *)
Return ==
  /\ phase \in {"idle", "running"}
  /\ phase' = "returned"
  /\ \/ stop /\ result' \in {"CANCELED", "SUCCESS"}
     \/ remote /\ result' = "DISCONNECTED"
     \/ result' \in Failed
  /\ UNCHANGED <<stop, remote>>

Next == Start \/ Stop \/ Remote \/ Return

Spec == Init /\ [][Next]_vars /\ WF_vars(stop /\ phase = "running" /\ Return)
=============================================================================
