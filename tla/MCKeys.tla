------------------------------- MODULE MCKeys -------------------------------
(***************************************************************************)
(* Key streams and key positions, for TLC: a ring of three chunks of two   *)
(* blocks, read by two threads at positions that span several rings, so    *)
(* that the window rotates, wraps around and skips ahead; and positions    *)
(* through three wrap-arounds of twelve numbers in the low half, where the *)
(* lag reaches 5, the largest below Half; and the packets of two threads   *)
(* and of the feedback, over three refreshes of the MAC key and up to the  *)
(* last key position.  A behaviour is one of one of the three; the others  *)
(* rest.                                                                   *)
(***************************************************************************)
EXTENDS KeyBuffer, KeyState, TakionCrypt

CONSTANTS r1, r2

VARIABLE part

MCInit ==
  /\ part \in {"buffer", "positions", "packets"}
  /\ Init /\ KeyStateInit /\ TakionCryptInit

MCNext ==
  /\ UNCHANGED part
  /\ \/ part = "buffer" /\ Next /\ UNCHANGED <<keyStateVars, takionCryptVars>>
     \/ part = "positions" /\ KeyStateNext /\ UNCHANGED <<vars, takionCryptVars>>
     \/ part = "packets" /\ TakionCryptNext /\ UNCHANGED <<vars, keyStateVars>>

MCFairness ==
  /\ WF_vars(part = "buffer" /\ Generator)
  /\ \A r \in Readers : WF_vars(part = "buffer" /\ GetSignal(r))
  /\ WF_vars(part = "buffer" /\ (FiniSignal \/ FiniJoin))

MCSpec == MCInit /\ [][MCNext]_<<part, vars, keyStateVars, takionCryptVars>> /\ MCFairness
=============================================================================
