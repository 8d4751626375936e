----------------------------- MODULE MCFeedback -----------------------------
(***************************************************************************)
(* The player's input, for TLC: read from a touchpad of two slots that is  *)
(* plugged in and out; put together from its sources; and sent to the      *)
(* console, for one key, one touch slot and a history of two events.  A    *)
(* behaviour is one of one of the three; the others rest.                  *)
(***************************************************************************)
EXTENDS FeedbackSender, Input, Setsu

VARIABLE part

MCInit ==
  /\ part \in {"sender", "input", "touchpad"}
  /\ FeedbackInit /\ InputInit /\ SetsuInit
  /\ part # "sender" => session = CHOOSE s \in States : TRUE

MCNext ==
  /\ UNCHANGED part
  /\ \/ part = "sender" /\ FeedbackNext /\ UNCHANGED <<inputVars, setsuVars>>
     \/ part = "input" /\ InputNext /\ UNCHANGED <<feedbackVars, setsuVars>>
     \/ part = "touchpad" /\ SetsuNext /\ UNCHANGED <<feedbackVars, inputVars>>

MCFairness ==
  /\ WF_feedbackVars(part = "sender" /\ FeedbackThread) /\ WF_feedbackVars(part = "sender" /\ Signal)
  /\ WF_feedbackVars(part = "sender" /\ FiniJoin)
  /\ SF_feedbackVars(part = "sender" /\ Expire) /\ SF_feedbackVars(part = "sender" /\ Round(TRUE))

MCSpec == MCInit /\ [][MCNext]_<<part, feedbackVars, inputVars, setsuVars>> /\ MCFairness
=============================================================================
