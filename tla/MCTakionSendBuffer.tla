------------------------- MODULE MCTakionSendBuffer -------------------------
(* Model checking instances of TakionSendBuffer: two slots, one re-send,    *)
(* the stream connection's thread and the Takion thread as senders, and     *)
(* sequence numbers that wrap around within the run.                        *)
EXTENDS TakionSendBuffer
=============================================================================
