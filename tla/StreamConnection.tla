-------------------------- MODULE StreamConnection --------------------------
(***************************************************************************)
(* The stream connection of lib/src/streamconnection.c: the session thread *)
(* in chiaki_stream_connection_run, the Takion thread that calls it back   *)
(* with events and messages, the congestion control and feedback sender it *)
(* starts, and a user who may stop it.                                     *)
(*                                                                         *)
(* The callbacks hold state_mutex from start to end and are one step each. *)
(* run holds it except in its waits and while it reports CONNECTED; what   *)
(* it does in between is one step, except that it tears down one thing at  *)
(* a time.  The console is external: it answers BIG with BANG, follows it  *)
(* with STREAMINFO, and may disconnect; Takion delivers in order.          *)
(***************************************************************************)
EXTENDS Sequences, Naturals

CONSTANT Failures   \* the steps of run that may fail

Fallible == {"receivers", "takion", "congestion", "big", "feedback"}
ASSUME FailuresAssumption == Failures \subseteq Fallible

VARIABLES
  pc,                  \* where run is
  wait,                \* its timed wait on state_cond: asleep, woken or expired
  locked,              \* run holds state_mutex between two steps
  state, state_finished, state_failed, should_stop, remote_disconnected,
  err,                 \* what run will return
  receivers,           \* audio, haptics and video receiver exist
  congestion,          \* the congestion control thread runs
  feedback,            \* feedback_sender_active, and the sender exists
  crypt,               \* gkcrypt_local and gkcrypt_remote are set
  takion,              \* the Takion thread
  stop_pipe,           \* takion.stop_pipe was stopped
  inbox, console,      \* messages sent and not delivered; what it sends next
  user,                \* chiaki_stream_connection_stop
  info,                \* history: STREAMINFO was delivered to the connection
  early                \* history: run saw the stop while it was connecting

flags == <<state_finished, state_failed>>
threads == <<receivers, congestion, feedback, crypt>>
wire == <<inbox, console>>
history == <<info, early>>
vars == <<pc, wait, locked, state, flags, should_stop, remote_disconnected, err,
          threads, takion, stop_pipe, wire, user, history>>

Waits == {"wait_connect", "wait_bang", "wait_streaminfo", "wait_loop"}

Init ==
  /\ pc = "start" /\ wait = "no" /\ locked = FALSE
  /\ state = "IDLE" /\ state_finished = FALSE /\ state_failed = FALSE
  /\ should_stop = FALSE /\ remote_disconnected = FALSE
  /\ err = "SUCCESS"
  /\ receivers = FALSE /\ congestion = FALSE /\ feedback = FALSE /\ crypt = FALSE
  /\ takion = "none" /\ stop_pipe = FALSE
  /\ inbox = << >> /\ console = "quiet"
  /\ user = "idle" /\ info = FALSE /\ early = FALSE

-----------------------------------------------------------------------------
(* state_finished_cond_check, and the timed wait around it: a wait that    *)
(* was woken tests it and may sleep again, one that expired does not.      *)
Finished == state_finished \/ should_stop \/ remote_disconnected

Resume(r) ==
  /\ ~locked
  /\ \/ wait = "woken" /\ Finished /\ r = "SUCCESS"
     \/ wait = "expired" /\ r = "TIMEOUT"

Sleep ==
  /\ wait = "woken" /\ ~locked /\ ~Finished
  /\ wait' = "asleep"
  /\ UNCHANGED <<pc, locked, state, flags, should_stop, remote_disconnected, err,
                 threads, takion, stop_pipe, wire, user, history>>

Expire ==
  /\ wait = "asleep"
  /\ wait' = "expired"
  /\ UNCHANGED <<pc, locked, state, flags, should_stop, remote_disconnected, err,
                 threads, takion, stop_pipe, wire, user, history>>

Spurious ==
  /\ wait = "asleep"
  /\ wait' = "woken"
  /\ UNCHANGED <<pc, locked, state, flags, should_stop, remote_disconnected, err,
                 threads, takion, stop_pipe, wire, user, history>>

Signal == wait' = IF wait = "asleep" THEN "woken" ELSE wait

(* run goes on to wait in a new state, or leaves for a label of its        *)
(* tear-down with the mutex held.                                          *)
Enter(s, at) ==
  /\ state' = s
  /\ state_finished' = FALSE /\ state_failed' = FALSE
  /\ pc' = at /\ wait' = "woken" /\ locked' = FALSE

Leave(at, e) ==
  /\ pc' = at /\ wait' = "no" /\ locked' = TRUE
  /\ err' = e
  /\ UNCHANGED <<state, flags>>

(* Creating the receivers, connecting Takion and starting the congestion   *)
(* control.  A receiver that cannot be created ends run with the mutex     *)
(* still locked.                                                           *)
Connect ==
  /\ pc = "start" /\ ~locked
  /\ Enter("TAKION_CONNECT", "wait_connect")
  /\ receivers' = TRUE /\ congestion' = TRUE /\ takion' = "connecting"
  /\ UNCHANGED <<should_stop, remote_disconnected, err, feedback, crypt, stop_pipe, wire, user, history>>

ConnectNoReceivers ==
  /\ pc = "start" /\ ~locked /\ "receivers" \in Failures
  /\ Leave("returned", "UNKNOWN")
  /\ UNCHANGED <<should_stop, remote_disconnected, threads, takion, stop_pipe, wire, user, history>>

ConnectNoTakion ==
  /\ pc = "start" /\ ~locked /\ "takion" \in Failures
  /\ state' = "TAKION_CONNECT" /\ state_finished' = FALSE /\ state_failed' = FALSE
  /\ pc' = "free" /\ err' = "NETWORK"
  /\ receivers' = TRUE
  /\ UNCHANGED <<wait, locked, should_stop, remote_disconnected, congestion, feedback, crypt,
                 takion, stop_pipe, wire, user, history>>

ConnectNoCongestion ==
  /\ pc = "start" /\ ~locked /\ "congestion" \in Failures
  /\ state' = "TAKION_CONNECT" /\ state_finished' = FALSE /\ state_failed' = FALSE
  /\ pc' = "close" /\ locked' = TRUE /\ err' = "THREAD"
  /\ receivers' = TRUE /\ takion' = "connecting"
  /\ UNCHANGED <<wait, should_stop, remote_disconnected, congestion, feedback, crypt,
                 stop_pipe, wire, user, history>>

(* After the wait for Takion: a stop skips the end of congestion control;  *)
(* a timeout fails; everything else, a remote disconnect too, sends BIG.   *)
TakionConnected ==
  /\ pc = "wait_connect"
  /\ \E r \in {"SUCCESS", "TIMEOUT"} :
       /\ Resume(r)
       /\ \/ should_stop /\ Leave("close", r) /\ early' = TRUE /\ UNCHANGED console
          \/ ~should_stop /\ r = "TIMEOUT" /\ Leave("stop_congestion", r) /\ UNCHANGED <<early, console>>
          \/ /\ ~should_stop /\ r = "SUCCESS"
             /\ Enter("EXPECT_BANG", "wait_bang")
             /\ console' = "bang" /\ UNCHANGED <<early, err>>
          \/ /\ ~should_stop /\ r = "SUCCESS" /\ "big" \in Failures
             /\ pc' = "disconnect" /\ wait' = "no" /\ locked' = TRUE /\ err' = "UNKNOWN"
             /\ state' = "EXPECT_BANG" /\ state_finished' = FALSE /\ state_failed' = FALSE
             /\ UNCHANGED <<early, console>>
  /\ UNCHANGED <<should_stop, remote_disconnected, threads, takion, stop_pipe, inbox, user, info>>

(* After the waits for BANG and for STREAMINFO, state_finished decides.    *)
BangReceived ==
  /\ pc = "wait_bang"
  /\ \E r \in {"SUCCESS", "TIMEOUT"} :
       /\ Resume(r)
       /\ IF should_stop \/ ~state_finished
          THEN Leave("disconnect", IF should_stop THEN r ELSE "UNKNOWN")
          ELSE Enter("EXPECT_STREAMINFO", "wait_streaminfo") /\ UNCHANGED err
  /\ UNCHANGED <<should_stop, remote_disconnected, threads, takion, stop_pipe, wire, user, history>>

StreaminfoReceived ==
  /\ pc = "wait_streaminfo"
  /\ \E r \in {"SUCCESS", "TIMEOUT"} :
       /\ Resume(r)
       /\ \/ /\ should_stop \/ ~state_finished
             /\ Leave("disconnect", IF should_stop THEN r ELSE "UNKNOWN")
             /\ UNCHANGED feedback
          \/ /\ ~should_stop /\ state_finished /\ "feedback" \in Failures
             /\ Leave("disconnect", "THREAD")
             /\ UNCHANGED feedback
          \/ /\ ~should_stop /\ state_finished
             /\ feedback' = TRUE
             /\ state' = "IDLE" /\ state_finished' = FALSE /\ state_failed' = FALSE
             /\ pc' = "connected" /\ wait' = "no" /\ locked' = FALSE
             /\ UNCHANGED err
  /\ UNCHANGED <<should_stop, remote_disconnected, receivers, congestion, crypt, takion, stop_pipe,
                 wire, user, history>>

(* CONNECTED is reported without the mutex.                                *)
SendConnected ==
  /\ pc = "connected" /\ ~locked
  /\ pc' = "wait_loop" /\ wait' = "woken"
  /\ UNCHANGED <<locked, state, flags, should_stop, remote_disconnected, err, threads,
                 takion, stop_pipe, wire, user, history>>

(* The heartbeat loop: whatever becomes of the heartbeat, wait again.      *)
Heartbeat ==
  /\ pc = "wait_loop" /\ Resume("TIMEOUT")
  /\ wait' = "woken"
  /\ UNCHANGED <<pc, locked, state, flags, should_stop, remote_disconnected, err, threads,
                 takion, stop_pipe, wire, user, history>>

LoopEnds ==
  /\ pc = "wait_loop" /\ Resume("SUCCESS")
  /\ feedback' = FALSE
  /\ Leave("disconnect", "SUCCESS")
  /\ UNCHANGED <<should_stop, remote_disconnected, receivers, congestion, crypt, takion, stop_pipe,
                 wire, user, history>>

-----------------------------------------------------------------------------
(* The labels at the end of run.                                           *)
Disconnect ==
  /\ pc = "disconnect"
  /\ err' = IF should_stop THEN "CANCELED"
            ELSE IF remote_disconnected THEN "DISCONNECTED" ELSE err
  /\ pc' = "stop_congestion"
  /\ UNCHANGED <<wait, locked, state, flags, should_stop, remote_disconnected, threads,
                 takion, stop_pipe, wire, user, history>>

StopCongestion ==
  /\ pc = "stop_congestion"
  /\ congestion' = FALSE
  /\ pc' = "close"
  /\ UNCHANGED <<wait, locked, state, flags, should_stop, remote_disconnected, err, receivers,
                 feedback, crypt, takion, stop_pipe, wire, user, history>>

(* Mutant: Takion is closed before the mutex is released.                  *)
CloseLocked ==
  /\ pc = "close"
  /\ stop_pipe' = TRUE
  /\ pc' = "join"
  /\ UNCHANGED <<wait, locked, state, flags, should_stop, remote_disconnected, err, threads,
                 takion, wire, user, history>>

Close ==
  /\ pc = "close"
  /\ locked' = FALSE
  /\ stop_pipe' = TRUE
  /\ pc' = "join"
  /\ UNCHANGED <<wait, state, flags, should_stop, remote_disconnected, err, threads,
                 takion, wire, user, history>>

(* Mutant: Takion is told to stop but not waited for.                      *)
JoinNot ==
  /\ pc = "join"
  /\ pc' = "free"
  /\ UNCHANGED <<wait, locked, state, flags, should_stop, remote_disconnected, err, threads,
                 takion, stop_pipe, wire, user, history>>

Join ==
  /\ pc = "join" /\ takion = "ended"
  /\ takion' = "joined"
  /\ pc' = "free"
  /\ UNCHANGED <<wait, locked, state, flags, should_stop, remote_disconnected, err, threads,
                 stop_pipe, wire, user, history>>

Free ==
  /\ pc = "free"
  /\ receivers' = FALSE
  /\ pc' = "returned"
  /\ UNCHANGED <<wait, locked, state, flags, should_stop, remote_disconnected, err, congestion,
                 feedback, crypt, takion, stop_pipe, wire, user, history>>

(* chiaki_stream_connection_fini, after the session thread was joined.     *)
Fini ==
  /\ pc = "returned" /\ user = "idle"
  /\ crypt' = FALSE /\ congestion' = FALSE
  /\ pc' = "finished"
  /\ UNCHANGED <<wait, locked, state, flags, should_stop, remote_disconnected, err, receivers,
                 feedback, takion, stop_pipe, wire, user, history>>

-----------------------------------------------------------------------------
(* The Takion thread.  CONNECTED and DISCONNECT count only while run waits *)
(* for the connection.                                                     *)
TakionEvent(ok) ==
  /\ ~locked
  /\ IF state = "TAKION_CONNECT"
     THEN state_finished' = ok /\ state_failed' = ~ok /\ Signal
     ELSE UNCHANGED <<flags, wait>>
  /\ UNCHANGED <<pc, locked, state, should_stop, remote_disconnected, err, threads,
                 stop_pipe, wire, user, history>>

TakionConnect ==
  /\ takion = "connecting" /\ ~stop_pipe
  /\ takion' = "running"
  /\ TakionEvent(TRUE)

(* The handshake fails, the socket fails, or the stop pipe ends it.        *)
TakionEnd ==
  /\ takion \in {"connecting", "running"}
  /\ takion' = "ended"
  /\ TakionEvent(FALSE)

Delivers(m) ==
  /\ takion = "running" /\ ~locked
  /\ inbox # << >> /\ Head(inbox) = m
  /\ inbox' = Tail(inbox)
  /\ UNCHANGED <<pc, locked, state, should_stop, err, receivers, congestion, feedback,
                 takion, stop_pipe, console, user, early>>

(* BANG is taken in state EXPECT_BANG only: it sets up the keys, or fails. *)
DataBang ==
  /\ Delivers("BANG")
  /\ IF state = "EXPECT_BANG"
     THEN /\ \/ state_finished' = TRUE /\ crypt' = TRUE /\ UNCHANGED state_failed
             \/ state_failed' = TRUE /\ UNCHANGED <<state_finished, crypt>>
          /\ Signal
     ELSE UNCHANGED <<flags, crypt, wait>>
  /\ UNCHANGED <<remote_disconnected, info>>

(* STREAMINFO likewise in state EXPECT_STREAMINFO; elsewhere it is logged  *)
(* as unexpected and dropped.                                              *)
DataStreaminfo ==
  /\ Delivers("STREAMINFO")
  /\ IF state = "EXPECT_STREAMINFO"
     THEN /\ \/ state_finished' = TRUE /\ UNCHANGED state_failed
             \/ state_failed' = TRUE /\ UNCHANGED state_finished
          /\ Signal
     ELSE UNCHANGED <<flags, wait>>
  /\ info' = TRUE
  /\ UNCHANGED <<remote_disconnected, crypt>>

(* DISCONNECT is taken in every state.                                     *)
DataDisconnect ==
  /\ Delivers("DISCONNECT")
  /\ remote_disconnected' = TRUE
  /\ Signal
  /\ UNCHANGED <<flags, crypt, info>>

-----------------------------------------------------------------------------
(* The console.                                                            *)
ConsoleSends(m, then) ==
  /\ inbox' = Append(inbox, m)
  /\ console' = then
  /\ UNCHANGED <<pc, wait, locked, state, flags, should_stop, remote_disconnected, err, threads,
                 takion, stop_pipe, user, history>>

Console ==
  \/ console = "bang" /\ ConsoleSends("BANG", "streaminfo")
  \/ console = "streaminfo" /\ ConsoleSends("STREAMINFO", "stream")
  \/ takion = "running" /\ console # "gone" /\ ConsoleSends("DISCONNECT", "gone")

(* chiaki_stream_connection_stop, called by chiaki_session_stop: the       *)
(* signal comes after the mutex was released.                              *)
StopCall ==
  /\ user = "idle" /\ ~should_stop /\ pc # "finished"
  /\ user' = "lock"
  /\ UNCHANGED <<pc, wait, locked, state, flags, should_stop, remote_disconnected, err, threads,
                 takion, stop_pipe, wire, history>>

StopSet ==
  /\ user = "lock" /\ ~locked
  /\ should_stop' = TRUE
  /\ user' = "signal"
  /\ UNCHANGED <<pc, wait, locked, state, flags, remote_disconnected, err, threads,
                 takion, stop_pipe, wire, history>>

StopSignal ==
  /\ user = "signal"
  /\ Signal
  /\ user' = "idle"
  /\ UNCHANGED <<pc, locked, state, flags, should_stop, remote_disconnected, err, threads,
                 takion, stop_pipe, wire, history>>

-----------------------------------------------------------------------------
Run == \/ Connect \/ ConnectNoReceivers \/ ConnectNoTakion \/ ConnectNoCongestion
       \/ TakionConnected \/ BangReceived \/ StreaminfoReceived \/ SendConnected
       \/ Heartbeat \/ LoopEnds
       \/ Disconnect \/ StopCongestion \/ Close \/ Join \/ Free
Data == DataBang \/ DataStreaminfo \/ DataDisconnect
User == StopCall \/ StopSet \/ StopSignal

Next == \/ Run \/ Sleep \/ Expire \/ Spurious \/ Fini
        \/ TakionConnect \/ TakionEnd \/ Data
        \/ Console \/ User

Spec == Init /\ [][Next]_vars

(* The session thread runs and its waits expire; the Takion thread handles *)
(* what arrives and ends when its stop pipe is stopped; a stop that was    *)
(* called goes on.  None of them is kept from the mutex for ever by the    *)
(* short critical sections of the others.                                  *)
FairSpec ==
  /\ Spec
  /\ WF_vars(Run) /\ WF_vars(Sleep) /\ WF_vars(Expire)
  /\ WF_vars(stop_pipe /\ TakionEnd) /\ WF_vars(Data)
  /\ SF_vars(StopSet) /\ WF_vars(StopSignal)

-----------------------------------------------------------------------------
Errors == {"SUCCESS", "UNKNOWN", "NETWORK", "THREAD", "TIMEOUT", "CANCELED", "DISCONNECTED"}
Labels == {"start", "connected", "disconnect", "stop_congestion", "close", "join", "free", "returned", "finished"}

(* The state is well typed, and run waits exactly at its four waits.       *)
TypeOK ==
  /\ pc \in Waits \cup Labels
  /\ wait \in {"no", "asleep", "woken", "expired"}
  /\ pc \in Waits <=> wait # "no"
  /\ state \in {"IDLE", "TAKION_CONNECT", "EXPECT_BANG", "EXPECT_STREAMINFO"}
  /\ \A b \in {locked, state_finished, state_failed, should_stop, remote_disconnected, receivers,
               congestion, feedback, crypt, stop_pipe, info, early} : b \in BOOLEAN
  /\ err \in Errors
  /\ takion \in {"none", "connecting", "running", "ended", "joined"}
  /\ inbox \in Seq({"BANG", "STREAMINFO", "DISCONNECT"})
  /\ console \in {"quiet", "bang", "streaminfo", "stream", "gone"}
  /\ user \in {"idle", "lock", "signal"}

(* run does not sleep through the end of its wait: when the condition it   *)
(* waits for holds, it has been woken or a stop is about to signal it, and *)
(* so it never depends on its timeout to notice.                           *)
NoOversleep == wait = "asleep" /\ Finished => user = "signal"

(* The tear-down keeps its order.  The receivers that the callbacks of the *)
(* Takion thread use are there as long as it may call back.  The           *)
(* congestion control thread, which sends through Takion, ends before      *)
(* Takion is closed, on every path but that of a stop seen while run waits *)
(* for Takion to connect; there chiaki_stream_connection_fini ends it.     *)
TornDownInOrder ==
  /\ takion \in {"connecting", "running", "ended"} => receivers
  /\ takion = "joined" /\ congestion => early

(* CONNECTED is only reported, and feedback only sent, when the keys are   *)
(* set up and STREAMINFO was handled.                                      *)
ConnectedIsReady == pc \in {"connected", "wait_loop"} \/ feedback => crypt /\ info

(* The order of a run, from its first wait to its tear-down.               *)
RunInOrder == NoOversleep /\ TornDownInOrder /\ ConnectedIsReady

(* What the session sees of run, and what it relies on: module StreamRun.  *)
Returned == pc \in {"returned", "finished"}
Abstract == INSTANCE StreamRun WITH
  phase  <- IF Returned THEN "returned" ELSE IF pc = "start" THEN "idle" ELSE "running",
  result <- IF Returned THEN err ELSE "none",
  stop   <- should_stop,
  remote <- remote_disconnected

(* run implements StreamRun: it returns once; DISCONNECTED only when the   *)
(* console has ended the stream, so that there is a reason for the session *)
(* to compare; CANCELED and success only after a stop; and a stop ends it, *)
(* wherever it is and whatever Takion and the console do.                  *)
Implements == Abstract!Spec

(* What run logs when it gives up on STREAMINFO: "StreamConnection didn't  *)
(* receive streaminfo".                                                    *)
InfoNotMissed == pc = "wait_streaminfo" /\ wait = "expired" /\ ~Finished /\ ~state_failed => ~info
=============================================================================
