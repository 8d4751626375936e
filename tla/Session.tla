------------------------------- MODULE Session -------------------------------
(***************************************************************************)
(* The session of lib/src/session.c: the session thread from the session   *)
(* request over the login, the connection test and the stream to the QUIT  *)
(* event, with the ctrl thread of module Ctrl beside it, the registration  *)
(* thread of a PSN connection, the stream connection as StreamRun promises *)
(* it, and a user who enters login PINs and may stop the session.          *)
(*                                                                         *)
(* The session thread holds state_mutex except in its waits, while it      *)
(* connects or receives for the session request and while it runs the      *)
(* stream.  What it does between two places where it waits for something   *)
(* is one step.                                                            *)
(***************************************************************************)
EXTENDS Ctrl

CONSTANT Addresses   \* how many addresses the host name has

ASSUME AddressesAssumption == Addresses \in Nat

VARIABLES
  psn,                   \* connect_info has a holepunch session
  pc,                    \* where the session thread is
  session_stop,          \* session->should_stop (and its stop_pipe)
  psn_regist_succeeded, regist,
  login_pin,             \* session->login_pin_entered
  asked, entered,        \* LOGIN_PIN_REQUEST events sent, PINs entered
  ai,                    \* addresses not tried yet
  attempt, server_target,\* session requests made; the server's version is known
  events,                \* history: QUIT events sent
  stopped,               \* history: the user stopped the session
  phase, result, stream_stop, remote

Stream == INSTANCE StreamRun WITH stop <- stream_stop

sessionVars == <<psn, pc, locked, rudp, session_stop, psn_regist_succeeded, regist, login_pin,
                 asked, entered, ai, attempt, server_target, events, stopped>>
stream == <<phase, result, stream_stop, remote>>
vars == <<ctrlVars, sessionVars, stream>>

Reasons == {"NONE", "STOPPED", "SESSION_REQUEST_UNKNOWN", "SESSION_REQUEST_CONNECTION_REFUSED",
            "SESSION_REQUEST_RP_IN_USE", "SESSION_REQUEST_RP_CRASH",
            "SESSION_REQUEST_RP_VERSION_MISMATCH", "CTRL_UNKNOWN", "CTRL_CONNECT_FAILED",
            "CTRL_CONNECTION_REFUSED", "STREAM_CONNECTION_UNKNOWN",
            "STREAM_CONNECTION_REMOTE_DISCONNECTED", "STREAM_CONNECTION_REMOTE_SHUTDOWN",
            "PSN_REGIST_FAILED"}

(* chiaki_session_init.                                                    *)
Init ==
  /\ CtrlInit /\ Stream!Init
  /\ psn \in BOOLEAN /\ rudp = FALSE
  /\ pc = "start" /\ locked = FALSE /\ wait = "no"
  /\ quit_reason = "NONE" /\ ctrl_failed = FALSE /\ session_stop = FALSE
  /\ ctrl_session_id_received = FALSE /\ ctrl_login_pin_requested = FALSE
  /\ stream_connection_switch_received = FALSE /\ session_id = "none"
  /\ psn_regist_succeeded = FALSE /\ regist = "none"
  /\ login_pin = FALSE /\ asked = 0 /\ entered = 0
  /\ ai = IF psn THEN 0 ELSE Addresses
  /\ attempt = 0 /\ server_target = FALSE
  /\ events = 0 /\ stopped = FALSE

-----------------------------------------------------------------------------
(* The predicates of the waits.                                            *)
Pred(at) ==
  \/ session_stop
  \/ ctrl_failed
  \/ at = "wait_regist" /\ psn_regist_succeeded
  \/ at \in {"wait_ctrl", "wait_pin_result", "wait_punched"}
     /\ (ctrl_session_id_received \/ ctrl_login_pin_requested)
  \/ at = "wait_pin" /\ login_pin
  \/ at = "wait_switch" /\ stream_connection_switch_received

Waits == {"wait_regist", "wait_settle", "wait_ctrl", "wait_pin", "wait_pin_result", "wait_punched", "wait_switch"}

(* The wait of the session thread is over: its predicate holds, or its     *)
(* time is up.  The wait for a login PIN has no end.                       *)
Over(at) ==
  /\ pc = at
  /\ \/ wait = "woken" /\ Pred(at)
     \/ wait = "expired"

Sleep ==
  /\ wait = "woken" /\ ~Pred(pc)
  /\ wait' = "asleep"
  /\ UNCHANGED <<session_flags, cpc, notif, login_pin_requested, recv_buf, peer, heartbeats, pins,
                 sessionVars, stream>>

Expire ==
  /\ wait = "asleep" /\ pc # "wait_pin"
  /\ wait' = "expired"
  /\ UNCHANGED <<session_flags, cpc, notif, login_pin_requested, recv_buf, peer, heartbeats, pins,
                 sessionVars, stream>>

(* Where the thread goes: to a wait, which releases the mutex; to a place  *)
(* where it holds it; or to one where it has released it.                  *)
Goto(at) ==
  /\ pc' = at
  /\ locked' = (at \in {"request", "join_regist", "forward_pin", "punch", "senkusha"})
  /\ wait' = IF at \in Waits THEN "woken" ELSE "no"

(* CHECK_STOP: a stop overrides whatever reason there was.                 *)
StopsAt(label) ==
  /\ session_stop
  /\ quit_reason' = "STOPPED"
  /\ Goto(label)

(* QUIT with the reason that is there, or with a reason of its own.        *)
Quits(label, reason) == quit_reason' = reason /\ Goto(label)

otherFlags == <<ctrl_failed, ctrl_session_id_received, stream_connection_switch_received>>
ctrlOwn == <<cpc, notif, login_pin_requested, recv_buf, peer, heartbeats, pins>>

-----------------------------------------------------------------------------
(* session_thread_func up to the session request.  With PSN a RUDP         *)
(* instance is set up and a registration is run; should RUDP fail, the     *)
(* thread goes on without any address.                                     *)
Start ==
  /\ pc = "start"
  /\ \/ StopsAt("quit") /\ UNCHANGED <<rudp, regist>>
     \/ ~session_stop /\ ~psn /\ Quits("request", quit_reason) /\ UNCHANGED <<rudp, regist>>
     \/ /\ ~session_stop /\ psn
        /\ Quits("wait_regist", quit_reason)
        /\ rudp' = TRUE /\ regist' = "running"
     \/ ~session_stop /\ psn /\ Quits("request", quit_reason) /\ UNCHANGED <<rudp, regist>>
  /\ UNCHANGED <<otherFlags, ctrl_login_pin_requested, session_id, ctrlOwn, psn, session_stop,
                 psn_regist_succeeded, login_pin, asked, entered, ai, attempt, server_target, events, stopped, stream>>

(* The wait for the registration is over, by whatever end: the thread is   *)
(* stopped and joined with state_mutex held.                               *)
RegistWaited ==
  /\ Over("wait_regist")
  /\ Goto("join_regist")
  /\ UNCHANGED <<session_flags, ctrlOwn, psn, rudp, session_stop, psn_regist_succeeded, regist, login_pin,
                 asked, entered, ai, attempt, server_target, events, stopped, stream>>

RegistJoined ==
  /\ pc = "join_regist" /\ regist = "ended"
  /\ regist' = "joined"
  /\ \/ StopsAt("quit")
     \/ ~session_stop /\ Quits("request", quit_reason)
  /\ UNCHANGED <<otherFlags, ctrl_login_pin_requested, session_id, ctrlOwn, psn, rudp, session_stop,
                 psn_regist_succeeded, login_pin, asked, entered, ai, attempt, server_target, events, stopped, stream>>

(* The registration thread, and regist_cb on it.                           *)
RegistEnds ==
  /\ regist = "running" /\ ~locked
  /\ \/ psn_regist_succeeded' = TRUE /\ UNCHANGED <<quit_reason, session_stop>>
     \/ quit_reason' = "PSN_REGIST_FAILED" /\ session_stop' = TRUE /\ UNCHANGED psn_regist_succeeded
  /\ regist' = "ended"
  /\ SignalSession
  /\ UNCHANGED <<otherFlags, ctrl_login_pin_requested, session_id, ctrlOwn, psn, pc, locked, rudp,
                 login_pin, asked, entered, ai, attempt, server_target, events, stopped, stream>>

-----------------------------------------------------------------------------
(* session_thread_request_session, in three parts.  The first finds a      *)
(* console to ask: without PSN one address after the other, each left for  *)
(* the next when it refuses or fails; with PSN by two RUDP exchanges.      *)
Request ==
  /\ pc = "request"
  /\ \/ ~rudp /\ ai > 0 /\ Quits("connecting", quit_reason) /\ ai' = ai - 1
     \/ /\ ~rudp /\ ai = 0
        /\ Quits("quit", IF quit_reason = "NONE" THEN "SESSION_REQUEST_UNKNOWN" ELSE quit_reason)
        /\ UNCHANGED ai
     \/ rudp /\ Quits("receiving", quit_reason) /\ UNCHANGED ai
     \/ rudp /\ Quits("quit", quit_reason) /\ UNCHANGED ai
  /\ attempt' = IF pc' = "receiving" THEN attempt + 1 ELSE attempt
  /\ UNCHANGED <<otherFlags, ctrl_login_pin_requested, session_id, ctrlOwn, psn, rudp, session_stop,
                 psn_regist_succeeded, regist, login_pin, asked, entered, server_target, events, stopped, stream>>

(* A stop while connecting leaves STOPPED as the reason.                   *)
Connecting ==
  /\ pc = "connecting"
  /\ \/ session_stop /\ Quits("quit", "STOPPED")
     \/ \E r \in {"SESSION_REQUEST_CONNECTION_REFUSED", "NONE", quit_reason} : Quits("request", r)
     \/ Quits("receiving", quit_reason)
     \/ Quits("quit", "SESSION_REQUEST_UNKNOWN")
  /\ attempt' = IF pc' = "receiving" THEN attempt + 1 ELSE attempt
  /\ UNCHANGED <<otherFlags, ctrl_login_pin_requested, session_id, ctrlOwn, psn, rudp, session_stop,
                 psn_regist_succeeded, regist, login_pin, asked, entered, ai, server_target, events, stopped, stream>>

(* What the response and its reading come to: an error and a reason.       *)
Responses(known) ==
  { <<"SUCCESS", quit_reason, known>>,
    <<"NETWORK", "SESSION_REQUEST_UNKNOWN", known>>,
    <<"UNKNOWN", "SESSION_REQUEST_UNKNOWN", known>>,
    <<"UNKNOWN", "SESSION_REQUEST_RP_IN_USE", known>>,
    <<"UNKNOWN", "SESSION_REQUEST_RP_CRASH", known>>,
    <<"VERSION_MISMATCH", "SESSION_REQUEST_RP_VERSION_MISMATCH", known>> }
  \cup (IF attempt = 3 THEN {}
        ELSE { <<"VERSION_MISMATCH", quit_reason, TRUE>>,
               <<"VERSION_MISMATCH", "SESSION_REQUEST_RP_VERSION_MISMATCH", FALSE>> })
  \cup (IF session_stop /\ ~rudp THEN {<<"NETWORK", "STOPPED", known>>} ELSE {})
  \cup (IF rudp THEN {<<"NETWORK", quit_reason, known>>} ELSE {})

(* The response.  A version mismatch is answered with the version of the   *)
(* server, if it is a known one, twice.  The locals of the request are     *)
(* dead after it.                                                          *)
Receiving ==
  /\ pc = "receiving"
  /\ \E r \in Responses(server_target) :
       IF r[1] = "VERSION_MISMATCH" /\ r[3] /\ attempt < 3
       THEN /\ Quits("request", r[2])
            /\ ai' = IF psn THEN 0 ELSE Addresses
            /\ server_target' = r[3] /\ UNCHANGED attempt
       ELSE /\ Quits(IF r[1] = "SUCCESS" THEN "wait_settle" ELSE "quit", r[2])
            /\ ai' = 0 /\ server_target' = FALSE /\ attempt' = 0
  /\ UNCHANGED <<otherFlags, ctrl_login_pin_requested, session_id, ctrlOwn, psn, rudp, session_stop,
                 psn_regist_succeeded, regist, login_pin, asked, entered, events, stopped, stream>>

-----------------------------------------------------------------------------
(* The ctrl thread is started, stop or not.                                *)
StartCtrl ==
  /\ Over("wait_settle")
  /\ \/ Goto("wait_ctrl") /\ cpc' = "start"
     \/ Goto("quit") /\ UNCHANGED cpc
  /\ UNCHANGED <<session_flags, notif, login_pin_requested, recv_buf, peer, heartbeats, pins,
                 psn, rudp, session_stop, psn_regist_succeeded, regist, login_pin, asked, entered, ai, attempt,
                 server_target, events, stopped, stream>>

(* The label ctrl_failed.                                                  *)
CtrlFailed == Quits("stop_ctrl", IF quit_reason = "NONE" THEN "CTRL_UNKNOWN" ELSE quit_reason)

(* After the login: with PSN a hole is punched for the data; without a     *)
(* session id one is made up.                                              *)
AfterLogin ==
  IF rudp THEN Goto("punch")
  ELSE Goto(IF ctrl_session_id_received THEN "senkusha" ELSE "fallback")

(* The head of the PIN loop: a request is taken and the user is asked, or  *)
(* the login is over.                                                      *)
PinLoop ==
  /\ IF ctrl_login_pin_requested
     THEN ctrl_login_pin_requested' = FALSE /\ asked' = asked + 1 /\ Goto("wait_pin")
     ELSE UNCHANGED <<ctrl_login_pin_requested, asked>> /\ AfterLogin
  /\ UNCHANGED quit_reason

CtrlWaited ==
  /\ Over("wait_ctrl")
  /\ \/ StopsAt("stop_ctrl") /\ UNCHANGED <<ctrl_login_pin_requested, asked>>
     \/ ~session_stop /\ ctrl_failed /\ CtrlFailed /\ UNCHANGED <<ctrl_login_pin_requested, asked>>
     \/ ~session_stop /\ ~ctrl_failed /\ PinLoop
  /\ UNCHANGED <<otherFlags, session_id, ctrlOwn, psn, rudp, session_stop, psn_regist_succeeded, regist,
                 login_pin, entered, ai, attempt, server_target, events, stopped, stream>>

PinEntered ==
  /\ Over("wait_pin")
  /\ \/ StopsAt("stop_ctrl")
     \/ ~session_stop /\ ctrl_failed /\ CtrlFailed
     \/ ~session_stop /\ ~ctrl_failed /\ Quits("forward_pin", quit_reason)
  /\ UNCHANGED <<otherFlags, ctrl_login_pin_requested, session_id, ctrlOwn, psn, rudp, session_stop,
                 psn_regist_succeeded, regist, login_pin, asked, entered, ai, attempt, server_target, events,
                 stopped, stream>>

(* Mutant: the PIN is left as entered.                                     *)
ForwardPinKeeps ==
  /\ pc = "forward_pin"
  /\ CtrlSetLoginPin
  /\ Goto("wait_pin_result")
  /\ UNCHANGED <<session_flags, psn, rudp, session_stop, psn_regist_succeeded, regist, login_pin, asked, entered,
                 ai, attempt, server_target, events, stopped, stream>>

(* The PIN goes to the ctrl thread, whose mutex is taken inside state_mutex*)
ForwardPin ==
  /\ pc = "forward_pin"
  /\ CtrlSetLoginPin
  /\ login_pin' = FALSE
  /\ Goto("wait_pin_result")
  /\ UNCHANGED <<session_flags, psn, rudp, session_stop, psn_regist_succeeded, regist, asked, entered, ai, attempt,
                 server_target, events, stopped, stream>>

(* A PIN that is neither refused nor accepted in time ends the loop too,   *)
(* and so does a ctrl thread that has failed.                              *)
PinResult ==
  /\ Over("wait_pin_result")
  /\ \/ StopsAt("stop_ctrl") /\ UNCHANGED <<ctrl_login_pin_requested, asked>>
     \/ ~session_stop /\ PinLoop
  /\ UNCHANGED <<otherFlags, session_id, ctrlOwn, psn, rudp, session_stop, psn_regist_succeeded, regist,
                 login_pin, entered, ai, attempt, server_target, events, stopped, stream>>

(* The hole for the data connection is punched with state_mutex held.      *)
Punch ==
  /\ pc = "punch"
  /\ Goto("wait_punched") \/ Goto("stop_ctrl")
  /\ UNCHANGED <<session_flags, ctrlOwn, psn, rudp, session_stop, psn_regist_succeeded, regist, login_pin,
                 asked, entered, ai, attempt, server_target, events, stopped, stream>>

Punched ==
  /\ Over("wait_punched")
  /\ \/ StopsAt("stop_ctrl")
     \/ /\ ~session_stop
        /\ Quits(IF ctrl_session_id_received THEN "senkusha" ELSE "fallback", quit_reason)
  /\ UNCHANGED <<otherFlags, ctrl_login_pin_requested, session_id, ctrlOwn, psn, rudp, session_stop,
                 psn_regist_succeeded, regist, login_pin, asked, entered, ai, attempt, server_target, events,
                 stopped, stream>>

(* ctrl_message_set_fallback_session_id, called without state_mutex: the   *)
(* check and the copy are one step, the flag is another.                   *)
Fallback ==
  /\ pc = "fallback"
  /\ \/ ctrl_session_id_received /\ Quits("senkusha", quit_reason) /\ UNCHANGED session_id
     \/ ~ctrl_session_id_received /\ session_id' = "fallback" /\ Quits("fallback_set", quit_reason)
     \/ CtrlFailed /\ UNCHANGED session_id
  /\ UNCHANGED <<otherFlags, ctrl_login_pin_requested, ctrlOwn, psn, rudp, session_stop, psn_regist_succeeded,
                 regist, login_pin, asked, entered, ai, attempt, server_target, events, stopped, stream>>

FallbackSet ==
  /\ pc = "fallback_set"
  /\ ctrl_session_id_received' = TRUE
  /\ Goto("senkusha")
  /\ UNCHANGED <<quit_reason, ctrl_failed, ctrl_login_pin_requested, stream_connection_switch_received,
                 session_id, ctrlOwn, psn, rudp, session_stop, psn_regist_succeeded, regist, login_pin, asked, entered,
                 ai, attempt, server_target, events, stopped, stream>>

-----------------------------------------------------------------------------
(* The connection test holds state_mutex to its end; failed or not, the    *)
(* session goes on.  Random bytes or the key exchange may fail.            *)
Senkusha ==
  /\ pc = "senkusha"
  /\ \/ rudp /\ Goto("wait_switch") /\ UNCHANGED phase
     \/ ~rudp /\ Goto("stream") /\ phase' = "running"
     \/ Goto("stop_ctrl") /\ UNCHANGED phase
  /\ UNCHANGED <<session_flags, ctrlOwn, psn, rudp, session_stop, psn_regist_succeeded, regist, login_pin,
                 asked, entered, ai, attempt, server_target, events, stopped, result, stream_stop, remote>>

SwitchWaited ==
  /\ Over("wait_switch")
  /\ \/ ~stream_connection_switch_received /\ Quits("stop_ctrl", quit_reason) /\ UNCHANGED phase
     \/ stream_connection_switch_received /\ StopsAt("stop_ctrl") /\ UNCHANGED phase
     \/ /\ stream_connection_switch_received /\ ~session_stop
        /\ Quits("stream", quit_reason) /\ phase' = "running"
  /\ UNCHANGED <<otherFlags, ctrl_login_pin_requested, session_id, ctrlOwn, psn, rudp, session_stop,
                 psn_regist_succeeded, regist, login_pin, asked, entered, ai, attempt, server_target, events, stopped,
                 result, stream_stop, remote>>

(* The stream runs without state_mutex.                                    *)
StreamSteps ==
  /\ pc = "stream"
  /\ Stream!Remote \/ Stream!Return
  /\ UNCHANGED <<ctrlVars, sessionVars>>

(* Mutant: only DISCONNECTED is told from the rest.                        *)
StreamEndedStopped ==
  /\ pc = "stream" /\ phase = "returned"
  /\ \/ result = "DISCONNECTED" /\ Quits("stop_ctrl", "STREAM_CONNECTION_REMOTE_DISCONNECTED")
     \/ result # "DISCONNECTED" /\ Quits("stop_ctrl", "STOPPED")
  /\ UNCHANGED <<otherFlags, ctrl_login_pin_requested, session_id, ctrlOwn, psn, rudp, session_stop,
                 psn_regist_succeeded, regist, login_pin, asked, entered, ai, attempt, server_target, events,
                 stopped, stream>>

StreamEnded ==
  /\ pc = "stream" /\ phase = "returned"
  /\ \/ result = "DISCONNECTED" /\ Quits("stop_ctrl", "STREAM_CONNECTION_REMOTE_SHUTDOWN")
     \/ result = "DISCONNECTED" /\ Quits("stop_ctrl", "STREAM_CONNECTION_REMOTE_DISCONNECTED")
     \/ result \in {"SUCCESS", "CANCELED"} /\ Quits("stop_ctrl", "STOPPED")
     \/ result \in Stream!Failed /\ Quits("stop_ctrl", "STREAM_CONNECTION_UNKNOWN")
  /\ UNCHANGED <<otherFlags, ctrl_login_pin_requested, session_id, ctrlOwn, psn, rudp, session_stop,
                 psn_regist_succeeded, regist, login_pin, asked, entered, ai, attempt, server_target, events,
                 stopped, stream>>

(* The labels quit_ctrl and quit.                                          *)
StopCtrl ==
  /\ pc = "stop_ctrl"
  /\ CtrlStop
  /\ Goto("join_ctrl")
  /\ UNCHANGED <<session_flags, psn, rudp, session_stop, psn_regist_succeeded, regist, login_pin, asked, entered, ai,
                 attempt, server_target, events, stopped, stream>>

JoinCtrl ==
  /\ pc = "join_ctrl" /\ cpc = "done"
  /\ Goto("quit")
  /\ UNCHANGED <<session_flags, ctrlOwn, psn, rudp, session_stop, psn_regist_succeeded, regist, login_pin, asked, entered,
                 ai, attempt, server_target, events, stopped, stream>>

Quit ==
  /\ pc = "quit"
  /\ events' = events + 1
  /\ Goto("ended")
  /\ UNCHANGED <<session_flags, ctrlOwn, psn, rudp, session_stop, psn_regist_succeeded, regist, login_pin, asked, entered,
                 ai, attempt, server_target, stopped, stream>>

-----------------------------------------------------------------------------
(* chiaki_session_stop and chiaki_session_set_login_pin.                   *)
SessionStop ==
  /\ ~locked /\ ~stopped /\ pc # "ended"
  /\ session_stop' = TRUE /\ stream_stop' = TRUE /\ stopped' = TRUE
  /\ SignalSession
  /\ UNCHANGED <<session_flags, ctrlOwn, psn, pc, locked, rudp, psn_regist_succeeded, regist, login_pin, asked, entered,
                 ai, attempt, server_target, events, phase, result, remote>>

SetLoginPin ==
  /\ ~locked /\ entered < asked /\ entered < MaxPins
  /\ login_pin' = TRUE /\ entered' = entered + 1
  /\ SignalSession
  /\ UNCHANGED <<session_flags, ctrlOwn, psn, pc, locked, rudp, session_stop, psn_regist_succeeded, regist,
                 asked, ai, attempt, server_target, events, stopped, stream>>

-----------------------------------------------------------------------------
SessionThread ==
  \/ Start \/ RegistWaited \/ RegistJoined \/ Request \/ Connecting \/ Receiving \/ StartCtrl
  \/ CtrlWaited \/ PinEntered \/ ForwardPin \/ PinResult \/ Punch \/ Punched
  \/ Fallback \/ FallbackSet \/ Senkusha \/ SwitchWaited \/ StreamEnded
  \/ StopCtrl \/ JoinCtrl \/ Quit

Apart(A) == A /\ UNCHANGED <<sessionVars, stream>>
CtrlSteps == Apart(CtrlThread)

Next ==
  \/ SessionThread \/ Sleep \/ Expire \/ RegistEnds \/ StreamSteps
  \/ CtrlSteps \/ Apart(SelectClosed) \/ Apart(Console)
  \/ Apart(SendMessage) \/ Apart(SendMessageWrites)
  \/ SessionStop \/ SetLoginPin

Spec == Init /\ [][Next]_vars

(* The threads run, the waits that have a timeout expire, RUDP gives up,   *)
(* and the stream ends after a stop.  Nothing is assumed of the console,   *)
(* of the user or of the sockets: a select without end may last.           *)
FairSpec ==
  /\ Spec
  /\ WF_vars(SessionThread) /\ WF_vars(Sleep) /\ WF_vars(Expire)
  /\ WF_vars(RegistEnds) /\ WF_vars(stream_stop /\ StreamSteps)
  /\ WF_vars(CtrlSteps) /\ WF_vars(Apart(SendMessageWrites))
-----------------------------------------------------------------------------
(* The state of the session and of its ctrl is well typed, and the session *)
(* thread waits on state_cond exactly at its waits, without the mutex.     *)
TypeOK ==
  /\ CtrlTypeOK
  /\ quit_reason \in Reasons
  /\ wait \in {"no", "asleep", "woken", "expired"}
  /\ pc \in Waits <=> wait # "no"
  /\ pc \in Waits => ~locked
  /\ \A b \in {psn, session_stop, psn_regist_succeeded, login_pin, server_target, stopped} : b \in BOOLEAN
  /\ regist \in {"none", "running", "ended", "joined"}
  /\ asked \in Nat /\ entered \in 0 .. MaxPins /\ ai \in 0 .. Addresses /\ attempt \in 0 .. 3

(* The reason of the QUIT event is true: STOPPED only after a stop or a    *)
(* failed registration, the console ended the stream only if it did, a     *)
(* reason of the ctrl thread only if that failed.                          *)
ReasonIsTrue ==
  pc = "ended" =>
    /\ quit_reason = "STOPPED" => session_stop
    /\ quit_reason \in {"STREAM_CONNECTION_REMOTE_SHUTDOWN", "STREAM_CONNECTION_REMOTE_DISCONNECTED"} => remote
    /\ quit_reason = "CTRL_CONNECT_FAILED" => ctrl_failed

(* The console gets no login PIN twice: every PIN it got was entered.      *)
PinsSentOnce == pins <= entered

(* QUIT is the last event: after it no thread of the session runs that     *)
(* could call back.                                                        *)
QuitIsLast ==
  pc = "ended" => events = 1 /\ cpc \in {"none", "done"} /\ regist \in {"none", "joined"}

(* The user and the console are told each thing once.                      *)
ToldOnce == QuitIsLast /\ PinsSentOnce

(* The three ways in which a stop may not end the session.  The session    *)
(* thread joins the registration thread with the mutex held that its       *)
(* callback needs; it forwards a PIN while the ctrl thread holds           *)
(* notif_mutex and waits for state_mutex; the ctrl thread resets its pipe  *)
(* for a PIN that was sent together with the stop.                         *)
WantsState == \/ cpc \in {"report_unknown", "report_refused", "report_connect", "report_loop",
                          "set_session_id", "set_login_pin_requested", "set_switch"}
              \/ Handles("FINISH")
RegistDeadlock == pc = "join_regist" /\ regist = "running"
PinDeadlock == pc = "forward_pin" /\ WantsState
StopLost == pc = "join_ctrl" /\ cpc = "select" /\ ~notif_pipe /\ pins > 0

(* A stop ends the session, whatever the console does, or one of the three *)
(* happens.                                                                *)
StopEnds == stopped ~> (pc = "ended" \/ RegistDeadlock \/ PinDeadlock \/ StopLost)

(* A heartbeat request is answered as long as the ctrl thread runs, unless *)
(* it spins on a pipe that a message wrote after it had been sent.         *)
Spins == cpc = "select" /\ notif_pipe /\ msg_queue = 0 /\ queued > 0
HeartbeatAnswered == heartbeats > 0 ~> (heartbeats = 0 \/ cpc = "done" \/ PinDeadlock \/ Spins)
=============================================================================
