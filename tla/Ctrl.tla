-------------------------------- MODULE Ctrl --------------------------------
(***************************************************************************)
(* The control connection of lib/src/ctrl.c: the ctrl thread that connects *)
(* to the console, receives its messages and sends what other threads ask  *)
(* for, and the calls by which they ask.                                   *)
(*                                                                         *)
(* The thread holds notif_mutex except while it connects and in its select;*)
(* it takes the session's state_mutex inside it to report to the session.  *)
(* Two locks are therefore state functions: NotifHeld is a function of     *)
(* cpc, and locked says that the session thread holds state_mutex between  *)
(* two of its steps.  The other critical sections are one step each, with  *)
(* the signal that follows them.  Messages are kinds, and what arrives in  *)
(* pieces counts when it is whole.                                         *)
(***************************************************************************)
EXTENDS Naturals, Sequences

CONSTANTS
  MaxPins,      \* how many login PINs the user enters
  MaxMessages,  \* how many messages other threads queue
  MaxExtra      \* how many messages the console sends beyond the login

ASSUME CtrlAssumption == MaxPins \in Nat /\ MaxMessages \in Nat /\ MaxExtra \in Nat

VARIABLES
  \* of the session, written by the ctrl thread
  locked,                    \* the session thread holds state_mutex
  wait,                      \* the session thread's wait on state_cond
  rudp,                      \* session->rudp is set: a connection through PSN
  quit_reason, ctrl_failed, ctrl_session_id_received,
  ctrl_login_pin_requested, stream_connection_switch_received,
  session_id,                \* "none", "console" or "fallback"
  \* of the ctrl
  cpc,                       \* where the ctrl thread is
  should_stop,               \* ctrl->should_stop
  login_pin_entered, login_pin_requested,
  notif_pipe,                \* the stop pipe is written and not reset
  msg_queue,                 \* number of messages in msg_queue
  unwritten,                 \* messages queued whose sender has still to write the pipe
  queued,                    \* messages queued so far
  recv_buf,                  \* messages received and not handled
  \* the console and the wire
  wire, console, extra,
  heartbeats,                \* heartbeat requests received minus replies sent
  pins                       \* login PINs the console got

session_flags == <<quit_reason, ctrl_failed, ctrl_session_id_received,
                   ctrl_login_pin_requested, stream_connection_switch_received, session_id>>
notif == <<should_stop, login_pin_entered, notif_pipe, msg_queue, unwritten, queued>>
peer == <<wire, console, extra>>
ctrlVars == <<session_flags, wait, cpc, notif, login_pin_requested, recv_buf, peer,
              heartbeats, pins>>

Extras == {"HEARTBEAT_REQ", "OTHER", "FINISH", "LOGIN_PIN_REQ"}
Messages == Extras \cup {"SESSION_ID", "INVALID_SESSION_ID", "LOGIN_OK", "LOGIN_PIN_INCORRECT", "SWITCH"}

(* chiaki_ctrl_init.                                                       *)
CtrlInit ==
  /\ cpc = "none" /\ should_stop = FALSE
  /\ login_pin_entered = FALSE /\ login_pin_requested = FALSE
  /\ notif_pipe = FALSE /\ msg_queue = 0 /\ unwritten = 0 /\ queued = 0
  /\ recv_buf = << >>
  /\ wire = << >> /\ console = "listening" /\ extra = 0
  /\ heartbeats = 0 /\ pins = 0

(* The ctrl thread releases notif_mutex only while it connects and selects.*)
NotifHeld == cpc \notin {"none", "start", "connecting", "select", "done"}

SignalSession == wait' = IF wait = "asleep" THEN "woken" ELSE wait

-----------------------------------------------------------------------------
(* ctrl_failed: the reason and the flag are set under state_mutex.         *)
Report(at, reason, next) ==
  /\ cpc = at /\ ~locked
  /\ quit_reason' = reason /\ ctrl_failed' = TRUE
  /\ SignalSession
  /\ cpc' = next
  /\ UNCHANGED <<ctrl_session_id_received, ctrl_login_pin_requested, stream_connection_switch_received,
                 session_id, notif, login_pin_requested, recv_buf, peer, heartbeats, pins>>

CtrlGoes(next) ==
  /\ cpc' = next
  /\ UNCHANGED <<session_flags, wait, notif, login_pin_requested, recv_buf, heartbeats, pins>>

(* ctrl_connect.  Without PSN a socket is connected to the address the     *)
(* session found, with notif_mutex released and the pipe to cancel it; with*)
(* PSN two RUDP exchanges take its place.                                  *)
CtrlStart ==
  /\ cpc = "start"
  /\ \/ ~rudp /\ CtrlGoes("connecting")
     \/ ~rudp /\ CtrlGoes("report_unknown")
     \/ rudp /\ CtrlGoes("request")
     \/ CtrlGoes("report_connect")
  /\ UNCHANGED peer

CtrlConnecting ==
  /\ cpc = "connecting"
  /\ \/ ~notif_pipe /\ CtrlGoes("request")
     \/ notif_pipe /\ CtrlGoes("report_connect")
     \/ ~notif_pipe /\ CtrlGoes("report_refused")
     \/ ~notif_pipe /\ CtrlGoes("report_unknown")
  /\ UNCHANGED peer

(* The rest of ctrl_connect: the request and its response.  The response   *)
(* may say that the console cannot be shown.                               *)
CtrlRequest ==
  /\ cpc = "request"
  /\ \/ /\ notif_pipe => rudp
        /\ CtrlGoes("handle")
        /\ console' = "connected"
        /\ UNCHANGED <<wire, extra>>
     \/ CtrlGoes("report_connect") /\ UNCHANGED peer

(* What ctrl_connect reports itself is overwritten by what the thread      *)
(* function reports when it fails.                                         *)
ReportUnknown == Report("report_unknown", "CTRL_UNKNOWN", "report_connect")
ReportRefused == Report("report_refused", "CTRL_CONNECTION_REFUSED", "report_connect")
ReportConnect == Report("report_connect", "CTRL_CONNECT_FAILED", "done")
ReportLoop == Report("report_loop", "CTRL_UNKNOWN", "done")

-----------------------------------------------------------------------------
(* The loop of ctrl_thread_func.  Every whole message in the buffer is     *)
(* handled, then the thread selects on its socket and the pipe.            *)
Handles(m) == cpc = "handle" /\ recv_buf # << >> /\ Head(recv_buf) = m

HandleEnd ==
  /\ cpc = "handle" /\ recv_buf = << >>
  /\ CtrlGoes("select")
  /\ UNCHANGED peer

(* ctrl_message_received for what needs only ctrl's own state.             *)
HandleHeartbeat ==
  /\ Handles("HEARTBEAT_REQ")
  /\ heartbeats' = heartbeats - 1
  /\ recv_buf' = Tail(recv_buf)
  /\ UNCHANGED <<cpc, session_flags, wait, notif, login_pin_requested, peer, pins>>

HandleLogin ==
  /\ Handles("LOGIN_OK")
  /\ login_pin_requested' = FALSE
  /\ recv_buf' = Tail(recv_buf)
  /\ UNCHANGED <<cpc, session_flags, wait, notif, peer, heartbeats, pins>>

(* The keyboard, and whether the picture can be shown, are events for the  *)
(* client; the flags of the latter are read by nothing else.               *)
HandleOther ==
  /\ Handles("OTHER")
  /\ recv_buf' = Tail(recv_buf)
  /\ UNCHANGED <<cpc, session_flags, wait, notif, login_pin_requested, peer, heartbeats, pins>>

(* The messages that concern the session are handled in two steps: what is *)
(* done without state_mutex, and the flag that is set under it.  The check *)
(* for a session id that is already there is made without it.              *)
HandleSessionId ==
  /\ Handles("SESSION_ID") \/ Handles("INVALID_SESSION_ID")
  /\ IF ctrl_session_id_received
     THEN cpc' = cpc /\ recv_buf' = Tail(recv_buf) /\ UNCHANGED session_id
     ELSE /\ session_id' = IF Head(recv_buf) = "SESSION_ID" THEN "console" ELSE "fallback"
          /\ cpc' = "set_session_id" /\ UNCHANGED recv_buf
  /\ UNCHANGED <<quit_reason, ctrl_failed, ctrl_session_id_received, ctrl_login_pin_requested,
                 stream_connection_switch_received, wait, notif, login_pin_requested, peer,
                 heartbeats, pins>>

HandleLoginPinReq ==
  /\ Handles("LOGIN_PIN_REQ")
  /\ login_pin_requested' = TRUE
  /\ cpc' = "set_login_pin_requested"
  /\ UNCHANGED <<session_flags, wait, notif, recv_buf, peer, heartbeats, pins>>

HandlePinIncorrect ==
  /\ Handles("LOGIN_PIN_INCORRECT")
  /\ IF login_pin_requested
     THEN cpc' = "set_login_pin_requested" /\ UNCHANGED recv_buf
     ELSE recv_buf' = Tail(recv_buf) /\ UNCHANGED cpc
  /\ UNCHANGED <<session_flags, wait, notif, login_pin_requested, peer, heartbeats, pins>>

HandleSwitch ==
  /\ Handles("SWITCH")
  /\ IF stream_connection_switch_received
     THEN recv_buf' = Tail(recv_buf) /\ UNCHANGED cpc
     ELSE cpc' = "set_switch" /\ UNCHANGED recv_buf
  /\ UNCHANGED <<session_flags, wait, notif, login_pin_requested, peer, heartbeats, pins>>

(* A RUDP FINISH makes the session fail; the thread goes on.               *)
HandleFinish ==
  /\ Handles("FINISH") /\ ~locked
  /\ quit_reason' = "CTRL_UNKNOWN" /\ ctrl_failed' = TRUE
  /\ SignalSession
  /\ recv_buf' = Tail(recv_buf)
  /\ UNCHANGED <<cpc, ctrl_session_id_received, ctrl_login_pin_requested, stream_connection_switch_received,
                 session_id, notif, login_pin_requested, peer, heartbeats, pins>>

SetsFlag(at) ==
  /\ cpc = at /\ ~locked
  /\ SignalSession
  /\ recv_buf' = Tail(recv_buf)
  /\ cpc' = "handle"
  /\ UNCHANGED <<quit_reason, ctrl_failed, session_id, notif, login_pin_requested, peer,
                 heartbeats, pins>>

SetSessionId ==
  /\ SetsFlag("set_session_id")
  /\ ctrl_session_id_received' = TRUE
  /\ UNCHANGED <<ctrl_login_pin_requested, stream_connection_switch_received>>

SetLoginPinRequested ==
  /\ SetsFlag("set_login_pin_requested")
  /\ ctrl_login_pin_requested' = TRUE
  /\ UNCHANGED <<ctrl_session_id_received, stream_connection_switch_received>>

SetSwitch ==
  /\ SetsFlag("set_switch")
  /\ stream_connection_switch_received' = TRUE
  /\ UNCHANGED <<ctrl_session_id_received, ctrl_login_pin_requested>>

-----------------------------------------------------------------------------
(* Mutant: the pipe is reset on every wake-up and a stop is not looked at. *)
SelectCanceledResets ==
  /\ cpc = "select" /\ notif_pipe
  /\ msg_queue' = 0 /\ notif_pipe' = FALSE /\ login_pin_entered' = FALSE
  /\ pins' = IF login_pin_entered THEN pins + 1 ELSE pins
  /\ console' = IF login_pin_entered THEN "pin_received" ELSE console
  /\ UNCHANGED <<cpc, session_flags, wait, should_stop, unwritten, queued, login_pin_requested,
                 recv_buf, wire, extra, heartbeats>>

(* Mutant: the pipe is not reset after a login PIN.                        *)
SelectCanceledKeeps ==
  /\ cpc = "select" /\ notif_pipe
  /\ msg_queue' = 0 /\ login_pin_entered' = FALSE
  /\ pins' = IF login_pin_entered THEN pins + 1 ELSE pins
  /\ console' = IF login_pin_entered THEN "pin_received" ELSE console
  /\ cpc' = IF should_stop THEN "done" ELSE cpc
  /\ UNCHANGED <<session_flags, wait, should_stop, notif_pipe, unwritten, queued, login_pin_requested,
                 recv_buf, wire, extra, heartbeats>>

(* The select ends because the pipe was written, whatever is on the wire.  *)
(* The queue is emptied first.  Then a login PIN is sent and the pipe is   *)
(* reset: a stop that wrote the same pipe is not looked at.  Otherwise a   *)
(* stop ends the thread, and the pipe is reset if anything was queued.     *)
SelectCanceled ==
  /\ cpc = "select" /\ notif_pipe
  /\ msg_queue' = 0
  /\ \/ /\ login_pin_entered
        /\ login_pin_entered' = FALSE /\ notif_pipe' = FALSE
        /\ pins' = pins + 1
        /\ console' = IF console = "pin_requested" THEN "pin_received" ELSE console
        /\ UNCHANGED cpc
     \/ /\ ~login_pin_entered /\ should_stop
        /\ cpc' = "done"
        /\ UNCHANGED <<login_pin_entered, notif_pipe, pins, console>>
     \/ /\ ~login_pin_entered /\ ~should_stop
        /\ notif_pipe' = (msg_queue = 0)
        /\ UNCHANGED <<cpc, login_pin_entered, pins, console>>
  /\ UNCHANGED <<session_flags, wait, should_stop, unwritten, queued, login_pin_requested,
                 recv_buf, wire, extra, heartbeats>>

(* The socket is readable: what has arrived is received.                   *)
SelectReceived ==
  /\ cpc = "select" /\ ~notif_pipe /\ wire # << >>
  /\ recv_buf' = wire /\ wire' = << >>
  /\ cpc' = "handle"
  /\ UNCHANGED <<session_flags, wait, notif, login_pin_requested, console, extra,
                 heartbeats, pins>>

(* The console closed the connection or the select failed, which the       *)
(* session is not told; or receiving failed or a message is larger than the*)
(* buffer, which it is.                                                    *)
SelectClosed ==
  /\ cpc = "select" /\ ~notif_pipe
  /\ CtrlGoes("done") \/ CtrlGoes("report_loop")
  /\ UNCHANGED peer

-----------------------------------------------------------------------------
(* What other threads ask for.  chiaki_ctrl_send_message writes the pipe   *)
(* after it has released notif_mutex.                                      *)
SendMessage ==
  /\ ~NotifHeld /\ cpc # "none" /\ queued < MaxMessages /\ unwritten = 0
  /\ msg_queue' = msg_queue + 1 /\ queued' = queued + 1
  /\ unwritten' = 1
  /\ UNCHANGED <<cpc, session_flags, wait, should_stop, login_pin_entered, notif_pipe,
                 login_pin_requested, recv_buf, peer, heartbeats, pins>>

SendMessageWrites ==
  /\ unwritten > 0
  /\ unwritten' = 0 /\ notif_pipe' = TRUE
  /\ UNCHANGED <<cpc, session_flags, wait, should_stop, login_pin_entered, msg_queue, queued,
                 login_pin_requested, recv_buf, peer, heartbeats, pins>>

(* chiaki_ctrl_set_login_pin and chiaki_ctrl_stop, called by the session   *)
(* thread.                                                                 *)
CtrlSetLoginPin ==
  /\ ~NotifHeld
  /\ login_pin_entered' = TRUE /\ notif_pipe' = TRUE
  /\ UNCHANGED <<cpc, should_stop, msg_queue, unwritten, queued, login_pin_requested, recv_buf,
                 peer, heartbeats, pins>>

CtrlStop ==
  /\ ~NotifHeld
  /\ should_stop' = TRUE /\ notif_pipe' = TRUE
  /\ UNCHANGED <<cpc, login_pin_entered, msg_queue, unwritten, queued, login_pin_requested, recv_buf,
                 peer, heartbeats, pins>>

-----------------------------------------------------------------------------
(* The console, as far as ctrl.c expects it: it may ask for a login PIN    *)
(* and judges the one it gets, sends a session id, and other messages at   *)
(* any time; with PSN it acknowledges the switch to the stream connection. *)
Puts(ms, next) ==
  /\ wire' = wire \o ms
  /\ console' = next
  /\ UNCHANGED <<cpc, session_flags, wait, notif, login_pin_requested, recv_buf, pins>>

ConsoleLogin ==
  /\ cpc # "done"
  /\ \/ console = "connected" /\ Puts(<<"LOGIN_PIN_REQ">>, "pin_requested")
     \/ console = "connected" /\ Puts(<<"SESSION_ID">>, "session")
     \/ console = "connected" /\ Puts(<<"INVALID_SESSION_ID">>, "session")
     \/ console = "pin_received" /\ Puts(<<"LOGIN_OK", "SESSION_ID">>, "session")
     \/ console = "pin_received" /\ Puts(<<"LOGIN_PIN_INCORRECT">>, "pin_requested")
     \/ console = "session" /\ rudp /\ Puts(<<"SWITCH">>, "switched")
  /\ UNCHANGED <<extra, heartbeats>>

ConsoleExtra ==
  /\ console \notin {"listening", "closed"} /\ extra < MaxExtra /\ cpc # "done"
  /\ \E m \in Extras :
       /\ m = "FINISH" => rudp
       /\ m = "LOGIN_PIN_REQ" => console \in {"pin_requested", "pin_received"}
       /\ Puts(<<m>>, console)
       /\ heartbeats' = IF m = "HEARTBEAT_REQ" THEN heartbeats + 1 ELSE heartbeats
  /\ extra' = extra + 1

ConsoleCloses ==
  /\ console \notin {"listening", "closed"} /\ ~rudp /\ cpc # "done"
  /\ Puts(<< >>, "closed")
  /\ UNCHANGED <<extra, heartbeats>>

-----------------------------------------------------------------------------
CtrlHandles ==
  \/ HandleEnd \/ HandleHeartbeat \/ HandleLogin \/ HandleOther
  \/ HandleSessionId \/ HandleLoginPinReq \/ HandlePinIncorrect
  \/ HandleSwitch \/ HandleFinish \/ SetSessionId \/ SetLoginPinRequested \/ SetSwitch
CtrlReports == ReportUnknown \/ ReportRefused \/ ReportConnect \/ ReportLoop
CtrlThread == \/ CtrlStart \/ CtrlConnecting \/ CtrlRequest \/ CtrlReports \/ CtrlHandles
              \/ SelectCanceled \/ SelectReceived
Console == ConsoleLogin \/ ConsoleExtra \/ ConsoleCloses

CtrlTypeOK ==
  /\ cpc \in {"none", "start", "connecting", "request", "handle", "select", "done",
              "report_unknown", "report_refused", "report_connect", "report_loop",
              "set_session_id", "set_login_pin_requested", "set_switch"}
  /\ \A b \in {should_stop, login_pin_entered, login_pin_requested, notif_pipe, ctrl_failed, ctrl_session_id_received, ctrl_login_pin_requested,
               stream_connection_switch_received, locked, rudp} : b \in BOOLEAN
  /\ queued \in 0 .. MaxMessages /\ msg_queue \in 0 .. queued /\ unwritten \in 0 .. 1
  /\ recv_buf \in Seq(Messages) /\ wire \in Seq(Messages)
  /\ extra \in 0 .. MaxExtra /\ heartbeats \in 0 .. MaxExtra /\ pins \in Nat
  /\ session_id \in {"none", "console", "fallback"}
=============================================================================
