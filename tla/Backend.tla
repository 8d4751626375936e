------------------------------- MODULE Backend -------------------------------
(***************************************************************************)
(* gui/src/qmlbackend.cpp and the life of its StreamSession objects        *)
(* (gui/src/streamsession.cpp): created by the main thread, connected over *)
(* PSN by a worker thread, run by the library's threads, whose signals are *)
(* queued for the main thread, stopped by the user or before the system    *)
(* sleeps, and resumed after it.                                           *)
(*                                                                         *)
(* The user, the system, the PSN server and what a session meets are       *)
(* external.                                                               *)
(***************************************************************************)
EXTENDS Naturals, Sequences, FiniteSets

CONSTANTS
  MaxSessions,      \* bound on the sessions created
  MaxConnects, MaxSleeps,   \* bounds on how often the user connects, and the system sleeps
  ReconnectTries,   \* MAX_PSN_RECONNECT_TRIES
  MaxRefreshes      \* bound on token requests under way

ASSUME BackendAssumption ==
  /\ MaxSessions \in Nat \ {0} /\ MaxConnects \in Nat /\ MaxSleeps \in Nat
  /\ ReconnectTries \in Nat \ {0} /\ MaxRefreshes \in Nat \ {0}

VARIABLES
  session,          \* the current session's number, or 0
  made,             \* sessions created so far
  obj,              \* the StreamSession objects
  session_info,     \* of a local or of a PSN connection
  worker,           \* the session that psn_connection_thread connects, or 0
  posted, frame,    \* signals queued for the main thread; for the frame thread
  resume_session, ticking, reconnect_tries, refreshes,   \* the reconnect timer and its requests
  token_asked,      \* connectToHost waits for a token
  connect_state,
  paused, inhibited,   \* discovery is off for a session; sleep_inhibit
  main,             \* the main thread runs, is blocked for ever, or has crashed
  asleep, sleeps,   \* external: the system is about to sleep, or sleeps; how often
  connects, asked,      \* history: connections the user asked for; those and resumes
  overlapped, expired   \* history: two token requests at once; a token refused

backendVars ==
  <<session, made, obj, session_info, worker, posted, frame, resume_session, ticking, reconnect_tries, refreshes,
    token_asked, connect_state, paused, inhibited, main, asleep, sleeps, connects, asked, overlapped, expired>>
reconnecting == <<resume_session, ticking, reconnect_tries, refreshes, token_asked>>
backendHistory == <<connects, asked, overlapped, expired>>

Sessions == 1..MaxSessions
NoObject == [life |-> "none", psn |-> FALSE, connected |-> FALSE, timer |-> "off", stopped |-> FALSE, doomed |-> FALSE]

BackendInit ==
  /\ session = 0 /\ made = 0 /\ obj = [n \in Sessions |-> NoObject]
  /\ session_info = "none" /\ worker = 0 /\ posted = << >> /\ frame = FALSE
  /\ resume_session = FALSE /\ ticking = FALSE /\ reconnect_tries = 0 /\ refreshes = 0
  /\ token_asked = FALSE /\ connect_state = "none"
  /\ paused = FALSE /\ inhibited = FALSE /\ main = "runs"
  /\ asleep = FALSE /\ sleeps = 0 /\ connects = 0 /\ asked = 0 /\ overlapped = FALSE /\ expired = FALSE

-----------------------------------------------------------------------------
(* StreamSession::Start: the timer goes on when it is a retry.  A session  *)
(* that was stopped before quits at once.                                  *)
Started(o) ==
  [o EXCEPT !.life = "running", !.timer = IF @ = "off" THEN "early" ELSE @, !.doomed = o.stopped]

(* createSession.  The constructor may throw; Start too, and that nobody   *)
(* catches.                                                                *)
CreateSession(kind) ==
  IF session # 0
  THEN UNCHANGED <<session, made, obj, session_info, worker, connect_state, inhibited, main>>
  ELSE /\ session_info' = kind
       /\ \/ UNCHANGED <<session, made, obj, worker, connect_state, inhibited, main>>
          \/ /\ made < MaxSessions
             /\ made' = made + 1 /\ session' = made + 1
             /\ LET new == [NoObject EXCEPT !.life = "idle", !.psn = (kind = "psn")] IN
                \/ /\ kind = "local" /\ inhibited' = TRUE
                   /\ obj' = [obj EXCEPT ![made + 1] = Started(new)]
                   /\ UNCHANGED <<worker, connect_state, main>>
                \/ /\ kind = "local" /\ main' = "crashed"
                   /\ obj' = [obj EXCEPT ![made + 1] = new]
                   /\ UNCHANGED <<worker, connect_state, inhibited>>
                \/ /\ kind = "psn" /\ worker' = made + 1 /\ connect_state' = "initiating"
                   /\ obj' = [obj EXCEPT ![made + 1] = new]
                   /\ UNCHANGED <<inhibited, main>>

(* chiaki_session_stop needs a mutex that the Takion thread holds while it *)
(* waits for the main thread to run InitAudio.                             *)
Stop ==
  IF obj[session].life = "audio"
  THEN main' = "blocked" /\ UNCHANGED obj
  ELSE obj' = [obj EXCEPT ![session].stopped = TRUE] /\ UNCHANGED main

(* connectToHost; a PSN token that expires is refreshed before.            *)
ConnectToHost(kind) ==
  /\ main = "runs" /\ ~asleep /\ connects < MaxConnects
  /\ connects' = connects + 1 /\ asked' = asked + 1
  /\ resume_session' = FALSE
  /\ \/ CreateSession(kind) /\ UNCHANGED token_asked
     \/ /\ kind = "psn" /\ ~token_asked /\ token_asked' = TRUE
        /\ UNCHANGED <<session, made, obj, session_info, worker, connect_state, inhibited, main>>
  /\ UNCHANGED <<posted, frame, ticking, reconnect_tries, refreshes, paused, asleep, sleeps, overlapped, expired>>

TokenForConnect ==
  /\ main = "runs" /\ token_asked
  /\ token_asked' = FALSE
  /\ \/ CreateSession("psn")
     \/ UNCHANGED <<session, made, obj, session_info, worker, connect_state, inhibited, main>>
  /\ UNCHANGED <<posted, frame, resume_session, ticking, reconnect_tries, refreshes, paused, asleep, sleeps, backendHistory>>

(* stopSession and closeRequested.                                         *)
StopSession ==
  /\ main = "runs" /\ session # 0 /\ ~obj[session].stopped
  /\ Stop
  /\ UNCHANGED <<session, made, session_info, worker, posted, frame, reconnecting, connect_state, paused, inhibited,
                 asleep, sleeps, backendHistory>>

(* psnCancel, from the view shown while PSN connects, makes the worker's   *)
(* calls fail (WorkerDone), but does not look whether there is a session.  *)
PsnCancel ==
  /\ main = "runs" /\ connect_state \in {"initiating", "waiting"}
  /\ session = 0
  /\ main' = "crashed"
  /\ UNCHANGED <<session, made, obj, session_info, worker, posted, frame, reconnecting, connect_state, paused,
                 inhibited, asleep, sleeps, backendHistory>>

-----------------------------------------------------------------------------
(* The worker: session_start and punch_hole.                               *)
WorkerDone(ok) ==
  /\ worker # 0
  /\ posted' = Append(posted, [kind |-> IF ok THEN "success" ELSE "failure", n |-> worker])
  /\ worker' = 0
  /\ UNCHANGED <<session, made, obj, session_info, frame, reconnecting, connect_state, paused, inhibited, main,
                 asleep, sleeps, backendHistory>>

Emit(kinds, n) == posted' = posted \o [i \in DOMAIN kinds |-> [kind |-> kinds[i], n |-> n]]

(* AudioSettingsCb: a blocking queued call.                                *)
AsksAudio(n) ==
  /\ obj[n].life = "running" /\ ~obj[n].doomed
  /\ obj' = [obj EXCEPT ![n].life = "audio"]
  /\ Emit(<<"audio">>, n)
  /\ UNCHANGED <<session, made, session_info, worker, frame, reconnecting, connect_state, paused, inhibited, main,
                 asleep, sleeps, backendHistory>>

EventConnected(n) ==
  /\ obj[n].life = "streams" /\ ~obj[n].connected
  /\ obj' = [obj EXCEPT ![n].connected = TRUE, ![n].timer = "off"]
  /\ Emit(<<"connected">>, n)
  /\ UNCHANGED <<session, made, session_info, worker, frame, reconnecting, connect_state, paused, inhibited, main,
                 asleep, sleeps, backendHistory>>

(* Mutant: the session is reported as ended although it is tried again.    *)
EventQuitBoth(n, error) ==
  /\ obj[n].life \in {"running", "streams"} /\ (obj[n].doomed => ~error)
  /\ IF ~obj[n].connected /\ ~obj[n].psn /\ error /\ obj[n].timer = "early"
     THEN obj' = [obj EXCEPT ![n].life = "retry"]
     ELSE obj' = [obj EXCEPT ![n].life = "ended", ![n].connected = FALSE]
  /\ Emit(<<"connected", "quit">>, n)
  /\ UNCHANGED <<session, made, session_info, worker, frame, reconnecting, connect_state, paused, inhibited, main,
                 asleep, sleeps, backendHistory>>

(* An error in the first ten seconds of a local connection: once more.     *)
EventQuit(n, error) ==
  /\ obj[n].life \in {"running", "streams"} /\ (obj[n].doomed => ~error)
  /\ IF ~obj[n].connected /\ ~obj[n].psn /\ error /\ obj[n].timer = "early"
     THEN obj' = [obj EXCEPT ![n].life = "retry"] /\ UNCHANGED posted
     ELSE /\ obj' = [obj EXCEPT ![n].life = "ended", ![n].connected = FALSE]
          /\ Emit(<<"connected", "quit">>, n)
  /\ UNCHANGED <<session, made, session_info, worker, frame, reconnecting, connect_state, paused, inhibited, main,
                 asleep, sleeps, backendHistory>>

TimePasses(n) ==
  /\ obj[n].timer = "early"
  /\ obj' = [obj EXCEPT ![n].timer = "late"]
  /\ UNCHANGED <<session, made, session_info, worker, posted, frame, reconnecting, connect_state, paused, inhibited,
                 main, asleep, sleeps, backendHistory>>

RetryStart(n) ==
  /\ main = "runs" /\ obj[n].life = "retry"
  /\ obj' = [obj EXCEPT ![n] = Started(@)]
  /\ UNCHANGED <<session, made, session_info, worker, posted, frame, reconnecting, connect_state, paused, inhibited,
                 main, asleep, sleeps, backendHistory>>

(* FfmpegFrameAvailable, handled by the frame thread, which reads session. *)
FfmpegFrame ==
  \/ /\ ~frame /\ \E n \in Sessions : obj[n].life = "streams"
     /\ frame' = TRUE
     /\ UNCHANGED <<session, made, obj, session_info, worker, posted, reconnecting, connect_state, paused, inhibited,
                    main, asleep, sleeps, backendHistory>>
  \/ /\ frame /\ frame' = FALSE
     /\ main' = IF session = 0 THEN "crashed" ELSE main
     /\ UNCHANGED <<session, made, obj, session_info, worker, posted, reconnecting, connect_state, paused, inhibited,
                    asleep, sleeps, backendHistory>>

-----------------------------------------------------------------------------
Deletes(n) == session' = 0 /\ obj' = [obj EXCEPT ![n].life = "deleted"]

(* The main thread takes a signal.  Its handlers use the current session,  *)
(* whichever sent the signal.                                              *)
Handle(kind) ==
  /\ main = "runs" /\ posted # << >> /\ Head(posted).kind = kind /\ session # 0
  /\ posted' = Tail(posted)
  /\ UNCHANGED <<made, session_info, worker, frame, reconnecting, asleep, sleeps, backendHistory>>

InitAudio ==
  /\ Handle("audio")
  /\ obj' = [obj EXCEPT ![Head(posted).n].life = "streams"]
  /\ UNCHANGED <<session, connect_state, paused, inhibited, main>>

ConnectedChanged ==
  /\ Handle("connected")
  /\ paused' = (paused \/ obj[session].connected)
  /\ UNCHANGED <<session, obj, connect_state, inhibited, main>>

SessionQuit ==
  /\ Handle("quit")
  /\ Deletes(session)
  /\ inhibited' = FALSE /\ paused' = FALSE
  /\ UNCHANGED <<connect_state, main>>

(* checkPsnConnection.                                                     *)
CheckPsnConnection ==
  \/ /\ Handle("success")
     /\ connect_state' = "linking" /\ inhibited' = TRUE
     /\ obj' = [obj EXCEPT ![session] = Started(@)]
     /\ UNCHANGED <<session, paused, main>>
  \/ /\ Handle("failure")
     /\ connect_state' = "failed"
     /\ Deletes(session)
     /\ UNCHANGED <<paused, inhibited, main>>

-----------------------------------------------------------------------------
(* The system is about to sleep: stop, and cancel what PSN connects.       *)
SystemSleeps ==
  /\ main = "runs" /\ ~asleep /\ sleeps < MaxSleeps
  /\ asleep' = TRUE /\ sleeps' = sleeps + 1
  /\ IF session = 0 THEN UNCHANGED <<obj, main, resume_session>>
     ELSE Stop /\ resume_session' = (resume_session \/ main' = "runs")
  /\ UNCHANGED <<session, made, session_info, worker, posted, frame, ticking, reconnect_tries, refreshes, token_asked,
                 connect_state, paused, inhibited, backendHistory>>

(* A local session is created again at once, unless the old one has not    *)
(* quit yet; one over PSN when the internet is back.                       *)
SystemResumes ==
  /\ main = "runs" /\ asleep
  /\ asleep' = FALSE /\ resume_session' = FALSE
  /\ IF ~resume_session
     THEN UNCHANGED <<session, made, obj, session_info, worker, connect_state, inhibited, main, ticking, asked>>
     ELSE /\ asked' = asked + 1
          /\ IF session_info = "local" THEN CreateSession("local") /\ UNCHANGED ticking
             ELSE /\ connect_state' = "waiting" /\ ticking' = TRUE
                  /\ UNCHANGED <<session, made, obj, session_info, worker, inhibited, main>>
  /\ UNCHANGED <<posted, frame, reconnect_tries, refreshes, token_asked, paused, sleeps, connects, overlapped, expired>>

GiveUpReconnect ==
  /\ resume_session' = FALSE /\ ticking' = FALSE /\ reconnect_tries' = 0 /\ connect_state' = "failed"

(* The timer asks for a token whether or not it has asked before.          *)
Tick ==
  /\ main = "runs" /\ ticking
  /\ \/ refreshes < MaxRefreshes /\ refreshes' = refreshes + 1
        /\ overlapped' = (overlapped \/ refreshes > 0)
        /\ UNCHANGED <<resume_session, ticking, reconnect_tries, connect_state>>
     \/ GiveUpReconnect /\ UNCHANGED <<refreshes, overlapped>>
  /\ UNCHANGED <<session, made, obj, session_info, worker, posted, frame, token_asked, paused, inhibited, main, asleep,
                 sleeps, connects, asked, expired>>

(* Mutant: failures are not counted.                                       *)
TokenErrorUncounted ==
  /\ main = "runs" /\ refreshes > 0
  /\ refreshes' = refreshes - 1
  /\ UNCHANGED <<session, made, obj, session_info, worker, posted, frame, resume_session, ticking, reconnect_tries,
                 token_asked, connect_state, paused, inhibited, main, asleep, sleeps, backendHistory>>

TokenError ==
  /\ main = "runs" /\ refreshes > 0
  /\ refreshes' = refreshes - 1
  /\ IF reconnect_tries + 1 < ReconnectTries
     THEN reconnect_tries' = reconnect_tries + 1 /\ UNCHANGED <<resume_session, ticking, connect_state>>
     ELSE GiveUpReconnect
  /\ UNCHANGED <<session, made, obj, session_info, worker, posted, frame, token_asked, paused, inhibited, main, asleep,
                 sleeps, backendHistory>>

(* A token that is refused stops nothing and is not counted.               *)
TokenUnauthorized ==
  /\ main = "runs" /\ refreshes > 0
  /\ refreshes' = refreshes - 1 /\ expired' = TRUE
  /\ UNCHANGED <<session, made, obj, session_info, worker, posted, frame, resume_session, ticking, reconnect_tries,
                 token_asked, connect_state, paused, inhibited, main, asleep, sleeps, connects, asked,
                 overlapped>>

TokenSuccess ==
  /\ main = "runs" /\ refreshes > 0
  /\ refreshes' = refreshes - 1
  /\ resume_session' = FALSE /\ ticking' = FALSE /\ reconnect_tries' = 0
  /\ CreateSession(session_info)
  /\ UNCHANGED <<posted, frame, token_asked, paused, asleep, sleeps, backendHistory>>

-----------------------------------------------------------------------------
HandleSignal == InitAudio \/ ConnectedChanged \/ SessionQuit \/ CheckPsnConnection
TokenAnswer == TokenError \/ TokenUnauthorized \/ TokenSuccess

BackendSteps ==
  \/ \E kind \in {"local", "psn"} : ConnectToHost(kind)
  \/ TokenForConnect \/ StopSession \/ PsnCancel \/ FfmpegFrame
  \/ \E ok \in BOOLEAN : WorkerDone(ok)
  \/ \E n \in Sessions :
       \/ AsksAudio(n) \/ EventConnected(n) \/ TimePasses(n) \/ RetryStart(n)
       \/ \E error \in BOOLEAN : EventQuit(n, error)
  \/ HandleSignal \/ SystemSleeps \/ SystemResumes \/ Tick \/ TokenAnswer

(* A crash of the process ends everything.                                 *)
BackendNext == main # "crashed" /\ BackendSteps

(* The main thread gets to its events and timers, requests are answered,   *)
(* and the library ends a session that was stopped (see StopEnds of        *)
(* Session).                                                               *)
BackendFairness ==
  /\ WF_backendVars(HandleSignal)
  /\ \A n \in Sessions :
       /\ WF_backendVars(RetryStart(n))
       /\ WF_backendVars(obj[n].stopped /\ \E error \in BOOLEAN : EventQuit(n, error))
  /\ WF_backendVars(Tick) /\ WF_backendVars(TokenAnswer)

BackendSpec == BackendInit /\ [][BackendNext]_backendVars /\ BackendFairness
-----------------------------------------------------------------------------
(* A signal is handled while the session that sent it is the current one,  *)
(* though every handler uses whichever is current: no session is deleted   *)
(* while its threads, its retry or the worker still go on.  Without one,   *)
(* discovery and sleep are as before.                                      *)
SignalsMeetTheirSession ==
  /\ \A i \in DOMAIN posted : posted[i].n = session
  /\ \A n \in Sessions : obj[n].life \notin {"none", "deleted"} => n = session
  /\ worker \in {0, session}
  /\ session = 0 => ~paused /\ ~inhibited

(* No session is created but once for each connect and each resume, unless *)
(* the reconnect timer asked for a second token before it had the first.   *)
SessionsAskedFor == made > asked => overlapped

SessionsInOrder == SignalsMeetTheirSession /\ SessionsAskedFor

(* A session that was stopped is gone in the end, also when the stop falls *)
(* into a retry, and reconnecting comes to an end, unless the main thread  *)
(* is blocked (it stops a session that waits for it), has crashed, or the  *)
(* token is refused again and again.                                       *)
BackendSettles ==
  /\ \A n \in Sessions :
       (obj[n].stopped /\ obj[n].life # "idle") ~> (obj[n].life = "deleted" \/ main # "runs")
  /\ ticking ~> (~ticking \/ expired \/ main # "runs")
=============================================================================
