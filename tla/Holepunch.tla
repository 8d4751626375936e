------------------------------ MODULE Holepunch ------------------------------
(***************************************************************************)
(* lib/src/remote/holepunch.c: a session on the PSN server, and through it *)
(* a hole punched to the console for the control and for the data port.    *)
(* One thread after the other calls create, start, punch_hole and fini     *)
(* (the GUI thread, its worker, the session thread, the GUI thread); the   *)
(* websocket thread puts notifications into a queue; the user cancels.     *)
(*                                                                         *)
(* PSN and the console are external: they owe a notification after what    *)
(* causes it, and deliver those owed in any order, or never.  An offer may *)
(* be repeated.  A request over HTTP succeeds or fails.                    *)
(***************************************************************************)
EXTENDS Integers, Sequences, FiniteSets

CONSTANTS
  MaxRepeats,   \* bound on the repetitions of offers
  MaxCancels    \* bound on the user's cancels

ASSUME HolepunchAssumption == MaxRepeats \in Nat /\ MaxCancels \in Nat

VARIABLES
  hpc, port,              \* where the calling thread is, and for which port
  asleep,                 \* in wait_for_notification: "no", "asleep" or "woken"
  flags, left_locked,     \* session->state; state_mutex was left locked
  queue,                  \* ws_notification_queue
  ws, ws_stop, holding,   \* the websocket thread and what it has received
  main_stop, cancels,     \* main_should_stop
  fd, chosen, kept,       \* ipv4_sock and ipv6_sock; sock; ctrl_sock and data_sock
  open, dropped,          \* sockets that are open; history: that nobody can close
  owed, repeats,          \* external: PSN and the console
  offer,                  \* history: the offer each port was punched with
  late,                   \* history: an offer repeated after the control port was accepted
  canceled                \* history: the ports that were being punched at a cancel

mainVars == <<asleep, flags, left_locked, queue>>
websocket == <<ws, ws_stop, holding>>
cancelling == <<main_stop, cancels, canceled>>
sockets == <<fd, chosen, kept, open, dropped>>
outside == <<owed, repeats, late>>
holepunchVars ==
  <<hpc, port, mainVars, websocket, cancelling, sockets, outside, offer>>

Ports == {"ctrl", "data"}
Plain(k) == [kind |-> k, port |-> "none", of |-> "none"]
About(k, p) == [kind |-> k, port |-> p, of |-> "none"]
ResultOf(k, p) == [kind |-> "RESULT", port |-> p, of |-> k]

SessionMessages == {"OFFER", "ACCEPT", "RESULT"}
None == 0

(* Which notifications a wait is for: types, the messages all being of the *)
(* same one.                                                               *)
Query ==
  [created |-> {"CREATED", "CLIENT", "CONSOLE"},
   started |-> {"CLIENT", "CONSOLE", "CUSTOM_DATA1"},
   offer |-> SessionMessages, result |-> SessionMessages, accept |-> SessionMessages,
   deleted |-> {"DELETED"}]
WaitPoints == DOMAIN Query

HolepunchInit ==
  /\ hpc = "fqdn" /\ port = "ctrl" /\ asleep = "no"
  /\ flags = {} /\ left_locked = FALSE /\ queue = << >>
  /\ ws = "off" /\ ws_stop = FALSE /\ holding = << >>
  /\ main_stop = FALSE /\ cancels = 0 /\ canceled = {}
  /\ fd = [v4 |-> None, v6 |-> None] /\ chosen = None
  /\ kept = [p \in Ports |-> None] /\ open = {} /\ dropped = {}
  /\ owed = {} /\ repeats = 0 /\ late = FALSE
  /\ offer = [p \in Ports |-> "none"]

-----------------------------------------------------------------------------
(* Requests over HTTP, with what is read from the JSON of their answers.   *)
GetWebsocketFqdn == {"SUCCESS", "FAILED"}
HttpCreateSession == {"SUCCESS", "FAILED"}
HttpStartSession == {"SUCCESS", "FAILED"}
HttpPs4SessionWakeup == {"SUCCESS", "FAILED"}
HttpSendSessionMessage == {"SUCCESS", "FAILED"}
SessionMessageParse == {"SUCCESS", "FAILED"}

-----------------------------------------------------------------------------
(* Where a call returns to when it fails.                                  *)
Creating == {"fqdn", "open", "http_create", "created"}
Starting == {"http_start", "started"}
Punching ==
  {"offer", "ack", "send_offer", "result", "check", "send_accept", "accept", "ack_accept",
   "establish", "extra"}

AfterFailure ==
  CASE hpc = "fqdn" -> "create_failed"
    [] hpc \in Creating \ {"fqdn"} -> "cleanup"
    [] hpc = "deleted" -> "join"
    [] OTHER -> "fini"

(* The cleanup of punch_hole closes what is left in the session; a socket  *)
(* that was chosen and not yet kept is in neither.                         *)
CloseSockets ==
  /\ open' = open \ {fd.v4, fd.v6}
  /\ fd' = [v4 |-> None, v6 |-> None]
  /\ dropped' = IF chosen = None THEN dropped ELSE dropped \cup {chosen}
  /\ chosen' = None
  /\ UNCHANGED kept

Fails ==
  /\ hpc' = AfterFailure /\ asleep' = "no"
  /\ IF hpc \in Punching THEN CloseSockets ELSE UNCHANGED sockets

Canceled == main_stop /\ main_stop' = FALSE /\ UNCHANGED <<cancels, canceled>>
NotCanceled == ~main_stop /\ UNCHANGED cancelling

(* After a request: its failure, the cancel, or the next step.             *)
Continues(r, next) ==
  \/ /\ r = "SUCCESS" /\ NotCanceled
     /\ hpc' = next /\ UNCHANGED <<asleep, sockets>>
  \/ r = "SUCCESS" /\ Canceled /\ Fails
  \/ r # "SUCCESS" /\ UNCHANGED cancelling /\ Fails

-----------------------------------------------------------------------------
(* wait_for_notification takes the first one of the types asked for.       *)
FirstOf(kinds) ==
  LET S == {i \in DOMAIN queue : queue[i].kind \in kinds} IN
  IF S = {} THEN 0 ELSE CHOOSE i \in S : \A j \in S : i <= j

Found == IF hpc \in WaitPoints /\ asleep = "no" THEN FirstOf(Query[hpc]) ELSE 0

WaitSleeps ==
  /\ hpc \in WaitPoints /\ asleep = "no" /\ Found = 0
  /\ asleep' = "asleep"
  /\ UNCHANGED <<hpc, port, flags, left_locked, queue, websocket, cancelling, sockets, outside, offer>>

(* main_should_stop is looked at only here, after something has signalled. *)
WaitWoken ==
  /\ asleep = "woken"
  /\ \/ Canceled /\ Fails
     \/ NotCanceled /\ asleep' = "no" /\ UNCHANGED <<hpc, sockets>>
  /\ UNCHANGED <<port, flags, left_locked, queue, websocket, outside, offer>>

(* Mutant: the time that has passed is not looked at.                      *)
WaitTimeoutLoops == asleep = "asleep" /\ UNCHANGED holepunchVars

(* A timeout is one even when the user has canceled, or just then the      *)
(* notification came.                                                      *)
WaitTimeout ==
  /\ asleep \in {"asleep", "woken"}
  /\ Fails
  /\ main_stop' \in {main_stop, FALSE}
  /\ UNCHANGED <<port, flags, left_locked, queue, websocket, cancels, canceled, outside, offer>>

(* clear_notification frees what precedes the notification as well.        *)
Cleared(i) == SubSeq(queue, i + 1, Len(queue))

-----------------------------------------------------------------------------
(* chiaki_holepunch_session_create.                                        *)
CreateFqdn ==
  /\ hpc = "fqdn"
  /\ \E r \in GetWebsocketFqdn :
       /\ Continues(r, "open")
       /\ ws' = IF hpc' = "open" THEN "connecting" ELSE ws
  /\ UNCHANGED <<port, flags, left_locked, queue, ws_stop, holding, outside, offer>>

(* The wait for the websocket has no timeout, and no end but WS_OPEN.      *)
CreateOpen ==
  /\ hpc = "open" /\ "WS_OPEN" \in flags
  /\ Continues("SUCCESS", "http_create")
  /\ UNCHANGED <<port, flags, left_locked, queue, websocket, outside, offer>>

CreateRequest ==
  /\ hpc = "http_create"
  /\ \E r \in HttpCreateSession :
       /\ Continues(r, "created")
       /\ owed' = IF r = "SUCCESS" THEN owed \cup {Plain("CREATED"), Plain("CLIENT")} ELSE owed
  /\ UNCHANGED <<port, flags, left_locked, queue, websocket, repeats, late, offer>>

Flag(n) ==
  CASE n.kind = "CREATED" -> "CREATED"
    [] n.kind = "CUSTOM_DATA1" -> "CUSTOMDATA1_RECEIVED"
    [] OTHER -> IF hpc = "created" THEN "CLIENT_JOINED" ELSE "CONSOLE_JOINED"

(* Without an online id the function returns as it stands, with the mutex  *)
(* left_locked and the websocket thread running.                                *)
CreateNotified ==
  /\ hpc = "created" /\ Found > 0 /\ ~left_locked
  /\ flags' = flags \cup {Flag(queue[Found])}
  /\ \/ /\ queue' = Cleared(Found)
        /\ Continues("SUCCESS", IF {"CREATED", "CLIENT_JOINED"} \subseteq flags' THEN "http_start" ELSE "created")
        /\ left_locked' = (hpc' = "cleanup")
     \/ /\ queue[Found].kind = "CREATED"
        /\ hpc' = "create_failed" /\ left_locked' = TRUE
        /\ UNCHANGED <<asleep, queue, cancelling, sockets>>
  /\ UNCHANGED <<port, websocket, outside, offer>>

CreateCleanup ==
  /\ hpc = "cleanup"
  /\ ws_stop' = TRUE
  /\ ws \in {"off", "ended"}
  /\ hpc' = "create_failed"
  /\ UNCHANGED <<port, mainVars, ws, holding, cancelling, sockets, outside, offer>>

(* ws_thread_should_stop is set before the join.                           *)
CreateStops ==
  /\ hpc = "cleanup" /\ ~ws_stop
  /\ ws_stop' = TRUE
  /\ UNCHANGED <<hpc, port, mainVars, ws, holding, cancelling, sockets, outside, offer>>

-----------------------------------------------------------------------------
(* Mutant: start forgets a cancel that came before its request was made.   *)
StartRequestForgets ==
  /\ hpc = "http_start"
  /\ hpc' = "started"
  /\ main_stop' = FALSE
  /\ flags' = flags \cup {"DATA_SENT"}
  /\ owed' = owed \cup {Plain("CONSOLE"), Plain("CUSTOM_DATA1"), About("OFFER", "ctrl")}
  /\ UNCHANGED <<port, asleep, left_locked, queue, websocket, cancels, canceled, sockets, repeats, late, offer>>

(* chiaki_holepunch_session_start, called later by another thread.         *)
StartRequest ==
  /\ hpc = "http_start"
  /\ \E r \in HttpStartSession \cup HttpPs4SessionWakeup :
       /\ Continues(r, "started")
       /\ flags' = IF r = "SUCCESS" THEN flags \cup {"DATA_SENT"} ELSE flags
       /\ owed' = IF r = "SUCCESS"
                  THEN owed \cup {Plain("CONSOLE"), Plain("CUSTOM_DATA1"), About("OFFER", "ctrl")}
                  ELSE owed
  /\ UNCHANGED <<port, left_locked, queue, websocket, repeats, late, offer>>

(* The member must be the console.  A cancel returns with the mutex locked.*)
StartNotified ==
  /\ hpc = "started" /\ Found > 0 /\ ~left_locked
  /\ \/ /\ queue[Found].kind # "CLIENT"
        /\ flags' = flags \cup {Flag(queue[Found])}
        /\ queue' = Cleared(Found)
        /\ Continues("SUCCESS",
                     IF {"CONSOLE_JOINED", "CUSTOMDATA1_RECEIVED"} \subseteq flags' THEN "offer" ELSE "started")
        /\ left_locked' = (hpc' = "fini")
     \/ Fails /\ UNCHANGED <<flags, left_locked, queue, cancelling>>
  /\ UNCHANGED <<port, websocket, outside, offer>>

-----------------------------------------------------------------------------
(* wait_for_session_message: a message of another kind is cleared, and so  *)
(* is everything before it; the one waited for stays in the queue.         *)
Awaited == [offer |-> "OFFER", result |-> "RESULT", accept |-> "ACCEPT"]
IsMessage == hpc \in DOMAIN Awaited /\ Found > 0

(* Mutant: another message is passed over and stays in the queue.          *)
MessageSkipped ==
  /\ IsMessage /\ ~main_stop /\ queue[Found].kind # Awaited[hpc]
  /\ queue' = Append(Cleared(Found), queue[Found])
  /\ UNCHANGED <<hpc, port, asleep, flags, left_locked, websocket, cancelling, sockets, outside, offer>>

MessageCleared ==
  /\ IsMessage /\ ~main_stop /\ queue[Found].kind # Awaited[hpc]
  /\ queue' = Cleared(Found)
  /\ UNCHANGED <<hpc, port, asleep, flags, left_locked, websocket, cancelling, sockets, outside, offer>>

MessageFails ==
  /\ IsMessage
  /\ \/ Canceled
     \/ NotCanceled /\ "FAILED" \in SessionMessageParse
  /\ Fails
  /\ UNCHANGED <<port, flags, left_locked, queue, websocket, outside, offer>>

IsAwaited == IsMessage /\ NotCanceled /\ queue[Found].kind = Awaited[hpc]

OfferReceived ==
  /\ hpc = "offer" /\ IsAwaited /\ ~left_locked
  /\ flags' = flags \cup {IF port = "ctrl" THEN "CTRL_OFFER_RECEIVED" ELSE "DATA_OFFER_RECEIVED"}
  /\ offer' = [offer EXCEPT ![port] = queue[Found].port]
  /\ hpc' = "ack"
  /\ UNCHANGED <<port, asleep, left_locked, queue, websocket, sockets, outside>>

OfferAcked ==
  /\ hpc = "ack"
  /\ \E r \in HttpSendSessionMessage : Continues(r, "send_offer")
  /\ UNCHANGED <<port, flags, left_locked, queue, websocket, outside, offer>>

(* A new socket has a number that is free.                                 *)
Fresh(used) == CHOOSE n \in 1 .. Cardinality(used) + 1 : n \notin used
FirstSocket == Fresh(open)
SecondSocket == Fresh(open \cup {FirstSocket})

(* send_offer, whose result nobody looks at: both sockets and the message; *)
(* IPv4 alone; IPv6 fails and leaves IPv4; everything is closed, but the   *)
(* console may have got the message.                                       *)
SendOffer ==
  /\ hpc = "send_offer"
  /\ hpc' = "result"
  /\ \/ /\ fd' \in {[v4 |-> FirstSocket, v6 |-> SecondSocket], [v4 |-> FirstSocket, v6 |-> None]}
        /\ owed' = owed \cup {ResultOf("OFFER", port)}
     \/ fd' = [v4 |-> FirstSocket, v6 |-> None] /\ UNCHANGED owed
     \/ fd' = [v4 |-> None, v6 |-> None] /\ owed' \in {owed, owed \cup {ResultOf("OFFER", port)}}
  /\ open' = open \cup ({fd'.v4, fd'.v6} \ {None})
  /\ UNCHANGED <<port, mainVars, websocket, cancelling, chosen, kept, dropped, repeats, late, offer>>

(* wait_for_session_message_ack: the result of another request stays in    *)
(* the queue and is found again, for ever.                                 *)
IsStale == hpc = "result" /\ IsMessage /\ queue[Found].kind = "RESULT"
             /\ queue[Found] # ResultOf("OFFER", port)

ResultReceived ==
  /\ hpc = "result" /\ IsAwaited /\ ~IsStale
  /\ hpc' = "check"
  /\ UNCHANGED <<port, mainVars, websocket, sockets, outside, offer>>

(* Mutant: the session keeps naming the sockets.                           *)
CheckCandidatesKeeps(s) ==
  /\ s # None
  /\ open' = open \ ({fd.v4, fd.v6} \ {s})
  /\ chosen' = s
  /\ UNCHANGED <<fd, kept, dropped>>

(* check_candidates chooses a socket and gives it to its caller alone.     *)
CheckCandidates(s) ==
  /\ s # None
  /\ open' = open \ ({fd.v4, fd.v6} \ {s})
  /\ fd' = [v4 |-> None, v6 |-> None]
  /\ chosen' = s
  /\ UNCHANGED <<kept, dropped>>

Checked ==
  /\ hpc = "check"
  /\ \/ \E s \in {fd.v4, fd.v6} :
          CheckCandidates(s) /\ hpc' = "send_accept" /\ UNCHANGED asleep
     \/ Fails
  /\ UNCHANGED <<port, flags, left_locked, queue, websocket, cancelling, outside, offer>>

(* The cancel is looked at before and after the request.                   *)
SendAccept ==
  /\ hpc = "send_accept"
  /\ \/ /\ Canceled /\ Fails /\ UNCHANGED owed
     \/ /\ ~main_stop
        /\ \E r \in HttpSendSessionMessage :
             /\ Continues(r, "accept")
             /\ owed' = IF r = "SUCCESS"
                        THEN owed \cup {ResultOf("ACCEPT", port), About("ACCEPT", port)}
                        ELSE owed
  /\ UNCHANGED <<port, flags, left_locked, queue, websocket, repeats, late, offer>>

AcceptReceived ==
  /\ hpc = "accept" /\ IsAwaited
  /\ hpc' = "ack_accept"
  /\ UNCHANGED <<port, mainVars, websocket, sockets, outside, offer>>

AcceptAcked ==
  /\ hpc = "ack_accept"
  /\ \E r \in HttpSendSessionMessage :
       /\ Continues(r, "establish")
       /\ owed' = IF r = "SUCCESS" /\ port = "ctrl" THEN owed \cup {About("OFFER", "data")} ELSE owed
  /\ UNCHANGED <<port, flags, left_locked, queue, websocket, repeats, late, offer>>

Establish ==
  /\ hpc = "establish" /\ ~left_locked
  /\ flags' = flags \cup {IF port = "ctrl" THEN "CTRL_ESTABLISHED" ELSE "DATA_ESTABLISHED"}
  /\ kept' = [kept EXCEPT ![port] = chosen]
  /\ chosen' = None
  /\ \/ NotCanceled /\ hpc' = "extra"
     \/ Canceled /\ hpc' = "fini"
  /\ UNCHANGED <<port, asleep, left_locked, queue, websocket, fd, open, dropped, outside, offer>>

(* receive_request_send_response_ps: requests of the console are answered  *)
(* until a second passes without one.                                      *)
Extra ==
  /\ hpc = "extra"
  /\ \/ hpc' = "idle" /\ UNCHANGED <<asleep, sockets>>
     \/ Fails
  /\ UNCHANGED <<port, flags, left_locked, queue, websocket, cancelling, outside, offer>>

(* The session thread punches the hole for the data port, or quits.        *)
SessionRuns ==
  /\ hpc = "idle"
  /\ \/ port = "ctrl" /\ "CTRL_ESTABLISHED" \in flags /\ port' = "data" /\ hpc' = "offer"
     \/ hpc' = "fini" /\ UNCHANGED port
  /\ UNCHANGED <<mainVars, websocket, cancelling, sockets, outside, offer>>

-----------------------------------------------------------------------------
(* chiaki_holepunch_session_fini.                                          *)
Fini ==
  /\ hpc = "fini"
  /\ IF ws = "running"
     THEN hpc' = "deleted" /\ owed' \in {owed, owed \cup {Plain("DELETED")}}
     ELSE hpc' = "gone" /\ UNCHANGED owed
  /\ UNCHANGED <<port, mainVars, websocket, cancelling, sockets, repeats, late, offer>>

FiniNotified ==
  /\ hpc = "deleted" /\ Found > 0 /\ ~left_locked
  /\ flags' = flags \cup {"DELETED"}
  /\ queue' = Cleared(Found)
  /\ hpc' = "join"
  /\ UNCHANGED <<port, asleep, left_locked, websocket, cancelling, sockets, outside, offer>>

FiniJoins ==
  /\ hpc = "join"
  /\ ws_stop' = TRUE
  /\ IF ws = "ended" THEN hpc' = "gone" ELSE ~ws_stop /\ UNCHANGED hpc
  /\ UNCHANGED <<port, mainVars, ws, holding, cancelling, sockets, outside, offer>>

-----------------------------------------------------------------------------
(* websocket_thread_func.                                                  *)
Signal == asleep' = IF asleep = "asleep" THEN "woken" ELSE asleep

WsConnect ==
  /\ ws = "connecting"
  /\ \/ ws' = "running" /\ ~left_locked /\ flags' = flags \cup {"WS_OPEN"}
     \/ ws' = "ended" /\ UNCHANGED flags
  /\ UNCHANGED <<hpc, port, asleep, left_locked, queue, ws_stop, holding, cancelling, sockets, outside, offer>>

WsReceive(n) ==
  /\ ws = "running" /\ holding = << >> /\ ~ws_stop /\ n \in owed
  /\ holding' = <<n>>
  /\ \/ owed' = owed \ {n} /\ UNCHANGED repeats
     \/ n.kind = "OFFER" /\ repeats < MaxRepeats /\ repeats' = repeats + 1 /\ UNCHANGED owed
  /\ UNCHANGED <<hpc, port, mainVars, ws, ws_stop, cancelling, sockets, late, offer>>

(* History: the ACCEPT for the control port is in the queue or was taken.  *)
CtrlAccepted ==
  \/ About("ACCEPT", "ctrl") \in {queue[i] : i \in DOMAIN queue}
  \/ port = "data" \/ hpc \in {"ack_accept", "establish", "extra", "idle"}

(* The thread ends after SESSION_DELETED.                                  *)
WsEnqueue ==
  /\ holding # << >>
  /\ queue' = queue \o holding
  /\ holding' = << >>
  /\ Signal
  /\ ws' \in {ws} \cup (IF holding[1].kind = "DELETED" THEN {"ended"} ELSE {})
  /\ late' = (late \/ (holding[1] = About("OFFER", "ctrl") /\ CtrlAccepted))
  /\ UNCHANGED <<hpc, port, flags, left_locked, ws_stop, cancelling, sockets, owed, repeats, offer>>

(* The stop, no PONG in time, a closed or failed websocket.                *)
WsEnd ==
  /\ ws = "running" /\ holding = << >>
  /\ ws' = "ended"
  /\ UNCHANGED <<hpc, port, mainVars, ws_stop, holding, cancelling, sockets, outside, offer>>

-----------------------------------------------------------------------------
(* chiaki_holepunch_main_thread_cancel, called by the GUI thread while     *)
(* another one starts or punches.                                          *)
Cancel(stop_thread) ==
  /\ hpc \in Starting \cup Punching \cup {"idle"}
  /\ cancels < MaxCancels
  /\ cancels' = cancels + 1
  /\ ws_stop' = (ws_stop \/ stop_thread)
  /\ main_stop' = TRUE
  /\ canceled' = canceled \cup {port}
  /\ Signal
  /\ UNCHANGED <<hpc, port, flags, left_locked, queue, ws, holding, sockets, outside, offer>>

-----------------------------------------------------------------------------
MainThread ==
  \/ WaitSleeps \/ WaitWoken \/ WaitTimeout
  \/ CreateFqdn \/ CreateOpen \/ CreateRequest \/ CreateNotified \/ CreateStops \/ CreateCleanup
  \/ StartRequest \/ StartNotified
  \/ MessageCleared \/ MessageFails \/ OfferReceived \/ OfferAcked \/ SendOffer \/ ResultReceived
  \/ Checked \/ SendAccept \/ AcceptReceived \/ AcceptAcked \/ Establish \/ Extra \/ SessionRuns
  \/ Fini \/ FiniNotified \/ FiniJoins

WsThread == WsConnect \/ WsEnqueue \/ (ws_stop /\ WsEnd)

HolepunchNext ==
  \/ MainThread \/ WsConnect \/ WsEnqueue \/ WsEnd
  \/ \E n \in owed : WsReceive(n)
  \/ \E b \in BOOLEAN : Cancel(b)

HolepunchFairness == WF_holepunchVars(MainThread) /\ WF_holepunchVars(WsThread)
HolepunchSpec == HolepunchInit /\ [][HolepunchNext]_holepunchVars /\ HolepunchFairness
-----------------------------------------------------------------------------
(* A hole is punched with the offer made for its port, although offers are *)
(* repeated and every message looked at stays in the queue, unless an      *)
(* offer for the control port was repeated after its ACCEPT.               *)
PunchedForPort ==
  \A p \in Ports : offer[p] \in {"none", p} \/ (p = "data" /\ late)

(* The session names no closed socket, two ports never share one, and only *)
(* a socket that was chosen and then given up stays open unnamed.          *)
SocketsKept ==
  LET named == {fd.v4, fd.v6, chosen, kept["ctrl"], kept["data"]} \ {None}
  IN /\ open = named \cup dropped
     /\ dropped \cap named = {}
     /\ kept["ctrl"] # None => kept["ctrl"] \notin {fd.v4, fd.v6, chosen, kept["data"]}

(* A connection the user canceled before its control port was punched      *)
(* never gets to stream: the cancel is not lost between two waits.         *)
CancelHeeded == "ctrl" \in canceled => "DATA_ESTABLISHED" \notin flags

(* Every session ends, with each of its calls returning, unless it hangs   *)
(* in one of three ways: create waits for a websocket that failed to open, *)
(* the result of another request is found again and again, or fini needs   *)
(* the mutex that a canceled start has left locked.                        *)
Hangs ==
  \/ hpc = "open" /\ ws = "ended"
  \/ IsStale
  \/ hpc = "deleted" /\ Found > 0 /\ left_locked
HolepunchEnds == hpc = "open" ~> (hpc \in {"gone", "create_failed"} \/ Hangs)
=============================================================================
