--------------------------- MODULE SessionProofs ---------------------------
(***************************************************************************)
(* What the session tells the user and the console is true and is told     *)
(* once, for every number of addresses, login PINs and messages.  Then the *)
(* connection through the internet that a session may begin with: holes    *)
(* are punched for the right ports and none is lost, cancels are heeded,   *)
(* an address is one that answered, the ports of a NAT are predicted, and  *)
(* RUDP keeps its messages, for every number of them.                      *)
(***************************************************************************)
EXTENDS Session, Holepunch, Candidates, Stun, Rudp, SeqNumProofs, FiniteSetTheorems, SequenceTheorems, TLAPS

-----------------------------------------------------------------------------
(* Where the threads are.  The ctrl thread exists from wait_settle on and  *)
(* has been joined at quit; the registration thread exists while it is     *)
(* waited for and joined.  QUIT is sent by the last step.                  *)
BeforeCtrl == {"start", "wait_regist", "join_regist", "request", "connecting", "receiving", "wait_settle"}

CtrlAlive == /\ pc \in BeforeCtrl => cpc = "none"
             /\ pc \in {"quit", "ended"} => cpc \in {"none", "done"}

RegistAlive == /\ pc = "start" => regist = "none"
               /\ pc \in {"wait_regist", "join_regist"} => regist \in {"running", "ended"}
               /\ pc \notin {"start", "wait_regist", "join_regist"} => regist \in {"none", "joined"}

QuitSent == events = IF pc = "ended" THEN 1 ELSE 0

Threads == CtrlAlive /\ RegistAlive /\ QuitSent

(* A step of the ctrl thread is one of a thread that runs.                 *)
LEMMA CtrlRuns == CtrlThread => cpc \notin {"none", "done"}
BY DEF CtrlThread, CtrlStart, CtrlConnecting, CtrlRequest, CtrlReports, ReportUnknown, ReportRefused,
       ReportConnect, ReportLoop, Report, CtrlHandles, Handles, HandleEnd, HandleHeartbeat, HandleLogin,
       HandleOther, HandleSessionId, HandleLoginPinReq, HandlePinIncorrect, HandleSwitch, HandleFinish,
       SetSessionId, SetLoginPinRequested, SetSwitch, SetsFlag, SelectCanceled, SelectReceived

LEMMA ThreadsInit == Init => Threads
BY DEF Init, CtrlInit, Threads, CtrlAlive, RegistAlive, QuitSent, BeforeCtrl

LEMMA ThreadsNext == Threads /\ [Next]_vars => Threads'
<1> SUFFICES ASSUME Threads, [Next]_vars PROVE Threads'
  OBVIOUS
<1> USE DEF Threads, CtrlAlive, RegistAlive, QuitSent, BeforeCtrl, sessionVars, ctrlOwn
<1>1. CASE SessionThread
  <2> USE DEF Goto, Quits, StopsAt, Over, CtrlFailed, Waits
  <2>1. CASE Start
    BY <2>1 DEF Start
  <2>2. CASE RegistWaited
    BY <2>2 DEF RegistWaited
  <2>3. CASE RegistJoined
    BY <2>3 DEF RegistJoined
  <2>4. CASE Request
    BY <2>4 DEF Request
  <2>5. CASE Connecting
    BY <2>5 DEF Connecting
  <2>6. CASE Receiving
    BY <2>6 DEF Receiving
  <2>7. CASE StartCtrl
    BY <2>7 DEF StartCtrl
  <2>8. CASE CtrlWaited
    BY <2>8 DEF CtrlWaited, PinLoop, AfterLogin
  <2>9. CASE PinEntered
    BY <2>9 DEF PinEntered
  <2>10. CASE ForwardPin
    BY <2>10 DEF ForwardPin, CtrlSetLoginPin
  <2>11. CASE PinResult
    BY <2>11 DEF PinResult, PinLoop, AfterLogin
  <2>12. CASE Punch
    BY <2>12 DEF Punch
  <2>13. CASE Punched
    BY <2>13 DEF Punched
  <2>14. CASE Fallback
    BY <2>14 DEF Fallback
  <2>15. CASE FallbackSet
    BY <2>15 DEF FallbackSet
  <2>16. CASE Senkusha
    BY <2>16 DEF Senkusha
  <2>17. CASE SwitchWaited
    BY <2>17 DEF SwitchWaited
  <2>18. CASE StreamEnded
    BY <2>18 DEF StreamEnded
  <2>19. CASE StopCtrl
    BY <2>19 DEF StopCtrl, CtrlStop
  <2>20. CASE JoinCtrl
    BY <2>20 DEF JoinCtrl
  <2>21. CASE Quit
    BY <2>21 DEF Quit
  <2> QED
    BY <1>1, <2>1, <2>2, <2>3, <2>4, <2>5, <2>6, <2>7, <2>8, <2>9, <2>10, <2>11, <2>12, <2>13,
       <2>14, <2>15, <2>16, <2>17, <2>18, <2>19, <2>20, <2>21 DEF SessionThread
<1>2. CASE Sleep \/ Expire \/ StreamSteps \/ SessionStop \/ SetLoginPin
  BY <1>2 DEF Sleep, Expire, StreamSteps, SessionStop, SetLoginPin, ctrlVars
<1>3. CASE RegistEnds
  BY <1>3 DEF RegistEnds
<1>4. CASE CtrlSteps
  BY <1>4, CtrlRuns DEF CtrlSteps, Apart
<1>5. CASE Apart(SelectClosed) \/ Apart(Console) \/ Apart(SendMessage) \/ Apart(SendMessageWrites)
  BY <1>5 DEF Apart, SelectClosed, CtrlGoes, Console, ConsoleLogin, ConsoleExtra, ConsoleCloses, Puts,
              SendMessage, SendMessageWrites
<1>6. CASE UNCHANGED vars
  BY <1>6 DEF vars, ctrlVars
<1> QED
  BY <1>1, <1>2, <1>3, <1>4, <1>5, <1>6 DEF Next
-----------------------------------------------------------------------------
(* Login PINs.  A PIN is with the user, in login_pin_entered of the        *)
(* session, in that of the ctrl, or sent; a session that forwards one has  *)
(* one.                                                                    *)
PinsCounted == /\ pins \in Nat /\ entered \in Nat
               /\ pins <= entered
               /\ login_pin_entered \/ login_pin => pins + 1 <= entered
               /\ login_pin_entered /\ login_pin => pins + 2 <= entered
               /\ pc = "forward_pin" => login_pin
               /\ pc = "wait_pin" => wait # "expired"

LEMMA PinsInit == Init => PinsCounted
BY DEF Init, CtrlInit, PinsCounted

LEMMA PinsNext == PinsCounted /\ [Next]_vars => PinsCounted'
<1> SUFFICES ASSUME PinsCounted, [Next]_vars PROVE PinsCounted'
  OBVIOUS
<1> USE DEF PinsCounted, sessionVars, notif
<1>1. CASE SessionThread
  <2> USE DEF Goto, Quits, StopsAt, Over, CtrlFailed, Waits, Pred, ctrlOwn
  <2>1. CASE Start
    BY <2>1 DEF Start
  <2>2. CASE RegistWaited
    BY <2>2 DEF RegistWaited
  <2>3. CASE RegistJoined
    BY <2>3 DEF RegistJoined
  <2>4. CASE Request
    BY <2>4 DEF Request
  <2>5. CASE Connecting
    BY <2>5 DEF Connecting
  <2>6. CASE Receiving
    BY <2>6 DEF Receiving
  <2>7. CASE StartCtrl
    BY <2>7 DEF StartCtrl
  <2>8. CASE CtrlWaited
    BY <2>8 DEF CtrlWaited, PinLoop, AfterLogin
  <2>9. CASE PinEntered
    BY <2>9 DEF PinEntered
  <2>10. CASE ForwardPin
    BY <2>10 DEF ForwardPin, CtrlSetLoginPin
  <2>11. CASE PinResult
    BY <2>11 DEF PinResult, PinLoop, AfterLogin
  <2>12. CASE Punch
    BY <2>12 DEF Punch
  <2>13. CASE Punched
    BY <2>13 DEF Punched
  <2>14. CASE Fallback
    BY <2>14 DEF Fallback
  <2>15. CASE FallbackSet
    BY <2>15 DEF FallbackSet
  <2>16. CASE Senkusha
    BY <2>16 DEF Senkusha
  <2>17. CASE SwitchWaited
    BY <2>17 DEF SwitchWaited
  <2>18. CASE StreamEnded
    BY <2>18 DEF StreamEnded
  <2>19. CASE StopCtrl
    BY <2>19 DEF StopCtrl, CtrlStop
  <2>20. CASE JoinCtrl
    BY <2>20 DEF JoinCtrl
  <2>21. CASE Quit
    BY <2>21 DEF Quit
  <2> QED
    BY <1>1, <2>1, <2>2, <2>3, <2>4, <2>5, <2>6, <2>7, <2>8, <2>9, <2>10, <2>11,
       <2>12, <2>13, <2>14, <2>15, <2>16, <2>17, <2>18, <2>19, <2>20, <2>21 DEF SessionThread
<1>2. CASE Sleep \/ Expire \/ StreamSteps \/ SessionStop \/ SetLoginPin \/ RegistEnds
  BY <1>2 DEF Sleep, Expire, StreamSteps, SessionStop, SetLoginPin, RegistEnds, SignalSession, ctrlVars, ctrlOwn
<1>3. CASE CtrlSteps
  <2>1. CASE SelectCanceled
    <3>1. UNCHANGED <<entered, login_pin, pc, wait>>
      BY <1>3, <2>1 DEF CtrlSteps, Apart, SelectCanceled
    <3>2. \/ login_pin_entered /\ ~login_pin_entered' /\ pins' = pins + 1
          \/ ~login_pin_entered /\ ~login_pin_entered' /\ pins' = pins
      BY <2>1, Zenon DEF SelectCanceled
    <3> QED
      BY <3>1, <3>2
  <2>2. CASE ~SelectCanceled
    BY <1>3, <2>2 DEF CtrlSteps, Apart, SignalSession,
              CtrlThread, CtrlStart, CtrlConnecting, CtrlRequest, CtrlGoes, CtrlReports, ReportUnknown,
              ReportRefused, ReportConnect, ReportLoop, Report, CtrlHandles, HandleEnd, HandleHeartbeat,
              HandleLogin, HandleOther, HandleSessionId, HandleLoginPinReq, HandlePinIncorrect, HandleSwitch,
              HandleFinish, SetSessionId, SetLoginPinRequested, SetSwitch, SetsFlag, SelectReceived
  <2> QED
    BY <2>1, <2>2
<1>4. CASE Apart(SelectClosed) \/ Apart(Console) \/ Apart(SendMessage) \/ Apart(SendMessageWrites)
  <2>1. CASE Apart(SelectClosed)
    BY <2>1 DEF Apart, SelectClosed, CtrlGoes
  <2>2. CASE Apart(Console)
    <3>1. UNCHANGED <<pins, entered, login_pin_entered, login_pin, pc, wait>>
      BY <2>2 DEF Apart, Console, ConsoleLogin, ConsoleExtra, ConsoleCloses, Puts
    <3> QED
      BY <3>1
  <2>3. CASE Apart(SendMessage)
    BY <2>3 DEF Apart, SendMessage
  <2>4. CASE Apart(SendMessageWrites)
    BY <2>4 DEF Apart, SendMessageWrites
  <2> QED
    BY <1>4, <2>1, <2>2, <2>3, <2>4
<1>5. CASE UNCHANGED vars
  BY <1>5 DEF vars, ctrlVars
<1> QED
  BY <1>1, <1>2, <1>3, <1>4, <1>5 DEF Next

-----------------------------------------------------------------------------
(* Each reason rests on what happened, whenever it is set.                 *)
ReasonFounded ==
  /\ stream_stop => session_stop
  /\ result = "DISCONNECTED" => remote
  /\ result \in {"SUCCESS", "CANCELED"} => stream_stop
  /\ quit_reason = "STOPPED" => session_stop
  /\ quit_reason \in {"STREAM_CONNECTION_REMOTE_SHUTDOWN", "STREAM_CONNECTION_REMOTE_DISCONNECTED"} => remote
  /\ quit_reason = "CTRL_CONNECT_FAILED" => ctrl_failed

LEMMA ResponsesFounded ==
  ASSUME ReasonFounded, NEW known, NEW r \in Responses(known)
  PROVE  /\ r[2] = "STOPPED" => session_stop
         /\ r[2] \notin {"STREAM_CONNECTION_REMOTE_SHUTDOWN", "STREAM_CONNECTION_REMOTE_DISCONNECTED",
                        "CTRL_CONNECT_FAILED"} \/ r[2] = quit_reason
<1> DEFINE Q == {quit_reason, "SESSION_REQUEST_UNKNOWN", "SESSION_REQUEST_RP_IN_USE",
                 "SESSION_REQUEST_RP_CRASH", "SESSION_REQUEST_RP_VERSION_MISMATCH"}
<1>1. \E e, q, k : r = <<e, q, k>> /\ (q \in Q \/ (q = "STOPPED" /\ session_stop))
  BY Zenon DEF Responses
<1>2. r[2] \in Q \/ (r[2] = "STOPPED" /\ session_stop)
  BY <1>1
<1> QED
  BY <1>2 DEF ReasonFounded

LEMMA ReasonInit == Init => ReasonFounded
BY DEF Init, CtrlInit, Stream!Init, ReasonFounded

LEMMA ReasonNext == ReasonFounded /\ [Next]_vars => ReasonFounded'
<1> SUFFICES ASSUME ReasonFounded, [Next]_vars PROVE ReasonFounded'
  OBVIOUS
<1> USE DEF ReasonFounded, sessionVars, stream, session_flags, otherFlags
<1>1. CASE SessionThread
  <2> USE DEF Goto, Quits, StopsAt, CtrlFailed
  <2>1. CASE Start
    BY <2>1 DEF Start
  <2>2. CASE RegistWaited
    BY <2>2 DEF RegistWaited
  <2>3. CASE RegistJoined
    BY <2>3 DEF RegistJoined
  <2>4. CASE Request
    BY <2>4 DEF Request
  <2>5. CASE Connecting
    BY <2>5 DEF Connecting
  <2>6. CASE Receiving
    BY <2>6, ResponsesFounded DEF Receiving
  <2>7. CASE StartCtrl
    BY <2>7 DEF StartCtrl
  <2>8. CASE CtrlWaited
    BY <2>8 DEF CtrlWaited, PinLoop, AfterLogin
  <2>9. CASE PinEntered
    BY <2>9 DEF PinEntered
  <2>10. CASE ForwardPin
    BY <2>10 DEF ForwardPin, CtrlSetLoginPin
  <2>11. CASE PinResult
    BY <2>11 DEF PinResult, PinLoop, AfterLogin
  <2>12. CASE Punch
    BY <2>12 DEF Punch
  <2>13. CASE Punched
    BY <2>13 DEF Punched
  <2>14. CASE Fallback
    BY <2>14 DEF Fallback
  <2>15. CASE FallbackSet
    BY <2>15 DEF FallbackSet
  <2>16. CASE Senkusha
    BY <2>16 DEF Senkusha
  <2>17. CASE SwitchWaited
    BY <2>17 DEF SwitchWaited
  <2>18. CASE StreamEnded
    BY <2>18 DEF StreamEnded
  <2>19. CASE StopCtrl
    BY <2>19 DEF StopCtrl, CtrlStop
  <2>20. CASE JoinCtrl
    BY <2>20 DEF JoinCtrl
  <2>21. CASE Quit
    BY <2>21 DEF Quit
  <2> QED
    BY <1>1, <2>1, <2>2, <2>3, <2>4, <2>5, <2>6, <2>7, <2>8, <2>9, <2>10, <2>11,
       <2>12, <2>13, <2>14, <2>15, <2>16, <2>17, <2>18, <2>19, <2>20, <2>21 DEF SessionThread
<1>2. CASE Sleep \/ Expire \/ SessionStop \/ SetLoginPin \/ RegistEnds
  BY <1>2 DEF Sleep, Expire, SessionStop, SetLoginPin, RegistEnds
<1>3. CASE StreamSteps
  BY <1>3 DEF StreamSteps, Stream!Remote, Stream!Return, Stream!Failed, ctrlVars
<1>4. CASE CtrlSteps
  BY <1>4 DEF CtrlSteps, Apart, SelectCanceled,
              CtrlThread, CtrlStart, CtrlConnecting, CtrlRequest, CtrlGoes, CtrlReports, ReportUnknown,
              ReportRefused, ReportConnect, ReportLoop, Report, CtrlHandles, HandleEnd, HandleHeartbeat,
              HandleLogin, HandleOther, HandleSessionId, HandleLoginPinReq, HandlePinIncorrect, HandleSwitch,
              HandleFinish, SetSessionId, SetLoginPinRequested, SetSwitch, SetsFlag, SelectReceived
<1>5. CASE Apart(SelectClosed) \/ Apart(Console) \/ Apart(SendMessage) \/ Apart(SendMessageWrites)
  <2>1. CASE Apart(SelectClosed)
    BY <2>1 DEF Apart, SelectClosed, CtrlGoes
  <2>2. CASE Apart(Console)
    BY <2>2 DEF Apart, Console, ConsoleLogin, ConsoleExtra, ConsoleCloses, Puts
  <2>3. CASE Apart(SendMessage)
    BY <2>3 DEF Apart, SendMessage
  <2>4. CASE Apart(SendMessageWrites)
    BY <2>4 DEF Apart, SendMessageWrites
  <2> QED
    BY <1>5, <2>1, <2>2, <2>3, <2>4
<1>6. CASE UNCHANGED vars
  BY <1>6 DEF vars, ctrlVars
<1> QED
  BY <1>1, <1>2, <1>3, <1>4, <1>5, <1>6 DEF Next

-----------------------------------------------------------------------------
(* QUIT is sent once, by the last thread of the session, and the console   *)
(* gets no login PIN that the user has not entered.                        *)
THEOREM ToldOnceHolds == Spec => []ToldOnce
<1>1. Init => Threads /\ PinsCounted
  BY ThreadsInit, PinsInit
<1>2. Threads /\ PinsCounted /\ [Next]_vars => (Threads /\ PinsCounted)'
  BY ThreadsNext, PinsNext
<1>3. Threads /\ PinsCounted => ToldOnce
  BY DEF Threads, CtrlAlive, RegistAlive, QuitSent, PinsCounted, ToldOnce, QuitIsLast, PinsSentOnce
<1> QED
  BY <1>1, <1>2, <1>3, PTL DEF Spec

(* What the QUIT event gives as the reason has happened.                   *)
THEOREM ReasonIsTrueHolds == Spec => []ReasonIsTrue
<1>1. ReasonFounded => ReasonIsTrue
  BY DEF ReasonFounded, ReasonIsTrue
<1> QED
  BY <1>1, ReasonInit, ReasonNext, PTL DEF Spec

-----------------------------------------------------------------------------
(* Hole punching: what becomes of a cancel.                                *)

Leaving == {"fini", "deleted", "join", "gone", "create_failed", "cleanup"}

LEMMA FailureLeaves == AfterFailure \in Leaving /\ (Fails => hpc' \in Leaving)
BY DEF AfterFailure, Leaving, Fails

LEMMA ContinuesOr ==
  ASSUME NEW r, NEW next, Continues(r, next)
  PROVE  /\ canceled' = canceled
         /\ hpc' \in Leaving \/ (hpc' = next /\ ~main_stop /\ main_stop' = main_stop)
BY FailureLeaves DEF Continues, Canceled, NotCanceled, cancelling

(* A cancel that came before the control port was punched is still to be   *)
(* seen, at the latest by the first wait for the data port, or it was and  *)
(* the session is on its way to its end.                                   *)
CancelInv ==
  /\ port \in {"ctrl", "data"}
  /\ "DATA_ESTABLISHED" \in flags => port = "data" /\ (hpc \in {"extra", "idle"} \/ hpc \in Leaving)
  /\ "ctrl" \in canceled => \/ hpc \in Leaving
                            \/ main_stop /\ (port = "ctrl" \/ hpc = "offer")
  /\ CancelHeeded

LEMMA CancelStart == HolepunchInit => CancelInv
BY DEF HolepunchInit, CancelInv, CancelHeeded

LEMMA FlagIsNot == ASSUME NEW n PROVE Flag(n) # "DATA_ESTABLISHED"
BY DEF Flag

LEMMA CancelStep == CancelInv /\ [HolepunchNext]_holepunchVars => CancelInv'
<1> SUFFICES ASSUME CancelInv, [HolepunchNext]_holepunchVars PROVE CancelInv'
  OBVIOUS
<1> USE FailureLeaves DEF CancelInv, CancelHeeded
<1> USE DEF Leaving
<1>1. CASE WaitSleeps
  BY <1>1 DEF WaitSleeps, cancelling
<1>2. CASE WaitWoken \/ WaitTimeout
  <2>1. /\ canceled' = canceled /\ flags' = flags /\ port' = port
        /\ hpc' \in Leaving \/ (hpc' = hpc /\ main_stop' = main_stop)
    BY <1>2 DEF WaitWoken, WaitTimeout, Canceled, NotCanceled, cancelling
  <2> QED
    BY <2>1
<1>3. CASE CreateFqdn \/ CreateOpen \/ CreateRequest
  <2>1. /\ flags' = flags /\ port' = port /\ hpc \notin Leaving \cup {"extra", "idle"} /\ canceled' = canceled
        /\ hpc' \in Leaving \/ ~main_stop
    BY <1>3, ContinuesOr DEF CreateFqdn, CreateOpen, CreateRequest
  <2> QED
    BY <2>1
<1>4. CASE CreateStops \/ CreateCleanup
  BY <1>4 DEF CreateStops, CreateCleanup, mainVars, cancelling
<1>5. CASE CreateNotified \/ StartNotified
  <2>1. /\ "DATA_ESTABLISHED" \in flags' => "DATA_ESTABLISHED" \in flags
        /\ port' = port /\ hpc \notin Leaving \cup {"extra", "idle"} /\ canceled' = canceled
        /\ hpc' \in Leaving \/ ~main_stop
    BY <1>5, ContinuesOr, FlagIsNot DEF CreateNotified, StartNotified, cancelling
  <2> QED
    BY <2>1
<1>6. CASE StartRequest
  <2>1. /\ "DATA_ESTABLISHED" \in flags' => "DATA_ESTABLISHED" \in flags
        /\ port' = port /\ hpc \notin Leaving \cup {"extra", "idle"} /\ canceled' = canceled
        /\ hpc' \in Leaving \/ ~main_stop
    BY <1>6, ContinuesOr DEF StartRequest
  <2> QED
    BY <2>1
<1>7. CASE MessageCleared \/ MessageFails
  BY <1>7 DEF MessageCleared, MessageFails, Canceled, NotCanceled, cancelling
<1>8. CASE OfferReceived
  BY <1>8 DEF OfferReceived, IsAwaited, NotCanceled, cancelling
<1>9. CASE OfferAcked \/ AcceptAcked
  <2>1. /\ flags' = flags /\ port' = port /\ hpc \notin Leaving \cup {"extra", "idle"} /\ canceled' = canceled
        /\ hpc' \in Leaving \/ ~main_stop
    BY <1>9, ContinuesOr DEF OfferAcked, AcceptAcked
  <2> QED
    BY <2>1
<1>10. CASE SendOffer
  BY <1>10 DEF SendOffer, mainVars, cancelling
<1>11. CASE ResultReceived \/ AcceptReceived
  BY <1>11 DEF ResultReceived, AcceptReceived, IsAwaited, NotCanceled, mainVars, cancelling
<1>12. CASE Checked
  BY <1>12 DEF Checked, cancelling
<1>13. CASE SendAccept
  <2>1. /\ flags' = flags /\ port' = port /\ hpc \notin Leaving \cup {"extra", "idle"} /\ canceled' = canceled
        /\ hpc' \in Leaving \/ ~main_stop
    BY <1>13, ContinuesOr DEF SendAccept, Canceled
  <2> QED
    BY <2>1
<1>14. CASE Establish
  <2>1a. hpc = "establish" /\ port' = port /\ "DATA_ESTABLISHED" \notin flags
    BY <1>14 DEF Establish
  <2>1b. canceled' = canceled /\ ((hpc' = "extra" /\ ~main_stop /\ main_stop' = main_stop) \/ hpc' = "fini")
    BY <1>14 DEF Establish, Canceled, NotCanceled, cancelling
  <2>1c. flags' = flags \cup {IF port = "ctrl" THEN "CTRL_ESTABLISHED" ELSE "DATA_ESTABLISHED"}
    BY <1>14 DEF Establish
  <2>1d. ("DATA_ESTABLISHED" \in flags' => port = "data")
    BY <2>1a, <2>1c
  <2>1. /\ hpc = "establish" /\ port' = port /\ canceled' = canceled
        /\ "DATA_ESTABLISHED" \notin flags
        /\ "DATA_ESTABLISHED" \in flags' => port = "data"
        /\ (hpc' = "extra" /\ ~main_stop /\ main_stop' = main_stop) \/ hpc' = "fini"
    BY <2>1a, <2>1b, <2>1d
  <2>2. CASE "ctrl" \in canceled
    <3>1. main_stop /\ port = "ctrl"
      BY <2>1, <2>2
    <3>2. hpc' = "fini" /\ "DATA_ESTABLISHED" \notin flags'
      BY <2>1, <3>1
    <3> QED
      BY <2>1, <3>2
  <2>3. CASE "ctrl" \notin canceled
    BY <2>1, <2>3
  <2> QED
    BY <2>2, <2>3
<1>15. CASE Extra
  BY <1>15 DEF Extra, cancelling
<1>16. CASE SessionRuns
  BY <1>16 DEF SessionRuns, mainVars, cancelling
<1>17. CASE Fini \/ FiniNotified \/ FiniJoins
  BY <1>17 DEF Fini, FiniNotified, FiniJoins, cancelling, mainVars
<1>18. CASE WsConnect \/ WsEnqueue \/ WsEnd \/ (\E n \in owed : WsReceive(n))
  BY <1>18 DEF WsConnect, WsEnqueue, WsEnd, WsReceive, cancelling, mainVars
<1>19. CASE \E b \in BOOLEAN : Cancel(b)
  BY <1>19 DEF Cancel, Starting, Punching
<1>20. CASE UNCHANGED holepunchVars
  BY <1>20 DEF holepunchVars, mainVars, cancelling
<1> QED
  BY <1>1, <1>2, <1>3, <1>4, <1>5, <1>6, <1>7, <1>8, <1>9, <1>10, <1>11, <1>12, <1>13, <1>14, <1>15, <1>16, <1>17,
     <1>18, <1>19, <1>20
     DEF HolepunchNext, MainThread

(* A connection canceled while its control port is punched never gets to   *)
(* stream, wherever the cancel falls and however often it is repeated.     *)
THEOREM CancelHeededHolds == HolepunchSpec => []CancelHeeded
<1>1. CancelInv => CancelHeeded
  BY DEF CancelInv
<1> QED
  BY CancelStart, CancelStep, <1>1, PTL DEF HolepunchSpec

-----------------------------------------------------------------------------
(* Sockets.  A number that is free exists, since finitely many are used.   *)
LEMMA FreshIsFree ==
  ASSUME NEW used, IsFiniteSet(used)
  PROVE  Fresh(used) \in Nat \ {0} /\ Fresh(used) \notin used
<1>1. Cardinality(used) \in Nat
  BY FS_CardinalityType
<1> DEFINE N == Cardinality(used) + 1
<1>2. ~(1 .. N \subseteq used)
  <2>1. IsFiniteSet(1 .. N) /\ Cardinality(1 .. N) = N
    BY <1>1, FS_Interval
  <2>2. 1 .. N \subseteq used => Cardinality(1 .. N) <= Cardinality(used)
    BY FS_Subset
  <2> QED
    BY <1>1, <2>1, <2>2
<1>3. PICK n \in 1 .. N : n \notin used
  BY <1>2
<1>4. Fresh(used) \in 1 .. N /\ Fresh(used) \notin used
  BY <1>3 DEF Fresh
<1> QED
  BY <1>1, <1>4

SocketsTyped ==
  /\ fd \in [v4 : Nat, v6 : Nat] /\ chosen \in Nat /\ kept \in [Ports -> Nat]
  /\ port \in Ports /\ IsFiniteSet(open) /\ None \notin dropped

(* Which of them the session names follows from where the call is.         *)
Named ==
  /\ hpc \notin {"result", "check"} => fd = [v4 |-> None, v6 |-> None]
  /\ hpc \notin {"send_accept", "accept", "ack_accept", "establish"} => chosen = None
  /\ port = "ctrl" => kept["data"] = None
  /\ hpc \in Creating \cup Starting \cup (Punching \ {"extra"}) => kept[port] = None

SocketInv == SocketsTyped /\ Named /\ SocketsKept

LEMMA SocketStart == HolepunchInit => SocketInv
BY FS_EmptySet DEF HolepunchInit, SocketInv, SocketsTyped, Named, SocketsKept, Ports, None

(* Closing what the session names, once nothing else is chosen or kept.    *)
LEMMA CloseKeeps ==
  ASSUME SocketInv, CloseSockets, kept[port] = None, UNCHANGED port
  PROVE  /\ SocketsTyped' /\ SocketsKept' /\ kept' = kept
         /\ fd' = [v4 |-> None, v6 |-> None] /\ chosen' = None
<1> USE DEF SocketInv, CloseSockets
<1>1. SocketsTyped'
  BY FS_Subset DEF SocketsTyped, None
<1>2. SocketsKept'
  <2> DEFINE A == {fd.v4, fd.v6}
             K == {kept["ctrl"], kept["data"]}
  <2>1. (chosen = None \/ A = {None}) /\ None \notin open
    BY DEF Named, SocketsKept, SocketsTyped
  <2>2. kept["data"] = None
    BY DEF Named, SocketsTyped, Ports
  <2>3. open = ((A \cup {chosen} \cup K) \ {None}) \cup dropped /\ dropped \cap ((A \cup {chosen} \cup K) \ {None}) = {}
    BY DEF SocketsKept
  <2>4. kept["ctrl"] # None => kept["ctrl"] \notin A \cup {chosen, kept["data"]}
    BY DEF SocketsKept
  <2>5. open' = open \ A /\ dropped' = IF chosen = None THEN dropped ELSE dropped \cup {chosen}
    OBVIOUS
  <2>6. {fd'.v4, fd'.v6, chosen', kept'["ctrl"], kept'["data"]} \ {None} = K \ {None}
    OBVIOUS
  <2> HIDE DEF A, CloseSockets
  <2>7. open' = (K \ {None}) \cup dropped' /\ dropped' \cap (K \ {None}) = {}
    BY <2>1, <2>2, <2>3, <2>4, <2>5
  <2>8. kept'["ctrl"] # None => kept'["ctrl"] \notin {fd'.v4, fd'.v6, chosen', kept'["data"]}
    BY <2>2 DEF CloseSockets
  <2> QED
    BY <2>6, <2>7, <2>8 DEF SocketsKept
<1> QED
  BY <1>1, <1>2
(* A call that fails: nothing is chosen or kept for its port, or it closes *)
(* nothing.                                                                *)
LEMMA FailsSockets ==
  ASSUME SocketInv, Fails, UNCHANGED port
  PROVE  SocketInv'
<1> USE FailureLeaves DEF Leaving
<1>1. CASE hpc \in Punching \ {"extra"}
  <2>1. CloseSockets /\ kept[port] = None
    BY <1>1 DEF Fails, SocketInv, Named
  <2>2. SocketsTyped' /\ SocketsKept' /\ kept' = kept /\ fd' = [v4 |-> None, v6 |-> None] /\ chosen' = None
    BY <2>1, CloseKeeps
  <2>3. Named'
    BY <2>2 DEF SocketInv, Named, Punching, Creating, Starting
  <2> QED
    BY <2>2, <2>3 DEF SocketInv
<1>2. CASE hpc = "extra"
  <2>1. CloseSockets /\ fd = [v4 |-> None, v6 |-> None] /\ chosen = None
    BY <1>2 DEF Fails, SocketInv, Named, Punching
  <2>2. fd' = fd /\ chosen' = chosen /\ kept' = kept /\ open' = open /\ dropped' = dropped
    BY <2>1 DEF CloseSockets, SocketInv, SocketsTyped, SocketsKept
  <2> QED
    BY <2>1, <2>2 DEF SocketInv, SocketsTyped, SocketsKept, Named, Punching, Creating, Starting
<1>3. CASE hpc \notin Punching
  BY <1>3 DEF Fails, sockets, SocketInv, SocketsTyped, SocketsKept, Named, Punching, Creating, Starting
<1> QED
  BY <1>1, <1>2, <1>3

(* A step that touches no socket and leads where as little is named.       *)
LEMMA SocketsRest ==
  ASSUME SocketInv, UNCHANGED sockets, UNCHANGED port, Named'
  PROVE  SocketInv'
BY DEF SocketInv, SocketsTyped, SocketsKept, sockets

LEMMA ContinuesSockets ==
  ASSUME SocketInv, NEW r, NEW next, Continues(r, next), UNCHANGED port,
         next \in {"open", "http_create", "http_start", "created", "started", "offer", "send_offer", "accept", "establish"},
         next = "accept" => hpc = "send_accept", next = "establish" => hpc = "ack_accept",
         hpc \in Creating \cup Starting \cup (Punching \ {"extra", "result", "check", "establish", "accept"}),
         hpc \in {"send_accept", "ack_accept"} => next \in {"accept", "establish"}
  PROVE  SocketInv'
<1>1. CASE Fails
  BY <1>1, FailsSockets
<1>2. CASE hpc' = next /\ UNCHANGED sockets
  <2>1. Named'
    BY <1>2 DEF SocketInv, Named, sockets, Creating, Starting, Punching
  <2> QED
    BY <1>2, <2>1, SocketsRest
<1> QED
  BY <1>1, <1>2 DEF Continues

LEMMA SocketStep == SocketInv /\ [HolepunchNext]_holepunchVars => SocketInv'
<1> SUFFICES ASSUME SocketInv, [HolepunchNext]_holepunchVars PROVE SocketInv'
  OBVIOUS
<1>r. ASSUME UNCHANGED <<hpc, sockets, port>> PROVE SocketInv'
  BY <1>r DEF SocketInv, SocketsTyped, SocketsKept, sockets, Named
<1>1. CASE WaitSleeps
  BY <1>1, <1>r DEF WaitSleeps
<1>2. CASE WaitWoken
  BY <1>2, <1>r, FailsSockets DEF WaitWoken
<1>3. CASE WaitTimeout
  BY <1>3, FailsSockets DEF WaitTimeout
<1>4. CASE CreateFqdn \/ CreateOpen \/ CreateRequest
  <2> USE DEF Creating
  <2>1. CASE CreateFqdn
    BY <2>1, ContinuesSockets DEF CreateFqdn
  <2>2. CASE CreateOpen
    BY <2>2, ContinuesSockets DEF CreateOpen
  <2>3. CASE CreateRequest
    BY <2>3, ContinuesSockets DEF CreateRequest
  <2> QED
    BY <1>4, <2>1, <2>2, <2>3
<1>5. CASE CreateStops \/ CreateCleanup
  <2>1. UNCHANGED <<sockets, port>> /\ hpc = "cleanup" /\ hpc' \in {"cleanup", "create_failed"}
    BY <1>5 DEF CreateStops, CreateCleanup
  <2>2. Named'
    BY <2>1 DEF SocketInv, Named, sockets, Creating, Starting, Punching
  <2> QED
    BY <2>1, <2>2, SocketsRest
<1>6. CASE CreateNotified
  <2>1. CASE Continues("SUCCESS", IF {"CREATED", "CLIENT_JOINED"} \subseteq flags' THEN "http_start" ELSE "created")
    BY <1>6, <2>1, ContinuesSockets DEF CreateNotified, Creating
  <2>2. CASE hpc' = "create_failed" /\ UNCHANGED sockets
    <3>1. Named' /\ port' = port
      BY <1>6, <2>2 DEF SocketInv, Named, sockets, Creating, Starting, Punching, CreateNotified
    <3> QED
      BY <2>2, <3>1, SocketsRest
  <2> QED
    BY <1>6, <2>1, <2>2 DEF CreateNotified
<1>7. CASE StartRequest
  BY <1>7, ContinuesSockets DEF StartRequest, Starting
<1>8. CASE StartNotified
  <2>1. CASE Fails
    BY <1>8, <2>1, FailsSockets DEF StartNotified
  <2>2. CASE Continues("SUCCESS",
                     IF {"CONSOLE_JOINED", "CUSTOMDATA1_RECEIVED"} \subseteq flags' THEN "offer" ELSE "started")
    BY <1>8, <2>2, ContinuesSockets DEF StartNotified, Starting
  <2> QED
    BY <1>8, <2>1, <2>2 DEF StartNotified
<1>9. CASE MessageCleared
  BY <1>9, <1>r DEF MessageCleared
<1>10. CASE MessageFails
  BY <1>10, FailsSockets DEF MessageFails
<1>11. CASE OfferReceived \/ ResultReceived \/ AcceptReceived
  <2>1. UNCHANGED <<sockets, port>> /\ <<hpc, hpc'>> \in {<<"offer", "ack">>, <<"result", "check">>, <<"accept", "ack_accept">>}
    BY <1>11 DEF OfferReceived, ResultReceived, AcceptReceived
  <2>2. Named'
    BY <2>1 DEF SocketInv, Named, sockets, Creating, Starting, Punching
  <2> QED
    BY <2>1, <2>2, SocketsRest
<1>12. CASE OfferAcked
  BY <1>12, ContinuesSockets DEF OfferAcked, Punching
<1>13. CASE SendOffer
  <2>1. /\ hpc = "send_offer" /\ hpc' = "result" /\ UNCHANGED <<port, chosen, kept, dropped>>
        /\ \/ fd' \in {[v4 |-> FirstSocket, v6 |-> SecondSocket], [v4 |-> FirstSocket, v6 |-> None]}
           \/ fd' = [v4 |-> None, v6 |-> None]
        /\ open' = open \cup ({fd'.v4, fd'.v6} \ {None})
    BY <1>13 DEF SendOffer, sockets
  <2>2. /\ FirstSocket \in Nat \ {0} /\ FirstSocket \notin open
        /\ SecondSocket \in Nat \ {0} /\ SecondSocket \notin open
    <3>1. IsFiniteSet(open)
      BY DEF SocketInv, SocketsTyped
    <3>2. FirstSocket \in Nat \ {0} /\ FirstSocket \notin open
      BY <3>1, FreshIsFree DEF FirstSocket
    <3>3. IsFiniteSet(open \cup {FirstSocket})
      BY <3>1, FS_AddElement
    <3> QED
      BY <3>2, <3>3, FreshIsFree DEF SecondSocket
  <2>3. fd' \in [v4 : Nat, v6 : Nat] /\ fd'.v4 \notin open /\ fd'.v6 \notin open
    BY <2>1, <2>2 DEF SocketInv, SocketsTyped, SocketsKept, None
  <2>4. fd = [v4 |-> None, v6 |-> None] /\ chosen = None
    BY <2>1 DEF SocketInv, Named
  <2>5. SocketsTyped'
    <3>1. IsFiniteSet(open')
      <4>1. open' \subseteq (open \cup {fd'.v4}) \cup {fd'.v6}
        BY <2>1
      <4>2. IsFiniteSet((open \cup {fd'.v4}) \cup {fd'.v6})
        BY FS_AddElement DEF SocketInv, SocketsTyped
      <4> QED
        BY <4>1, <4>2, FS_Subset
    <3> QED
      BY <2>1, <2>3, <3>1 DEF SocketInv, SocketsTyped
  <2>6. SocketsKept'
    <3> DEFINE F == {fd'.v4, fd'.v6}
               K == {kept["ctrl"], kept["data"]} \ {None}
    <3>1. open = K \cup dropped /\ dropped \cap K = {}
      BY <2>4 DEF SocketInv, SocketsKept
    <3>2. {fd'.v4, fd'.v6, chosen', kept'["ctrl"], kept'["data"]} \ {None} = (F \ {None}) \cup K
      BY <2>1, <2>4
    <3>3. open' = open \cup (F \ {None}) /\ dropped' = dropped
      BY <2>1
    <3>4. F \cap open = {}
      BY <2>3
    <3>5. kept["ctrl"] # None => kept["ctrl"] \in K /\ kept["ctrl"] # kept["data"]
      BY DEF SocketInv, SocketsKept
    <3>6. kept["ctrl"] # None => kept["ctrl"] \notin F \cup {None, kept["data"]}
      BY <3>1, <3>4, <3>5
    <3>7. chosen' = None /\ kept' = kept
      BY <2>1, <2>4
    <3>8. kept'["ctrl"] # None => kept'["ctrl"] \notin {fd'.v4, fd'.v6, chosen', kept'["data"]}
      BY <3>6, <3>7
    <3> HIDE DEF F, K
    <3>9. open' = ((F \ {None}) \cup K) \cup dropped' /\ dropped' \cap ((F \ {None}) \cup K) = {}
      BY <3>1, <3>3, <3>4
    <3> QED
      BY <3>2, <3>8, <3>9 DEF SocketsKept
  <2>7. Named'
    BY <2>1, <2>4 DEF SocketInv, Named, Creating, Starting, Punching
  <2> QED
    BY <2>5, <2>6, <2>7 DEF SocketInv
<1>14. CASE Checked
  <2>1. CASE Fails
    BY <1>14, <2>1, FailsSockets DEF Checked
  <2>2. CASE \E s \in {fd.v4, fd.v6} : CheckCandidates(s) /\ hpc' = "send_accept"
    <3>1. PICK s \in {fd.v4, fd.v6} : CheckCandidates(s) /\ hpc' = "send_accept"
      BY <2>2
    <3>2. /\ hpc = "check" /\ port' = port /\ kept' = kept /\ dropped' = dropped /\ chosen' = s /\ s # None
          /\ fd' = [v4 |-> None, v6 |-> None] /\ open' = open \ ({fd.v4, fd.v6} \ {s}) /\ chosen = None
      BY <1>14, <3>1 DEF Checked, CheckCandidates, SocketInv, Named
    <3>3. SocketsTyped'
      <4>1. IsFiniteSet(open')
        BY <3>2, FS_Subset DEF SocketInv, SocketsTyped
      <4> QED
        BY <3>1, <3>2, <4>1 DEF SocketInv, SocketsTyped, None
    <3>4. Named'
      BY <3>1, <3>2 DEF SocketInv, Named, Creating, Starting, Punching
    <3>5. SocketsKept'
      <4> DEFINE A == {fd.v4, fd.v6}
                 K == {kept["ctrl"], kept["data"]}
      <4>1. open = ((A \cup K) \ {None}) \cup dropped /\ dropped \cap ((A \cup K) \ {None}) = {}
        BY <3>2 DEF SocketInv, SocketsKept
      <4>2. kept["data"] = None /\ None \notin dropped
        BY <3>2 DEF SocketInv, SocketsTyped, Named, Punching, Ports
      <4>3. kept["ctrl"] # None => kept["ctrl"] \notin A
        BY DEF SocketInv, SocketsKept
      <4>4. {fd'.v4, fd'.v6, chosen', kept'["ctrl"], kept'["data"]} \ {None} = ({s} \cup K) \ {None}
        BY <3>2
      <4>5. kept'["ctrl"] # None => kept'["ctrl"] \notin {fd'.v4, fd'.v6, chosen', kept'["data"]}
        BY <3>1, <3>2, <4>2, <4>3
      <4>6. open' = open \ (A \ {s}) /\ dropped' = dropped /\ s \in A /\ K = {None, kept["ctrl"]} 
        BY <3>1, <3>2, <4>2
      <4> HIDE DEF A, K
      <4>7. open' = (({s} \cup K) \ {None}) \cup dropped' /\ dropped' \cap (({s} \cup K) \ {None}) = {}
        BY <4>1, <4>2, <4>3, <4>6, <3>2
      <4> QED
        BY <4>4, <4>5, <4>7 DEF SocketsKept
    <3> QED
      BY <3>3, <3>4, <3>5 DEF SocketInv
  <2> QED
    BY <1>14, <2>1, <2>2 DEF Checked
<1>15. CASE SendAccept
  <2>1. CASE Fails
    BY <1>15, <2>1, FailsSockets DEF SendAccept
  <2>2. CASE \E r \in HttpSendSessionMessage : Continues(r, "accept")
    BY <1>15, <2>2, ContinuesSockets DEF SendAccept, Punching
  <2> QED
    BY <1>15, <2>1, <2>2 DEF SendAccept
<1>16. CASE AcceptAcked
  BY <1>16, ContinuesSockets DEF AcceptAcked, Punching
<1>17. CASE Establish
  <2>1. /\ hpc = "establish" /\ kept' = [kept EXCEPT ![port] = chosen] /\ chosen' = None
        /\ hpc' \in {"extra", "fini"} /\ UNCHANGED <<port, fd, open, dropped>>
    BY <1>17 DEF Establish
  <2>2. /\ fd = [v4 |-> None, v6 |-> None] /\ kept[port] = None /\ kept["data"] = None
        /\ port \in Ports /\ kept \in [Ports -> Nat] /\ chosen \in Nat
    BY <2>1 DEF SocketInv, Named, SocketsTyped, Punching, Ports
  <2>3. /\ port = "ctrl" => kept'["ctrl"] = chosen /\ kept'["data"] = None
        /\ port = "data" => kept'["ctrl"] = kept["ctrl"] /\ kept'["data"] = chosen
    BY <2>1, <2>2 DEF Ports
  <2>4. SocketsTyped'
    BY <2>1, <2>2 DEF SocketInv, SocketsTyped
  <2>5. Named'
    BY <2>1, <2>3 DEF SocketInv, Named, Creating, Starting, Punching
  <2>6. SocketsKept'
    <3>1. CASE port = "ctrl"
      BY <2>1, <2>2, <2>3, <3>1 DEF SocketInv, SocketsKept, None
    <3>2. CASE port = "data"
      BY <2>1, <2>2, <2>3, <3>2 DEF SocketInv, SocketsKept, None
    <3> QED
      BY <2>2, <3>1, <3>2 DEF Ports
  <2> QED
    BY <2>4, <2>5, <2>6 DEF SocketInv
<1>18. CASE Extra
  <2>1. CASE Fails
    BY <1>18, <2>1, FailsSockets DEF Extra
  <2>2. CASE hpc' = "idle" /\ UNCHANGED sockets
    <3>1. Named' /\ port' = port
      BY <1>18, <2>2 DEF Extra, SocketInv, Named, sockets, Creating, Starting, Punching
    <3> QED
      BY <2>2, <3>1, SocketsRest
  <2> QED
    BY <1>18, <2>1, <2>2 DEF Extra
<1>19. CASE SessionRuns
  <2>1. /\ hpc = "idle" /\ UNCHANGED sockets
        /\ (port = "ctrl" /\ port' = "data" /\ hpc' = "offer") \/ (hpc' = "fini" /\ port' = port)
    BY <1>19 DEF SessionRuns
  <2>2. Named' /\ port' \in Ports
    BY <2>1 DEF SocketInv, SocketsTyped, Named, sockets, Creating, Starting, Punching, Ports
  <2> QED
    BY <2>1, <2>2 DEF SocketInv, SocketsTyped, SocketsKept, sockets
<1>20. CASE Fini \/ FiniNotified \/ FiniJoins
  <2>1. UNCHANGED <<sockets, port>> /\ hpc \in {"fini", "deleted", "join"} /\ hpc' \in {"deleted", "join", "gone"}
    BY <1>20 DEF Fini, FiniNotified, FiniJoins
  <2>2. Named'
    BY <2>1 DEF SocketInv, Named, sockets, Creating, Starting, Punching
  <2> QED
    BY <2>1, <2>2, SocketsRest
<1>21. CASE WsConnect \/ WsEnqueue \/ WsEnd \/ (\E n \in owed : WsReceive(n))
  BY <1>21, <1>r DEF WsConnect, WsEnqueue, WsEnd, WsReceive
<1>22. CASE \E b \in BOOLEAN : Cancel(b)
  BY <1>22, <1>r DEF Cancel
<1>23. CASE UNCHANGED holepunchVars
  BY <1>23, <1>r DEF holepunchVars
<1> QED
  BY <1>1, <1>2, <1>3, <1>4, <1>5, <1>6, <1>7, <1>8, <1>9, <1>10, <1>11, <1>12, <1>13, <1>14, <1>15, <1>16, <1>17,
     <1>18, <1>19, <1>20, <1>21, <1>22, <1>23
     DEF HolepunchNext, MainThread

(* The sockets of the two ports are told apart through both punchings, and *)
(* only one that was chosen and then given up is left open unnamed.        *)
THEOREM SocketsKeptHolds == HolepunchSpec => []SocketsKept
<1>1. SocketInv => SocketsKept
  BY DEF SocketInv
<1> QED
  BY SocketStart, SocketStep, <1>1, PTL DEF HolepunchSpec

-----------------------------------------------------------------------------
(* Messages.  Offers and accepts are about one of the ports.               *)
NoteKinds == {"CREATED", "CLIENT", "CONSOLE", "CUSTOM_DATA1", "DELETED", "OFFER", "RESULT", "ACCEPT"}
Note == {n \in [kind : NoteKinds, port : {"ctrl", "data", "none"}, of : {"OFFER", "ACCEPT", "none"}] :
           n.kind \in {"OFFER", "ACCEPT"} => \E p \in Ports : n = About(n.kind, p)}

NotesTyped ==
  /\ queue \in Seq(Note) /\ holding \in Seq(Note) /\ Len(holding) <= 1 /\ owed \subseteq Note
  /\ port \in Ports /\ offer \in [Ports -> {"none", "ctrl", "data"}]

Notes == owed \cup {queue[i] : i \in DOMAIN queue} \cup {holding[i] : i \in DOMAIN holding}

LEMMA NoteIs ==
  ASSUME NEW n \in Note
  PROVE  /\ n.kind = "OFFER" => n = About("OFFER", "ctrl") \/ n = About("OFFER", "data")
         /\ n.kind = "ACCEPT" => n = About("ACCEPT", "ctrl") \/ n = About("ACCEPT", "data")
BY DEF Note, Ports

LEMMA AreNotes ==
  /\ \A k \in NoteKinds \ {"OFFER", "ACCEPT"} : Plain(k) \in Note
  /\ \A k \in {"OFFER", "ACCEPT"}, p \in Ports : About(k, p) \in Note
  /\ \A k \in {"OFFER", "ACCEPT"}, p \in Ports : ResultOf(k, p) \in Note
<1>1. \A k \in NoteKinds \ {"OFFER", "ACCEPT"} : Plain(k) \in Note
  BY DEF Plain, Note, NoteKinds
<1>2. \A k \in {"OFFER", "ACCEPT"}, p \in Ports : About(k, p) \in Note
  BY DEF About, Note, NoteKinds, Ports
<1>3. \A k \in {"OFFER", "ACCEPT"}, p \in Ports : ResultOf(k, p) \in Note
  BY DEF ResultOf, Note, NoteKinds, Ports
<1> QED
  BY <1>1, <1>2, <1>3

(* A wait finds the first notification of its kinds.                       *)
LEMMA FoundIsFirst ==
  ASSUME queue \in Seq(Note), Found > 0
  PROVE  /\ Found \in DOMAIN queue /\ hpc \in WaitPoints /\ queue[Found].kind \in Query[hpc]
         /\ \A j \in DOMAIN queue : queue[j].kind \in Query[hpc] => Found <= j
<1> DEFINE S == {i \in DOMAIN queue : queue[i].kind \in Query[hpc]}
<1>1. hpc \in WaitPoints /\ Found = FirstOf(Query[hpc])
  BY DEF Found
<1>2. S # {} /\ S \subseteq Nat
  BY <1>1 DEF FirstOf
<1>3. Found = CHOOSE i \in S : \A j \in S : i <= j
  BY <1>1, <1>2 DEF FirstOf
<1> HIDE DEF S
<1>4. \E m \in S : \A k \in S : m <= k
  BY <1>2, Least
<1>5. Found \in S /\ \A j \in S : Found <= j
  BY <1>3, <1>4
<1> QED
  BY <1>1, <1>5 DEF S

(* Clearing up to a notification keeps the later ones in their order.      *)
LEMMA ClearedIs ==
  ASSUME queue \in Seq(Note), NEW i \in DOMAIN queue
  PROVE  /\ Cleared(i) \in Seq(Note)
         /\ \A j \in DOMAIN Cleared(i) : j \in Nat /\ i + j \in DOMAIN queue /\ Cleared(i)[j] = queue[i + j]
<1>1. i \in 1 .. Len(queue)
  OBVIOUS
<1>2. Cleared(i) \in Seq(Note) /\ Len(Cleared(i)) = Len(queue) - i
  BY <1>1 DEF Cleared
<1>3. \A j \in 1 .. Len(Cleared(i)) : Cleared(i)[j] = queue[i + j]
  BY <1>1, <1>2 DEF Cleared
<1> QED
  BY <1>1, <1>2, <1>3

(* The console offers the data port after the control port was accepted,   *)
(* and accepts it when it was offered.                                     *)
DataOffers == port = "data" \/ hpc \in {"establish", "extra", "idle"} \cup Leaving
OffersInTime ==
  /\ About("OFFER", "data") \in Notes => DataOffers
  /\ About("ACCEPT", "data") \in Notes => port = "data"

(* And unless it repeats itself late no offer for the control port is left *)
(* once that port was accepted.                                            *)
OffersInOrder ==
  \/ late
  \/ /\ \A i, j \in DOMAIN queue :
          i < j /\ queue[i] = About("ACCEPT", "ctrl") => queue[j] # About("OFFER", "ctrl")
     /\ port = "data" \/ hpc \in {"ack_accept", "establish", "extra", "idle"}
          => \A i \in DOMAIN queue : queue[i] # About("OFFER", "ctrl")

PunchInv == NotesTyped /\ OffersInTime /\ OffersInOrder /\ PunchedForPort

LEMMA PunchStart == HolepunchInit => PunchInv
BY DEF HolepunchInit, PunchInv, NotesTyped, Notes, OffersInTime, OffersInOrder, PunchedForPort, Ports, DataOffers

Accepting == port = "data" \/ hpc \in {"ack_accept", "establish", "extra", "idle"}

(* A step that takes nothing from the websocket and no offer or accept.    *)
LEMMA PunchRest ==
  ASSUME PunchInv,
         \A n \in owed' : n \in owed \/ (/\ n \in Note /\ (n = About("OFFER", "data") => DataOffers')
                                         /\ (n = About("ACCEPT", "data") => port' = "data")),
         queue' = queue \/ (\E i \in DOMAIN queue : queue' = Cleared(i)),
         UNCHANGED <<holding, offer, late>>,
         port' \in Ports, port = "data" => port' = "data",
         DataOffers => DataOffers', Accepting' => Accepting
  PROVE  PunchInv'
<1> USE DEF PunchInv
<1>1. /\ queue' \in Seq(Note)
      /\ \E k \in Nat : \A j \in DOMAIN queue' : j \in Nat /\ k + j \in DOMAIN queue /\ queue'[j] = queue[k + j]
  <2>1. CASE queue' = queue
    <3>1. \A j \in DOMAIN queue' : j \in Nat /\ 0 + j \in DOMAIN queue /\ queue'[j] = queue[0 + j]
      BY <2>1 DEF NotesTyped
    <3> QED
      BY <2>1, <3>1 DEF NotesTyped
  <2>2. CASE \E i \in DOMAIN queue : queue' = Cleared(i)
    <3>1. PICK i \in DOMAIN queue : queue' = Cleared(i)
      BY <2>2
    <3>2. queue \in Seq(Note) /\ i \in Nat
      BY DEF NotesTyped
    <3> QED
      BY <3>1, <3>2, ClearedIs
  <2> QED
    BY <2>1, <2>2
<1>2. PICK k \in Nat : \A j \in DOMAIN queue' : j \in Nat /\ k + j \in DOMAIN queue /\ queue'[j] = queue[k + j]
  BY <1>1
<1>3. \A i, j \in DOMAIN queue' : i < j => k + i < k + j
  BY <1>2
<1>4. NotesTyped'
  BY <1>1 DEF NotesTyped
<1>5. \A n \in Notes' : n \in Notes \/ n \in owed'
  BY <1>2 DEF Notes
<1>6. OffersInTime'
  <2>1. About("OFFER", "data") \in Notes' => About("OFFER", "data") \in Notes \/ DataOffers'
    BY <1>5 DEF Notes
  <2>2. About("ACCEPT", "data") \in Notes' => About("ACCEPT", "data") \in Notes \/ port' = "data"
    BY <1>5 DEF Notes
  <2> QED
    BY <2>1, <2>2 DEF OffersInTime
<1>7. OffersInOrder'
  <2>1. CASE late
    BY <2>1 DEF OffersInOrder
  <2>2. CASE ~late
    <3>1. /\ \A i, j \in DOMAIN queue :
               i < j /\ queue[i] = About("ACCEPT", "ctrl") => queue[j] # About("OFFER", "ctrl")
          /\ Accepting => \A i \in DOMAIN queue : queue[i] # About("OFFER", "ctrl")
      BY <2>2 DEF OffersInOrder, Accepting
    <3>2. \A i, j \in DOMAIN queue' :
             i < j /\ queue'[i] = About("ACCEPT", "ctrl") => queue'[j] # About("OFFER", "ctrl")
      BY <3>1, <1>2, <1>3 DEF About
    <3>3. Accepting' => \A i \in DOMAIN queue' : queue'[i] # About("OFFER", "ctrl")
      BY <3>1, <1>2 DEF About
    <3> QED
      BY <3>2, <3>3 DEF OffersInOrder, Accepting
  <2> QED
    BY <2>1, <2>2
<1>8. PunchedForPort'
  BY DEF PunchedForPort
<1> QED
  BY <1>4, <1>6, <1>7, <1>8

LEMMA PunchReceive ==
  ASSUME PunchInv, NEW n \in owed, WsReceive(n)
  PROVE  PunchInv'
<1> USE DEF PunchInv
<1>1. /\ holding' = <<n>> /\ n \in Note /\ owed' \subseteq owed
      /\ UNCHANGED <<queue, port, hpc, offer, late>>
  BY DEF WsReceive, mainVars, NotesTyped
<1>2. NotesTyped'
  BY <1>1 DEF NotesTyped
<1>3. Notes' \subseteq Notes
  BY <1>1 DEF Notes
<1>4. OffersInTime'
  BY <1>1, <1>3 DEF OffersInTime, DataOffers
<1> QED
  BY <1>1, <1>2, <1>4 DEF OffersInOrder, PunchedForPort

LEMMA PunchEnqueue ==
  ASSUME PunchInv, WsEnqueue
  PROVE  PunchInv'
<1> USE DEF PunchInv
<1> DEFINE n == holding[1]
           L == Len(queue)
<1>1. /\ holding = <<n>> /\ n \in Note /\ queue \in Seq(Note) /\ L \in Nat
  <2>1. holding # << >> /\ holding \in Seq(Note) /\ Len(holding) <= 1
    BY DEF WsEnqueue, NotesTyped
  <2>2. Len(holding) = 1
    <3>1. Len(holding) # 0
      BY <2>1, EmptySeq
    <3> DEFINE l == Len(holding)
    <3>2. l \in Nat
      BY <2>1, LenProperties
    <3> HIDE DEF l
    <3> QED
      BY <2>1, <3>1, <3>2 DEF l
  <2> QED
    BY <2>1, <2>2 DEF NotesTyped
<1>2. /\ queue' = queue \o holding /\ holding' = << >> /\ UNCHANGED <<owed, port, hpc, offer>>
      /\ late' = (late \/ (n = About("OFFER", "ctrl") /\ CtrlAccepted))
  BY DEF WsEnqueue
<1> HIDE DEF n
<1>3. /\ queue' \in Seq(Note) /\ DOMAIN queue' = 1 .. L + 1 /\ DOMAIN queue = 1 .. L
      /\ \A i \in 1 .. L : queue'[i] = queue[i]
      /\ queue'[L + 1] = n
  BY <1>1, <1>2
<1> HIDE DEF L
<1>4. NotesTyped'
  BY <1>2, <1>3 DEF NotesTyped
<1>5. Notes' \subseteq Notes
  <2>1. \A i \in DOMAIN queue' : (i \in DOMAIN queue /\ queue'[i] = queue[i]) \/ queue'[i] = n
    BY <1>1, <1>3
  <2>2. n \in {holding[i] : i \in DOMAIN holding}
    BY <1>1
  <2>3. DOMAIN holding' = {}
    BY <1>2
  <2> QED
    BY <1>2, <2>1, <2>2, <2>3 DEF Notes
<1>6. OffersInTime'
  BY <1>2, <1>5 DEF OffersInTime, DataOffers
<1>7. OffersInOrder'
  <2>1. CASE late \/ late'
    BY <1>2, <2>1 DEF OffersInOrder
  <2>2. CASE ~late /\ ~late'
    <3>1. n = About("OFFER", "ctrl") =>
            ~Accepting /\ \A i \in DOMAIN queue : queue[i] # About("ACCEPT", "ctrl")
      BY <1>2, <2>2 DEF CtrlAccepted, Accepting
    <3>2. /\ \A i, j \in DOMAIN queue :
               i < j /\ queue[i] = About("ACCEPT", "ctrl") => queue[j] # About("OFFER", "ctrl")
          /\ Accepting => \A i \in DOMAIN queue : queue[i] # About("OFFER", "ctrl")
      BY <2>2 DEF OffersInOrder, Accepting
    <3>3. \A i, j \in DOMAIN queue' :
             i < j /\ queue'[i] = About("ACCEPT", "ctrl") => queue'[j] # About("OFFER", "ctrl")
      <4> SUFFICES ASSUME NEW i \in DOMAIN queue', NEW j \in DOMAIN queue',
                          i < j, queue'[i] = About("ACCEPT", "ctrl"), queue'[j] = About("OFFER", "ctrl")
                   PROVE  FALSE
        OBVIOUS
      <4>1. i \in 1 .. L
        BY <1>1, <1>3
      <4>2. CASE j \in 1 .. L
        BY <1>3, <3>2, <4>1, <4>2
      <4>3. CASE j = L + 1
        BY <1>3, <3>1, <4>1, <4>3
      <4> QED
        BY <1>1, <1>3, <4>2, <4>3
    <3>4. Accepting' => \A i \in DOMAIN queue' : queue'[i] # About("OFFER", "ctrl")
      <4> SUFFICES ASSUME Accepting', NEW i \in DOMAIN queue', queue'[i] = About("OFFER", "ctrl")
                   PROVE  FALSE
        OBVIOUS
      <4>1. Accepting
        BY <1>2 DEF Accepting
      <4>2. CASE i \in 1 .. L
        BY <1>3, <3>2, <4>1, <4>2
      <4>3. CASE i = L + 1
        BY <1>3, <3>1, <4>1, <4>3
      <4> QED
        BY <1>1, <1>3, <4>2, <4>3
    <3> QED
      BY <3>3, <3>4 DEF OffersInOrder, Accepting
  <2> QED
    BY <2>1, <2>2
<1>8. PunchedForPort'
  BY <1>2 DEF PunchedForPort
<1> QED
  BY <1>4, <1>6, <1>7, <1>8

LEMMA PunchOffer ==
  ASSUME PunchInv, OfferReceived
  PROVE  PunchInv'
<1> USE DEF PunchInv
<1> DEFINE n == queue[Found]
<1>1. /\ hpc = "offer" /\ hpc' = "ack" /\ Found > 0 /\ n.kind = "OFFER"
      /\ offer' = [offer EXCEPT ![port] = n.port] /\ UNCHANGED <<port, queue, holding, owed, late>>
  BY DEF OfferReceived, IsAwaited, IsMessage, Awaited, outside, websocket
<1>2. Found \in DOMAIN queue /\ n \in Note
  BY <1>1, FoundIsFirst DEF NotesTyped
<1>3. n = About("OFFER", "ctrl") \/ n = About("OFFER", "data")
  BY <1>1, <1>2, NoteIs
<1>4. n = About("OFFER", "data") => port = "data"
  BY <1>1, <1>2 DEF OffersInTime, Notes, DataOffers, Leaving
<1>5. n = About("OFFER", "ctrl") => port = "ctrl" \/ late
  BY <1>1, <1>2 DEF OffersInOrder, NotesTyped, Ports
<1> HIDE DEF n
<1>6. n.port \in {"ctrl", "data"} /\ (n.port = port \/ (port = "data" /\ late))
  BY <1>3, <1>4, <1>5 DEF About, NotesTyped, Ports
<1>7. PunchedForPort'
  BY <1>1, <1>6 DEF PunchedForPort, NotesTyped, Ports
<1>8. NotesTyped'
  BY <1>1, <1>6 DEF NotesTyped
<1>9. OffersInTime' /\ OffersInOrder'
  BY <1>1 DEF OffersInTime, OffersInOrder, Notes, DataOffers, Leaving
<1> QED
  BY <1>7, <1>8, <1>9

LEMMA PunchAccept ==
  ASSUME PunchInv, AcceptReceived
  PROVE  PunchInv'
<1> USE DEF PunchInv
<1> DEFINE n == queue[Found]
<1>1. /\ hpc = "accept" /\ hpc' = "ack_accept" /\ Found > 0 /\ n.kind = "ACCEPT"
      /\ UNCHANGED <<port, queue, holding, owed, late, offer>>
  BY DEF AcceptReceived, IsAwaited, IsMessage, Awaited, outside, websocket, mainVars
<1>2. /\ Found \in DOMAIN queue /\ n \in Note /\ queue \in Seq(Note)
      /\ \A j \in DOMAIN queue : queue[j].kind = "OFFER" => Found <= j
  BY <1>1, FoundIsFirst DEF NotesTyped, Query, SessionMessages
<1>3. n = About("ACCEPT", "ctrl") \/ n = About("ACCEPT", "data")
  BY <1>1, <1>2, NoteIs
<1>4. n = About("ACCEPT", "data") => port = "data"
  BY <1>1, <1>2 DEF OffersInTime, Notes
<1>5. OffersInOrder'
  <2>1. CASE late \/ port = "data"
    BY <1>1, <2>1 DEF OffersInOrder
  <2>2. CASE ~late /\ port # "data"
    <3>1. n = About("ACCEPT", "ctrl")
      BY <1>3, <1>4, <2>2
    <3>2. ASSUME NEW j \in DOMAIN queue, queue[j] = About("OFFER", "ctrl") PROVE FALSE
      <4>1. queue[j].kind = "OFFER"
        BY <3>2 DEF About
      <4>2. Found <= j /\ Found # j
        BY <1>1, <1>2, <4>1
      <4>3. Found < j
        BY <1>2, <4>2
      <4> QED
        BY <1>2, <2>2, <3>1, <3>2, <4>3 DEF OffersInOrder
    <3> QED
      BY <1>1, <2>2, <3>2 DEF OffersInOrder
  <2> QED
    BY <2>1, <2>2
<1>6. OffersInTime' /\ NotesTyped' /\ PunchedForPort'
  BY <1>1 DEF OffersInTime, Notes, NotesTyped, PunchedForPort, DataOffers, Leaving
<1> QED
  BY <1>5, <1>6

LEMMA PunchStep == PunchInv /\ [HolepunchNext]_holepunchVars => PunchInv'
<1> SUFFICES ASSUME PunchInv, [HolepunchNext]_holepunchVars PROVE PunchInv'
  OBVIOUS
<1>t. port \in Ports /\ queue \in Seq(Note)
  BY DEF PunchInv, NotesTyped
<1>f. Found > 0 => Found \in DOMAIN queue
  BY <1>t, FoundIsFirst
<1>r. ASSUME UNCHANGED <<hpc, port, owed, queue, holding, offer, late>> PROVE PunchInv'
  BY <1>r DEF PunchInv, NotesTyped, OffersInTime, OffersInOrder, PunchedForPort, Notes, DataOffers
<1>k. /\ \A k \in NoteKinds \ {"OFFER", "ACCEPT"} :
            Plain(k) \in Note /\ Plain(k) # About("OFFER", "data") /\ Plain(k) # About("ACCEPT", "data")
      /\ \A k \in {"OFFER", "ACCEPT"}, p \in Ports : About(k, p) \in Note
      /\ About("OFFER", "ctrl") # About("OFFER", "data") /\ About("OFFER", "ctrl") # About("ACCEPT", "data")
      /\ \A p \in Ports : About("ACCEPT", p) = About("ACCEPT", "data") => p = "data"
      /\ \A p \in Ports : About("ACCEPT", p) # About("OFFER", "data")
      /\ About("OFFER", "data") # About("ACCEPT", "data")
      /\ \A k \in {"OFFER", "ACCEPT"}, p \in Ports :
            ResultOf(k, p) \in Note /\ ResultOf(k, p) # About("OFFER", "data") /\ ResultOf(k, p) # About("ACCEPT", "data")
  <2>1. \A k, p : About(k, p) = [kind |-> k, port |-> p, of |-> "none"]
    BY DEF About
  <2>2. \A k : Plain(k) = [kind |-> k, port |-> "none", of |-> "none"]
    BY DEF Plain
  <2>3. \A k, p : ResultOf(k, p) = [kind |-> "RESULT", port |-> p, of |-> k]
    BY DEF ResultOf
  <2> QED
    BY <2>1, <2>2, <2>3, AreNotes
<1>g. ASSUME hpc' \in Leaving \/ hpc' = hpc, UNCHANGED port PROVE (DataOffers => DataOffers') /\ (Accepting' => Accepting)
  BY <1>g DEF DataOffers, Accepting, Leaving
<1>1. CASE WaitSleeps
  BY <1>1, <1>r DEF WaitSleeps, outside, websocket
<1>2. CASE WaitWoken \/ WaitTimeout \/ MessageFails
  <2>1. /\ UNCHANGED <<port, queue, holding, owed, offer, late>> /\ (hpc' \in Leaving \/ hpc' = hpc)
    BY <1>2, FailureLeaves DEF WaitWoken, WaitTimeout, MessageFails, outside, websocket
  <2> QED
    BY <2>1, <1>g, <1>t, PunchRest
<1>3. CASE CreateFqdn \/ CreateOpen
  <2>1. /\ UNCHANGED <<port, queue, holding, owed, offer, late>> /\ hpc \in Creating
        /\ hpc' \in Leaving \/ hpc' \in {"open", "http_create"}
    BY <1>3, ContinuesOr DEF CreateFqdn, CreateOpen, outside, websocket, Creating
  <2>2. (DataOffers => DataOffers') /\ (Accepting' => Accepting)
    BY <2>1 DEF DataOffers, Accepting, Leaving, Creating
  <2> QED
    BY <2>1, <2>2, <1>t, PunchRest
<1>4. CASE CreateRequest
  <2>1. /\ UNCHANGED <<port, queue, holding, offer, late>> /\ hpc = "http_create"
        /\ hpc' \in Leaving \/ hpc' = "created"
        /\ owed' \in {owed, owed \cup {Plain("CREATED"), Plain("CLIENT")}}
    BY <1>4, ContinuesOr DEF CreateRequest, websocket
  <2>2. (DataOffers => DataOffers') /\ (Accepting' => Accepting)
    BY <2>1 DEF DataOffers, Accepting, Leaving
  <2>3. \A n \in owed' : n \in owed \/ (n \in Note /\ n # About("OFFER", "data") /\ n # About("ACCEPT", "data"))
    BY <2>1, <1>k DEF NoteKinds
  <2> QED
    BY <2>1, <2>2, <2>3, <1>t, PunchRest
<1>5. CASE CreateStops \/ CreateCleanup
  <2>1. /\ UNCHANGED <<port, queue, holding, owed, offer, late>> /\ (hpc' \in Leaving \/ hpc' = hpc)
    BY <1>5 DEF CreateStops, CreateCleanup, outside, mainVars, Leaving
  <2> QED
    BY <2>1, <1>g, <1>t, PunchRest
<1>6. CASE CreateNotified \/ StartNotified
  <2>1. /\ UNCHANGED <<port, holding, owed, offer, late>> /\ hpc \in {"created", "started"}
        /\ hpc' \in Leaving \/ hpc' \in {"http_start", "created", "offer", "started"}
        /\ queue' = queue \/ queue' = Cleared(Found)
        /\ Found > 0
    <3>1. CASE CreateNotified
      <4>1. CASE Continues("SUCCESS", IF {"CREATED", "CLIENT_JOINED"} \subseteq flags' THEN "http_start" ELSE "created")
        BY <3>1, <4>1, ContinuesOr DEF CreateNotified, outside, websocket
      <4>2. CASE hpc' = "create_failed" /\ UNCHANGED queue
        BY <3>1, <4>2 DEF CreateNotified, outside, websocket, Leaving
      <4> QED
        BY <3>1, <4>1, <4>2 DEF CreateNotified
    <3>2. CASE StartNotified
      <4>1. CASE Continues("SUCCESS",
                     IF {"CONSOLE_JOINED", "CUSTOMDATA1_RECEIVED"} \subseteq flags' THEN "offer" ELSE "started")
        BY <3>2, <4>1, ContinuesOr DEF StartNotified, outside, websocket
      <4>2. CASE Fails
        BY <3>2, <4>2, FailureLeaves DEF StartNotified, outside, websocket
      <4> QED
        BY <3>2, <4>1, <4>2 DEF StartNotified
    <3> QED
      BY <1>6, <3>1, <3>2
  <2>2. (DataOffers => DataOffers') /\ (Accepting' => Accepting)
    BY <2>1 DEF DataOffers, Accepting, Leaving
  <2> QED
    BY <2>1, <2>2, <1>f, <1>t, PunchRest
<1>7. CASE StartRequest
  <2>1. /\ UNCHANGED <<port, queue, holding, offer, late>> /\ hpc = "http_start"
        /\ hpc' \in Leaving \/ hpc' = "started"
        /\ owed' \in {owed, owed \cup {Plain("CONSOLE"), Plain("CUSTOM_DATA1"), About("OFFER", "ctrl")}}
    BY <1>7, ContinuesOr DEF StartRequest, websocket
  <2>2. (DataOffers => DataOffers') /\ (Accepting' => Accepting)
    BY <2>1 DEF DataOffers, Accepting, Leaving
  <2>3. \A n \in owed' : n \in owed \/ (n \in Note /\ n # About("OFFER", "data") /\ n # About("ACCEPT", "data"))
    BY <2>1, <1>k DEF NoteKinds, Ports
  <2> QED
    BY <2>1, <2>2, <2>3, <1>t, PunchRest
<1>8. CASE MessageCleared
  <2>1. /\ UNCHANGED <<port, hpc, holding, owed, offer, late>> /\ queue' = Cleared(Found) /\ Found > 0
    BY <1>8 DEF MessageCleared, IsMessage, outside, websocket
  <2> QED
    BY <2>1, <1>f, <1>g, <1>t, PunchRest
<1>9. CASE OfferReceived
  BY <1>9, PunchOffer
<1>10. CASE AcceptReceived
  BY <1>10, PunchAccept
<1>11. CASE OfferAcked
  <2>1. /\ UNCHANGED <<port, queue, holding, owed, offer, late>> /\ hpc = "ack"
        /\ hpc' \in Leaving \/ hpc' = "send_offer"
    BY <1>11, ContinuesOr DEF OfferAcked, outside, websocket
  <2>2. (DataOffers => DataOffers') /\ (Accepting' => Accepting)
    BY <2>1 DEF DataOffers, Accepting, Leaving
  <2> QED
    BY <2>1, <2>2, <1>t, PunchRest
<1>12. CASE SendOffer
  <2>1. /\ UNCHANGED <<port, queue, holding, offer, late>> /\ hpc = "send_offer" /\ hpc' = "result"
        /\ owed' \in {owed, owed \cup {ResultOf("OFFER", port)}}
    BY <1>12 DEF SendOffer, mainVars, websocket
  <2>2. (DataOffers => DataOffers') /\ (Accepting' => Accepting)
    BY <2>1 DEF DataOffers, Accepting, Leaving
  <2>3. \A n \in owed' : n \in owed \/ (n \in Note /\ n # About("OFFER", "data") /\ n # About("ACCEPT", "data"))
    BY <2>1, <1>k, <1>t
  <2> QED
    BY <2>1, <2>2, <2>3, <1>t, PunchRest
<1>13. CASE ResultReceived \/ Checked \/ Extra
  <2>1. /\ UNCHANGED <<port, queue, holding, owed, offer, late>>
        /\ \/ hpc' \in Leaving 
           \/ <<hpc, hpc'>> \in {<<"result", "check">>, <<"check", "send_accept">>, <<"extra", "idle">>}
    BY <1>13, FailureLeaves DEF ResultReceived, Checked, Extra, outside, mainVars, websocket
  <2>2. (DataOffers => DataOffers') /\ (Accepting' => Accepting)
    BY <2>1 DEF DataOffers, Accepting, Leaving
  <2> QED
    BY <2>1, <2>2, <1>t, PunchRest
<1>14. CASE SendAccept
  <2>1. /\ UNCHANGED <<port, queue, holding, offer, late>> /\ hpc = "send_accept"
        /\ hpc' \in Leaving \/ hpc' = "accept"
        /\ owed' \in {owed, owed \cup {ResultOf("ACCEPT", port), About("ACCEPT", port)}}
    BY <1>14, ContinuesOr, FailureLeaves DEF SendAccept, websocket
  <2>2. (DataOffers => DataOffers') /\ (Accepting' => Accepting)
    BY <2>1 DEF DataOffers, Accepting, Leaving
  <2>3. \A n \in owed' : n \in owed \/ (/\ n \in Note /\ n # About("OFFER", "data")
                                        /\ (n = About("ACCEPT", "data") => port' = "data"))
    BY <2>1, <1>k, <1>t
  <2> QED
    BY <2>1, <2>2, <2>3, <1>t, PunchRest
<1>15. CASE AcceptAcked
  <2>1. /\ UNCHANGED <<port, queue, holding, offer, late>> /\ hpc = "ack_accept"
        /\ hpc' \in Leaving \/ hpc' = "establish"
        /\ owed' \in {owed, owed \cup {About("OFFER", "data")}}
    BY <1>15, ContinuesOr DEF AcceptAcked, websocket
  <2>2. DataOffers' /\ (Accepting' => Accepting)
    BY <2>1 DEF DataOffers, Accepting, Leaving
  <2>3. \A n \in owed' : n \in owed \/ (n \in Note /\ n # About("ACCEPT", "data"))
    BY <2>1, <1>k DEF Ports
  <2> QED
    BY <2>1, <2>2, <2>3, <1>t, PunchRest
<1>16. CASE Establish
  <2>1. /\ UNCHANGED <<port, queue, holding, owed, offer, late>> /\ hpc = "establish" /\ hpc' \in {"extra", "fini"}
    BY <1>16 DEF Establish, outside, websocket
  <2>2. (DataOffers => DataOffers') /\ (Accepting' => Accepting)
    BY <2>1 DEF DataOffers, Accepting, Leaving
  <2> QED
    BY <2>1, <2>2, <1>t, PunchRest
<1>17. CASE SessionRuns
  <2>1. /\ UNCHANGED <<queue, holding, owed, offer, late>> /\ hpc = "idle"
        /\ (port = "ctrl" /\ port' = "data" /\ hpc' = "offer") \/ (hpc' = "fini" /\ port' = port)
    BY <1>17 DEF SessionRuns, outside, mainVars, websocket
  <2>2. (DataOffers => DataOffers') /\ (Accepting' => Accepting)
    BY <2>1 DEF DataOffers, Accepting, Leaving
  <2> QED
    BY <2>1, <2>2, <1>t, PunchRest DEF Ports
<1>18. CASE Fini
  <2>1. /\ UNCHANGED <<port, queue, holding, offer, late>> /\ hpc' \in Leaving
        /\ owed' \in {owed, owed \cup {Plain("DELETED")}}
    BY <1>18 DEF Fini, mainVars, websocket, Leaving
  <2>3. \A n \in owed' : n \in owed \/ (n \in Note /\ n # About("OFFER", "data") /\ n # About("ACCEPT", "data"))
    BY <2>1, <1>k DEF NoteKinds
  <2> QED
    BY <2>1, <1>g, <2>3, <1>t, PunchRest
<1>19. CASE FiniNotified \/ FiniJoins
  <2>1. /\ UNCHANGED <<port, holding, owed, offer, late>> /\ (hpc' \in Leaving \/ hpc' = hpc)
        /\ queue' = queue \/ (queue' = Cleared(Found) /\ Found > 0)
    BY <1>19 DEF FiniNotified, FiniJoins, mainVars, websocket, outside, Leaving
  <2> QED
    BY <2>1, <1>f, <1>g, <1>t, PunchRest
<1>20. CASE WsConnect \/ WsEnd \/ (\E b \in BOOLEAN : Cancel(b))
  BY <1>20, <1>r DEF WsConnect, WsEnd, Cancel, outside, mainVars
<1>21. CASE WsEnqueue
  BY <1>21, PunchEnqueue
<1>22. CASE \E n \in owed : WsReceive(n)
  BY <1>22, PunchReceive
<1>23. CASE UNCHANGED holepunchVars
  BY <1>23, <1>r DEF holepunchVars, mainVars, websocket, outside
<1> QED
  BY <1>1, <1>2, <1>3, <1>4, <1>5, <1>6, <1>7, <1>8, <1>9, <1>10, <1>11, <1>12, <1>13, <1>14, <1>15, <1>16, <1>17,
     <1>18, <1>19, <1>20, <1>21, <1>22, <1>23
     DEF HolepunchNext, MainThread

(* The hole for a port is punched with the offer made for that port: each  *)
(* message looked at stays in the queue, but is cleared with everything    *)
(* before it once a message of another kind is waited for.                 *)
THEOREM PunchedForPortHolds == HolepunchSpec => []PunchedForPort
<1>1. PunchInv => PunchedForPort
  BY DEF PunchInv
<1> QED
  BY PunchStart, PunchStep, <1>1, PTL DEF HolepunchSpec

-----------------------------------------------------------------------------
(* Candidates: an address of the console is chosen.                        *)

(* What check_candidates has counted for an address are answers to its     *)
(* requests, in order; it goes on only while none has three.               *)
CandidateInv ==
  /\ kpc \in {"send", "select", "follow", "selected", "failed", "crashed"}
  /\ got \in [PeerAddresses -> 0 .. 3] /\ replied \in [PeerAddresses -> SUBSET (0 .. 2)]
  /\ \A a \in PeerAddresses : 0 .. got[a] - 1 \subseteq replied[a]
  /\ kpc \in {"send", "select"} => selected = {} /\ \A a \in PeerAddresses : got[a] <= 2
  /\ inbox \subseteq Packets
  /\ \A p \in inbox : p.type = "RESP" => p.id \in replied[p.from]
  /\ ThriceAnswered

LEMMA CandidatesStart == CandidatesInit => CandidateInv
BY DEF CandidatesInit, CandidateInv, ThriceAnswered

LEMMA PacketTyped ==
  ASSUME NEW p \in Packets
  PROVE  p.from \in PeerAddresses /\ p.id \in 0 .. 2 /\ p.type \in {"REQ", "RESP", "BAD"}
BY DEF Packets

LEMMA CandidatesStep == CandidateInv /\ [CandidatesNext]_candidateVars => CandidateInv'
<1> SUFFICES ASSUME CandidateInv, [CandidatesNext]_candidateVars PROVE CandidateInv'
  OBVIOUS
<1> USE DEF CandidateInv, ThriceAnswered
<1>1. CASE SendRequests
  BY <1>1 DEF SendRequests, RandomSockets
<1>2. CASE SelectRetry \/ SelectConnecting \/ SelectGivesUp
  BY <1>2 DEF SelectRetry, SelectConnecting, SelectGivesUp
<1>3. CASE Followed
  BY <1>3 DEF Followed
<1>4. CASE \E p \in inbox : Rejected(p) \/ Requested(p)
  BY <1>4 DEF Rejected, Requested, Reads
<1>5. ASSUME NEW p \in inbox, Responded(p) PROVE CandidateInv'
  <2>1. p.from \in PeerAddresses /\ p.id \in replied[p.from]
    BY <1>5, PacketTyped DEF Responded
  <2>2. CASE ~Matches(p)
    BY <1>5, <2>2 DEF Responded, Reads
  <2>3. CASE Matches(p)
    <3>1. /\ got' = [got EXCEPT ![p.from] = @ + 1] /\ got[p.from] \in replied[p.from] /\ got[p.from] <= 2
          /\ inbox' \subseteq inbox /\ replied' = replied
          /\ kpc = "select" /\ selected = {}
      BY <1>5, <2>1, <2>3 DEF Responded, Reads, Matches
    <3>2. /\ got' \in [PeerAddresses -> 0 .. 3]
          /\ \A a \in PeerAddresses : 0 .. got'[a] - 1 \subseteq replied[a]
      BY <3>1, <2>1
    <3>3. CASE got[p.from] = 2
      <4>1. replied[p.from] = 0 .. 2
        BY <3>1, <3>2, <3>3, <2>1
      <4>2. (kpc' = "follow" /\ selected' = {p.from}) \/ (kpc' = "failed" /\ selected' = selected)
        BY <1>5, <2>3, <3>3 DEF Responded
      <4> QED
        BY <3>1, <3>2, <4>1, <4>2, <2>1
    <3>4. CASE got[p.from] # 2
      <4>1. kpc' = kpc /\ selected' = selected
        BY <1>5, <2>3, <3>4 DEF Responded
      <4> QED
        BY <3>1, <3>2, <3>4, <4>1, <2>1
    <3> QED
      BY <3>3, <3>4
  <2> QED
    BY <2>2, <2>3
<1>6. ASSUME NEW p \in Packets, Arrives(p) PROVE CandidateInv'
  BY <1>6, PacketTyped DEF Arrives
<1>7. CASE UNCHANGED candidateVars
  BY <1>7 DEF candidateVars
<1> QED
  BY <1>1, <1>2, <1>3, <1>4, <1>5, <1>6, <1>7 DEF CandidatesNext, CheckThread

(* A candidate that is selected has answered all three requests, for any   *)
(* number of candidates, tries and packets.                                *)
THEOREM ThriceAnsweredHolds == CandidatesSpec => []ThriceAnswered
<1>1. CandidateInv => ThriceAnswered
  BY DEF CandidateInv
<1> QED
  BY CandidatesStart, CandidatesStep, <1>1, PTL DEF CandidatesSpec

-----------------------------------------------------------------------------
(* STUN: the ports of a NAT are predicted.                                 *)

(* Where x steps from the start of the ports lead a NAT that goes past the *)
(* last port at most once.                                                 *)
Wrapped(x) == IF x <= PortMax THEN x ELSE x - PortMax + Reserved

LEMMA StepWraps ==
  ASSUME nat_step \in Nat, NEW x \in 1 .. 2 * PortMax - Reserved - nat_step
  PROVE  /\ Wrapped(x) \in 1 .. PortMax
         /\ NatNext(Wrapped(x)) = Wrapped(x + nat_step)
         /\ nat_step # 0 => NextPort(Wrapped(x), nat_step) = Wrapped(x + nat_step)
BY StunAssumption DEF Wrapped, NatNext, NextPort

(* A difference of ports, kept in 16 bits.                                 *)
LEMMA ShortIs ==
  ASSUME NEW n \in - PortMax .. PortMax
  PROVE  Short(n) = IF n >= 0 THEN n ELSE n + PortMax + 1
<1>1. PortMax \in Nat /\ PortMax + 1 \in Nat \ {0}
  BY StunAssumption
<1> DEFINE m == PortMax + 1
<1>2. Short(n) = n % m
  BY DEF Short
<1>3. CASE n >= 0
  BY <1>1, <1>3, ModUnique, StunAssumption DEF Short
<1>4. CASE n < 0
  <2>1. n >= -m /\ n \in Int
    BY <1>1, <1>4
  <2> HIDE DEF m
  <2>2. n % m = n + m
    BY <1>1, <1>4, <2>1 DEF m
  <2> QED
    BY <1>1, <1>2, <1>4, <2>2 DEF m
<1> QED
  BY <1>3, <1>4

(* The steps between four of the ports from x on, at most one of which     *)
(* skips a port: the guess is the NAT's step, or it is that the ports are  *)
(* random, when one was skipped and they went past the last one.           *)
FourGuess(d, skipped, beyond, a, b, c) ==
  \/ (a = b \/ a = c) /\ a = d
  \/ a # b /\ b = c /\ b = d
  \/ a # b /\ a # c /\ b # c /\ a # 0 /\ skipped = 4 * d /\ beyond > PortMax

LEMMA FourPorts ==
  ASSUME NEW d \in Nat, NEW x \in 1 .. PortMax + 2 * d, 8 * d <= PortMax - Reserved,
         NEW d1 \in {d, 2 * d}, NEW d2 \in {d, 2 * d}, NEW d3 \in {d, 2 * d},
         \/ d1 = d /\ d2 = d /\ d3 = d
         \/ d <= Reserved /\ d1 + d2 + d3 = 4 * d
  PROVE  FourGuess(d, d1 + d2 + d3, x + d1 + d2 + d3,
                   Short(Wrapped(x + d1) - Wrapped(x)),
                   Short(Wrapped(x + d1 + d2) - Wrapped(x + d1)),
                   Short(Wrapped(x + d1 + d2 + d3) - Wrapped(x + d1 + d2)))
<1> DEFINE a == Short(Wrapped(x + d1) - Wrapped(x))
           b == Short(Wrapped(x + d1 + d2) - Wrapped(x + d1))
           c == Short(Wrapped(x + d1 + d2 + d3) - Wrapped(x + d1 + d2))
<1> USE StunAssumption
<1> DEFINE P(y) == IF y <= PortMax THEN y ELSE y - PortMax + Reserved
           S(n) == IF n >= 0 THEN n ELSE n + PortMax + 1
<1>1. \A y \in 1 .. PortMax + 6 * d : Wrapped(y) = P(y) /\ P(y) \in 1 .. PortMax
  BY DEF Wrapped
<1>2. /\ Wrapped(x) = P(x) /\ P(x) \in 1 .. PortMax
      /\ Wrapped(x + d1) = P(x + d1) /\ P(x + d1) \in 1 .. PortMax
      /\ Wrapped(x + d1 + d2) = P(x + d1 + d2) /\ P(x + d1 + d2) \in 1 .. PortMax
      /\ Wrapped(x + d1 + d2 + d3) = P(x + d1 + d2 + d3) /\ P(x + d1 + d2 + d3) \in 1 .. PortMax
  BY <1>1
<1>3. /\ a = S(P(x + d1) - P(x)) /\ b = S(P(x + d1 + d2) - P(x + d1))
      /\ c = S(P(x + d1 + d2 + d3) - P(x + d1 + d2))
  BY <1>2, ShortIs
<1> HIDE DEF a, b, c
<1>4. FourGuess(d, d1 + d2 + d3, x + d1 + d2 + d3, a, b, c)
  BY <1>3 DEF FourGuess
<1> QED
  BY <1>4 DEF a, b, c

-----------------------------------------------------------------------------
(* What the servers have seen in the first round: ports one step after the *)
(* other, with one left out when one server did not answer.                *)
AllSeen(s) == servers_asked = Len(seen) /\ \A i \in 1 .. Len(seen) : seen[i].port = Wrapped(s + i * nat_step)
OneMissed(s) ==
  /\ servers_asked = Len(seen) + 1
  /\ \E g \in 1 .. Len(seen) + 1 :
       /\ g <= 4
       /\ \A i \in 1 .. Len(seen) :
            seen[i].port = Wrapped(s + (IF i < g THEN i * nat_step ELSE i * nat_step + nat_step))
PortsFrom(s) ==
  /\ nat = Wrapped(s + servers_asked * nat_step)
  /\ AllSeen(s) \/ OneMissed(s) \/ servers_asked > Len(seen) + 1

FewSteps == nat_step >= 0 /\ 8 * nat_step <= PortMax - Reserved /\ servers_asked <= 5
Predictable == StepsShort /\ nat_step >= 0 /\ Len(seen) = 4 /\ \A i \in 2 .. 4 : Same(1, i)

(* What the test must have learnt from them.                               *)
Learnt ==
  /\ stun_port = nat
  /\ \/ increment = nat_step /\ ~random_allocation
     \/ /\ random_allocation /\ increment # 0
        /\ 2 * nat_step < RandomGuesses /\ nat + 2 * nat_step <= PortMax

PortInv ==
  /\ nat_step \in Int /\ nat \in Int /\ round \in {1, 2} /\ servers_asked \in Nat
  /\ seen \in Seq([addr : NatAddresses, port : Int]) /\ Len(seen) <= servers_asked
  /\ round = 1 =>
       /\ upc = "ask" => increment = Untested /\ ~random_allocation
       /\ FewSteps => \E s \in 1 .. PortMax : PortsFrom(s)
       /\ upc = "offer" /\ Predictable => Learnt
  /\ PortPredicted

LEMMA PortStart == StunInit => PortInv
<1> SUFFICES ASSUME StunInit PROVE PortInv
  OBVIOUS
<1> USE StunAssumption DEF StunInit
<1>1. nat \in 1 .. PortMax /\ nat \in Int /\ nat_step \in Int
  OBVIOUS
<1>2. seen \in Seq([addr : NatAddresses, port : Int]) /\ Len(seen) = 0
  OBVIOUS
<1>3. AllSeen(nat)
  BY <1>2 DEF AllSeen
<1>4. nat + servers_asked * nat_step = nat
  BY <1>1
<1>5. PortsFrom(nat)
  BY <1>1, <1>3, <1>4 DEF PortsFrom, Wrapped
<1> QED
  BY <1>1, <1>2, <1>5 DEF PortInv, PortPredicted

LEMMA NatIsInt == ASSUME nat_step \in Int, nat \in Int PROVE NatNext(nat) \in Int
BY StunAssumption DEF NatNext, NextPort

LEMMA AskPorts ==
  ASSUME PortInv, NEW addr \in NatAddresses, AskServer(addr)
  PROVE  PortInv'
<1>0. /\ nat_step \in Int /\ nat \in Int /\ servers_asked \in Nat /\ round \in {1, 2}
      /\ seen \in Seq([addr : NatAddresses, port : Int]) /\ Len(seen) <= servers_asked
      /\ round = 1 =>
           /\ upc = "ask" => increment = Untested /\ ~random_allocation
           /\ FewSteps => \E s \in 1 .. PortMax : PortsFrom(s)
  BY DEF PortInv
<1>00. PortMax \in Nat /\ Reserved \in Nat
  BY StunAssumption
<1>1. /\ upc = "ask" /\ upc' = "ask" /\ servers_asked' = servers_asked + 1 /\ nat' = NatNext(nat)
      /\ UNCHANGED <<round, nat_step, increment, random_allocation, stun_port, offered>>
      /\ round = 1 => Len(seen) <= 3
      /\ seen' = Append(seen, [addr |-> addr, port |-> nat']) \/ seen' = seen
  BY <1>0 DEF AskServer
<1>2. nat' \in Int
  BY <1>0, <1>1, NatIsInt
<1>3. /\ seen' \in Seq([addr : NatAddresses, port : Int]) /\ Len(seen') <= servers_asked'
  <2> DEFINE e == [addr |-> addr, port |-> nat']
             E == [addr : NatAddresses, port : Int]
  <2>1. e \in E
    BY <1>2
  <2>0. seen \in Seq(E)
    BY <1>0
  <2> HIDE DEF e, E
  <2>2. seen \in Seq(E) /\ Len(seen) \in Nat
    BY <2>0
  <2>3. Append(seen, e) \in Seq(E) /\ Len(Append(seen, e)) = Len(seen) + 1
    BY <2>1, <2>2, AppendProperties
  <2>4. servers_asked \in Nat /\ Len(seen) <= servers_asked
    BY <1>0
  <2>5. seen' = Append(seen, e) \/ seen' = seen
    BY <1>1 DEF e
  <2>6. seen' \in Seq(E) /\ Len(seen') <= servers_asked + 1
    <3>1. CASE seen' = seen
      BY <2>2, <2>4, <3>1
    <3>2. CASE seen' = Append(seen, e)
      BY <2>2, <2>3, <2>4, <3>2
    <3> QED
      BY <2>5, <3>1, <3>2
  <2> QED
    BY <1>1, <2>6 DEF E
<1>4. ASSUME round = 1, FewSteps' PROVE \E s \in 1 .. PortMax : PortsFrom(s)'
  <2> DEFINE d == nat_step
             n == servers_asked
             L == Len(seen)
  <2>1. d \in Nat /\ 8 * d <= PortMax - Reserved /\ n \in 0 .. 4 /\ L \in 0 .. 3 /\ FewSteps
    <3>1. L \in Nat /\ L <= 3
      BY <1>0, <1>1, <1>4
    <3>2. d >= 0 /\ 8 * d <= PortMax - Reserved /\ n + 1 <= 5
      BY <1>1, <1>4 DEF FewSteps
    <3>3. d \in Int /\ n \in Nat
      BY <1>0
    <3>4. d \in Nat
      BY <3>2, <3>3
    <3>5. n \in 0 .. 4
      BY <3>2, <3>3
    <3> HIDE DEF L
    <3>6. L \in 0 .. 3
      BY <3>1
    <3>7. FewSteps
      BY <1>00, <3>2, <3>3 DEF FewSteps
    <3> QED
      BY <3>2, <3>4, <3>5, <3>6, <3>7
  <2>2. PICK s \in 1 .. PortMax : PortsFrom(s)
    BY <1>0, <1>4, <2>1
  <2>3. n * d \in 0 .. 4 * d /\ (n + 1) * d = n * d + d
    BY <2>1
  <2>4. s + n * d \in 1 .. 2 * PortMax - Reserved - d
    BY <2>1, <2>3, StunAssumption
  <2>5. nat' = Wrapped(s + n * d + d)
    BY <1>1, <2>1, <2>2, <2>4, StepWraps DEF PortsFrom
  <2>6. nat' = Wrapped(s + n' * d')
    BY <1>1, <2>1, <2>3, <2>5
  <2>7. CASE seen' = Append(seen, [addr |-> addr, port |-> nat'])
    <3>1. /\ Len(seen') = L + 1 /\ seen'[L + 1].port = nat'
          /\ \A i \in 1 .. L : seen'[i] = seen[i]
      BY <2>7
    <3>2. ASSUME AllSeen(s) PROVE AllSeen(s)'
      <4>1. n = L /\ \A i \in 1 .. L : seen[i].port = Wrapped(s + i * d)
        BY <3>2 DEF AllSeen
      <4>2. \A i \in 1 .. L + 1 : seen'[i].port = Wrapped(s + i * d)
        <5> SUFFICES ASSUME NEW i \in 1 .. L + 1 PROVE seen'[i].port = Wrapped(s + i * d)
          OBVIOUS
        <5>1. CASE i \in 1 .. L
          BY <3>1, <4>1, <5>1
        <5>2. CASE i = L + 1
          BY <1>1, <2>6, <3>1, <4>1, <5>2
        <5> QED
          BY <2>1, <5>1, <5>2
      <4> QED
        BY <1>1, <3>1, <4>1, <4>2 DEF AllSeen
    <3>3. ASSUME OneMissed(s) PROVE OneMissed(s)'
      <4>1. PICK g \in 1 .. L + 1 :
              /\ g <= 4 /\ n = L + 1
              /\ \A i \in 1 .. L : seen[i].port = Wrapped(s + (IF i < g THEN i * d ELSE i * d + d))
        BY <3>3 DEF OneMissed
      <4>2. nat' = Wrapped(s + ((L + 1) * d + d))
        <5>1. s + n * d + d = s + ((L + 1) * d + d)
          BY <2>1, <2>3, <4>1
        <5> QED
          BY <2>5, <5>1
      <4>3. \A i \in 1 .. L + 1 : seen'[i].port = Wrapped(s + (IF i < g THEN i * d ELSE i * d + d))
        <5> SUFFICES ASSUME NEW i \in 1 .. L + 1
                     PROVE  seen'[i].port = Wrapped(s + (IF i < g THEN i * d ELSE i * d + d))
          OBVIOUS
        <5>1. CASE i \in 1 .. L
          BY <3>1, <4>1, <5>1
        <5>2. CASE i = L + 1
          BY <3>1, <4>1, <4>2, <5>2
        <5> QED
          BY <2>1, <5>1, <5>2
      <4>4. g \in 1 .. Len(seen') + 1 /\ n' = Len(seen') + 1
        BY <1>1, <2>1, <3>1, <4>1
      <4> QED
        BY <1>1, <3>1, <4>1, <4>3, <4>4 DEF OneMissed
    <3>4. n > L + 1 => n' > Len(seen') + 1
      BY <1>1, <2>1, <3>1
    <3> QED
      BY <2>2, <2>6, <3>2, <3>3, <3>4 DEF PortsFrom
  <2>8. CASE seen' = seen
    <3>1. ASSUME AllSeen(s) PROVE OneMissed(s)'
      <4>1. n = L /\ \A i \in 1 .. L : seen[i].port = Wrapped(s + i * d)
        BY <3>1 DEF AllSeen
      <4>2. \A i \in 1 .. L : seen'[i].port = Wrapped(s + (IF i < L + 1 THEN i * d ELSE i * d + d))
        BY <2>1, <2>8, <4>1
      <4>3. L + 1 \in 1 .. Len(seen') + 1 /\ L + 1 <= 4 /\ n' = Len(seen') + 1
        <5>1. Len(seen') = L
          BY <2>8
        <5>2. n' = n + 1
          BY <1>1
        <5> HIDE DEF L
        <5>3. L + 1 \in 1 .. L + 1 /\ L + 1 <= 4
          BY <2>1
        <5> QED
          BY <4>1, <5>1, <5>2, <5>3
      <4> QED
        BY <1>1, <2>8, <4>2, <4>3 DEF OneMissed
    <3>2. OneMissed(s) \/ n > L + 1 => n' > Len(seen') + 1
      BY <1>1, <2>1, <2>8 DEF OneMissed
    <3> QED
      BY <2>2, <2>6, <3>1, <3>2 DEF PortsFrom
  <2> QED
    BY <1>1, <2>7, <2>8
<1>5. PortPredicted'
  BY <1>1 DEF PortPredicted
<1> QED
  BY <1>0, <1>1, <1>2, <1>3, <1>4, <1>5 DEF PortInv

(* From four answers, one more having perhaps been missed, the test learns *)
(* the NAT's step, or that there are too many ports to tell.               *)
LEMMA FourLearn ==
  ASSUME PortInv, round = 1, Predictable, increment' = GuessFour.inc,
         random_allocation' = (random_allocation \/ GuessFour.rnd), ~random_allocation,
         stun_port' = Short(Last), UNCHANGED <<seen, nat, nat_step>>
  PROVE  Learnt'
<1> DEFINE d == nat_step
           p == [i \in 1 .. 4 |-> seen[i].port]
<1>1. d \in Nat /\ servers_asked \in {4, 5} /\ 8 * d <= PortMax - Reserved /\ Len(seen) = 4 /\ FewSteps
  BY StunAssumption, GuessesAssumption DEF PortInv, Predictable, StepsShort, FewSteps
<1>2. servers_asked = 5 => 2 * d < RandomGuesses /\ d <= Reserved
  BY <1>1, StunAssumption, GuessesAssumption DEF Predictable, StepsShort
<1>3. PICK s \in 1 .. PortMax : PortsFrom(s)
  BY <1>1 DEF PortInv
<1>4. \E x \in 1 .. PortMax + 2 * d, d1 \in {d, 2 * d}, d2 \in {d, 2 * d}, d3 \in {d, 2 * d} :
        /\ \/ d1 = d /\ d2 = d /\ d3 = d
           \/ servers_asked = 5 /\ d1 + d2 + d3 = 4 * d
        /\ p[1] = Wrapped(x) /\ p[2] = Wrapped(x + d1) /\ p[3] = Wrapped(x + d1 + d2)
        /\ p[4] = Wrapped(x + d1 + d2 + d3) /\ nat = p[4]
  <2>1. CASE AllSeen(s)
    <3>1. servers_asked = 4 /\ \A i \in 1 .. 4 : p[i] = Wrapped(s + i * d)
      BY <1>1, <2>1 DEF AllSeen
    <3>2. /\ p[1] = Wrapped(s + 1 * d) /\ p[2] = Wrapped(s + 2 * d) /\ p[3] = Wrapped(s + 3 * d)
          /\ p[4] = Wrapped(s + 4 * d) /\ nat = Wrapped(s + 4 * d)
      BY <1>3, <3>1 DEF PortsFrom
    <3> HIDE DEF p
    <3> DEFINE x == s + d
    <3>3. /\ x \in 1 .. PortMax + 2 * d /\ s + 1 * d = x /\ s + 2 * d = x + d /\ s + 3 * d = x + d + d
          /\ s + 4 * d = x + d + d + d
      BY <1>1, StunAssumption
    <3> HIDE DEF x
    <3> QED
      BY <3>2, <3>3
  <2>2. CASE OneMissed(s)
    <3>1. PICK g \in 1 .. 4 :
            \A i \in 1 .. 4 : p[i] = Wrapped(s + (IF i < g THEN i * d ELSE i * d + d))
      BY <1>1, <2>2 DEF OneMissed
    <3>2. servers_asked = 5 /\ nat = Wrapped(s + 5 * d)
      BY <1>1, <1>3, <2>2 DEF OneMissed, PortsFrom
    <3>3. /\ p[1] = Wrapped(s + (IF 1 < g THEN 1 * d ELSE 1 * d + d))
          /\ p[2] = Wrapped(s + (IF 2 < g THEN 2 * d ELSE 2 * d + d))
          /\ p[3] = Wrapped(s + (IF 3 < g THEN 3 * d ELSE 3 * d + d))
          /\ p[4] = Wrapped(s + (IF 4 < g THEN 4 * d ELSE 4 * d + d))
      BY <3>1
    <3> HIDE DEF p
    <3> DEFINE x == s + (IF g = 1 THEN 2 * d ELSE d)
               d1 == IF g = 2 THEN 2 * d ELSE d
               d2 == IF g = 3 THEN 2 * d ELSE d
               d3 == IF g = 4 THEN 2 * d ELSE d
    <3>4. /\ x \in 1 .. PortMax + 2 * d /\ d1 \in {d, 2 * d} /\ d2 \in {d, 2 * d} /\ d3 \in {d, 2 * d}
          /\ (d1 = d /\ d2 = d /\ d3 = d) \/ d1 + d2 + d3 = 4 * d
          /\ s + (IF 1 < g THEN 1 * d ELSE 1 * d + d) = x
          /\ s + (IF 2 < g THEN 2 * d ELSE 2 * d + d) = x + d1
          /\ s + (IF 3 < g THEN 3 * d ELSE 3 * d + d) = x + d1 + d2
          /\ s + (IF 4 < g THEN 4 * d ELSE 4 * d + d) = x + d1 + d2 + d3
          /\ s + 5 * d = x + d1 + d2 + d3
      BY <1>1, StunAssumption
    <3>5. /\ p[1] = Wrapped(x) /\ p[2] = Wrapped(x + d1) /\ p[3] = Wrapped(x + d1 + d2)
          /\ p[4] = Wrapped(x + d1 + d2 + d3) /\ nat = p[4]
      BY <3>2, <3>3, <3>4
    <3> HIDE DEF x, d1, d2, d3
    <3> QED
      BY <3>2, <3>4, <3>5
  <2>3. CASE servers_asked > Len(seen) + 1
    BY <1>1, <2>3
  <2> QED
    BY <1>3, <2>1, <2>2, <2>3 DEF PortsFrom
<1>5. PICK x \in 1 .. PortMax + 2 * d, d1 \in {d, 2 * d}, d2 \in {d, 2 * d}, d3 \in {d, 2 * d} :
        /\ \/ d1 = d /\ d2 = d /\ d3 = d
           \/ servers_asked = 5 /\ d1 + d2 + d3 = 4 * d
        /\ p[1] = Wrapped(x) /\ p[2] = Wrapped(x + d1) /\ p[3] = Wrapped(x + d1 + d2)
        /\ p[4] = Wrapped(x + d1 + d2 + d3) /\ nat = p[4]
  BY <1>4
<1> DEFINE a == Short(Step(1, 2))
           b == Short(Step(2, 3))
           c == Short(Step(3, 4))
<1>6. /\ a = Short(Wrapped(x + d1) - Wrapped(x)) /\ b = Short(Wrapped(x + d1 + d2) - Wrapped(x + d1))
      /\ c = Short(Wrapped(x + d1 + d2 + d3) - Wrapped(x + d1 + d2))
  BY <1>5 DEF Step
<1>7. GuessFour = CASE a = b \/ a = c -> Guess(a, FALSE)
                    [] a # b /\ b = c -> Guess(b, FALSE)
                    [] OTHER -> Guess(a, TRUE)
  <2>1. Same(1, 2) /\ Same(2, 3) /\ Same(3, 4)
    BY DEF Predictable, Same
  <2> QED
    BY <2>1 DEF GuessFour, GuessFourSteady
<1>8. nat \in 1 .. PortMax /\ stun_port' = nat
  <2>1. nat = Wrapped(x + d1 + d2 + d3) /\ x + d1 + d2 + d3 \in 1 .. 2 * PortMax - Reserved - d
    BY <1>1, <1>5, StunAssumption
  <2>2. nat \in 1 .. PortMax
    BY <1>1, <2>1, StepWraps
  <2>3. Short(nat) = nat
    BY <2>2, ShortIs, StunAssumption
  <2>4. Last = nat
    BY <1>1, <1>5 DEF Last
  <2> QED
    BY <2>2, <2>3, <2>4
<1> HIDE DEF a, b, c, p
<1>9. FourGuess(d, d1 + d2 + d3, x + d1 + d2 + d3, a, b, c)
  <2>1. \/ d1 = d /\ d2 = d /\ d3 = d
        \/ d <= Reserved /\ d1 + d2 + d3 = 4 * d
    BY <1>2, <1>5
  <2>2. d \in Nat /\ 8 * d <= PortMax - Reserved
    BY <1>1
  <2> HIDE DEF d
  <2>3. FourGuess(d, d1 + d2 + d3, x + d1 + d2 + d3,
                  Short(Wrapped(x + d1) - Wrapped(x)),
                  Short(Wrapped(x + d1 + d2) - Wrapped(x + d1)),
                  Short(Wrapped(x + d1 + d2 + d3) - Wrapped(x + d1 + d2)))
    BY <2>1, <2>2, FourPorts
  <2> QED
    BY <1>6, <2>3
<1>10. CASE (a = b \/ a = c) /\ a = d
  BY <1>7, <1>8, <1>10 DEF Learnt, Guess
<1>11. CASE ~(a = b \/ a = c) /\ a # b /\ b = c /\ b = d
  BY <1>7, <1>8, <1>11 DEF Learnt, Guess
<1>12. CASE a # b /\ a # c /\ b # c /\ a # 0 /\ d1 + d2 + d3 = 4 * d /\ x + d1 + d2 + d3 > PortMax
  <2>1. d > 0 /\ servers_asked = 5
    BY <1>1, <1>5, <1>12, StunAssumption
  <2>2. nat = x + d1 + d2 + d3 - PortMax + Reserved
    <3> DEFINE y == x + d1 + d2 + d3
    <3>1. nat = Wrapped(y) /\ y > PortMax /\ y \in Int
      BY <1>1, <1>5, <1>12, StunAssumption
    <3> HIDE DEF y
    <3>2. nat = y - PortMax + Reserved
      BY <3>1, StunAssumption DEF Wrapped
    <3> QED
      BY <1>1, <1>5, <3>2, StunAssumption DEF y
  <2>3. nat + 2 * d <= PortMax
    BY <1>1, <1>5, <1>12, <2>2, StunAssumption
  <2>4. GuessFour = Guess(a, TRUE)
    BY <1>7, <1>12
  <2>5. increment' = a /\ random_allocation'
    BY <2>4 DEF Guess
  <2> QED
    BY <1>2, <1>8, <1>12, <2>1, <2>3, <2>5 DEF Learnt
<1> QED
  BY <1>9, <1>10, <1>11, <1>12 DEF FourGuess

(* The ports offered, with the steps of the walk one by one.               *)
LEMMA WalkIs ==
  LET walk[i \in 0 .. Guesses] == IF i = 0 THEN stun_port ELSE NextPort(walk[i - 1], increment)
  IN  stun_port \in Int /\ increment \in Int =>
        /\ walk[1] = NextPort(stun_port, increment)
        /\ walk[2] = NextPort(NextPort(stun_port, increment), increment)
<1> DEFINE W(f) == [i \in 0 .. Guesses |-> IF i = 0 THEN stun_port ELSE NextPort(f[i - 1], increment)]
           walk == CHOOSE f : f = W(f)
<1> SUFFICES ASSUME stun_port \in Int, increment \in Int
             PROVE  /\ walk[1] = NextPort(stun_port, increment)
                    /\ walk[2] = NextPort(NextPort(stun_port, increment), increment)
  OBVIOUS
<1>1. Guesses \in Nat /\ 1 \in 0 .. Guesses /\ 2 \in 0 .. Guesses /\ 0 \in 0 .. Guesses
  BY StunAssumption
<1>2. \E f : f = W(f)
  <2> DEFINE F == [q \in Int \X (1 .. Guesses) |-> NextPort(q[1], increment)]
  <2>1. F \in [Int \X (1 .. Guesses) -> Int]
    BY StunAssumption DEF NextPort
  <2> HIDE DEF F
  <2>2. PICK g \in [0 .. Guesses -> Int] : IsRecursive(g, Guesses, stun_port, F)
    BY <1>1, <2>1, Recursion
  <2>3. g[0] = stun_port /\ \A k \in 1 .. Guesses : g[k] = NextPort(g[k - 1], increment)
    <3>1. \A k \in 1 .. Guesses : <<g[k - 1], k>> \in Int \X (1 .. Guesses) /\ g[k] = F[<<g[k - 1], k>>]
      BY <1>1, <2>2 DEF IsRecursive
    <3> QED
      BY <2>2, <3>1 DEF IsRecursive, F
  <2>4. \A i \in 0 .. Guesses : g[i] = W(g)[i]
    BY <1>1, <2>3
  <2>5. g = W(g)
    BY <2>4
  <2> QED
    BY <2>5
<1>3. walk = W(walk)
  BY <1>2
<1> HIDE DEF walk
<1>4. walk[0] = stun_port /\ walk[1] = NextPort(walk[0], increment) /\ walk[2] = NextPort(walk[1], increment)
  BY <1>1, <1>3
<1> QED
  BY <1>4

LEMMA WalkOffered ==
  ASSUME stun_port \in Int, increment \in Int
  PROVE  {Short(NextPort(stun_port, increment)), Short(NextPort(NextPort(stun_port, increment), increment))}
           \subseteq StepPorts
<1> DEFINE walk[i \in 0 .. Guesses] == IF i = 0 THEN stun_port ELSE NextPort(walk[i - 1], increment)
<1>1. walk[1] = NextPort(stun_port, increment) /\ walk[2] = NextPort(NextPort(stun_port, increment), increment)
  BY WalkIs
<1>2. StepPorts = {Short(walk[i]) : i \in 1 .. Guesses}
  BY DEF StepPorts
<1> HIDE DEF walk
<1>3. 1 \in 1 .. Guesses /\ 2 \in 1 .. Guesses
  BY StunAssumption
<1> QED
  BY <1>1, <1>2, <1>3

LEMMA OfferLearnt ==
  ASSUME PortInv, round = 1, Predictable, Learnt
  PROVE  {NatNext(nat), NatNext(NatNext(nat))} \subseteq OfferedPorts
<1> DEFINE d == nat_step
<1>1. d \in Nat /\ servers_asked \in {4, 5} /\ 8 * d <= PortMax - Reserved /\ FewSteps /\ nat \in Int
  BY StunAssumption, GuessesAssumption DEF PortInv, Predictable, StepsShort, FewSteps
<1>2. PICK s \in 1 .. PortMax : PortsFrom(s)
  BY <1>1 DEF PortInv
<1> DEFINE x == s + servers_asked * d
<1>3. nat = Wrapped(x) /\ x \in 1 .. 2 * PortMax - Reserved - 3 * d
  BY <1>1, <1>2, StunAssumption DEF PortsFrom
<1> HIDE DEF x
<1>4. /\ nat \in 1 .. PortMax /\ NatNext(nat) = Wrapped(x + d) /\ NatNext(NatNext(nat)) = Wrapped(x + d + d)
      /\ NatNext(nat) \in 1 .. PortMax /\ NatNext(NatNext(nat)) \in 1 .. PortMax
  <2>1. x \in 1 .. 2 * PortMax - Reserved - d /\ x + d \in 1 .. 2 * PortMax - Reserved - d
        /\ x + d + d \in 1 .. 2 * PortMax - Reserved - d
    BY <1>1, <1>3, StunAssumption
  <2> QED
    BY <1>1, <1>3, <2>1, StepWraps
<1>5. \A n \in 1 .. PortMax : Short(n) = n
  BY ShortIs, StunAssumption
<1>6. CASE increment = d /\ ~random_allocation /\ d = 0
  BY <1>6, <1>1 DEF Learnt, OfferedPorts, NatNext
<1>7. CASE increment = d /\ ~random_allocation /\ d # 0
  <2>1. NextPort(stun_port, increment) = NatNext(nat)
    BY <1>7 DEF Learnt, NatNext
  <2>2. NextPort(NextPort(stun_port, increment), increment) = NatNext(NatNext(nat))
    BY <1>7, <2>1 DEF NatNext
  <2>3. {NatNext(nat), NatNext(NatNext(nat))} \subseteq StepPorts
    BY <1>1, <1>4, <1>5, <1>7, <2>1, <2>2, WalkOffered DEF Learnt
  <2> QED
    BY <1>7, <2>3 DEF OfferedPorts
<1>8. CASE random_allocation /\ increment # 0 /\ 2 * d < RandomGuesses /\ nat + 2 * d <= PortMax
  <2>1. NatNext(nat) = nat + d /\ NatNext(nat + d) = nat + 2 * d
    BY <1>1, <1>4, <1>8, StunAssumption DEF NatNext, NextPort
  <2>2. d \in 0 .. RandomGuesses - 1 /\ 2 * d \in 0 .. RandomGuesses - 1
    BY <1>1, <1>8, StunAssumption
  <2>3. stun_port = nat /\ ~(nat + d > PortMax) /\ ~(nat + 2 * d > PortMax)
    BY <1>1, <1>4, <1>8, StunAssumption DEF Learnt
  <2>4. nat + d \in RowPorts /\ nat + 2 * d \in RowPorts
    BY <2>2, <2>3 DEF RowPorts
  <2> QED
    BY <1>8, <2>1, <2>4 DEF OfferedPorts
<1> QED
  BY <1>6, <1>7, <1>8 DEF Learnt

LEMMA PortStep == PortInv /\ [StunNext]_stunVars => PortInv'
<1> SUFFICES ASSUME PortInv, [StunNext]_stunVars PROVE PortInv'
  OBVIOUS
<1>0. /\ nat_step \in Int /\ nat \in Int /\ servers_asked \in Nat /\ round \in {1, 2}
      /\ seen \in Seq([addr : NatAddresses, port : Int]) /\ Len(seen) <= servers_asked
      /\ round = 1 =>
           /\ upc = "ask" => increment = Untested /\ ~random_allocation
           /\ FewSteps => \E s \in 1 .. PortMax : PortsFrom(s)
           /\ upc = "offer" /\ Predictable => Learnt
      /\ PortPredicted
  BY DEF PortInv
<1>p. ASSUME UNCHANGED <<nat_step, nat, servers_asked, seen>>
      PROVE  /\ FewSteps' = FewSteps /\ Predictable' = Predictable
             /\ \A s \in 1 .. PortMax : PortsFrom(s)' = PortsFrom(s)
  BY <1>p DEF FewSteps, Predictable, StepsShort, Same, PortsFrom, AllSeen, OneMissed
<1>1. ASSUME NEW a \in NatAddresses, AskServer(a) PROVE PortInv'
  BY <1>1, AskPorts
<1>2. CASE AskFails \/ NoAddress
  <2>1. upc' = "failed" /\ UNCHANGED <<round, nat_step, nat, servers_asked, seen>>
    BY <1>2 DEF AskFails, NoAddress
  <2>2. \A s \in 1 .. PortMax : PortsFrom(s)' = PortsFrom(s)
    BY <1>p, <2>1
  <2> QED
    BY <1>0, <1>p, <2>1, <2>2 DEF PortInv, PortPredicted
<1>3. CASE ExternalAddress
  <2>1. round # 1 /\ upc' = "offer" /\ UNCHANGED <<round, nat_step, nat, servers_asked, seen>>
    BY <1>0, <1>3 DEF ExternalAddress
  <2> QED
    BY <1>0, <2>1 DEF PortInv, PortPredicted
<1>4. CASE AllocationTest
  <2>1. upc = "ask" /\ upc' = "offer" /\ UNCHANGED <<round, nat_step, nat, servers_asked, seen>>
    BY <1>4 DEF AllocationTest
  <2>2. ASSUME round = 1, Predictable' PROVE Learnt'
    <3>1. Predictable /\ Len(seen) = 4 /\ ~random_allocation
      BY <1>0, <1>p, <2>1, <2>2 DEF Predictable
    <3>2. /\ increment' = GuessFour.inc /\ random_allocation' = (random_allocation \/ GuessFour.rnd)
          /\ stun_port' = Short(Last)
      BY <1>4, <3>1 DEF AllocationTest
    <3> QED
      BY <2>1, <2>2, <3>1, <3>2, FourLearn
  <2>3. \A s \in 1 .. PortMax : PortsFrom(s)' = PortsFrom(s)
    BY <1>p, <2>1
  <2> QED
    BY <1>0, <1>p, <2>1, <2>2, <2>3 DEF PortInv, PortPredicted
<1>5. CASE SendCandidates
  <2>1. /\ upc = "offer" /\ upc' = "done" /\ offered' = OfferedPorts
        /\ UNCHANGED <<round, nat_step, nat, servers_asked, seen>>
    BY <1>5 DEF SendCandidates
  <2>2. ASSUME round = 1, Predictable PROVE {NatNext(nat), NatNext(NatNext(nat))} \subseteq OfferedPorts
    BY <1>0, <2>1, <2>2, OfferLearnt
  <2>3. NatNext(nat)' = NatNext(nat) /\ NatNext(NatNext(nat))' = NatNext(NatNext(nat))
    BY <2>1 DEF NatNext, NextPort
  <2>4. PortPredicted'
    BY <1>p, <2>1, <2>2, <2>3 DEF PortPredicted, Predictable
  <2>5. \A s \in 1 .. PortMax : PortsFrom(s)' = PortsFrom(s)
    BY <1>p, <2>1
  <2> QED
    BY <1>0, <1>p, <2>1, <2>4, <2>5 DEF PortInv
<1>6. CASE SecondRound
  <2>1. /\ upc' = "ask" /\ round' = 2 /\ servers_asked' = 0 /\ seen' = << >> /\ nat' = NatNext(nat)
        /\ nat_step' = nat_step
    BY <1>6 DEF SecondRound
  <2>2. nat' \in Int
    BY <1>0, <2>1, NatIsInt
  <2> QED
    BY <1>0, <2>1, <2>2 DEF PortInv, PortPredicted
<1>7. CASE UNCHANGED stunVars
  <2>1. UNCHANGED <<upc, round, nat_step, nat, servers_asked, seen, increment, random_allocation, stun_port, offered>>
    BY <1>7 DEF stunVars
  <2>2. Learnt' = Learnt /\ PortPredicted' = PortPredicted
    BY <2>1 DEF Learnt, PortPredicted, Same, StepsShort, NatNext, NextPort
  <2>3. \A s \in 1 .. PortMax : PortsFrom(s)' = PortsFrom(s)
    BY <1>p, <2>1
  <2> QED
    BY <1>0, <1>p, <2>1, <2>2, <2>3 DEF PortInv
<1> QED
  BY <1>1, <1>2, <1>3, <1>4, <1>5, <1>6, <1>7 DEF StunNext

(* The console is offered the ports under which it will see the client, of *)
(* whatever step the NAT's are and wherever they begin.                    *)
THEOREM PortPredictedHolds == StunSpec => []PortPredicted
<1>1. PortInv => PortPredicted
  BY DEF PortInv
<1> QED
  BY PortStart, PortStep, <1>1, PTL DEF StunSpec

-----------------------------------------------------------------------------
(* RUDP: what replaces TCP.                                                *)

(* The exchanges.  Every answer was asked for, and none of a completed     *)
(* exchange is left when neither it nor an earlier one of its type had to  *)
(* repeat its request.                                                     *)
ExchangeInv ==
  /\ at \in 1 .. Len(Exchanges) + 2 /\ (receiving => at <= Len(Exchanges))
  /\ requests \in [DOMAIN Exchanges -> Nat] /\ answers \in [DOMAIN Exchanges -> Nat]
  /\ \A x \in DOMAIN Exchanges : /\ answers[x] <= requests[x]
                                 /\ at < x => requests[x] = 0
                                 /\ x < at /\ requests[x] <= 1 /\ ~Repeated(x) => answers[x] = 0
  /\ accepted \in Seq(DOMAIN Exchanges)
  /\ Len(accepted) = IF Opened THEN 0 ELSE at - 1
  /\ OwnAnswer

LEMMA ExchangeStart == RudpInit => ExchangeInv
BY RudpAssumption DEF RudpInit, ExchangeInv, OwnAnswer, Opened

LEMMA ExchangeStep == ExchangeInv /\ [RudpNext]_rudpVars => ExchangeInv'
<1> SUFFICES ASSUME ExchangeInv, [RudpNext]_rudpVars PROVE ExchangeInv'
  OBVIOUS
<1>0. /\ DOMAIN Exchanges = 1 .. Len(Exchanges) /\ Len(Exchanges) \in Nat
      /\ at \in Nat /\ at >= 1
  BY RudpAssumption DEF ExchangeInv
<1>1. CASE SendRequest
  <2>1. /\ requests' = [requests EXCEPT ![at] = @ + 1] /\ at' = at /\ accepted' = accepted /\ receiving' = TRUE
        /\ answers' \in {answers, [answers EXCEPT ![at] = @ + 1]} /\ at \in DOMAIN Exchanges
    BY <1>0, <1>1 DEF SendRequest, ExchangeInv
  <2>a. /\ requests' \in [DOMAIN Exchanges -> Nat] /\ requests'[at] = requests[at] + 1
        /\ \A x \in DOMAIN Exchanges : x # at => requests'[x] = requests[x]
    BY <2>1 DEF ExchangeInv
  <2>b. /\ answers' \in [DOMAIN Exchanges -> Nat] /\ answers'[at] <= answers[at] + 1
        /\ \A x \in DOMAIN Exchanges : x # at => answers'[x] = answers[x]
    BY <2>1 DEF ExchangeInv
  <2>2. \A x \in DOMAIN Exchanges : answers'[x] <= requests'[x]
    BY <2>1, <2>a, <2>b DEF ExchangeInv
  <2>3. ASSUME NEW x \in DOMAIN Exchanges, x <= at PROVE Repeated(x)' <=> Repeated(x)
    BY <1>0, <2>1, <2>a, <2>3 DEF Repeated
  <2>4. OwnAnswer'
    BY <1>0, <2>1, <2>3 DEF OwnAnswer, ExchangeInv, Opened
  <2> QED
    BY <1>0, <2>1, <2>2, <2>a, <2>b, <2>3, <2>4 DEF ExchangeInv, Opened
<1>2. ASSUME NEW x \in DOMAIN Exchanges, Receive(x) PROVE ExchangeInv'
  <2>0. receiving /\ answers[x] > 0
    BY <1>2 DEF Receive
  <2>a. x <= at /\ at \in DOMAIN Exchanges
    BY <1>0, <2>0, SMTT(30) DEF ExchangeInv
  <2>1. /\ answers' = [answers EXCEPT ![x] = @ - 1] /\ requests' = requests
        /\ receiving' = FALSE
    BY <1>2 DEF Receive
  <2>b. /\ answers' \in [DOMAIN Exchanges -> Nat] /\ answers'[x] = answers[x] - 1
        /\ \A y \in DOMAIN Exchanges : y # x => answers'[y] = answers[y]
    BY <2>0, <2>1 DEF ExchangeInv
  <2>2. /\ answers' \in [DOMAIN Exchanges -> Nat]
        /\ \A y \in DOMAIN Exchanges : answers'[y] <= answers[y] /\ answers'[y] <= requests[y]
        /\ answers'[x] + 1 <= requests[x]
        /\ \A y \in DOMAIN Exchanges : Repeated(y)' <=> Repeated(y)
    <3>1. \A y \in DOMAIN Exchanges : Repeated(y)' <=> Repeated(y)
      BY <2>1 DEF Repeated
    <3>2. \A y \in DOMAIN Exchanges : answers'[y] <= answers[y] /\ answers'[y] <= requests[y]
      <4> SUFFICES ASSUME NEW y \in DOMAIN Exchanges
                   PROVE  answers'[y] <= answers[y] /\ answers'[y] <= requests[y]
        OBVIOUS
      <4>1. answers[y] \in Nat /\ requests[y] \in Nat /\ answers[y] <= requests[y]
        BY DEF ExchangeInv
      <4> QED
        BY <2>b, <4>1
    <3> QED
      BY <2>b, <3>1, <3>2 DEF ExchangeInv
  <2>3. CASE Accepts(x)
    <3>1. at' = at + 1 /\ accepted' = Append(accepted, x) /\ Exchanges[x] = Exchanges[at]
      BY <1>2, <2>3 DEF Receive, Accepts
    <3>2. Len(accepted) = at - 1 /\ accepted \in Seq(DOMAIN Exchanges) /\ OwnAnswer
      BY <2>a, <1>0 DEF ExchangeInv, Opened
    <3>3. /\ accepted' \in Seq(DOMAIN Exchanges) /\ Len(accepted') = at /\ accepted'[at] = x
          /\ \A y \in 1 .. at - 1 : accepted'[y] = accepted[y]
      <4> DEFINE E == DOMAIN Exchanges
      <4>1. accepted \in Seq(E) /\ x \in E /\ Len(accepted) = at - 1 /\ at \in Nat
        BY <1>0, <3>2
      <4> HIDE DEF E
      <4>2. /\ Append(accepted, x) \in Seq(E) /\ Len(Append(accepted, x)) = at /\ Append(accepted, x)[at] = x
            /\ \A y \in 1 .. at - 1 : Append(accepted, x)[y] = accepted[y]
        BY <4>1
      <4> QED
        BY <3>1, <4>2 DEF E
    <3>4. ~Repeated(at) => x = at
      <4> SUFFICES ASSUME ~Repeated(at), x # at PROVE FALSE
        OBVIOUS
      <4>0. x < at /\ \A y \in 1 .. at - 1 : Exchanges[y] = Exchanges[at] => ~(requests[y] > 1)
        BY <1>0, <2>a DEF Repeated
      <4>1. ~Repeated(x) /\ ~(requests[x] > 1)
        BY <1>0, <2>a, <3>1, <4>0 DEF Repeated
      <4> QED
        BY <2>0, <4>0, <4>1 DEF ExchangeInv
    <3>5. OwnAnswer'
      BY <1>0, <2>0, <2>a, <2>1, <2>2, <3>1, <3>2, <3>3, <3>4 DEF OwnAnswer
    <3>6. ASSUME NEW y \in DOMAIN Exchanges, y < at + 1, requests[y] <= 1, ~Repeated(y) PROVE answers'[y] = 0
      <4>1. CASE y = at
        <5>1. x = at
          BY <3>4, <3>6, <4>1
        <5> QED
          BY <2>2, <3>6, <4>1, <5>1 DEF ExchangeInv
      <4>2. CASE y < at
        BY <2>2, <3>6, <4>2 DEF ExchangeInv
      <4> QED
        BY <4>1, <4>2, <1>0, <3>6, <2>1
    <3> QED
      BY <1>0, <2>0, <2>a, <2>1, <2>2, <3>1, <3>3, <3>5, <3>6 DEF ExchangeInv, Opened
  <2>4. CASE ~Accepts(x)
    <3>1. at' = at /\ accepted' = accepted
      BY <1>2, <2>4 DEF Receive
    <3> QED
      BY <1>0, <2>0, <2>a, <2>1, <2>2, <3>1 DEF ExchangeInv, Opened, OwnAnswer
  <2> QED
    BY <2>3, <2>4
<1>3. CASE RudpTimeout
  BY <1>3 DEF RudpTimeout, ExchangeInv, OwnAnswer, Opened, Repeated
<1>4. CASE OpenCtrl
  BY <1>0, <1>4 DEF OpenCtrl, ExchangeInv, OwnAnswer, Opened, Repeated
<1>5. CASE UNCHANGED exchange
  BY <1>5 DEF exchange, ExchangeInv, OwnAnswer, Opened, Repeated
<1>6. CASE RudpSending \/ ResendThread \/ (\E t \in Senders : TakeCounter(t))
           \/ (\E n \in to_local : AckReceived(n)) \/ (\E n \in to_remote : RemoteTakes(n))
           \/ UNCHANGED rudpVars
  BY <1>5, <1>6
     DEF RudpSending, ReadCounter, PushPacket, ResendThread, Resend, TakeCounter, AckReceived, RemoteTakes, rudpVars
<1> QED
  BY <1>1, <1>2, <1>3, <1>4, <1>6 DEF RudpNext

-----------------------------------------------------------------------------
(* Control messages.  A message waits for an acknowledgement of a number   *)
(* behind its own; without a race it is that of the next message, and no   *)
(* other waits for it.                                                     *)
Sending(t) == sender[t].at # "idle"

ControlTypes ==
  /\ counter \in Nat /\ taken \in Nat
  /\ sender \in [Senders -> [at : {"idle", "read", "push"}, n : Int, ack : Int, sent : Nat]]
  /\ packets \subseteq [seq_num : Nat, n : Nat, tries : Nat]
  /\ \A k \in to_local : k \in Nat /\ k <= taken

Numbered ==
  /\ \A t \in Senders : /\ Sending(t) => sender[t].n \in 0 .. counter - 1
                        /\ sender[t].at = "push" => sender[t].n < sender[t].ack
  /\ \A p \in packets : p.n < p.seq_num /\ p.n < counter

Single ==
  /\ \A t, u \in Senders : Sending(t) /\ Sending(u) /\ sender[t].n = sender[u].n => t = u
  /\ \A t \in Senders, p \in packets : Sending(t) => p.n # sender[t].n

Unraced ==
  ~raced => /\ \A t \in Senders : sender[t].at = "push" => sender[t].ack = sender[t].n + 1
            /\ \A p \in packets : p.seq_num = p.n + 1

ControlInv == ControlTypes /\ Numbered /\ Single /\ Unraced /\ KeptUntilTaken

LEMMA ControlStart == RudpInit => ControlInv
BY DEF RudpInit, ControlInv, ControlTypes, Numbered, Single, Unraced, KeptUntilTaken, Idle, Sending

LEMMA ControlStep == ControlInv /\ [RudpNext]_rudpVars => ControlInv'
<1> SUFFICES ASSUME ControlInv, [RudpNext]_rudpVars PROVE ControlInv'
  OBVIOUS
<1> USE DEF ControlInv
<1>1. ASSUME NEW t \in Senders, TakeCounter(t) PROVE ControlInv'
  <2>1. /\ sender' = [sender EXCEPT ![t].at = "read", ![t].n = counter, ![t].sent = @ + 1]
        /\ counter' = counter + 1 /\ sender[t].at = "idle"
        /\ UNCHANGED <<packets, to_local, taken, given_up, refused, raced>>
    BY <1>1 DEF TakeCounter
  <2>2. ControlTypes'
    BY <2>1 DEF ControlTypes
  <2>3. Numbered' /\ Single' /\ Unraced'
    BY <2>1 DEF ControlTypes, Numbered, Single, Unraced, Sending
  <2>4. KeptUntilTaken'
    BY <2>1 DEF ControlTypes, KeptUntilTaken, Sending
  <2> QED
    BY <2>2, <2>3, <2>4
<1>2. ASSUME NEW t \in Senders, ReadCounter(t) PROVE ControlInv'
  <2> DEFINE s == [sender[t] EXCEPT !.at = "push", !.ack = counter]
  <2>1. /\ sender' = [sender EXCEPT ![t] = s] /\ sender[t].at = "read"
        /\ raced' = (raced \/ counter # sender[t].n + 1)
        /\ UNCHANGED <<counter, packets, to_local, taken, given_up, refused>>
    BY <1>2 DEF ReadCounter
  <2>2. /\ s \in [at : {"idle", "read", "push"}, n : Int, ack : Int, sent : Nat]
        /\ s.at = "push" /\ s.ack = counter /\ s.n = sender[t].n
    <3>1. sender[t] \in [at : {"idle", "read", "push"}, n : Int, ack : Int, sent : Nat] /\ counter \in Int
      BY DEF ControlTypes
    <3> QED
      BY <3>1
  <2> HIDE DEF s
  <2>3. /\ sender' \in [Senders -> [at : {"idle", "read", "push"}, n : Int, ack : Int, sent : Nat]]
        /\ sender'[t] = s /\ \A u \in Senders : u # t => sender'[u] = sender[u]
    BY <2>1, <2>2 DEF ControlTypes
  <2>4. ControlTypes'
    BY <2>1, <2>3 DEF ControlTypes
  <2>5. Numbered' /\ Single'
    BY <2>1, <2>2, <2>3 DEF ControlTypes, Numbered, Single, Sending
  <2>6. Unraced'
    BY <2>1, <2>2, <2>3 DEF ControlTypes, Unraced
  <2>7. KeptUntilTaken'
    BY <2>1, <2>2, <2>3 DEF ControlTypes, KeptUntilTaken
  <2> QED
    BY <2>4, <2>5, <2>6, <2>7
<1>3. ASSUME NEW t \in Senders, PushPacket(t) PROVE ControlInv'
  <2>0. /\ sender' = [sender EXCEPT ![t].at = "idle", ![t].n = -1, ![t].ack = -1] /\ sender[t].at = "push"
        /\ UNCHANGED <<counter, to_local, taken, raced>>
    BY <1>3 DEF PushPacket
  <2>1. CASE packets' = packets /\ given_up' = given_up \cup {sender[t].n} /\ refused' = refused
    BY <2>0, <2>1 DEF ControlTypes, Numbered, Single, Unraced, KeptUntilTaken, Sending
  <2>2. CASE packets' = packets /\ given_up' = given_up /\ refused' = refused \cup {sender[t].n}
             /\ \E p \in packets : p.seq_num = sender[t].ack
    <3>1. raced
      BY <2>0, <2>2 DEF ControlTypes, Single, Unraced, Sending
    <3> QED
      BY <2>0, <2>2, <3>1 DEF ControlTypes, Numbered, Single, Unraced, KeptUntilTaken, Sending
  <2>3. CASE packets' = packets \cup {Unsent(t, sender[t].ack)} /\ given_up' = given_up /\ refused' = refused
    <3>1. /\ Unsent(t, sender[t].ack) \in [seq_num : Nat, n : Nat, tries : Nat]
          /\ Unsent(t, sender[t].ack).n = sender[t].n /\ Unsent(t, sender[t].ack).seq_num = sender[t].ack
      BY <2>0 DEF ControlTypes, Numbered, Unsent, Sending
    <3>2. ControlTypes' /\ Numbered' /\ Unraced'
      BY <2>0, <2>3, <3>1 DEF ControlTypes, Numbered, Unraced, Sending
    <3>3. Single'
      BY <2>0, <2>3, <3>1 DEF ControlTypes, Single, Sending
    <3>4. KeptUntilTaken'
      BY <2>0, <2>3, <3>1 DEF ControlTypes, KeptUntilTaken, Sending
    <3> QED
      BY <3>2, <3>3, <3>4
  <2> QED
    BY <1>3, <2>1, <2>2, <2>3 DEF PushPacket
<1>4. ASSUME NEW k \in to_local, AckReceived(k) PROVE ControlInv'
  <2>1. /\ packets' = packets \ {p \in packets : p.seq_num <= k} /\ to_local' \subseteq to_local
        /\ k \in Nat /\ k <= taken
        /\ UNCHANGED <<counter, sender, taken, given_up, refused, raced>>
    BY <1>4 DEF AckReceived, AckPackets, Acknowledged, ControlTypes
  <2>2. ControlTypes' /\ Numbered' /\ Single' /\ Unraced'
    BY <2>1 DEF ControlTypes, Numbered, Single, Unraced, Sending
  <2>3. KeptUntilTaken'
    BY <2>1 DEF ControlTypes, Numbered, KeptUntilTaken
  <2> QED
    BY <2>2, <2>3
<1>5. ASSUME NEW p \in packets, Resend(p) PROVE ControlInv'
  <2>0. UNCHANGED <<counter, sender, to_local, taken, refused, raced>>
    BY <1>5 DEF Resend
  <2>1. CASE p.tries >= ResendTries
    <3>1. /\ packets' = packets \ {q \in packets : q.seq_num <= p.seq_num}
          /\ given_up' = given_up \cup {q.n : q \in {r \in packets : r.seq_num <= p.seq_num}}
      BY <1>5, <2>1 DEF Resend, AckPackets, Acknowledged
    <3>2. ControlTypes' /\ Numbered' /\ Single' /\ Unraced'
      BY <2>0, <3>1 DEF ControlTypes, Numbered, Single, Unraced, Sending
    <3>3. KeptUntilTaken'
      BY <2>0, <3>1 DEF KeptUntilTaken
    <3> QED
      BY <3>2, <3>3
  <2>2. CASE ~(p.tries >= ResendTries)
    <3> DEFINE q == [p EXCEPT !.tries = @ + 1]
    <3>1. packets' = (packets \ {p}) \cup {q} /\ given_up' = given_up
      BY <1>5, <2>2 DEF Resend
    <3>2. q \in [seq_num : Nat, n : Nat, tries : Nat] /\ q.n = p.n /\ q.seq_num = p.seq_num
      BY DEF ControlTypes
    <3> HIDE DEF q
    <3>3. ControlTypes' /\ Numbered' /\ Single' /\ Unraced'
      BY <2>0, <3>1, <3>2 DEF ControlTypes, Numbered, Single, Unraced, Sending
    <3>4. KeptUntilTaken'
      BY <2>0, <3>1, <3>2 DEF KeptUntilTaken
    <3> QED
      BY <3>3, <3>4
  <2> QED
    BY <2>1, <2>2
<1>6. ASSUME NEW n \in to_remote, RemoteTakes(n) PROVE ControlInv'
  <2>1. /\ taken' \in {taken, taken + 1} /\ to_local' \subseteq to_local \cup {taken'}
        /\ UNCHANGED <<counter, sender, packets, given_up, refused, raced>>
    BY <1>6 DEF RemoteTakes
  <2> QED
    BY <2>1 DEF ControlTypes, Numbered, Single, Unraced, KeptUntilTaken, Sending
<1>7. CASE UNCHANGED control
  BY <1>7 DEF control, ControlTypes, Numbered, Single, Unraced, KeptUntilTaken, Sending
<1>8. CASE SendRequest \/ RudpTimeout \/ OpenCtrl \/ (\E x \in DOMAIN Exchanges : Receive(x)) \/ UNCHANGED rudpVars
  BY <1>7, <1>8 DEF SendRequest, RudpTimeout, OpenCtrl, Receive, rudpVars
<1> QED
  BY <1>1, <1>2, <1>3, <1>4, <1>5, <1>6, <1>8 DEF RudpNext, RudpSending, ResendThread

(* An answer over RUDP is that to its request, unless one of its type was  *)
(* repeated before; and a control message is kept until it was taken,      *)
(* given up or refused in a race, whichever packets are lost or overtake   *)
(* each other, for any exchanges, tries and sizes of the buffer.           *)
THEOREM RudpDeliversHolds == RudpSpec => []RudpDelivers
<1>1. ExchangeInv /\ ControlInv => RudpDelivers
  BY DEF ExchangeInv, ControlInv, RudpDelivers
<1> QED
  BY ExchangeStart, ExchangeStep, ControlStart, ControlStep, <1>1, PTL DEF RudpSpec
=============================================================================
