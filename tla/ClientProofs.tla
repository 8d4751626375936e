---------------------------- MODULE ClientProofs ----------------------------
(***************************************************************************)
(* What the client does before and around a stream (the components of      *)
(* MCClient).  The stream connection: run sleeps through nothing, tears    *)
(* down in order and implements StreamRun, whichever of its steps fail.    *)
(* Registration, discovery, Senkusha and the desktop client's sessions:    *)
(* what they report or use is so, in any order of calls, answers and       *)
(* signals.  Input: what is sent follows what is pressed and touched, and  *)
(* what the client is told of touchpads follows what is plugged in and     *)
(* touched.                                                                *)
(***************************************************************************)
EXTENDS StreamConnection, DiscoveryManager, Regist, Senkusha, Backend, Input, Setsu,
        SeqNumProofs, FiniteSetTheorems, SequenceTheorems, TLAPS

-----------------------------------------------------------------------------
(* Where run is: its waits, the state it waits in, and what it has set up. *)
Waiting == pc \in Waits <=> wait # "no"

StateOfWait == /\ pc = "wait_connect" => state = "TAKION_CONNECT"
               /\ pc = "wait_bang" => state = "EXPECT_BANG"
               /\ pc = "wait_streaminfo" => state = "EXPECT_STREAMINFO"
               /\ pc \in {"connected", "wait_loop"} => state = "IDLE" /\ ~state_finished

(* The keys are there after BANG, STREAMINFO was handled when its wait     *)
(* finds it finished, and feedback is sent while run is connected.         *)
SetUp == /\ pc = "wait_bang" /\ state_finished => crypt
         /\ pc \in {"wait_streaminfo", "connected", "wait_loop"} => crypt
         /\ pc = "wait_streaminfo" /\ state_finished => info
         /\ pc \in {"connected", "wait_loop"} => info
         /\ feedback => pc \in {"connected", "wait_loop"}

(* The threads: Takion is there between its connecting and its joining,    *)
(* and congestion control goes before it, or a stop was seen early.        *)
Alive == /\ pc = "start" => takion = "none" /\ ~congestion
         /\ pc \in {"free", "returned", "finished"} => takion \in {"none", "joined"}
         /\ takion \in {"connecting", "running", "ended"} => receivers
         /\ pc \in {"close", "join"} /\ congestion => early
         /\ takion = "joined" => pc \in {"free", "returned", "finished"}
         /\ takion = "joined" /\ congestion => early

RunInv == Waiting /\ StateOfWait /\ SetUp /\ Alive /\ NoOversleep

LEMMA RunInit == Init => RunInv
BY DEF Init, RunInv, Waiting, StateOfWait, SetUp, Alive, NoOversleep, Finished, Waits

LEMMA RunNext == RunInv /\ [Next]_vars => RunInv'
<1> SUFFICES ASSUME RunInv, [Next]_vars PROVE RunInv'
  OBVIOUS
<1> USE DEF RunInv, Waiting, StateOfWait, SetUp, Alive, NoOversleep, Finished, Waits,
            flags, threads, wire, history
<1>1. CASE Run
  <2> USE DEF Enter, Leave, Resume
  <2>1. CASE Connect
    BY <2>1 DEF Connect
  <2>2. CASE ConnectNoReceivers
    BY <2>2 DEF ConnectNoReceivers
  <2>3. CASE ConnectNoTakion
    BY <2>3 DEF ConnectNoTakion
  <2>4. CASE ConnectNoCongestion
    BY <2>4 DEF ConnectNoCongestion
  <2>5. CASE TakionConnected
    BY <2>5 DEF TakionConnected
  <2>6. CASE BangReceived
    BY <2>6 DEF BangReceived
  <2>7. CASE StreaminfoReceived
    BY <2>7 DEF StreaminfoReceived
  <2>8. CASE SendConnected
    BY <2>8 DEF SendConnected
  <2>9. CASE Heartbeat
    BY <2>9 DEF Heartbeat
  <2>10. CASE LoopEnds
    BY <2>10 DEF LoopEnds
  <2>11. CASE Disconnect
    BY <2>11 DEF Disconnect
  <2>12. CASE StopCongestion
    BY <2>12 DEF StopCongestion
  <2>13. CASE Close
    BY <2>13 DEF Close
  <2>14. CASE Join
    BY <2>14 DEF Join
  <2>15. CASE Free
    BY <2>15 DEF Free
  <2> QED
    BY <1>1, <2>1, <2>2, <2>3, <2>4, <2>5, <2>6, <2>7, <2>8, <2>9, <2>10, <2>11, <2>12, <2>13,
       <2>14, <2>15 DEF Run
<1>2. CASE Sleep
  BY <1>2 DEF Sleep
<1>3. CASE Expire
  BY <1>3 DEF Expire
<1>4. CASE Spurious
  BY <1>4 DEF Spurious
<1>5. CASE Fini
  BY <1>5 DEF Fini
<1>6. CASE TakionConnect
  BY <1>6 DEF TakionConnect, TakionEvent, Signal
<1>7. CASE TakionEnd
  BY <1>7 DEF TakionEnd, TakionEvent, Signal
<1>8. CASE DataBang
  BY <1>8 DEF DataBang, Delivers, Signal
<1>9. CASE DataStreaminfo
  BY <1>9 DEF DataStreaminfo, Delivers, Signal
<1>10. CASE DataDisconnect
  BY <1>10 DEF DataDisconnect, Delivers, Signal
<1>11. CASE Console
  BY <1>11 DEF Console, ConsoleSends
<1>12. CASE StopCall
  BY <1>12 DEF StopCall
<1>13. CASE StopSet
  BY <1>13 DEF StopSet
<1>14. CASE StopSignal
  BY <1>14 DEF StopSignal, Signal
<1>15. CASE UNCHANGED vars
  BY <1>15 DEF vars
<1> QED
  BY <1>1, <1>2, <1>3, <1>4, <1>5, <1>6, <1>7, <1>8, <1>9, <1>10, <1>11, <1>12, <1>13, <1>14, <1>15
  DEF Next, Data, User

(* run does not sleep through the end of a wait, its threads end in order, *)
(* and CONNECTED is reported with the keys and STREAMINFO at hand, for     *)
(* every combination of its steps that fail.                               *)
THEOREM RunInOrderHolds == Spec => []RunInOrder
<1>1. RunInv => RunInOrder
  BY DEF RunInv, RunInOrder, Alive, SetUp, TornDownInOrder, ConnectedIsReady
<1> QED
  BY RunInit, RunNext, <1>1, PTL DEF Spec

-----------------------------------------------------------------------------
(* What run returns: from its label disconnect on, err is a failure unless *)
(* there is a stop or a disconnect for it.                                 *)
Told(e) == \/ e \in {"UNKNOWN", "NETWORK", "THREAD", "TIMEOUT"}
           \/ should_stop /\ e \in {"CANCELED", "SUCCESS"}
           \/ remote_disconnected /\ e = "DISCONNECTED"

ErrTold == /\ pc = "disconnect" => Told(err) \/ (err = "SUCCESS" /\ remote_disconnected)
           /\ pc \in {"stop_congestion", "close", "join", "free"} => Told(err)
           /\ takion = "running" => pc \notin {"start", "returned", "finished"}
           /\ pc \in {"start", "returned", "finished"} => takion # "connecting"

LEMMA ErrInit == Init => ErrTold
BY DEF Init, ErrTold

LEMMA ErrNext == RunInv /\ ErrTold /\ [Next]_vars => ErrTold'
<1> SUFFICES ASSUME RunInv, ErrTold, [Next]_vars PROVE ErrTold'
  OBVIOUS
<1> USE DEF ErrTold, Told, flags, threads, wire, history
<1>1. CASE Run
  <2> USE DEF Enter, Leave, Resume, Finished, RunInv, StateOfWait, Alive, Waits
  <2>1. CASE Connect
    BY <2>1 DEF Connect
  <2>2. CASE ConnectNoReceivers
    BY <2>2 DEF ConnectNoReceivers
  <2>3. CASE ConnectNoTakion
    BY <2>3 DEF ConnectNoTakion
  <2>4. CASE ConnectNoCongestion
    BY <2>4 DEF ConnectNoCongestion
  <2>5. CASE TakionConnected
    BY <2>5 DEF TakionConnected
  <2>6. CASE BangReceived
    BY <2>6 DEF BangReceived
  <2>7. CASE StreaminfoReceived
    BY <2>7 DEF StreaminfoReceived
  <2>8. CASE SendConnected
    BY <2>8 DEF SendConnected
  <2>9. CASE Heartbeat
    BY <2>9 DEF Heartbeat
  <2>10. CASE LoopEnds
    BY <2>10 DEF LoopEnds
  <2>11. CASE Disconnect
    BY <2>11 DEF Disconnect
  <2>12. CASE StopCongestion
    BY <2>12 DEF StopCongestion
  <2>13. CASE Close
    BY <2>13 DEF Close
  <2>14. CASE Join
    BY <2>14 DEF Join
  <2>15. CASE Free
    BY <2>15 DEF Free
  <2> QED
    BY <1>1, <2>1, <2>2, <2>3, <2>4, <2>5, <2>6, <2>7, <2>8, <2>9, <2>10, <2>11, <2>12, <2>13,
       <2>14, <2>15 DEF Run
<1>2. CASE Sleep \/ Expire \/ Spurious \/ Fini
  BY <1>2 DEF Sleep, Expire, Spurious, Fini
<1>3. CASE TakionConnect \/ TakionEnd
  BY <1>3 DEF TakionConnect, TakionEnd, TakionEvent
<1>4. CASE Data
  BY <1>4 DEF Data, DataBang, DataStreaminfo, DataDisconnect, Delivers
<1>5. CASE Console \/ User
  BY <1>5 DEF Console, ConsoleSends, User, StopCall, StopSet, StopSignal
<1>6. CASE UNCHANGED vars
  BY <1>6 DEF vars
<1> QED
  BY <1>1, <1>2, <1>3, <1>4, <1>5, <1>6 DEF Next

(* The steps of run, seen as those of StreamRun.                           *)
LEMMA AbstractInit == Init => Abstract!Init
BY DEF Init, Abstract!Init, Returned

LEMMA AbstractStutter ==
  ASSUME Returned' <=> Returned, pc' = "start" <=> pc = "start", Returned => err' = err,
         UNCHANGED <<should_stop, remote_disconnected>>
  PROVE  UNCHANGED Abstract!vars
<1>1. CASE Returned
  <2>1. Returned'
    BY <1>1
  <2> QED
    BY <1>1, <2>1 DEF Abstract!vars
<1>2. CASE ~Returned
  <2>1. ~Returned'
    BY <1>2
  <2> QED
    BY <1>2, <2>1 DEF Abstract!vars
<1> QED
  BY <1>1, <1>2

LEMMA AbstractNext == RunInv /\ ErrTold /\ [Next]_vars => [Abstract!Next]_(Abstract!vars)
<1> SUFFICES ASSUME RunInv, ErrTold, [Next]_vars PROVE [Abstract!Next]_(Abstract!vars)
  OBVIOUS
<1> USE DEF flags, threads, wire, history
<1>1. CASE Connect \/ ConnectNoTakion \/ ConnectNoCongestion
  <2>1. Abstract!Start
    BY <1>1 DEF Connect, ConnectNoTakion, ConnectNoCongestion, Enter, Returned, Abstract!Start
  <2> QED
    BY <2>1 DEF Abstract!Next
<1>2. CASE ConnectNoReceivers
  <2>1. Abstract!Return
    BY <1>2 DEF ConnectNoReceivers, Leave, Returned, Abstract!Return, Abstract!Failed
  <2> QED
    BY <2>1 DEF Abstract!Next
<1>3. CASE Free
  <2>1. Abstract!Return
    BY <1>3 DEF Free, Returned, Abstract!Return, Abstract!Failed, ErrTold, Told
  <2> QED
    BY <2>1 DEF Abstract!Next
<1>4. CASE TakionConnected \/ BangReceived \/ StreaminfoReceived \/ SendConnected \/ Heartbeat \/ LoopEnds
  <2>1. ~Returned /\ pc # "start" /\ ~Returned' /\ pc' # "start" /\ UNCHANGED <<should_stop, remote_disconnected>>
    BY <1>4 DEF TakionConnected, BangReceived, StreaminfoReceived, SendConnected, Heartbeat, LoopEnds,
                Enter, Leave, Returned
  <2> QED
    BY <2>1, AbstractStutter
<1>5. CASE Disconnect \/ StopCongestion \/ Close \/ Join
  <2>1. ~Returned /\ pc # "start" /\ ~Returned' /\ pc' # "start" /\ UNCHANGED <<should_stop, remote_disconnected>>
    BY <1>5 DEF Disconnect, StopCongestion, Close, Join, Returned
  <2> QED
    BY <2>1, AbstractStutter
<1>6. CASE Fini
  <2>1. Returned /\ Returned' /\ pc # "start" /\ pc' # "start" /\ UNCHANGED <<err, should_stop, remote_disconnected>>
    BY <1>6 DEF Fini, Returned
  <2> QED
    BY <2>1, AbstractStutter
<1>7. CASE DataDisconnect
  <2>1. Abstract!Remote
    BY <1>7 DEF DataDisconnect, Delivers, Returned, Abstract!Remote, ErrTold
  <2> QED
    BY <2>1 DEF Abstract!Next
<1>8. CASE StopSet
  <2>1. Abstract!Stop
    BY <1>8 DEF StopSet, Returned, Abstract!Stop
  <2> QED
    BY <2>1 DEF Abstract!Next
<1>9. ASSUME \/ Sleep \/ Expire \/ Spurious \/ TakionConnect \/ TakionEnd \/ DataBang \/ DataStreaminfo
             \/ Console \/ StopCall \/ StopSignal \/ UNCHANGED vars
      PROVE  [Abstract!Next]_(Abstract!vars)
  <2>1. UNCHANGED <<pc, err, should_stop, remote_disconnected>>
    BY <1>9 DEF Sleep, Expire, Spurious, TakionConnect, TakionEnd, TakionEvent, DataBang, DataStreaminfo,
                Delivers, Console, ConsoleSends, StopCall, StopSignal, vars
  <2> QED
    BY <2>1, AbstractStutter DEF Returned
<1> QED
  BY <1>1, <1>2, <1>3, <1>4, <1>5, <1>6, <1>7, <1>8, <1>9 DEF Next, Run, Data, User

(* As far as safety goes run implements StreamRun: it returns once, and    *)
(* CANCELED or success only after a stop, DISCONNECTED only after the      *)
(* console has ended the stream.                                           *)
THEOREM RunImplements == Spec => Abstract!Init /\ [][Abstract!Next]_(Abstract!vars)
<1>1. Init => RunInv /\ ErrTold
  BY RunInit, ErrInit
<1>2. RunInv /\ ErrTold /\ [Next]_vars => RunInv' /\ ErrTold'
  BY RunNext, ErrNext
<1> QED
  BY <1>1, <1>2, AbstractInit, AbstractNext, PTL DEF Spec

-----------------------------------------------------------------------------
(* Registration: what the thread knows about the answer, and about a stop  *)
(* that came in time, where it is.                                         *)
RegistStep ==
  /\ gpc \in {"rudp_init", "rudp_cookie", "finish"} => psn
  /\ gpc \in {"content", "parse", "success"} => response.code = 200
  /\ gpc \in {"parse", "success"} => response.whole
  /\ gpc = "success" => response.keys = Keys

StopHeeded ==
  /\ in_time => stopped
  /\ gpc \in {"status", "parse", "success"} /\ in_time => psn
  /\ event = <<"success">> /\ in_time => psn

Reported ==
  /\ gpc # "ended" => event = << >>
  /\ event = <<"success">> => response.code = 200 /\ response.whole /\ response.keys = Keys

RegistInv ==
  /\ response \in [code : {0, 200, 403}, whole : BOOLEAN, keys : SUBSET Keys]
  /\ RegistStep /\ StopHeeded /\ Reported

LEMMA RegistInvInit == RegistInit => RegistInv
<1> SUFFICES ASSUME RegistInit PROVE RegistInv
  OBVIOUS
<1>1. response \in [code : {0, 200, 403}, whole : BOOLEAN, keys : SUBSET Keys]
  BY DEF RegistInit, NoResponse
<1>2. RegistStep /\ StopHeeded /\ Reported
  BY DEF RegistInit, RegistStep, StopHeeded, Reported
<1> QED
  BY <1>1, <1>2, Zenon DEF RegistInv

LEMMA ResponseWhole ==
  ASSUME response \in [code : {0, 200, 403}, whole : BOOLEAN, keys : SUBSET Keys],
         response' = [response EXCEPT !.whole = TRUE]
  PROVE  response' \in [code : {0, 200, 403}, whole : BOOLEAN, keys : SUBSET Keys]
OBVIOUS

LEMMA RegistInvNext == RegistInv /\ [RegistNext]_registVars => RegistInv'
<1> SUFFICES ASSUME RegistInv, [RegistNext]_registVars PROVE RegistInv'
  OBVIOUS
<1> USE DEF RegistStep, StopHeeded, Reported
<1>1. RegistStep /\ StopHeeded /\ Reported
  BY Zenon DEF RegistInv
<1>2. response \in [code : {0, 200, 403}, whole : BOOLEAN, keys : SUBSET Keys]
  BY Zenon DEF RegistInv
<1>3. CASE RegistHeader \/ RegistContent
  <2> DEFINE Responses == [code : {0, 200, 403}, whole : BOOLEAN, keys : SUBSET Keys]
             Got(c, w, k) == /\ response' = [code |-> c, whole |-> w, keys |-> k]
                             /\ gpc' = IF psn THEN "finish" ELSE "status"
                             /\ UNCHANGED <<psn, stopped, stray, event, in_time>>
  <2>1. RegistHeader => \/ \E c \in {200, 403} : \E w \in BOOLEAN : \E k \in SUBSET Keys : Got(c, w, k)
                        \/ response' = response
    BY Zenon DEF RegistHeader, Select, RegistGoes
  <2>2. RegistContent => response' = [response EXCEPT !.whole = TRUE] \/ response' = response
    BY Zenon DEF RegistContent, Select, RegistGoes
  <2>3. ASSUME NEW c \in {200, 403}, NEW w \in BOOLEAN, NEW k \in SUBSET Keys, Got(c, w, k)
        PROVE  response' \in Responses
    BY <2>3
  <2>4. RegistHeader => response' \in Responses
    <3> HIDE DEF Got, Responses
    <3>1. response \in Responses
      BY <1>2 DEF Responses
    <3>2. (\E c \in {200, 403} : \E w \in BOOLEAN : \E k \in SUBSET Keys : Got(c, w, k)) => response' \in Responses
      BY <2>3
    <3> QED
      BY <3>1, <3>2, <2>1, Zenon
  <2>5. RegistContent => response' \in Responses
    BY <1>2, <2>2, ResponseWhole, Zenon
  <2>6. RegistStep' /\ StopHeeded' /\ Reported'
    BY <1>1, <1>2, <1>3 DEF RegistHeader, RegistContent, Select, RegistGoes
  <2> QED
    BY <1>3, <2>4, <2>5, <2>6, Zenon DEF RegistInv
<1>4. ASSUME response' = response, RegistStep', StopHeeded', Reported' PROVE RegistInv'
  BY <1>2, <1>4, Zenon DEF RegistInv
<1>5. CASE RegistStart
  BY <1>1, <1>4, <1>5 DEF RegistStart
<1>6. CASE RegistFormat \/ RegistRudp \/ RegistResolve
  BY <1>1, <1>4, <1>6 DEF RegistFormat, RegistRudp, RegistResolve, RegistGoes
<1>7. CASE RegistSearch \/ RegistSleep \/ RegistConnect
  BY <1>1, <1>4, <1>7 DEF RegistSearch, RegistSleep, RegistConnect, Select, RegistGoes
<1>8. CASE RegistFinish \/ RegistStatus \/ RegistParse
  BY <1>1, <1>4, <1>8 DEF RegistFinish, RegistStatus, RegistParse, RegistGoes
<1>9. CASE RegistReport
  BY <1>1, <1>4, <1>9 DEF RegistReport
<1>10. CASE RegistStop
  <2>1. in_time' => gpc \in {"format", "resolve", "search", "sleep", "connect", "header", "content"}
    BY <1>10, Zenon DEF RegistStop
  <2>2. stopped' /\ UNCHANGED <<gpc, psn, response, event>>
    BY <1>10, Zenon DEF RegistStop
  <2>3. RegistStep' /\ Reported'
    BY <1>1, <2>2, Zenon
  <2>4. StopHeeded'
    BY <1>1, <2>1, <2>2, SMTT(30)
  <2> QED
    BY <1>4, <2>2, <2>3, <2>4, Zenon
<1>11. CASE UNCHANGED registVars
  BY <1>1, <1>4, <1>11 DEF registVars
<1> QED
  BY <1>3, <1>5, <1>6, <1>7, <1>8, <1>9, <1>10, <1>11 DEF RegistNext, RegistThread

(* The registration reports success only for a complete, accepted answer   *)
(* with all keys, and not after a stop before that answer outside of RUDP. *)
THEOREM SuccessIsDeservedHolds == RegistSpec => []SuccessIsDeserved
<1>1. RegistInv => SuccessIsDeserved
  <2> SUFFICES ASSUME RegistInv, event = <<"success">>
               PROVE  response = [code |-> 200, whole |-> TRUE, keys |-> Keys] /\ (in_time => psn)
    BY Zenon DEF SuccessIsDeserved
  <2>1. response \in [code : {0, 200, 403}, whole : BOOLEAN, keys : SUBSET Keys]
    BY Zenon DEF RegistInv
  <2>2. response.code = 200 /\ response.whole /\ response.keys = Keys
    BY Zenon DEF RegistInv, Reported
  <2>4. in_time => psn
    BY Zenon DEF RegistInv, StopHeeded
  <2> QED
    BY <2>1, <2>2, <2>4
<1> QED
  BY RegistInvInit, RegistInvNext, <1>1, PTL DEF RegistSpec

-----------------------------------------------------------------------------
(* Discovery: what a service told its callback is in its list, whether it  *)
(* runs or not; a service that does not run has an empty list.             *)
ListsTold == /\ running \subseteq Services
             /\ lists = [s \in Services |-> lists[s]] /\ told = [s \in Services |-> told[s]]
             /\ \A s \in Services : told[s] = States(lists[s])

LEMMA NoStates == States(NoHosts) = NoHosts
BY DEF States, NoHosts

LEMMA ListsToldInit == DiscoveryInit => ListsTold
BY NoStates DEF DiscoveryInit, ListsTold

LEMMA UpdatesTold == ASSUME ListsTold, NEW s \in Services, NEW list, Updates(s, list) PROVE ListsTold'
<1>1. /\ lists' = [lists EXCEPT ![s] = list] /\ running' = running
      /\ \/ Change(lists[s], list) /\ told' = [told EXCEPT ![s] = States(list)]
         \/ ~Change(lists[s], list) /\ told' = told
  BY DEF Updates, Callback
<1>2. States(list) = told'[s]
  BY <1>1 DEF Change, ListsTold
<1> QED
  BY <1>1, <1>2 DEF ListsTold

LEMMA ListsToldNext == ListsTold /\ [DiscoveryNext]_discoveryVars => ListsTold'
<1> SUFFICES ASSUME ListsTold, [DiscoveryNext]_discoveryVars PROVE ListsTold'
  OBVIOUS
<1>1. ASSUME NEW s \in Services, ServicePing(s) PROVE ListsTold'
  BY <1>1, UpdatesTold DEF ServicePing
<1>2. ASSUME NEW s \in Services, NEW c \in Consoles, ServiceReceives(s, c) PROVE ListsTold'
  BY <1>2, UpdatesTold DEF ServiceReceives
<1>3. ASSUME NEW gone, Stops(gone) PROVE ListsTold'
  BY <1>3, NoStates DEF Stops, ListsTold
<1>4. CASE Activate
  <2>1. running' \subseteq Services /\ lists' = lists /\ told' = told
    BY <1>4 DEF Activate, ListsTold, Services, Automatic
  <2> QED
    BY <2>1 DEF ListsTold
<1>5. CASE Deactivate
  BY <1>3, <1>5 DEF Deactivate
<1>6. CASE SettingsChange
  BY <1>3, <1>6 DEF SettingsChange, ListsTold, Services, Automatic
<1>7. CASE HandleEvent
  BY <1>7 DEF HandleEvent, ListsTold
<1>8. ASSUME NEW c \in Consoles, Wakeup(c) \/ PowerChanges(c) PROVE ListsTold'
  BY <1>8 DEF Wakeup, PowerChanges, ListsTold
<1>9. CASE UNCHANGED discoveryVars
  BY <1>9 DEF discoveryVars, ListsTold
<1> QED
  BY <1>1, <1>2, <1>4, <1>5, <1>6, <1>7, <1>8, <1>9 DEF DiscoveryNext

(* A discovery service's callback knows its list, over every order of      *)
(* pings, answers, starts and stops, for any number of consoles.           *)
THEOREM ToldIsKnownHolds == DiscoverySpec => []ToldIsKnown
<1>1. ListsTold => ToldIsKnown
  BY DEF ListsTold, ToldIsKnown
<1> QED
  BY ListsToldInit, ListsToldNext, <1>1, PTL DEF DiscoverySpec

(* A list of hosts: no more than hosts_max of them, each with the pings    *)
(* since its last answer, no more than host_drop_pings.                    *)
IsHostList(list) ==
  /\ DOMAIN list \subseteq Consoles /\ IsFiniteSet(DOMAIN list) /\ Cardinality(DOMAIN list) <= HostsMax
  /\ \A c \in DOMAIN list : list[c].age \in 0 .. DropPings

LEMMA NoHostsBounded == IsHostList(NoHosts)
BY FS_EmptySet, DiscoveryAssumption DEF IsHostList, NoHosts

(* discovery_service_drop_old_hosts only takes hosts from the list, and    *)
(* those it keeps are not too old.                                         *)
LEMMA DropBounded == ASSUME NEW list, IsHostList(list) PROVE IsHostList(DropOldHosts(list))
<1> DEFINE new == DropOldHosts(list)
<1>1. DOMAIN new \subseteq DOMAIN list
  BY DEF DropOldHosts
<1>2. IsFiniteSet(DOMAIN new) /\ Cardinality(DOMAIN new) <= Cardinality(DOMAIN list)
  BY <1>1, FS_Subset DEF IsHostList
<1>3. Cardinality(DOMAIN new) \in Nat /\ Cardinality(DOMAIN list) \in Nat
  BY <1>2, FS_CardinalityType DEF IsHostList
<1>4. ASSUME NEW c \in DOMAIN new PROVE new[c].age \in 0 .. DropPings
  <2>1. c \in DOMAIN list /\ list[c].age + 1 <= DropPings /\ new[c] = [list[c] EXCEPT !.age = @ + 1]
    BY DEF DropOldHosts
  <2>2. new[c].age = list[c].age + 1
    BY <2>1
  <2> QED BY <2>1, <2>2, DiscoveryAssumption DEF IsHostList
<1> QED BY <1>1, <1>2, <1>3, <1>4, DiscoveryAssumption DEF IsHostList

(* discovery_service_host_received adds a host only if there is a place.   *)
LEMMA ReceivedBounded ==
  ASSUME NEW list, IsHostList(list), NEW c \in Consoles, NEW answer
  PROVE  IsHostList(HostReceived(list, c, answer))
<1> DEFINE new == HostReceived(list, c, answer)
           D == DOMAIN list
<1>1. CASE c \notin D /\ Cardinality(D) = HostsMax
  BY <1>1 DEF HostReceived
<1>2. CASE ~(c \notin D /\ Cardinality(D) = HostsMax)
  <2>1. new = [d \in D \cup {c} |-> IF d = c THEN [state |-> answer, age |-> 0] ELSE list[d]]
    BY <1>2 DEF HostReceived
  <2>2. IsFiniteSet(D) /\ Cardinality(D) \in Nat /\ Cardinality(D) <= HostsMax
    BY FS_CardinalityType DEF IsHostList
  <2>3. IsFiniteSet(D \cup {c}) /\ Cardinality(D \cup {c}) <= HostsMax
    <3>1. CASE c \in D
      <4>1. D \cup {c} = D
        BY <3>1
      <4> QED BY <4>1, <2>2
    <3>2. CASE c \notin D
      <4>1. IsFiniteSet(D \cup {c}) /\ Cardinality(D \cup {c}) = Cardinality(D) + 1
        BY <3>2, <2>2, FS_AddElement
      <4>2. Cardinality(D) < HostsMax
        BY <3>2, <1>2, <2>2, DiscoveryAssumption
      <4> QED BY <4>1, <4>2, <2>2, DiscoveryAssumption
    <3> QED BY <3>1, <3>2
  <2>4. ASSUME NEW d \in D \cup {c} PROVE new[d].age \in 0 .. DropPings
    <3>1. CASE d = c
      BY <2>1, <3>1, DiscoveryAssumption
    <3>2. CASE d # c
      BY <2>1, <3>2 DEF IsHostList
    <3> QED BY <3>1, <3>2
  <2>5. DOMAIN new = D \cup {c} /\ D \subseteq Consoles
    BY <2>1 DEF IsHostList
  <2> HIDE DEF new, D
  <2> QED BY <2>3, <2>4, <2>5 DEF IsHostList, new
<1> QED BY <1>1, <1>2

ListsBounded ==
  /\ ListsTold /\ \A s \in Services : IsHostList(lists[s])
  /\ events = [i \in 1 .. Len(events) |-> events[i]] /\ Len(events) \in 0 .. MaxEvents

LEMMA UpdatesBounded ==
  ASSUME ListsBounded, NEW s \in Services, NEW list, IsHostList(list), Updates(s, list), Len(events) < MaxEvents
  PROVE  (\A t \in Services : IsHostList(lists'[t])) /\ events' = [i \in 1 .. Len(events') |-> events'[i]] /\ Len(events') \in 0 .. MaxEvents
<1>1. lists' = [lists EXCEPT ![s] = list]
  BY DEF Updates
<1>2. \A t \in Services : IsHostList(lists'[t])
  BY <1>1 DEF ListsBounded, ListsTold
<1>3. events' = events \/ events' = Append(events, [list |-> States(list), old |-> FALSE])
  BY DEF Updates, Callback
<1>4. events' = [i \in 1 .. Len(events') |-> events'[i]] /\ Len(events') \in 0 .. MaxEvents
  BY <1>3, ManagerAssumption DEF ListsBounded
<1> QED BY <1>2, <1>4

LEMMA ListsBoundedNext == ListsBounded /\ [DiscoveryNext]_discoveryVars => ListsBounded'
<1> SUFFICES ASSUME ListsBounded, [DiscoveryNext]_discoveryVars PROVE ListsBounded'
  OBVIOUS
<1> DEFINE Hosts == \A s \in Services : IsHostList(lists[s])
           Queue == events = [i \in 1 .. Len(events) |-> events[i]] /\ Len(events) \in 0 .. MaxEvents
<1>0. ListsTold' /\ ListsTold /\ Hosts /\ Queue
  BY ListsToldNext DEF ListsBounded
<1>1. ASSUME NEW s \in Services, ServicePing(s) PROVE Hosts' /\ Queue'
  BY <1>1, <1>0, DropBounded, UpdatesBounded DEF ServicePing
<1>2. ASSUME NEW s \in Services, NEW c \in Consoles, ServiceReceives(s, c) PROVE Hosts' /\ Queue'
  BY <1>2, <1>0, ReceivedBounded, UpdatesBounded DEF ServiceReceives
<1>3. ASSUME NEW gone, Stops(gone) PROVE Hosts'
  BY <1>3, <1>0, NoHostsBounded DEF Stops
<1>4. ASSUME Activate \/ UNCHANGED discoveryVars PROVE Hosts' /\ Queue'
  BY <1>4, <1>0 DEF Activate, discoveryVars
<1>5. ASSUME Deactivate PROVE Hosts' /\ Queue'
  <2>1. Queue'
    BY <1>5, <1>0 DEF Deactivate
  <2> QED BY <2>1, <1>3, <1>5 DEF Deactivate
<1>6. ASSUME SettingsChange PROVE Hosts' /\ Queue'
  <2>1. Queue' /\ (lists' = lists \/ Stops({"manual"}))
    BY <1>6, <1>0 DEF SettingsChange
  <2> QED BY <2>1, <1>3, <1>0
<1>7. ASSUME HandleEvent PROVE Hosts' /\ Queue'
  <2> DEFINE E == {events[i] : i \in 1 .. Len(events)}
             n == Len(events)
  <2>1. n \in 0 .. MaxEvents /\ n \in Nat
    BY <1>0, ManagerAssumption
  <2>2. events \in [1 .. n -> E]
    BY <1>0
  <2>3. events \in Seq(E)
    BY <2>1, <2>2, SeqDef
  <2>4. events # <<>> /\ events' = Tail(events) /\ lists' = lists
    BY <1>7 DEF HandleEvent
  <2>5. Tail(events) \in Seq(E) /\ Len(Tail(events)) = n - 1
    BY <2>3, <2>4, HeadTailProperties
  <2>6. Queue'
    <3> HIDE DEF E, n
    <3>1. Len(events') = n - 1 /\ events' \in Seq(E)
      BY <2>4, <2>5
    <3>2. events' = [i \in 1 .. Len(events') |-> events'[i]]
      BY <3>1
    <3>3. Len(events') \in 0 .. MaxEvents
      BY <3>1, <2>1, <2>5, LenProperties, ManagerAssumption
    <3> QED BY <3>2, <3>3
  <2> QED BY <2>4, <2>6, <1>0
<1>8. ASSUME NEW c \in Consoles, Wakeup(c) \/ PowerChanges(c) PROVE Hosts' /\ Queue'
  BY <1>8, <1>0 DEF Wakeup, PowerChanges
<1>9. Hosts' /\ Queue'
  <2> HIDE DEF Hosts, Queue
  <2> QED BY <1>1, <1>2, <1>4, <1>5, <1>6, <1>7, <1>8 DEF DiscoveryNext
<1> QED BY <1>9, <1>0 DEF ListsBounded

(* A service keeps no more hosts than it has room for, none that has not   *)
(* answered for more than host_drop_pings pings, whatever answers arrive   *)
(* in whatever order.                                                      *)
THEOREM DiscoveryTypeCorrect == DiscoverySpec => []DiscoveryTypeOK
<1>1. DiscoveryInit => ListsBounded
  BY ListsToldInit, NoHostsBounded, ManagerAssumption DEF DiscoveryInit, ListsBounded
<1>2. ListsBounded => DiscoveryTypeOK
  BY DEF ListsBounded, ListsTold, IsHostList, DiscoveryTypeOK
<1> QED
  BY <1>1, <1>2, ListsBoundedNext, PTL DEF DiscoverySpec

-----------------------------------------------------------------------------
(* Senkusha: a search keeps what is tried between its bounds, and only     *)
(* before its first answer, or at its end, tries the upper bound itself.   *)
Sizes ==
  /\ path.in \in Nat /\ MinSize <= path.in /\ path.in <= MaxSize
  /\ path.out \in Nat /\ MinSize <= path.out /\ path.out <= MaxSize
  /\ lo \in Nat /\ hi \in Nat /\ cur \in Nat /\ mtu_in \in Nat /\ mtu_out \in Nat

Search ==
  /\ MinSize <= lo /\ lo <= cur /\ cur <= hi /\ hi <= MaxSize
  /\ cur = hi => lo = hi \/ (lo = MinSize /\ hi = MaxSize)

(* Inwards, and outwards: the lower bound passes, and unless an answer was *)
(* lost the upper bound does not, or is the largest size of all, which     *)
(* outwards is tried only when it has passed inwards.                      *)
Inwards ==
  spc = "mtu_in" =>
    /\ Search /\ lo <= path.in
    /\ ~disturbed => path.in < hi \/ (hi = MaxSize /\ cur = MaxSize)

Outwards ==
  spc = "mtu_out" =>
    /\ Search /\ lo <= path.out
    /\ ~disturbed => /\ path.out < hi \/ (hi = MaxSize /\ (mtu_in = MaxSize => cur = MaxSize))
                     /\ mtu_in < MaxSize => cur < hi

InFound ==
  spc \in {"client_mtu", "mtu_out", "client_mtu_end", "disconnect", "done"} =>
    /\ MinSize <= mtu_in /\ mtu_in <= path.in
    /\ ~disturbed => mtu_in = path.in

OutFound ==
  spc \in {"client_mtu_end", "disconnect", "done"} =>
    /\ MinSize <= mtu_out /\ mtu_out <= path.out
    /\ ~disturbed => mtu_out = IF mtu_in < MaxSize /\ path.out = MaxSize THEN MaxSize - 1 ELSE path.out

(* An answer that is taken is one to the size tried.                       *)
Answered ==
  /\ spc = "idle" => ~waiting
  /\ waiting /\ test_finished => Fits
  /\ waiting => \A a \in answers : a.current => Fits

SenkushaInv == Sizes /\ Inwards /\ Outwards /\ InFound /\ OutFound /\ Answered

LEMMA Middle ==
  ASSUME NEW a \in Nat, NEW b \in Nat, a <= b
  PROVE  /\ a + (b - a) \div 2 \in Nat
         /\ a <= a + (b - a) \div 2 /\ a + (b - a) \div 2 <= b
         /\ a < b => a + (b - a) \div 2 < b
<1>1. PICK d \in Nat : d = b - a
  OBVIOUS
<1>2. PICK h \in Nat : h = d \div 2 /\ h <= d /\ (0 < d => h < d)
  <2>1. d \div 2 \in Nat /\ d \div 2 <= d /\ (0 < d => d \div 2 < d)
    OBVIOUS
  <2> QED
    BY <2>1
<1>3. b = a + d
  BY <1>1
<1>4. (b - a) \div 2 = h
  BY <1>1, <1>2
<1> QED
  BY <1>2, <1>3, <1>4

(* A round whose answer came, and one without an answer.                   *)
LEMMA BisectedUp ==
  ASSUME Sizes, Search, Bisect(TRUE)
  PROVE  /\ lo' \in Nat /\ hi' \in Nat /\ cur' \in Nat /\ Search'
         /\ lo' = cur /\ hi' = hi /\ (cur < hi => cur' < hi)
<1> USE SenkushaAssumption
<1>1. lo' = cur /\ hi' = hi /\ cur' = cur + (hi - cur) \div 2
  BY DEF Bisect
<1>2. cur \in Nat /\ hi \in Nat /\ cur <= hi
  BY DEF Sizes, Search
<1>3. cur' \in Nat /\ cur <= cur' /\ cur' <= hi /\ (cur < hi => cur' < hi)
  BY <1>1, <1>2, Middle
<1>4. Search'
  BY <1>1, <1>2, <1>3 DEF Search, Sizes
<1> QED
  BY <1>1, <1>2, <1>3, <1>4

LEMMA BisectedDown ==
  ASSUME Sizes, Search, Bisect(FALSE)
  PROVE  /\ lo' \in Nat /\ hi' \in Nat /\ cur' \in Nat /\ Search'
         /\ lo' = lo /\ hi' = cur /\ (lo < cur => cur' < cur)
<1> USE SenkushaAssumption
<1>1. lo' = lo /\ hi' = cur /\ cur' = lo + (cur - lo) \div 2
  BY DEF Bisect
<1>2. cur \in Nat /\ lo \in Nat /\ lo <= cur
  BY DEF Sizes, Search
<1>3. cur' \in Nat /\ lo <= cur' /\ cur' <= cur /\ (lo < cur => cur' < cur)
  BY <1>1, <1>2, Middle
<1>4. Search'
  BY <1>1, <1>2, <1>3 DEF Search, Sizes
<1> QED
  BY <1>1, <1>2, <1>3, <1>4

LEMMA SenkushaInvInit == SenkushaInit => SenkushaInv
BY SenkushaAssumption DEF SenkushaInit, SenkushaInv, Sizes, Inwards, Outwards, InFound, OutFound, Answered

LEMMA SenkushaInvNext == SenkushaInv /\ [SenkushaNext]_senkushaVars => SenkushaInv'
<1> SUFFICES ASSUME SenkushaInv, [SenkushaNext]_senkushaVars PROVE SenkushaInv'
  OBVIOUS
<1> USE SenkushaAssumption
<1> DEFINE Found == Sizes /\ Inwards /\ Outwards /\ InFound /\ OutFound
<1>1. Found /\ Answered
  BY DEF SenkushaInv
<1>2. ASSUME UNCHANGED <<spc, lo, hi, cur, mtu_in, mtu_out, path, disturbed>> PROVE Found'
  BY <1>1, <1>2 DEF Sizes, Inwards, Outwards, InFound, OutFound, Search
<1>3. ASSUME ~waiting', spc' # "idle" PROVE Answered'
  BY <1>3 DEF Answered
<1>4. CASE SenkushaStart
  <2>1. /\ spc = "idle" /\ spc' = "connect"
        /\ path' \in [in : MinSize .. MaxSize, out : MinSize .. MaxSize]
        /\ UNCHANGED <<waiting, lo, hi, cur, mtu_in, mtu_out, disturbed>>
    BY <1>4, Zenon DEF SenkushaStart, test
  <2>2. Found'
    BY <1>1, <2>1 DEF Sizes, Inwards, Outwards, InFound, OutFound
  <2>3. ~waiting' /\ spc' # "idle"
    BY <1>1, <2>1 DEF Answered
  <2> QED
    BY <1>3, <2>2, <2>3 DEF SenkushaInv
<1>5. CASE SenkushaSends
  <2>1. Found'
    BY <1>2, <1>5 DEF SenkushaSends, test
  <2>2. spc # "idle"
    BY <1>5 DEF SenkushaSends, Simple
  <2>3. ~test_finished' /\ UNCHANGED <<spc, cur, path>>
    BY <1>5 DEF SenkushaSends, test
  <2>4. \A a \in answers' : a.current => Fits
    <3> DEFINE delayed == { [kind |-> a.kind, current |-> FALSE] :
                            a \in { b \in answers : b.kind \in {"pong", "ack", "mtu_in"} } }
               answer == [kind |-> AnswerTo(spc), current |-> TRUE]
    <3>1. \A a \in delayed : ~a.current
      OBVIOUS
    <3>2. answers' \in {delayed} \cup (IF Fits THEN {delayed \cup {answer}} ELSE {})
      BY <1>5, Zenon DEF SenkushaSends
    <3> HIDE DEF delayed, answer
    <3>3. answers' = delayed \/ (Fits /\ answers' = delayed \cup {answer})
      BY <3>2
    <3> QED
      BY <3>1, <3>3, Zenon
  <2>5. Fits' <=> Fits
    BY <2>3 DEF Fits
  <2> QED
    BY <2>1, <2>2, <2>3, <2>4, <2>5 DEF SenkushaInv, Answered
<1>6. CASE SenkushaSendFails
  <2>1. Found' /\ ~waiting' /\ spc' # "idle"
    BY <1>1, <1>6 DEF SenkushaSendFails, test, Simple, Sizes, Inwards, Outwards, InFound, OutFound
  <2> QED
    BY <1>3, <2>1 DEF SenkushaInv
<1>7. ASSUME NEW a \in answers, SenkushaCallback(a) PROVE SenkushaInv'
  <2>1. Found'
    BY <1>2, <1>7 DEF SenkushaCallback, test
  <2>2. UNCHANGED <<spc, waiting, cur, path>> /\ answers' \subseteq answers
    BY <1>7 DEF SenkushaCallback, test
  <2>3. test_finished' => test_finished \/ (waiting /\ a.current)
    BY <1>7, Zenon DEF SenkushaCallback, Expected
  <2>4. Fits' <=> Fits
    BY <2>2 DEF Fits
  <2> QED
    BY <1>1, <2>1, <2>2, <2>3, <2>4 DEF SenkushaInv, Answered
<1>8. CASE SimpleDone
  <2>1. ~waiting' /\ spc' # "idle"
    BY <1>8 DEF SimpleDone, Simple, After
  <2>2. /\ UNCHANGED <<mtu_in, mtu_out, path, disturbed>>
        /\ lo' \in {lo, MinSize} /\ hi' \in {hi, MaxSize} /\ cur' \in {cur, mtu_in, MaxSize}
        /\ spc' = "mtu_in" => lo' = MinSize /\ hi' = MaxSize /\ cur' = MaxSize
        /\ spc' = "mtu_out" => spc = "client_mtu" /\ lo' = MinSize /\ hi' = MaxSize /\ cur' = mtu_in
        /\ spc' \in {"client_mtu", "mtu_out", "client_mtu_end", "disconnect", "done"} =>
             spc \in {"client_mtu", "client_mtu_end"}
        /\ spc' \in {"client_mtu_end", "disconnect", "done"} => spc = "client_mtu_end"
    BY <1>8 DEF SimpleDone, Simple, After
  <2>3. Sizes' /\ Inwards' /\ InFound'
    BY <1>1, <2>2 DEF Sizes, Inwards, InFound, Search
  <2>4. Outwards' /\ OutFound'
    BY <1>1, <2>2 DEF Sizes, Outwards, InFound, OutFound, Search
  <2> QED
    BY <1>3, <2>1, <2>3, <2>4 DEF SenkushaInv
<1>9. CASE PingDone
  <2>1. Found' /\ ~waiting' /\ spc' # "idle"
    BY <1>1, <1>9 DEF PingDone, Sizes, Inwards, Outwards, InFound, OutFound
  <2> QED
    BY <1>3, <2>1 DEF SenkushaInv
<1>10. CASE NoPong \/ SenkushaEnd
  <2>1. Found' /\ spc' # "idle" /\ (~waiting' \/ UNCHANGED <<waiting, test_finished, answers>>)
    BY <1>1, <1>10 DEF NoPong, SenkushaEnd, test, Sizes, Inwards, Outwards, InFound, OutFound
  <2>2. ~(spc' \in {"mtu_in", "mtu_out"})
    BY <1>10 DEF NoPong, SenkushaEnd
  <2> QED
    BY <2>1, <2>2 DEF SenkushaInv, Answered, Fits
<1>11. CASE MtuAnswered
  <2>1. /\ spc \in {"mtu_in", "mtu_out"} /\ ~waiting' /\ Fits /\ Bisect(TRUE)
        /\ UNCHANGED <<spc, mtu_in, mtu_out, path, disturbed>>
    BY <1>1, <1>11 DEF MtuAnswered, Answered
  <2>2. Search
    BY <1>1, <2>1 DEF Inwards, Outwards
  <2>3. /\ lo' \in Nat /\ hi' \in Nat /\ cur' \in Nat /\ Search'
        /\ lo' = cur /\ hi' = hi /\ (cur < hi => cur' < hi)
    BY <1>1, <2>1, <2>2, BisectedUp
  <2>4. Sizes' /\ Inwards'
    BY <1>1, <2>1, <2>2, <2>3 DEF Sizes, Inwards, Search, Fits
  <2>5. Outwards'
    BY <1>1, <2>1, <2>2, <2>3 DEF Sizes, Outwards, Search, Fits
  <2>6. InFound' /\ OutFound'
    BY <1>1, <2>1 DEF InFound, OutFound
  <2> QED
    BY <1>3, <2>1, <2>4, <2>5, <2>6 DEF SenkushaInv
<1>12. CASE MtuTimeout
  <2>1. /\ spc \in {"mtu_in", "mtu_out"} /\ ~waiting'
        /\ UNCHANGED <<spc, mtu_in, mtu_out, path>>
        /\ UNCHANGED <<lo, hi, cur>> \/ Bisect(FALSE)
    BY <1>12 DEF MtuTimeout
  <2>2. ~disturbed' => ~disturbed /\ ~Fits
    BY <1>12, Zenon DEF MtuTimeout
  <2>3. Search
    BY <1>1, <2>1 DEF Inwards, Outwards
  <2>4. InFound' /\ OutFound'
    BY <1>1, <2>1, <2>2 DEF InFound, OutFound
  <2>5. CASE UNCHANGED <<lo, hi, cur>>
    BY <1>1, <1>3, <2>1, <2>2, <2>4, <2>5 DEF SenkushaInv, Sizes, Inwards, Outwards, Search
  <2>6. CASE Bisect(FALSE)
    <3>1. /\ lo' \in Nat /\ hi' \in Nat /\ cur' \in Nat /\ Search'
          /\ lo' = lo /\ hi' = cur /\ (lo < cur => cur' < cur)
      BY <1>1, <2>3, <2>6, BisectedDown
    <3>2. Sizes' /\ Inwards'
      BY <1>1, <2>1, <2>2, <2>3, <3>1 DEF Sizes, Inwards, Search, Fits
    <3>3. Outwards'
      BY <1>1, <2>1, <2>2, <2>3, <3>1 DEF Sizes, Outwards, Search, Fits
    <3> QED
      BY <1>3, <2>1, <2>4, <3>2, <3>3 DEF SenkushaInv
  <2> QED
    BY <2>1, <2>5, <2>6
<1>13. CASE MtuFound
  <2>1. /\ spc \in {"mtu_in", "mtu_out"} /\ ~waiting /\ hi - lo <= 1
        /\ UNCHANGED <<waiting, lo, hi, cur, path, disturbed>>
        /\ spc = "mtu_in" => mtu_in' = lo /\ mtu_out' = mtu_out /\ spc' = "client_mtu"
        /\ spc = "mtu_out" => mtu_in' = mtu_in /\ mtu_out' = lo /\ spc' = "client_mtu_end"
    BY <1>13 DEF MtuFound
  <2>2. ~waiting' /\ spc' # "idle" /\ Sizes' /\ Inwards' /\ Outwards'
    BY <1>1, <2>1 DEF Sizes, Inwards, Outwards
  <2>3. InFound'
    BY <1>1, <2>1 DEF Sizes, Search, Inwards, InFound
  <2>4. OutFound'
    BY <1>1, <2>1 DEF Sizes, Search, Outwards, InFound, OutFound
  <2> QED
    BY <1>3, <2>2, <2>3, <2>4 DEF SenkushaInv
<1>14. CASE UNCHANGED senkushaVars
  <2>1. Found' 
    BY <1>2, <1>14 DEF senkushaVars
  <2>2. UNCHANGED <<spc, waiting, test_finished, answers>> /\ (Fits' <=> Fits)
    BY <1>14 DEF senkushaVars, Fits
  <2> QED
    BY <1>1, <2>1, <2>2 DEF SenkushaInv, Answered
<1> QED
  BY <1>4, <1>5, <1>6, <1>7, <1>8, <1>9, <1>10, <1>11, <1>12, <1>13, <1>14 DEF SenkushaNext, SenkushaThread

(* The sizes that Senkusha finds do pass, and are the largest that do when *)
(* no answer was lost or late, for any bounds and any MTU of the path.     *)
THEOREM MtuIsRightHolds == SenkushaSpec => []MtuIsRight
<1>1. SenkushaInv => MtuIsRight
  BY SenkushaAssumption DEF SenkushaInv, MtuIsRight, Sizes, InFound, OutFound
<1> QED
  BY SenkushaInvInit, SenkushaInvNext, <1>1, PTL DEF SenkushaSpec

-----------------------------------------------------------------------------
(* The desktop client: what its signal queue holds follows from what the   *)
(* one living session does, and is empty where that session can be         *)
(* replaced.                                                               *)
SignalOf(kind) == [kind |-> kind, n |-> session]

Objects ==
  [life : {"none", "idle", "running", "audio", "streams", "retry", "ended", "deleted"}, psn : BOOLEAN,
   connected : BOOLEAN, timer : {"off", "early", "late"}, stopped : BOOLEAN, doomed : BOOLEAN]

ObjectsOK == obj \in [Sessions -> Objects] /\ made \in 0 .. MaxSessions /\ session \in 0 .. made

Alone == \A n \in Sessions : obj[n].life \notin {"none", "deleted"} <=> n = session

NoSession == session = 0 => posted = << >> /\ worker = 0 /\ ~paused /\ ~inhibited

Queued ==
  session # 0 =>
    /\ worker \in {0, session} /\ (worker # 0 => obj[session].life = "idle" /\ posted = << >>)
    /\ obj[session].life = "idle" =>
         /\ ~paused /\ ~inhibited
         /\ posted \in {<< >>, <<SignalOf("success")>>, <<SignalOf("failure")>>}
    /\ obj[session].life \in {"running", "retry"} => posted = << >>
    /\ obj[session].life = "audio" => posted = <<SignalOf("audio")>>
    /\ obj[session].life = "streams" => \/ posted = << >>
                                        \/ posted = <<SignalOf("connected")>> /\ obj[session].connected
    /\ obj[session].life = "ended" =>
         posted \in {<<SignalOf("quit")>>, <<SignalOf("connected"), SignalOf("quit")>>,
                     <<SignalOf("connected"), SignalOf("connected"), SignalOf("quit")>>}

OrderInv == ObjectsOK /\ Alone /\ NoSession /\ Queued

LEMMA StartedRuns == ASSUME NEW o \in Objects PROVE Started(o) \in Objects /\ Started(o).life = "running"
BY DEF Objects, Started

LEMMA OrderInit == BackendInit => OrderInv
BY BackendAssumption DEF BackendInit, OrderInv, ObjectsOK, Objects, Alone, NoSession, Queued, Sessions, NoObject

LEMMA SessionIsOne == ASSUME OrderInv, session # 0 PROVE session \in Sessions
BY BackendAssumption DEF OrderInv, ObjectsOK, Sessions

LEMMA OrderFrame ==
  ASSUME OrderInv, UNCHANGED <<session, made, obj, worker, posted, paused, inhibited>> PROVE OrderInv'
BY DEF OrderInv, ObjectsOK, Alone, NoSession, Queued, SignalOf

(* createSession, when there is no session.                                *)
LEMMA Created ==
  ASSUME OrderInv, NEW kind, CreateSession(kind), UNCHANGED <<posted, paused>>
  PROVE  OrderInv' /\ made' \in {made, made + 1}
<1> USE BackendAssumption
<1>1. CASE UNCHANGED <<session, made, obj, worker, inhibited>>
  BY <1>1, OrderFrame
<1>2. CASE ~UNCHANGED <<session, made, obj, worker, inhibited>>
  <2> DEFINE new == [NoObject EXCEPT !.life = "idle", !.psn = (kind = "psn")]
             s == made + 1
  <2>1. /\ session = 0 /\ made < MaxSessions /\ made' = s /\ session' = s
        /\ \/ obj' = [obj EXCEPT ![s] = Started(new)] /\ worker' = worker
           \/ obj' = [obj EXCEPT ![s] = new] /\ worker' = worker /\ inhibited' = inhibited
           \/ obj' = [obj EXCEPT ![s] = new] /\ worker' = s /\ inhibited' = inhibited
    BY <1>2 DEF CreateSession
  <2>2. new \in Objects /\ new.life = "idle"
    BY DEF NoObject, Objects
  <2>3. Started(new) \in Objects /\ Started(new).life = "running"
    BY <2>2, StartedRuns
  <2> HIDE DEF new
  <2>4. s \in Sessions /\ obj \in [Sessions -> Objects] /\ made \in Nat /\ s # 0
    BY <2>1 DEF Sessions, OrderInv, ObjectsOK
  <2>5. /\ obj' \in [Sessions -> Objects] /\ obj'[s].life \in {"idle", "running"}
        /\ \A n \in Sessions : n # s => obj'[n] = obj[n]
        /\ worker' # worker => worker' = s /\ obj'[s].life = "idle"
        /\ inhibited' # inhibited => obj'[s].life # "idle"
    BY <2>1, <2>2, <2>3, <2>4
  <2>6. posted = << >> /\ worker = 0 /\ ~paused /\ ~inhibited
    BY <2>1 DEF OrderInv, NoSession
  <2>7. ObjectsOK' /\ Alone'
    BY <2>1, <2>4, <2>5 DEF OrderInv, ObjectsOK, Alone, Sessions
  <2>8. NoSession' /\ Queued'
    BY <2>1, <2>4, <2>5, <2>6 DEF NoSession, Queued
  <2> QED
    BY <2>1, <2>7, <2>8 DEF OrderInv
<1> QED
  BY <1>1, <1>2

(* What a session emits, and how one signal is taken.                      *)
LEMMA EmitsOne ==
  ASSUME NEW n, NEW kind, posted = << >>, Emit(<<kind>>, n) PROVE posted' = <<[kind |-> kind, n |-> n]>>
BY DEF Emit

LEMMA ThreeSignals == ASSUME NEW a, NEW b PROVE <<a>> \o <<a, b>> = <<a, a, b>>
<1> DEFINE S == {a, b}
           s == <<a>> \o <<a, b>>
           t == <<a, a, b>>
<1>1. <<a>> \in Seq(S) /\ <<a, b>> \in Seq(S) /\ t \in Seq(S)
  OBVIOUS
<1>2. s \in Seq(S) /\ Len(s) = 3 /\ Len(t) = 3
  BY <1>1
<1>3. s[1] = a /\ s[2] = a /\ s[3] = b
  BY <1>1
<1>4. t[1] = a /\ t[2] = a /\ t[3] = b
  OBVIOUS
<1> HIDE DEF s, t
<1>5. \A i \in 1 .. 3 : s[i] = t[i]
  BY <1>3, <1>4
<1> HIDE DEF S
<1>6. s = t
  BY <1>1, <1>2, <1>5, SeqEqual
<1> QED
  BY <1>6 DEF s, t

LEMMA EmitsQuit ==
  ASSUME NEW n, Emit(<<"connected", "quit">>, n)
  PROVE  /\ posted = << >> => posted' = <<[kind |-> "connected", n |-> n], [kind |-> "quit", n |-> n]>>
         /\ posted = <<[kind |-> "connected", n |-> n]>> =>
              posted' = <<[kind |-> "connected", n |-> n], [kind |-> "connected", n |-> n], [kind |-> "quit", n |-> n]>>
<1> DEFINE c == [kind |-> "connected", n |-> n]
           q == [kind |-> "quit", n |-> n]
<1>1. [i \in DOMAIN <<"connected", "quit">> |-> [kind |-> <<"connected", "quit">>[i], n |-> n]] = <<c, q>>
  OBVIOUS
<1>2. posted' = posted \o <<c, q>>
  BY <1>1 DEF Emit
<1>3. << >> \o <<c, q>> = <<c, q>>
  OBVIOUS
<1>4. <<c>> \o <<c, q>> = <<c, c, q>>
  BY ThreeSignals
<1> HIDE DEF c, q
<1>5. /\ posted = << >> => posted' = <<c, q>>
      /\ posted = <<c>> => posted' = <<c, c, q>>
  BY <1>2, <1>3, <1>4
<1> QED
  BY <1>5 DEF c, q

LEMMA TakesConnected ==
  ASSUME NEW p, NEW c, NEW q, Head(p).kind = "connected"
  PROVE  /\ p = <<c>> => Tail(p) = << >>
         /\ q.kind # "connected" /\ p \in {<<q>>, <<c, q>>, <<c, c, q>>} => Tail(p) \in {<<q>>, <<c, q>>}
<1>1. /\ Tail(<<c>>) = << >> /\ Tail(<<c, q>>) = <<q>> /\ Tail(<<c, c, q>>) = <<c, q>>
      /\ Head(<<q>>) = q
  OBVIOUS
<1>2. CASE p = <<c>>
  BY <1>1, <1>2
<1>3. CASE q.kind # "connected" /\ p \in {<<q>>, <<c, q>>, <<c, c, q>>}
  <2>1. p # <<q>>
    BY <1>1, <1>3
  <2> QED
    BY <1>1, <1>3, <2>1, Zenon
<1> QED
  BY <1>2, <1>3, Zenon

(* A step of the living session's own: it goes on in another life, and     *)
(* posts what belongs to that.                                             *)
LEMMA LifeGoesOn ==
  ASSUME OrderInv, session # 0, UNCHANGED <<session, made>>,
         obj' \in [Sessions -> Objects], \A n \in Sessions : n # session => obj'[n].life = obj[n].life,
         obj'[session].life \notin {"none", "deleted"}, Queued'
  PROVE  OrderInv'
BY DEF OrderInv, ObjectsOK, Alone, NoSession

LEMMA SessionDeleted ==
  ASSUME OrderInv, session # 0, Deletes(session), UNCHANGED made,
         posted' = << >>, worker' = 0, ~paused', ~inhibited'
  PROVE  OrderInv'
<1>1. session \in Sessions /\ obj \in [Sessions -> Objects] /\ made \in 0 .. MaxSessions
  BY SessionIsOne DEF OrderInv, ObjectsOK
<1>2. obj' \in [Sessions -> Objects] /\ obj'[session].life = "deleted" /\ session' = 0
  BY <1>1 DEF Deletes, Objects
<1>3. \A n \in Sessions : n # session => obj'[n] = obj[n]
  BY <1>1 DEF Deletes
<1>4. 0 \notin Sessions /\ 0 \in 0 .. made
  BY <1>1 DEF Sessions
<1> QED
  BY <1>1, <1>2, <1>3, <1>4 DEF OrderInv, ObjectsOK, Alone, NoSession, Queued

LEMMA OrderNext == OrderInv /\ [BackendNext]_backendVars => OrderInv'
<1> SUFFICES ASSUME OrderInv, [BackendNext]_backendVars PROVE OrderInv'
  OBVIOUS
<1>1. obj \in [Sessions -> Objects] /\ Alone /\ NoSession /\ Queued /\ (session # 0 => session \in Sessions)
  BY SessionIsOne DEF OrderInv, ObjectsOK
<1>2. ASSUME Stop, session # 0, UNCHANGED <<session, made, worker, posted, paused, inhibited>> PROVE OrderInv'
  <2>1. CASE UNCHANGED obj
    BY <1>2, <2>1, OrderFrame
  <2>2. CASE obj' = [obj EXCEPT ![session].stopped = TRUE]
    <3>1. /\ obj' \in [Sessions -> Objects] /\ \A n \in Sessions : obj'[n].life = obj[n].life
          /\ obj'[session].connected = obj[session].connected
      BY <1>1, <1>2, <2>2 DEF Objects
    <3>2. Queued'
      BY <1>1, <1>2, <3>1 DEF Queued, SignalOf
    <3> QED
      BY <1>1, <1>2, <3>1, <3>2, LifeGoesOn DEF Alone
  <2> QED
    BY <1>2, <2>1, <2>2 DEF Stop
<1>3. ASSUME NEW kind \in {"local", "psn"}, ConnectToHost(kind) PROVE OrderInv'
  BY <1>3, Created, OrderFrame DEF ConnectToHost
<1>4. CASE TokenForConnect \/ TokenSuccess
  BY <1>4, Created, OrderFrame DEF TokenForConnect, TokenSuccess
<1>5. CASE StopSession
  BY <1>2, <1>5 DEF StopSession
<1>6. CASE PsnCancel \/ FfmpegFrame \/ Tick \/ TokenError \/ TokenUnauthorized \/ UNCHANGED backendVars
  BY <1>6, OrderFrame DEF PsnCancel, FfmpegFrame, Tick, TokenError, TokenUnauthorized, backendVars
<1>7. ASSUME NEW ok \in BOOLEAN, WorkerDone(ok) PROVE OrderInv'
  <2>1. /\ session # 0 /\ worker = session /\ obj[session].life = "idle" /\ posted = << >>
    BY <1>1, <1>7 DEF WorkerDone, NoSession, Queued
  <2>2. posted' = <<SignalOf("success")>> \/ posted' = <<SignalOf("failure")>>
    BY <1>7, <2>1 DEF WorkerDone, SignalOf
  <2>3. worker' = 0 /\ UNCHANGED <<session, made, obj, paused, inhibited>>
    BY <1>7 DEF WorkerDone
  <2>4. Queued'
    BY <1>1, <2>1, <2>2, <2>3 DEF Queued, SignalOf
  <2> QED
    BY <1>1, <2>1, <2>3, <2>4, LifeGoesOn DEF Alone
<1>8. ASSUME NEW n \in Sessions, AsksAudio(n) PROVE OrderInv'
  <2>1. n = session /\ session # 0 /\ posted = << >> /\ obj[n].life = "running"
    BY <1>1, <1>8 DEF AsksAudio, Alone, Queued, Sessions
  <2>2. posted' = <<SignalOf("audio")>>
    BY <1>8, <2>1, EmitsOne DEF AsksAudio, SignalOf
  <2>3. /\ obj' \in [Sessions -> Objects] /\ obj'[n].life = "audio" /\ \A m \in Sessions : m # n => obj'[m] = obj[m]
        /\ UNCHANGED <<session, made, worker, paused, inhibited>>
    BY <1>1, <1>8 DEF AsksAudio, Objects
  <2>4. Queued'
    BY <1>1, <2>1, <2>2, <2>3 DEF Queued, SignalOf
  <2> QED
    BY <2>1, <2>3, <2>4, LifeGoesOn
<1>9. ASSUME NEW n \in Sessions, EventConnected(n) PROVE OrderInv'
  <2>1. n = session /\ session # 0 /\ posted = << >> /\ obj[n].life = "streams"
    BY <1>1, <1>9 DEF EventConnected, Alone, Queued, Sessions
  <2>2. posted' = <<SignalOf("connected")>>
    BY <1>9, <2>1, EmitsOne DEF EventConnected, SignalOf
  <2>3. /\ obj' \in [Sessions -> Objects] /\ obj'[n].life = "streams" /\ obj'[n].connected
        /\ \A m \in Sessions : m # n => obj'[m] = obj[m]
        /\ UNCHANGED <<session, made, worker, paused, inhibited>>
    <3>1. obj' = [obj EXCEPT ![n] = [obj[n] EXCEPT !.connected = TRUE, !.timer = "off"]]
      BY <1>9 DEF EventConnected
    <3>2. obj[n] \in Objects
      BY <1>1
    <3> DEFINE o == [obj[n] EXCEPT !.connected = TRUE, !.timer = "off"]
    <3>3. o \in Objects /\ o.life = obj[n].life /\ o.connected
      BY <3>2 DEF Objects
    <3>4. UNCHANGED <<session, made, worker, paused, inhibited>>
      BY <1>9 DEF EventConnected
    <3> HIDE DEF o
    <3>5. obj' = [obj EXCEPT ![n] = o]
      BY <3>1 DEF o
    <3>6. /\ obj' \in [Sessions -> Objects] /\ obj'[n] = o
          /\ \A m \in Sessions : m # n => obj'[m] = obj[m]
      BY <1>1, <3>3, <3>5
    <3> QED
      BY <2>1, <3>3, <3>4, <3>6
  <2>4. Queued'
    BY <1>1, <2>1, <2>2, <2>3 DEF Queued, SignalOf
  <2> QED
    BY <2>1, <2>3, <2>4, LifeGoesOn
<1>10. ASSUME NEW n \in Sessions, NEW error \in BOOLEAN, EventQuit(n, error) PROVE OrderInv'
  <2>1. n = session /\ session # 0 /\ obj[n].life \in {"running", "streams"}
    BY <1>1, <1>10 DEF EventQuit, Alone, Sessions
  <2>2. posted = << >> \/ (posted = <<SignalOf("connected")>> /\ obj[n].connected)
    BY <1>1, <2>1 DEF Queued
  <2>3. UNCHANGED <<session, made, worker, paused, inhibited>>
    BY <1>10 DEF EventQuit
  <2>4. CASE ~obj[n].connected /\ obj' = [obj EXCEPT ![n].life = "retry"] /\ UNCHANGED posted
    <3>1. obj' \in [Sessions -> Objects] /\ obj'[n].life = "retry" /\ \A m \in Sessions : m # n => obj'[m] = obj[m]
      BY <1>1, <2>4 DEF Objects
    <3>2. posted' = << >>
      BY <2>2, <2>4
    <3>3. Queued'
      BY <1>1, <2>1, <2>3, <3>1, <3>2 DEF Queued
    <3> QED
      BY <2>1, <2>3, <3>1, <3>3, LifeGoesOn
  <2>5. CASE obj' = [obj EXCEPT ![n].life = "ended", ![n].connected = FALSE] /\ Emit(<<"connected", "quit">>, n)
    <3>1. obj' \in [Sessions -> Objects] /\ obj'[n].life = "ended" /\ \A m \in Sessions : m # n => obj'[m] = obj[m]
      <4> DEFINE o == [obj[n] EXCEPT !.life = "ended", !.connected = FALSE]
      <4>1. o \in Objects /\ o.life = "ended"
        BY <1>1 DEF Objects
      <4>2. obj' = [obj EXCEPT ![n] = o]
        BY <1>1, <2>5 DEF Objects
      <4> HIDE DEF o
      <4> QED
        BY <1>1, <4>1, <4>2
    <3>2. \/ posted' = <<SignalOf("connected"), SignalOf("quit")>>
          \/ posted' = <<SignalOf("connected"), SignalOf("connected"), SignalOf("quit")>>
      BY <2>1, <2>2, <2>5, EmitsQuit DEF SignalOf
    <3>3. Queued'
      BY <1>1, <2>1, <2>3, <3>1, <3>2 DEF Queued, SignalOf
    <3> QED
      BY <2>1, <2>3, <3>1, <3>3, LifeGoesOn
  <2> QED
    BY <1>10, <2>4, <2>5 DEF EventQuit
<1>11. ASSUME NEW n \in Sessions, TimePasses(n) PROVE OrderInv'
  <2>1. /\ obj' \in [Sessions -> Objects]
        /\ \A m \in Sessions : obj'[m].life = obj[m].life /\ obj'[m].connected = obj[m].connected
        /\ UNCHANGED <<session, made, worker, posted, paused, inhibited>>
    BY <1>1, <1>11 DEF TimePasses, Objects
  <2> QED
    BY <1>1, <2>1 DEF OrderInv, ObjectsOK, Alone, NoSession, Queued, SignalOf
<1>12. ASSUME NEW n \in Sessions, RetryStart(n) PROVE OrderInv'
  <2>1. n = session /\ session # 0 /\ posted = << >> /\ obj[n].life = "retry"
    BY <1>1, <1>12 DEF RetryStart, Alone, Queued, Sessions
  <2>2. /\ obj' \in [Sessions -> Objects] /\ obj'[n].life = "running" /\ \A m \in Sessions : m # n => obj'[m] = obj[m]
        /\ UNCHANGED <<session, made, worker, posted, paused, inhibited>>
    BY <1>1, <1>12, StartedRuns DEF RetryStart
  <2>3. Queued'
    BY <1>1, <2>1, <2>2 DEF Queued
  <2> QED
    BY <2>1, <2>2, <2>3, LifeGoesOn
<1>13. ASSUME NEW kind, Handle(kind)
       PROVE  /\ session \in Sessions /\ session # 0 /\ posted # << >>
              /\ Head(posted).kind = kind /\ posted' = Tail(posted) /\ UNCHANGED <<made, worker>>
  BY <1>1, <1>13 DEF Handle
<1>14. CASE InitAudio
  <2>1. Head(posted).kind = "audio" /\ posted' = Tail(posted) /\ session \in Sessions /\ session # 0 /\ posted # << >>
    BY <1>13, <1>14 DEF InitAudio
  <2>2. posted = <<SignalOf("audio")>> /\ Head(posted).n = session
    BY <1>1, <2>1 DEF Queued, Objects, SignalOf, Alone
  <2>3. /\ obj' \in [Sessions -> Objects] /\ obj'[session].life = "streams"
        /\ \A m \in Sessions : m # session => obj'[m] = obj[m]
        /\ UNCHANGED <<session, made, worker, paused, inhibited>>
    BY <1>1, <1>13, <1>14, <2>1, <2>2 DEF InitAudio, Objects
  <2>4. posted' = << >>
    BY <2>1, <2>2
  <2>5. Queued'
    BY <1>1, <2>1, <2>2, <2>3, <2>4 DEF Queued, SignalOf
  <2> QED
    BY <2>1, <2>3, <2>5, LifeGoesOn
<1>15. CASE ConnectedChanged
  <2>1. Head(posted).kind = "connected" /\ posted' = Tail(posted) /\ session \in Sessions /\ session # 0 /\ posted # << >>
    BY <1>13, <1>15 DEF ConnectedChanged
  <2>2. \/ obj[session].life = "streams" /\ posted' = << >>
        \/ obj[session].life = "ended" /\ posted' \in {<<SignalOf("quit")>>, <<SignalOf("connected"), SignalOf("quit")>>}
    <3>1. obj[session].life \in {"idle", "running", "audio", "streams", "retry", "ended"}
      BY <1>1, <2>1 DEF Objects, Alone
    <3>2. obj[session].life \in {"streams", "ended"}
      BY <1>1, <2>1, <3>1 DEF Queued, SignalOf
    <3>3. SignalOf("quit").kind # "connected"
      BY DEF SignalOf
    <3>4. obj[session].life = "streams" => posted' = << >>
      BY <1>1, <2>1, TakesConnected DEF Queued
    <3>5. obj[session].life = "ended" => posted' \in {<<SignalOf("quit")>>, <<SignalOf("connected"), SignalOf("quit")>>}
      BY <1>1, <2>1, <3>3, TakesConnected DEF Queued
    <3> QED
      BY <3>2, <3>4, <3>5
  <2>3. UNCHANGED <<session, made, obj, worker, inhibited>>
    BY <1>13, <1>15 DEF ConnectedChanged
  <2>4. Queued'
    BY <1>1, <2>1, <2>2, <2>3 DEF Queued, SignalOf
  <2> QED
    BY <1>1, <2>1, <2>3, <2>4, LifeGoesOn DEF Alone
<1>16. CASE SessionQuit
  <2>1. Head(posted).kind = "quit" /\ posted' = Tail(posted) /\ session \in Sessions /\ session # 0 /\ posted # << >>
    BY <1>13, <1>16 DEF SessionQuit
  <2>2. obj[session].life = "ended" /\ posted = <<SignalOf("quit")>>
    BY <1>1, <2>1 DEF Queued, Objects, SignalOf, Alone
  <2>3. posted' = << >> /\ worker' = 0 /\ Deletes(session) /\ UNCHANGED made /\ ~paused' /\ ~inhibited'
    BY <1>1, <1>13, <1>16, <2>1, <2>2 DEF SessionQuit, Queued
  <2> QED
    BY <2>1, <2>3, SessionDeleted
<1>17. CASE CheckPsnConnection
  <2>1. /\ Head(posted).kind \in {"success", "failure"} /\ posted' = Tail(posted) /\ UNCHANGED <<made, worker>>
        /\ session \in Sessions /\ session # 0 /\ posted # << >>
    BY <1>13, <1>17 DEF CheckPsnConnection
  <2>2. /\ obj[session].life = "idle" /\ posted' = << >> /\ worker = 0 /\ ~paused /\ ~inhibited
    BY <1>1, <2>1 DEF Queued, Objects, SignalOf, Alone
  <2>3. CASE obj' = [obj EXCEPT ![session] = Started(@)] /\ UNCHANGED session
    <3>1. /\ obj' \in [Sessions -> Objects] /\ obj'[session].life = "running"
          /\ \A m \in Sessions : m # session => obj'[m] = obj[m]
      BY <1>1, <2>1, <2>3, StartedRuns
    <3>2. Queued'
      BY <2>1, <2>2, <2>3, <3>1 DEF Queued
    <3> QED
      BY <2>1, <2>3, <3>1, <3>2, LifeGoesOn
  <2>4. CASE Deletes(session) /\ UNCHANGED <<paused, inhibited>>
    BY <2>1, <2>2, <2>4, SessionDeleted
  <2> QED
    BY <1>17, <2>3, <2>4 DEF CheckPsnConnection
<1>18. CASE SystemSleeps
  BY <1>2, <1>18, OrderFrame DEF SystemSleeps
<1>19. CASE SystemResumes
  BY <1>19, Created, OrderFrame DEF SystemResumes
<1> QED
  BY <1>3, <1>4, <1>5, <1>6, <1>7, <1>8, <1>9, <1>10, <1>11, <1>12, <1>14, <1>15, <1>16, <1>17, <1>18,
     <1>19
     DEF BackendNext, BackendSteps, HandleSignal, TokenAnswer

(* Every session was asked for: one more may be made for a token awaited   *)
(* by a connect, and one for a resume that reconnects, whose timer and     *)
(* request stand for the same one unless two requests overlapped.          *)
AskedInv ==
  /\ made \in Nat /\ asked \in Nat /\ refreshes \in Nat
  /\ ~overlapped =>
       /\ refreshes <= 1 /\ made <= asked
       /\ token_asked => made + 1 <= asked
       /\ ticking \/ refreshes > 0 => made + 1 <= asked
       /\ token_asked /\ (ticking \/ refreshes > 0) => made + 2 <= asked

LEMMA AskedNext == OrderInv /\ AskedInv /\ [BackendNext]_backendVars => AskedInv'
<1> SUFFICES ASSUME OrderInv, AskedInv, [BackendNext]_backendVars PROVE AskedInv'
  OBVIOUS
<1>1. ASSUME NEW kind, CreateSession(kind) PROVE made' = made \/ made' = made + 1
  BY <1>1 DEF CreateSession
<1>2. ASSUME UNCHANGED <<made, asked, refreshes, ticking, token_asked, overlapped>> PROVE AskedInv'
  BY <1>2 DEF AskedInv
<1>3. ASSUME NEW kind \in {"local", "psn"}, ConnectToHost(kind) PROVE AskedInv'
  <2>1. /\ asked' = asked + 1 /\ UNCHANGED <<refreshes, ticking, overlapped>>
        /\ \/ (made' = made \/ made' = made + 1) /\ UNCHANGED token_asked
           \/ ~token_asked /\ UNCHANGED made
    BY <1>1, <1>3 DEF ConnectToHost
  <2> QED
    BY <2>1 DEF AskedInv
<1>4. CASE TokenForConnect
  <2>1. /\ token_asked /\ ~token_asked' /\ (made' = made \/ made' = made + 1)
        /\ UNCHANGED <<asked, refreshes>> /\ (ticking' <=> ticking) /\ (overlapped' <=> overlapped)
    BY <1>1, <1>4 DEF TokenForConnect, backendHistory
  <2> QED
    BY <2>1 DEF AskedInv
<1>5. CASE SystemResumes
  <2>1. /\ UNCHANGED <<refreshes, token_asked, overlapped>>
        /\ \/ UNCHANGED <<made, asked, ticking>>
           \/ asked' = asked + 1 /\ (made' = made \/ made' = made + 1) /\ UNCHANGED ticking
           \/ asked' = asked + 1 /\ UNCHANGED made
    BY <1>1, <1>5 DEF SystemResumes
  <2> QED
    BY <2>1 DEF AskedInv
<1>6. CASE Tick
  <2>1. ~overlapped' => ~overlapped
    BY <1>6, Zenon DEF Tick
  <2>2. /\ ticking /\ UNCHANGED <<made, asked>> /\ (token_asked' <=> token_asked)
        /\ refreshes' = refreshes + 1 \/ refreshes' = refreshes
    BY <1>6 DEF Tick, GiveUpReconnect
  <2>3. refreshes' = refreshes + 1 /\ ~overlapped' => ~(refreshes > 0)
    <3>1. refreshes' = refreshes \/ overlapped' = (overlapped \/ refreshes > 0)
      BY <1>6, Zenon DEF Tick
    <3>2. refreshes' = refreshes + 1 => refreshes' # refreshes
      BY DEF AskedInv
    <3> QED
      BY <3>1, <3>2, Zenon
  <2> QED
    BY <2>1, <2>2, <2>3 DEF AskedInv
<1>7. CASE TokenError
  <2>1. /\ refreshes > 0 /\ refreshes' = refreshes - 1 /\ UNCHANGED <<made, asked>>
        /\ (token_asked' <=> token_asked) /\ (overlapped' <=> overlapped)
    BY <1>7 DEF TokenError, GiveUpReconnect, backendHistory
  <2> QED
    BY <2>1 DEF AskedInv
<1>8. CASE TokenUnauthorized
  <2>1. /\ refreshes > 0 /\ refreshes' = refreshes - 1 /\ UNCHANGED <<made, asked>>
        /\ (token_asked' <=> token_asked) /\ (overlapped' <=> overlapped)
    BY <1>8 DEF TokenUnauthorized
  <2> QED
    BY <2>1 DEF AskedInv
<1>9. CASE TokenSuccess
  <2>1. /\ refreshes > 0 /\ refreshes' = refreshes - 1 /\ UNCHANGED asked
        /\ (token_asked' <=> token_asked) /\ (overlapped' <=> overlapped)
        /\ ~ticking' /\ (made' = made \/ made' = made + 1)
    BY <1>1, <1>9 DEF TokenSuccess, backendHistory
  <2> QED
    BY <2>1 DEF AskedInv
<1>10. ASSUME NEW n \in Sessions,
              \/ AsksAudio(n) \/ EventConnected(n) \/ TimePasses(n) \/ RetryStart(n)
              \/ \E error \in BOOLEAN : EventQuit(n, error)
       PROVE  AskedInv'
  BY <1>2, <1>10 DEF AsksAudio, EventConnected, TimePasses, RetryStart, EventQuit, reconnecting, backendHistory
<1>11. ASSUME NEW ok \in BOOLEAN, WorkerDone(ok) PROVE AskedInv'
  BY <1>2, <1>11 DEF WorkerDone, reconnecting, backendHistory
<1>12. CASE HandleSignal
  BY <1>2, <1>12 DEF HandleSignal, InitAudio, ConnectedChanged, SessionQuit, CheckPsnConnection, Handle, reconnecting,
                     backendHistory
<1>13. CASE StopSession \/ PsnCancel \/ FfmpegFrame \/ SystemSleeps \/ UNCHANGED backendVars
  BY <1>2, <1>13 DEF StopSession, PsnCancel, FfmpegFrame, SystemSleeps, backendVars, reconnecting, backendHistory
<1> QED
  BY <1>3, <1>4, <1>5, <1>6, <1>7, <1>8, <1>9, <1>10, <1>11, <1>12, <1>13 DEF BackendNext, BackendSteps, TokenAnswer

(* Every signal of a session is handled while that session is the current  *)
(* one, and no session is created that was not asked for, for any number   *)
(* of sessions, connects, sleeps and reconnects.                           *)
THEOREM SessionsInOrderHolds == BackendSpec => []SessionsInOrder
<1>1. BackendInit => OrderInv /\ AskedInv
  <2>1. BackendInit => AskedInv
    BY DEF BackendInit, AskedInv
  <2> QED
    BY <2>1, OrderInit
<1>2. OrderInv /\ AskedInv /\ [BackendNext]_backendVars => OrderInv' /\ AskedInv'
  BY OrderNext, AskedNext
<1>3. OrderInv => SignalsMeetTheirSession
  <2> SUFFICES ASSUME OrderInv PROVE SignalsMeetTheirSession
    OBVIOUS
  <2>1. Alone /\ NoSession /\ Queued
    BY DEF OrderInv
  <2>2. CASE session = 0
    BY <2>1, <2>2 DEF SignalsMeetTheirSession, Alone, NoSession
  <2>3. CASE session # 0
    <3>1. session \in Sessions /\ obj[session].life \in {"idle", "running", "audio", "streams", "retry", "ended"}
      BY <2>1, <2>3, SessionIsOne DEF OrderInv, ObjectsOK, Objects, Alone
    <3>2. \A i \in DOMAIN posted : posted[i].n = session
      BY <2>1, <2>3, <3>1 DEF Queued, SignalOf
    <3> QED
      BY <2>1, <2>3, <3>2 DEF SignalsMeetTheirSession, Alone, Queued
  <2> QED
    BY <2>2, <2>3
<1>4. AskedInv => SessionsAskedFor
  BY DEF AskedInv, SessionsAskedFor
<1>5. OrderInv /\ AskedInv => SessionsInOrder
  BY <1>3, <1>4 DEF SessionsInOrder
<1> QED
  BY <1>1, <1>2, <1>5, PTL DEF BackendSpec

-----------------------------------------------------------------------------
(* Controller states, and the touch ids of fingers.                        *)
TouchIds == 0 .. IdCount - 1
PadStates == [buttons : SUBSET {"x", "touchpad"}, touches : [TouchSlots -> TouchIds \cup {-1}], next : TouchIds]
IsFollowing(t) == DOMAIN t \subseteq Fingers /\ t \in [DOMAIN t -> TouchIds \cup {-1}]

(* Fingers and touches of one source belong to each other, one to one.     *)
Matched(s, t) ==
  /\ \A f \in DOMAIN t : t[f] >= 0 /\ \E i \in TouchSlots : s.touches[i] = t[f]
  /\ \A i \in TouchSlots : s.touches[i] = -1 \/ \E f \in DOMAIN t : t[f] = s.touches[i]
  /\ \A f, g \in DOMAIN t : t[f] = t[g] => f = g
  /\ \A i, j \in TouchSlots : s.touches[i] = s.touches[j] /\ s.touches[i] >= 0 => i = j

LEMMA TouchIdsNat ==
  /\ -1 \notin TouchIds /\ TouchIds \subseteq Nat /\ TouchIds \cup {-1} \subseteq Int /\ 0 \in TouchIds
  /\ \A x \in TouchIds : x >= 0 /\ x # -1
  /\ \A x \in TouchIds \cup {-1} : x < 0 => x = -1
BY InputAssumption, SMT DEF TouchIds

LEMMA NoInputIdle == NoInput \in PadStates /\ Matched(NoInput, NoFingers) /\ IsFollowing(NoFingers)
BY TouchIdsNat DEF NoInput, PadStates, Matched, NoFingers, IsFollowing

LEMMA StartTyped ==
  ASSUME NEW s \in PadStates
  PROVE  /\ StartTouch(s) \in PadStates /\ StartTouch(s).buttons = s.buttons
         /\ StartedId(s) \in TouchIds \cup {-1}
         /\ FreeSlots(s) = {} => StartTouch(s) = s
         /\ FreeSlots(s) # {} => \E i \in TouchSlots :
              /\ s.touches[i] = -1
              /\ StartTouch(s).touches = [s.touches EXCEPT ![i] = s.next]
              /\ StartedId(s) = s.next
<1> USE TouchIdsNat
<1>1. CASE FreeSlots(s) = {}
  BY <1>1 DEF StartTouch, StartedId
<1>2. CASE FreeSlots(s) # {}
  <2> DEFINE i == CHOOSE j \in FreeSlots(s) : \A k \in FreeSlots(s) : j <= k
  <2>1. FreeSlots(s) \subseteq {1, 2}
    BY DEF FreeSlots, TouchSlots
  <2>2. \E j \in FreeSlots(s) : \A k \in FreeSlots(s) : j <= k
    BY <2>1, <1>2
  <2>3. i \in FreeSlots(s)
    BY <2>2
  <2>4. i \in TouchSlots /\ s.touches[i] = -1
    <3>1. i \in TouchSlots /\ s.touches[i] < 0 /\ s.touches[i] \in TouchIds \cup {-1}
      BY <2>3 DEF FreeSlots, PadStates
    <3> QED
      BY <3>1
  <2>5. StartTouch(s) = [s EXCEPT !.touches[i] = s.next, !.next = (s.next + 1) % IdCount]
    BY <1>2 DEF StartTouch
  <2>6. (s.next + 1) % IdCount \in TouchIds
    BY InputAssumption, SMT DEF PadStates, TouchIds
  <2> HIDE DEF i
  <2>7. /\ StartTouch(s) \in PadStates /\ StartTouch(s).buttons = s.buttons
        /\ StartTouch(s).touches = [s.touches EXCEPT ![i] = s.next]
    BY <2>4, <2>5, <2>6 DEF PadStates
  <2>8. StartedId(s) = s.next /\ s.next \in TouchIds
    BY <1>2 DEF StartedId, PadStates
  <2> QED
    BY <1>2, <2>4, <2>7, <2>8
<1> QED
  BY <1>1, <1>2

LEMMA StopTyped ==
  ASSUME NEW s \in PadStates, NEW id
  PROVE  /\ StopTouch(s, id) \in PadStates /\ StopTouch(s, id).buttons = s.buttons
         /\ (\A i \in TouchSlots : s.touches[i] # id) => StopTouch(s, id) = s
         /\ (\E i \in TouchSlots : s.touches[i] = id) => \E i \in TouchSlots :
              /\ s.touches[i] = id
              /\ StopTouch(s, id).touches = [s.touches EXCEPT ![i] = -1]
<1> USE TouchIdsNat
<1> DEFINE has == {i \in TouchSlots : s.touches[i] = id}
           i == CHOOSE j \in has : \A k \in has : j <= k
<1>1. CASE has = {}
  BY <1>1 DEF StopTouch
<1>2. CASE has # {}
  <2>1. has \subseteq {1, 2}
    BY DEF TouchSlots
  <2>2. \E j \in has : \A k \in has : j <= k
    BY <2>1, <1>2
  <2>3. i \in has
    BY <2>2
  <2>4. i \in TouchSlots /\ s.touches[i] = id
    BY <2>3
  <2>5. StopTouch(s, id) = [s EXCEPT !.touches[i] = -1]
    BY <1>2 DEF StopTouch
  <2> HIDE DEF i
  <2>7. /\ StopTouch(s, id) \in PadStates /\ StopTouch(s, id).buttons = s.buttons
        /\ StopTouch(s, id).touches = [s.touches EXCEPT ![i] = -1]
    BY <2>4, <2>5 DEF PadStates
  <2> QED
    BY <2>4, <2>7
<1> QED
  BY <1>1, <1>2

(* A finger that comes gets a slot of its own, unless the ids came round;  *)
(* one that goes leaves its slot free.                                     *)
LEMMA StartMatched ==
  ASSUME NEW s \in PadStates, NEW t, NEW f \in Fingers, IsFollowing(t), f \notin DOMAIN t,
         Matched(s, t), FreeSlots(s) # {}, ~Wraps(s)
  PROVE  Matched(StartTouch(s), Following(t, f, StartedId(s)))
<1> USE TouchIdsNat
<1>1. PICK i \in TouchSlots : /\ s.touches[i] = -1
                              /\ StartTouch(s).touches = [s.touches EXCEPT ![i] = s.next]
                              /\ StartedId(s) = s.next
  BY StartTyped
<1>2. \A j \in TouchSlots : s.touches[j] # s.next
  BY DEF Wraps
<1>3. s.next >= 0 /\ s.next # -1 /\ DOMAIN s.touches = TouchSlots
  <2>1. s.next \in TouchIds /\ DOMAIN s.touches = TouchSlots
    BY DEF PadStates
  <2> QED
    BY <2>1
<1> DEFINE u == Following(t, f, s.next)
           r == [s.touches EXCEPT ![i] = s.next]
<1>4. DOMAIN u = DOMAIN t \cup {f} /\ u[f] = s.next /\ \A g \in DOMAIN t : u[g] = t[g]
  BY DEF Following
<1>5. r[i] = s.next /\ \A j \in TouchSlots \ {i} : r[j] = s.touches[j]
  BY <1>3
<1> HIDE DEF u, r
<1>6. \A g \in DOMAIN u : u[g] >= 0 /\ \E j \in TouchSlots : r[j] = u[g]
  <2> TAKE g \in DOMAIN u
  <2>1. CASE g = f
    BY <2>1, <1>3, <1>4, <1>5
  <2>2. CASE g \in DOMAIN t
    <3>1. PICK j \in TouchSlots : s.touches[j] = t[g]
      BY <2>2 DEF Matched
    <3>2. j # i /\ t[g] >= 0
      BY <2>2, <3>1, <1>1 DEF Matched
    <3> QED
      BY <2>2, <3>1, <3>2, <1>4, <1>5
  <2> QED
    BY <2>1, <2>2, <1>4
<1>7. \A j \in TouchSlots : r[j] = -1 \/ \E g \in DOMAIN u : u[g] = r[j]
  BY <1>4, <1>5 DEF Matched
<1>8. \A g, h \in DOMAIN u : u[g] = u[h] => g = h
  BY <1>2, <1>4 DEF Matched
<1>9. \A j, k \in TouchSlots : r[j] = r[k] /\ r[j] >= 0 => j = k
  BY <1>2, <1>5 DEF Matched
<1> QED
  BY <1>1, <1>6, <1>7, <1>8, <1>9 DEF Matched, u, r

LEMMA StopMatched ==
  ASSUME NEW s \in PadStates, NEW t, NEW f \in DOMAIN t, IsFollowing(t), Matched(s, t)
  PROVE  Matched(StopTouch(s, t[f]), Without(t, f))
<1> USE TouchIdsNat
<1>1. \E i \in TouchSlots : s.touches[i] = t[f]
  BY DEF Matched
<1>2. PICK i \in TouchSlots : /\ s.touches[i] = t[f]
                              /\ StopTouch(s, t[f]).touches = [s.touches EXCEPT ![i] = -1]
  BY <1>1, StopTyped
<1>3. DOMAIN s.touches = TouchSlots /\ t[f] >= 0
  BY DEF PadStates, Matched
<1> DEFINE u == Without(t, f)
           r == [s.touches EXCEPT ![i] = -1]
<1>4. DOMAIN u = DOMAIN t \ {f} /\ \A g \in DOMAIN u : u[g] = t[g]
  BY DEF Without, Restrict
<1>5. r[i] = -1 /\ \A j \in TouchSlots \ {i} : r[j] = s.touches[j]
  BY <1>3
<1> HIDE DEF u, r
<1>6. \A g \in DOMAIN u : u[g] >= 0 /\ \E j \in TouchSlots : r[j] = u[g]
  <2> TAKE g \in DOMAIN u
  <2>1. PICK j \in TouchSlots : s.touches[j] = t[g]
    BY <1>4 DEF Matched
  <2>2. j # i /\ t[g] >= 0
    BY <2>1, <1>2, <1>4 DEF Matched
  <2> QED
    BY <2>1, <2>2, <1>4, <1>5
<1>7. \A j \in TouchSlots : r[j] = -1 \/ \E g \in DOMAIN u : u[g] = r[j]
  <2> TAKE j \in TouchSlots
  <2>1. CASE j = i
    BY <2>1, <1>5
  <2>2. CASE j # i /\ s.touches[j] # -1
    <3>1. PICK g \in DOMAIN t : t[g] = s.touches[j]
      BY <2>2 DEF Matched
    <3>2. g # f
      BY <3>1, <2>2, <1>2, <1>3 DEF Matched
    <3> QED
      BY <3>1, <3>2, <2>2, <1>4, <1>5
  <2> QED
    BY <2>1, <2>2, <1>5
<1>8. \A g, h \in DOMAIN u : u[g] = u[h] => g = h
  BY <1>4 DEF Matched
<1>9. \A j, k \in TouchSlots : r[j] = r[k] /\ r[j] >= 0 => j = k
  BY <1>5 DEF Matched
<1> QED
  BY <1>2, <1>6, <1>7, <1>8, <1>9 DEF Matched, u, r

(* As many fingers as touches.                                             *)
LEMMA MatchedCounts ==
  ASSUME NEW s \in PadStates, NEW t, IsFollowing(t), Matched(s, t)
  PROVE  /\ Range(t) = Range(s.touches) \ {-1}
         /\ Cardinality(DOMAIN t) = Cardinality({i \in TouchSlots : s.touches[i] >= 0})
<1> USE TouchIdsNat
<1> DEFINE full == {i \in TouchSlots : s.touches[i] >= 0}
           slot == [f \in DOMAIN t |-> CHOOSE i \in TouchSlots : s.touches[i] = t[f]]
<1>0. DOMAIN s.touches = TouchSlots /\ \A i \in TouchSlots : s.touches[i] \in Int
  BY DEF PadStates
<1>1. Range(t) = Range(s.touches) \ {-1}
  <2>1. ASSUME NEW x \in Range(t) PROVE x \in Range(s.touches) \ {-1}
    BY <2>1, <1>0 DEF Range, Matched
  <2>2. ASSUME NEW x \in Range(s.touches) \ {-1} PROVE x \in Range(t)
    BY <2>2, <1>0 DEF Range, Matched
  <2> QED
    BY <2>1, <2>2
<1>2. \A f \in DOMAIN t : slot[f] \in TouchSlots /\ s.touches[slot[f]] = t[f]
  BY DEF Matched
<1>3. DOMAIN slot = DOMAIN t
  OBVIOUS
<1>4. slot \in [DOMAIN t -> full]
  BY <1>2 DEF Matched
<1> HIDE DEF slot
<1>5. \A f, g \in DOMAIN t : slot[f] = slot[g] => f = g
  BY <1>2 DEF Matched
<1>6. \A i \in full : \E f \in DOMAIN t : slot[f] = i
  <2> TAKE i \in full
  <2>1. PICK f \in DOMAIN t : t[f] = s.touches[i]
    BY DEF Matched
  <2> QED
    BY <2>1, <1>2 DEF Matched
<1>7. slot \in Injection(DOMAIN t, full) /\ slot \in Surjection(DOMAIN t, full)
  BY <1>4, <1>5, <1>6 DEF Injection, Surjection, IsInjective
<1>8. IsFiniteSet(full)
  <2>1. IsFiniteSet({1}) /\ {1, 2} = {1} \cup {2}
    BY FS_Singleton
  <2>2. IsFiniteSet({1, 2})
    BY <2>1, FS_AddElement
  <2>3. full \subseteq {1, 2}
    BY DEF TouchSlots
  <2> QED
    BY <2>2, <2>3, FS_Subset
<1>9. Cardinality(DOMAIN t) = Cardinality(full)
  BY <1>7, <1>8, FS_Injection
<1> QED
  BY <1>1, <1>9
-----------------------------------------------------------------------------
(* What the states of the sources have to do with what is down: followed   *)
(* fingers, buttons, and the touch of the mouse.                           *)
InputTyped(states, follow, mouse) ==
  /\ states \in [Sources -> PadStates]
  /\ DOMAIN follow = TouchSources /\ \A src \in TouchSources : IsFollowing(follow[src])
  /\ mouse \in TouchIds \cup {-1}

FingersDown(follow, held) == \A src \in TouchSources : \A f \in DOMAIN follow[src] : <<src, f>> \in held

Holding(src, b) ==
  CASE src = "pad"      -> IF b = "x" THEN {"x"} ELSE {}
    [] src = "keyboard" -> IF b = "x" THEN {"x"} ELSE {"right"}
    [] src = "setsu"    -> IF b = "x" THEN {} ELSE {"click"}
    [] src = "screen"   -> IF b = "x" THEN {} ELSE Fingers
ButtonsDown(states, held) ==
  \A src \in Sources : \A b \in states[src].buttons : \E x \in Holding(src, b) : <<src, x>> \in held

MouseDown(keyboard, mouse, held) ==
  /\ \A i \in TouchSlots : keyboard.touches[i] = -1 \/ keyboard.touches[i] = mouse
  /\ keyboard.touches[1] = -1 \/ keyboard.touches[2] = -1
  /\ mouse >= 0 => <<"keyboard", "left">> \in held

Followed(states, follow, mouse, held, wrap, stick) ==
  /\ InputTyped(states, follow, mouse)
  /\ ~wrap => \A src \in TouchSources : Matched(states[src], follow[src])
  /\ FingersDown(follow, held)
  /\ ~stick => ButtonsDown(states, held)
  /\ MouseDown(states["keyboard"], mouse, held)

(* What was sent is the union of the sources, or nothing while blocked.    *)
SentIs == ~unsent => sent = Shown(NoInput) \/ sent = Shown(Merged(st, plugged))

InputInv == Followed(st, ids, mouse_touch_id, down, wrapped, stuck) /\ SentIs

LEMMA SourcesAre == /\ "pad" \in Sources /\ "screen" \in Sources /\ "setsu" \in Sources /\ "keyboard" \in Sources
                    /\ "pad" \in TouchSources /\ "screen" \in TouchSources /\ "setsu" \in TouchSources
                    /\ TouchSources \subseteq Sources /\ "keyboard" \notin TouchSources
BY DEF Sources, TouchSources

LEMMA InputStart == InputInit => InputInv
<1> SUFFICES ASSUME InputInit PROVE InputInv
  OBVIOUS
<1> USE DEF InputInit
<1>1. InputTyped(st, ids, mouse_touch_id)
  BY NoInputIdle, SourcesAre DEF InputTyped
<1>2. \A src \in TouchSources : Matched(st[src], ids[src])
  BY NoInputIdle, SourcesAre
<1>3. FingersDown(ids, down)
  BY DEF FingersDown, NoFingers
<1>4. ButtonsDown(st, down)
  BY DEF ButtonsDown, NoInput
<1>5. MouseDown(st["keyboard"], mouse_touch_id, down)
  BY SourcesAre DEF MouseDown, NoInput, TouchSlots
<1> QED
  BY <1>1, <1>2, <1>3, <1>4, <1>5 DEF InputInv, Followed, SentIs

(* Sending does not change that, and establishes what was sent.            *)
LEMMA SendFollowed ==
  ASSUME NEW states, NEW block, SendFeedbackState(states, plugged', block),
         Followed(states, ids', mouse_touch_id', down', wrapped', stuck')
  PROVE  InputInv'
<1>1. CASE st' = states /\ sent' = Shown(Merged(states, plugged'))
  BY <1>1 DEF InputInv, SentIs
<1>2. CASE st' = [states EXCEPT !["keyboard"] = NoInput] /\ sent' = Shown(NoInput)
  <2>1. states \in [Sources -> PadStates]
    BY DEF Followed, InputTyped
  <2>2. /\ st' \in [Sources -> PadStates] /\ st'["keyboard"] = NoInput
        /\ \A src \in Sources : src # "keyboard" => st'[src] = states[src]
    BY <1>2, <2>1, NoInputIdle, SourcesAre
  <2>3. InputTyped(st', ids', mouse_touch_id')
    BY <2>2 DEF Followed, InputTyped
  <2>4. ~wrapped' => \A src \in TouchSources : Matched(st'[src], ids'[src])
    BY <2>2, SourcesAre DEF Followed
  <2>5. ~stuck' => ButtonsDown(st', down')
    BY <2>2 DEF Followed, ButtonsDown, NoInput
  <2>6. MouseDown(st'["keyboard"], mouse_touch_id', down')
    BY <2>2 DEF Followed, MouseDown, NoInput, TouchSlots
  <2> QED
    BY <1>2, <2>3, <2>4, <2>5, <2>6 DEF InputInv, SentIs, Followed
<1> QED
  BY <1>1, <1>2 DEF SendFeedbackState

(* A step of one source leaves the others as they are.                     *)
LEMMA SourceFollowed ==
  ASSUME InputInv, NEW src \in Sources, NEW s \in PadStates,
         NEW follow, NEW mouse, NEW held, NEW wrap, NEW stick,
         DOMAIN follow = TouchSources, \A x \in TouchSources : IsFollowing(follow[x]),
         mouse \in TouchIds \cup {-1},
         \A x \in TouchSources : x # src => follow[x] = ids[x],
         \A y \in Sources : \A x : y # src /\ <<y, x>> \in down => <<y, x>> \in held,
         wrapped => wrap, stuck => stick,
         src \in TouchSources => /\ ~wrap => Matched(s, follow[src])
                                 /\ \A f \in DOMAIN follow[src] : <<src, f>> \in held
                                 /\ mouse = mouse_touch_id,
         ~stick => \A b \in s.buttons : \E x \in Holding(src, b) : <<src, x>> \in held,
         src = "keyboard" => MouseDown(s, mouse, held)
  PROVE  Followed(With(src, s), follow, mouse, held, wrap, stick)
<1> DEFINE states == With(src, s)
<1>1. /\ st \in [Sources -> PadStates] /\ Followed(st, ids, mouse_touch_id, down, wrapped, stuck)
      /\ src \in TouchSources \/ src = "keyboard"
  BY DEF InputInv, Followed, InputTyped, Sources
<1>2. /\ states \in [Sources -> PadStates] /\ states[src] = s
      /\ \A x \in Sources : x # src => states[x] = st[x]
  BY <1>1 DEF With
<1> HIDE DEF states
<1>3. InputTyped(states, follow, mouse)
  BY <1>2 DEF InputTyped
<1>4. ASSUME ~wrap, NEW x \in TouchSources PROVE Matched(states[x], follow[x])
  BY <1>1, <1>2, <1>4, SourcesAre DEF Followed
<1>5. FingersDown(follow, held)
  BY <1>1, SourcesAre DEF Followed, FingersDown
<1>6. ASSUME ~stick PROVE ButtonsDown(states, held)
  BY <1>1, <1>2, <1>6 DEF Followed, ButtonsDown
<1>7. MouseDown(states["keyboard"], mouse, held)
  <2>1. CASE src = "keyboard"
    BY <1>2, <2>1
  <2>2. CASE src \in TouchSources
    <3>0. src # "keyboard" /\ mouse = mouse_touch_id
      BY <2>2, SourcesAre
    <3>1. states["keyboard"] = st["keyboard"]
      BY <1>2, <3>0, SourcesAre
    <3>2. <<"keyboard", "left">> \in down => <<"keyboard", "left">> \in held
      BY <2>2, SourcesAre
    <3>3. MouseDown(st["keyboard"], mouse_touch_id, down)
      BY <1>1 DEF Followed
    <3> QED
      BY <3>0, <3>1, <3>2, <3>3 DEF MouseDown
  <2> QED
    BY <1>1, <2>1, <2>2
<1> QED
  BY <1>3, <1>4, <1>5, <1>6, <1>7 DEF Followed, states

LEMMA Unchanged ==
  ASSUME InputInv
  PROVE  \A src \in Sources : /\ With(src, st[src]) = st /\ st[src] \in PadStates
                              /\ src \in TouchSources => IsFollowing(ids[src])
BY DEF InputInv, Followed, InputTyped, With

(* What is sent without any source having changed.                         *)
LEMMA SendsOnly ==
  ASSUME InputInv, NEW block, SendFeedbackState(st, plugged', block), UNCHANGED <<ids, mouse_touch_id, wrapped>>,
         \A d \in down : d \in down', stuck => stuck'
  PROVE  InputInv'
<1>1. Followed(st, ids', mouse_touch_id', down', wrapped', stuck')
  BY DEF InputInv, Followed, FingersDown, ButtonsDown, MouseDown
<1> QED
  BY <1>1, SendFollowed

LEMMA ButtonPressed ==
  ASSUME InputInv, NEW src \in Sources, NEW b \in {"x", "touchpad"}, NEW x \in Holding(src, b),
         Sends(Pressed(src, b)), down' = down \cup {<<src, x>>},
         UNCHANGED <<ids, mouse_touch_id, plugged, wrapped, stuck>>
  PROVE  InputInv'
<1> DEFINE s == [st[src] EXCEPT !.buttons = @ \cup {b}]
<1>1. s \in PadStates /\ s.touches = st[src].touches /\ s.buttons = st[src].buttons \cup {b}
  BY Unchanged DEF PadStates
<1> HIDE DEF s
<1>2. Followed(st, ids, mouse_touch_id, down, wrapped, stuck)
  BY DEF InputInv
<1>3. InputTyped(st, ids, mouse_touch_id)
  BY <1>2 DEF Followed
<1>4. src \in TouchSources => /\ ~wrapped' => Matched(s, ids'[src])
                              /\ \A f \in DOMAIN ids'[src] : <<src, f>> \in down'
  BY <1>1, <1>2 DEF Followed, Matched, FingersDown
<1>5. ASSUME ~stuck', NEW c \in s.buttons PROVE \E y \in Holding(src, c) : <<src, y>> \in down'
  BY <1>1, <1>2, <1>5 DEF Followed, ButtonsDown
<1>6. src = "keyboard" => MouseDown(s, mouse_touch_id', down')
  BY <1>1, <1>2 DEF Followed, MouseDown
<1>7. DOMAIN ids' = TouchSources /\ (\A y \in TouchSources : IsFollowing(ids'[y])) /\ mouse_touch_id' \in TouchIds \cup {-1}
  BY <1>3 DEF InputTyped
<1>8. Followed(With(src, s), ids', mouse_touch_id', down', wrapped', stuck')
  BY <1>1, <1>4, <1>5, <1>6, <1>7, SourceFollowed
<1>9. SendFeedbackState(With(src, s), plugged', input_block)
  BY DEF Sends, Pressed, s
<1> QED
  BY <1>8, <1>9, SendFollowed

LEMMA ButtonReleased ==
  ASSUME InputInv, NEW src \in Sources, NEW b \in {"x", "touchpad"}, NEW x,
         Sends(Released(src, b)), down' = down \ {<<src, x>>},
         \A c \in {"x", "touchpad"} : c # b => x \notin Holding(src, c),
         src \in TouchSources => x \notin Fingers,
         src = "keyboard" => x # "left",
         UNCHANGED <<ids, mouse_touch_id, plugged, wrapped, stuck>>
  PROVE  InputInv'
<1> DEFINE s == [st[src] EXCEPT !.buttons = @ \ {b}]
<1>1. s \in PadStates /\ s.touches = st[src].touches /\ s.buttons = st[src].buttons \ {b}
  BY Unchanged DEF PadStates
<1> HIDE DEF s
<1>2. Followed(st, ids, mouse_touch_id, down, wrapped, stuck)
  BY DEF InputInv
<1>3. InputTyped(st, ids, mouse_touch_id)
  BY <1>2 DEF Followed
<1>4. src \in TouchSources => /\ ~wrapped' => Matched(s, ids'[src])
                              /\ \A f \in DOMAIN ids'[src] : <<src, f>> \in down'
  <2> SUFFICES ASSUME src \in TouchSources PROVE /\ ~wrapped' => Matched(s, ids'[src])
                                                 /\ \A f \in DOMAIN ids'[src] : <<src, f>> \in down'
    OBVIOUS
  <2>1. ~wrapped' => Matched(s, ids'[src])
    BY <1>1, <1>2 DEF Followed, Matched
  <2>2. ASSUME NEW f \in DOMAIN ids[src] PROVE <<src, f>> \in down'
    <3>1. f \in Fingers /\ <<src, f>> \in down
      BY <1>2, <1>3, <2>2 DEF Followed, FingersDown, InputTyped, IsFollowing
    <3> QED
      BY <3>1
  <2> QED
    BY <2>1, <2>2
<1>5. ASSUME ~stuck', NEW c \in s.buttons PROVE \E y \in Holding(src, c) : <<src, y>> \in down'
  <2>1. c \in st[src].buttons /\ c # b /\ c \in {"x", "touchpad"}
    BY <1>1, <1>5 DEF PadStates
  <2>2. PICK y \in Holding(src, c) : <<src, y>> \in down
    BY <1>2, <1>5, <2>1 DEF Followed, ButtonsDown
  <2> QED
    BY <2>1, <2>2
<1>6. src = "keyboard" => MouseDown(s, mouse_touch_id', down')
  BY <1>1, <1>2 DEF Followed, MouseDown
<1>7. DOMAIN ids' = TouchSources /\ (\A y \in TouchSources : IsFollowing(ids'[y])) /\ mouse_touch_id' \in TouchIds \cup {-1}
  BY <1>3 DEF InputTyped
<1>8. Followed(With(src, s), ids', mouse_touch_id', down', wrapped', stuck')
  BY <1>1, <1>4, <1>5, <1>6, <1>7, SourceFollowed
<1>9. SendFeedbackState(With(src, s), plugged', input_block)
  BY DEF Sends, Released, s
<1> QED
  BY <1>8, <1>9, SendFollowed

(* A touch begins, goes on, or ends, at a source with state s by then.     *)
LEMMA TouchBegins ==
  ASSUME InputInv, NEW src \in TouchSources, NEW s \in PadStates, NEW f \in Fingers,
         s.touches = st[src].touches, f \notin DOMAIN ids[src], FreeSlots(s) # {} \/ wrapped,
         ~stuck' => \A b \in s.buttons : \E x \in Holding(src, b) : <<src, x>> \in down',
         ids' = [ids EXCEPT ![src] = Following(@, f, StartedId(s))],
         wrapped' = (wrapped \/ Wraps(s)),
         Sends(With(src, StartTouch(s))),
         \A d \in down : d \in down', <<src, f>> \in down',
         UNCHANGED <<mouse_touch_id, plugged, stuck>>
  PROVE  InputInv'
<1> DEFINE r == StartTouch(s)
<1>1. r \in PadStates /\ r.buttons = s.buttons /\ StartedId(s) \in TouchIds \cup {-1}
  BY StartTyped
<1>2. Followed(st, ids, mouse_touch_id, down, wrapped, stuck) /\ InputTyped(st, ids, mouse_touch_id)
  BY DEF InputInv, Followed
<1>3. IsFollowing(ids[src])
  BY <1>2 DEF InputTyped
<1>4. ASSUME ~wrapped' PROVE Matched(r, Following(ids[src], f, StartedId(s)))
  <2>1. ~wrapped /\ ~Wraps(s)
    BY <1>4, Zenon
  <2>2. Matched(s, ids[src])
    BY <1>2, <2>1 DEF Followed, Matched
  <2> QED
    BY <2>1, <2>2, <1>3, StartMatched
<1>5. /\ IsFollowing(Following(ids[src], f, StartedId(s)))
      /\ DOMAIN Following(ids[src], f, StartedId(s)) = DOMAIN ids[src] \cup {f}
  BY <1>1, <1>3 DEF IsFollowing, Following
<1>6. /\ DOMAIN ids = TouchSources /\ \A x \in TouchSources : IsFollowing(ids[x])
      /\ mouse_touch_id \in TouchIds \cup {-1}
  BY <1>2 DEF InputTyped
<1>7. /\ DOMAIN ids' = TouchSources /\ ids'[src] = Following(ids[src], f, StartedId(s))
      /\ \A x \in TouchSources : x # src => ids'[x] = ids[x]
  BY <1>6
<1>8. \A x \in TouchSources : IsFollowing(ids'[x])
  BY <1>5, <1>6, <1>7
<1>9. \A g \in DOMAIN ids'[src] : <<src, g>> \in down'
  BY <1>2, <1>5, <1>7 DEF Followed, FingersDown
<1>10. src \in Sources /\ src # "keyboard"
  BY SourcesAre
<1>11. wrapped => wrapped'
  BY Zenon
<1> HIDE DEF r
<1>12. Followed(With(src, r), ids', mouse_touch_id', down', wrapped', stuck')
  BY <1>1, <1>4, <1>6, <1>7, <1>8, <1>9, <1>10, <1>11, SourceFollowed
<1>13. SendFeedbackState(With(src, r), plugged', input_block)
  BY DEF Sends, r
<1> QED
  BY <1>12, <1>13, SendFollowed

LEMMA TouchGoesOn ==
  ASSUME InputInv, NEW src \in TouchSources, NEW s \in PadStates,
         s.touches = st[src].touches,
         ~stuck' => \A b \in s.buttons : \E x \in Holding(src, b) : <<src, x>> \in down',
         Sends(With(src, s)),
         \A y \in Sources : \A x : y # src /\ <<y, x>> \in down => <<y, x>> \in down',
         \A g \in DOMAIN ids[src] : <<src, g>> \in down',
         UNCHANGED <<ids, mouse_touch_id, plugged, wrapped, stuck>>
  PROVE  InputInv'
<1>2. Followed(st, ids, mouse_touch_id, down, wrapped, stuck) /\ InputTyped(st, ids, mouse_touch_id)
  BY DEF InputInv, Followed
<1>4. ~wrapped' => Matched(s, ids'[src])
  BY <1>2 DEF Followed, Matched
<1>6. /\ DOMAIN ids' = TouchSources /\ \A x \in TouchSources : IsFollowing(ids'[x])
      /\ mouse_touch_id' \in TouchIds \cup {-1}
  BY <1>2 DEF InputTyped
<1>10. src \in Sources /\ src # "keyboard"
  BY SourcesAre
<1>12. Followed(With(src, s), ids', mouse_touch_id', down', wrapped', stuck')
  BY <1>4, <1>6, <1>10, SourceFollowed
<1>13. SendFeedbackState(With(src, s), plugged', input_block)
  BY DEF Sends
<1> QED
  BY <1>12, <1>13, SendFollowed

LEMMA TouchEnds ==
  ASSUME InputInv, NEW src \in TouchSources, NEW s \in PadStates, NEW f \in DOMAIN ids[src],
         s.touches = st[src].touches,
         ~stuck' => \A b \in s.buttons : \E x \in Holding(src, b) : <<src, x>> \in down',
         ids' = [ids EXCEPT ![src] = Without(@, f)],
         Sends(With(src, StopTouch(s, ids[src][f]))),
         down' = down \ {<<src, f>>},
         UNCHANGED <<mouse_touch_id, plugged, wrapped, stuck>>
  PROVE  InputInv'
<1> DEFINE r == StopTouch(s, ids[src][f])
<1>1. r \in PadStates /\ r.buttons = s.buttons
  BY StopTyped
<1>2. Followed(st, ids, mouse_touch_id, down, wrapped, stuck) /\ InputTyped(st, ids, mouse_touch_id)
  BY DEF InputInv, Followed
<1>3. IsFollowing(ids[src])
  BY <1>2 DEF InputTyped
<1>4. ASSUME ~wrapped' PROVE Matched(r, Without(ids[src], f))
  <2>2. Matched(s, ids[src])
    BY <1>2, <1>4 DEF Followed, Matched
  <2> QED
    BY <2>2, <1>3, StopMatched
<1>5. /\ IsFollowing(Without(ids[src], f))
      /\ DOMAIN Without(ids[src], f) = DOMAIN ids[src] \ {f}
  BY <1>3 DEF IsFollowing, Without, Restrict
<1>6. /\ DOMAIN ids = TouchSources /\ \A x \in TouchSources : IsFollowing(ids[x])
      /\ mouse_touch_id \in TouchIds \cup {-1}
  BY <1>2 DEF InputTyped
<1>7. /\ DOMAIN ids' = TouchSources /\ ids'[src] = Without(ids[src], f)
      /\ \A x \in TouchSources : x # src => ids'[x] = ids[x]
  BY <1>6
<1>8. \A x \in TouchSources : IsFollowing(ids'[x])
  BY <1>5, <1>6, <1>7
<1>9. \A g \in DOMAIN ids'[src] : <<src, g>> \in down'
  BY <1>2, <1>5, <1>7 DEF Followed, FingersDown
<1>10. src \in Sources /\ src # "keyboard"
  BY SourcesAre
<1>11. \A y \in Sources : \A x : y # src /\ <<y, x>> \in down => <<y, x>> \in down'
  OBVIOUS
<1> HIDE DEF r
<1>12. Followed(With(src, r), ids', mouse_touch_id', down', wrapped', stuck')
  BY <1>1, <1>4, <1>6, <1>7, <1>8, <1>9, <1>10, <1>11, SourceFollowed
<1>13. SendFeedbackState(With(src, r), plugged', input_block)
  BY DEF Sends, r
<1> QED
  BY <1>12, <1>13, SendFollowed

(* A source that goes, or is new: no touches, no fingers.                  *)
LEMMA SourceReset ==
  ASSUME InputInv, NEW src \in TouchSources, NEW s \in PadStates, NEW block,
         ~wrapped => \A i \in TouchSlots : s.touches[i] = -1,
         ~stuck' => s.buttons = {},
         ids' = [ids EXCEPT ![src] = NoFingers],
         SendFeedbackState(With(src, s), plugged', block),
         down' = {d \in down : d[1] # src},
         stuck => stuck',
         UNCHANGED <<mouse_touch_id, wrapped>>
  PROVE  InputInv'
<1>1. Followed(st, ids, mouse_touch_id, down, wrapped, stuck) /\ InputTyped(st, ids, mouse_touch_id)
  BY DEF InputInv, Followed
<1>2. (~wrapped => Matched(s, NoFingers)) /\ IsFollowing(NoFingers) /\ DOMAIN NoFingers = {}
  BY NoInputIdle, TouchIdsNat DEF Matched, NoFingers
<1>3. /\ DOMAIN ids = TouchSources /\ \A x \in TouchSources : IsFollowing(ids[x])
      /\ mouse_touch_id \in TouchIds \cup {-1}
  BY <1>1 DEF InputTyped
<1>4. /\ DOMAIN ids' = TouchSources /\ ids'[src] = NoFingers
      /\ \A x \in TouchSources : x # src => ids'[x] = ids[x]
  BY <1>3
<1>5. \A x \in TouchSources : IsFollowing(ids'[x])
  BY <1>2, <1>3, <1>4
<1>6. \A y \in Sources : \A x : y # src /\ <<y, x>> \in down => <<y, x>> \in down'
  OBVIOUS
<1>7. src \in Sources /\ src # "keyboard"
  BY SourcesAre
<1>8. Followed(With(src, s), ids', mouse_touch_id', down', wrapped', stuck')
  BY <1>2, <1>3, <1>4, <1>5, <1>6, <1>7, SourceFollowed
<1> QED
  BY <1>8, SendFollowed

(* The mouse has one touch at most, while its left button is down.         *)
LEMMA MouseStarts == InputInv /\ MouseMove => InputInv'
<1> SUFFICES ASSUME InputInv, MouseMove PROVE InputInv'
  OBVIOUS
<1> USE DEF MouseMove
<1> DEFINE k == st["keyboard"]
           r == StartTouch(k)
<1>1. Followed(st, ids, mouse_touch_id, down, wrapped, stuck) /\ InputTyped(st, ids, mouse_touch_id)
  BY DEF InputInv, Followed
<1>2. k \in PadStates /\ mouse_touch_id = -1
  BY <1>1, SourcesAre, TouchIdsNat DEF InputTyped
<1>3. \A i \in TouchSlots : k.touches[i] = -1
  BY <1>1, <1>2 DEF Followed, MouseDown
<1>4. FreeSlots(k) # {}
  BY <1>3 DEF FreeSlots, TouchSlots
<1>5. PICK i \in TouchSlots : r.touches = [k.touches EXCEPT ![i] = k.next] /\ StartedId(k) = k.next
  BY <1>2, <1>4, StartTyped
<1>6. r \in PadStates /\ r.buttons = k.buttons /\ k.next \in TouchIds /\ DOMAIN k.touches = TouchSlots
  BY <1>2, StartTyped DEF PadStates
<1> HIDE DEF r, k
<1>7. MouseDown(r, mouse_touch_id', down')
  BY <1>3, <1>5, <1>6 DEF MouseDown, TouchSlots, k
<1>8. /\ DOMAIN ids' = TouchSources /\ \A x \in TouchSources : IsFollowing(ids'[x])
      /\ mouse_touch_id' \in TouchIds \cup {-1}
  BY <1>1, <1>5, <1>6 DEF InputTyped, k
<1>9. ASSUME ~stuck', NEW b \in r.buttons PROVE \E x \in Holding("keyboard", b) : <<"keyboard", x>> \in down'
  BY <1>1, <1>6, <1>9, SourcesAre DEF Followed, ButtonsDown, k
<1>10. wrapped => wrapped'
  BY Zenon
<1>11. Followed(With("keyboard", r), ids', mouse_touch_id', down', wrapped', stuck')
  BY <1>6, <1>7, <1>8, <1>9, <1>10, SourcesAre, SourceFollowed
<1>12. SendFeedbackState(With("keyboard", r), plugged', input_block)
  BY DEF Sends, r, k
<1> QED
  BY <1>11, <1>12, SendFollowed

LEMMA MouseStops ==
  ASSUME InputInv, LetGo("keyboard", "left"), mouse_touch_id' = -1,
         NEW s, s = IF mouse_touch_id >= 0 THEN StopTouch(st["keyboard"], mouse_touch_id) ELSE st["keyboard"],
         Sends(With("keyboard", [s EXCEPT !.buttons = @ \ {"touchpad"}])),
         UNCHANGED <<ids, plugged, wrapped, stuck>>
  PROVE  InputInv'
<1> DEFINE k == st["keyboard"]
           r == [s EXCEPT !.buttons = @ \ {"touchpad"}]
<1>1. Followed(st, ids, mouse_touch_id, down, wrapped, stuck) /\ InputTyped(st, ids, mouse_touch_id)
  BY DEF InputInv, Followed
<1>2. k \in PadStates /\ mouse_touch_id \in TouchIds \cup {-1}
  BY <1>1, SourcesAre DEF InputTyped
<1>3. s \in PadStates /\ s.buttons = k.buttons
  BY <1>2, StopTyped
<1>4. MouseDown(k, mouse_touch_id, down) /\ DOMAIN k.touches = TouchSlots
  BY <1>1, <1>2 DEF Followed, PadStates
<1>5. \A i \in TouchSlots : s.touches[i] = -1
  <2>1. CASE mouse_touch_id = -1
    BY <2>1, <1>4 DEF MouseDown
  <2>2. CASE mouse_touch_id \in TouchIds /\ \A i \in TouchSlots : k.touches[i] # mouse_touch_id
    <3>1. mouse_touch_id >= 0
      BY <2>2, TouchIdsNat
    <3>2. s = k
      BY <3>1, <2>2, <1>2, StopTyped
    <3> QED
      BY <3>2, <2>2, <1>4 DEF MouseDown
  <2>3. CASE mouse_touch_id \in TouchIds /\ \E i \in TouchSlots : k.touches[i] = mouse_touch_id
    <3>1. mouse_touch_id >= 0 /\ mouse_touch_id # -1
      BY <2>3, TouchIdsNat
    <3>0. s = StopTouch(k, mouse_touch_id)
      BY <3>1
    <3>2. PICK i \in TouchSlots : k.touches[i] = mouse_touch_id /\ s.touches = [k.touches EXCEPT ![i] = -1]
      <4> HIDE DEF k
      <4>1. \E j \in TouchSlots : /\ k.touches[j] = mouse_touch_id
                                  /\ StopTouch(k, mouse_touch_id).touches = [k.touches EXCEPT ![j] = -1]
        BY <2>3, <1>2, StopTyped
      <4> QED
        BY <3>0, <4>1, Zenon
    <3>3. \A j \in TouchSlots : j # i => k.touches[j] = -1
      <4>1. k.touches[1] = -1 \/ k.touches[2] = -1
        BY <1>4 DEF MouseDown
      <4>2. TouchSlots = {1, 2} /\ k.touches[i] # -1
        BY <3>1, <3>2 DEF TouchSlots
      <4> HIDE DEF k
      <4> QED
        BY <4>1, <4>2
    <3> QED
      BY <3>2, <3>3, <1>4
  <2> QED
    BY <1>2, <2>1, <2>2, <2>3
<1>6. r \in PadStates /\ r.touches = s.touches /\ r.buttons = k.buttons \ {"touchpad"}
  BY <1>3 DEF PadStates
<1>7. down' = down \ {<<"keyboard", "left">>}
  BY DEF LetGo
<1> HIDE DEF r, k
<1>8. MouseDown(r, mouse_touch_id', down')
  BY <1>5, <1>6 DEF MouseDown, TouchSlots
<1>9. ASSUME ~stuck', NEW b \in r.buttons PROVE \E x \in Holding("keyboard", b) : <<"keyboard", x>> \in down'
  <2>1. b \in k.buttons /\ b = "x"
    BY <1>6 DEF PadStates
  <2>2. Holding("keyboard", b) = {"x"}
    BY <2>1 DEF Holding
  <2>3. <<"keyboard", "x">> \in down
    BY <1>1, <1>9, <2>1, <2>2, SourcesAre DEF Followed, ButtonsDown, k
  <2> QED
    BY <2>2, <2>3, <1>7
<1>10. DOMAIN ids' = TouchSources /\ \A x \in TouchSources : IsFollowing(ids'[x])
  BY <1>1 DEF InputTyped
<1>11. Followed(With("keyboard", r), ids', mouse_touch_id', down', wrapped', stuck')
  BY <1>6, <1>7, <1>8, <1>9, <1>10, SourcesAre, SourceFollowed
<1>12. SendFeedbackState(With("keyboard", r), plugged', input_block)
  BY DEF Sends, r
<1> QED
  BY <1>11, <1>12, SendFollowed

LEMMA PadTouchFollowed == ASSUME InputInv, NEW f \in Fingers, PadTouch(f) PROVE InputInv'
<1> DEFINE s == st["pad"]
<1>1. Followed(st, ids, mouse_touch_id, down, wrapped, stuck) /\ InputTyped(st, ids, mouse_touch_id)
  BY DEF InputInv, Followed
<1>2. s \in PadStates /\ IsFollowing(ids["pad"]) /\ DOMAIN ids = TouchSources
  BY <1>1, SourcesAre DEF InputTyped
<1>3. ~stuck => \A b \in s.buttons : b = "x" /\ <<"pad", "x">> \in down
  BY <1>1, SourcesAre DEF Followed, ButtonsDown, Holding
<1>4. "x" \notin Fingers
  BY InputAssumption
<1>5. ~stuck /\ (<<"pad", "x">> \in down => <<"pad", "x">> \in down')
      => \A b \in s.buttons : \E x \in Holding("pad", b) : <<"pad", x>> \in down'
  BY <1>3 DEF Holding
<1>6. UNCHANGED <<mouse_touch_id, plugged, stuck>>
  BY DEF PadTouch
<1>7. \A g \in DOMAIN ids["pad"] : <<"pad", g>> \in down
  BY <1>1, SourcesAre DEF Followed, FingersDown
<1> HIDE DEF s
<1>8. CASE /\ Down("pad", f) /\ Cardinality(DOMAIN ids["pad"]) >= Cardinality(TouchSlots)
           /\ UNCHANGED <<st, ids, sent, input_block, wrapped, unsent>>
  <2>1. \A d \in down : d \in down'
    BY <1>8 DEF Down
  <2>2. Followed(st', ids', mouse_touch_id', down', wrapped', stuck')
    BY <1>1, <1>6, <1>8, <2>1 DEF Followed, FingersDown, ButtonsDown, MouseDown
  <2> QED
    BY <1>6, <1>8, <2>2 DEF InputInv, SentIs
<1>9. CASE /\ Down("pad", f) /\ ~(Cardinality(DOMAIN ids["pad"]) >= Cardinality(TouchSlots))
           /\ ids' = [ids EXCEPT !["pad"] = Following(@, f, StartedId(s))]
           /\ wrapped' = (wrapped \/ Wraps(s))
           /\ Sends(With("pad", StartTouch(s)))
  <2>1. (\A d \in down : d \in down') /\ <<"pad", f>> \in down' /\ <<"pad", f>> \notin down
    BY <1>9 DEF Down
  <2>2. f \notin DOMAIN ids["pad"]
    BY <1>7, <2>1
  <2>3. ASSUME ~wrapped, FreeSlots(s) = {} PROVE FALSE
    <3>1. Matched(s, ids["pad"])
      BY <1>1, <2>3, SourcesAre DEF Followed, s
    <3>2. {i \in TouchSlots : s.touches[i] >= 0} = TouchSlots
      <4>1. ASSUME NEW i \in TouchSlots PROVE s.touches[i] >= 0
        <5>1. ~(s.touches[i] < 0) /\ s.touches[i] \in Int
          BY <2>3, <1>2, TouchIdsNat DEF FreeSlots, PadStates
        <5> QED
          BY <5>1
      <4> QED
        BY <4>1
    <3>3. Cardinality(DOMAIN ids["pad"]) = Cardinality(TouchSlots)
      BY <3>1, <3>2, <1>2, MatchedCounts
    <3>4. Cardinality(TouchSlots) \in Nat
      <4>1. IsFiniteSet({1}) /\ TouchSlots = {1} \cup {2}
        BY FS_Singleton DEF TouchSlots
      <4> QED
        BY <4>1, FS_AddElement, FS_CardinalityType
    <3> QED
      BY <3>3, <3>4, <1>9
  <2>4. ~stuck' => \A b \in s.buttons : \E x \in Holding("pad", b) : <<"pad", x>> \in down'
    BY <1>5, <1>6, <2>1
  <2>5. FreeSlots(s) # {} \/ wrapped
    BY <2>3
  <2>6. s.touches = st["pad"].touches
    BY DEF s
  <2> QED
    BY <1>2, <1>6, <1>9, <2>1, <2>2, <2>4, <2>5, <2>6, SourcesAre, TouchBegins
<1>10. CASE /\ LetGo("pad", f) /\ f \notin DOMAIN ids["pad"] /\ UNCHANGED wrapped
            /\ UNCHANGED <<st, ids, sent, input_block, unsent>>
  <2>1. down' = down \ {<<"pad", f>>}
    BY <1>10 DEF LetGo
  <2>2. FingersDown(ids', down')
    BY <1>1, <1>10, <2>1 DEF Followed, FingersDown
  <2>3. ASSUME ~stuck' PROVE ButtonsDown(st', down')
    <3> SUFFICES ASSUME NEW src \in Sources, NEW b \in st[src].buttons
                 PROVE  \E x \in Holding(src, b) : <<src, x>> \in down'
      BY <1>10 DEF ButtonsDown
    <3>1. ~stuck /\ (src = "pad" => b = "x")
      BY <1>3, <1>6, <2>3 DEF s
    <3>2. PICK x \in Holding(src, b) : <<src, x>> \in down
      BY <3>1, <1>1 DEF Followed, ButtonsDown
    <3>3. src = "pad" => x = "x"
      BY <3>1, <3>2 DEF Holding
    <3> QED
      BY <3>2, <3>3, <1>4, <2>1
  <2>4. MouseDown(st'["keyboard"], mouse_touch_id', down')
    BY <1>1, <1>6, <1>10, <2>1 DEF Followed, MouseDown
  <2>5. Followed(st', ids', mouse_touch_id', down', wrapped', stuck')
    BY <1>1, <1>6, <1>10, <2>2, <2>3, <2>4 DEF Followed
  <2> QED
    BY <1>6, <1>10, <2>5 DEF InputInv, SentIs
<1>11. CASE /\ LetGo("pad", f) /\ f \in DOMAIN ids["pad"] /\ UNCHANGED wrapped
            /\ ids' = [ids EXCEPT !["pad"] = Without(@, f)]
            /\ Sends(With("pad", StopTouch(s, ids["pad"][f])))
  <2>1. down' = down \ {<<"pad", f>>}
    BY <1>11 DEF LetGo
  <2>2. ~stuck' => \A b \in s.buttons : \E x \in Holding("pad", b) : <<"pad", x>> \in down'
    BY <1>4, <1>5, <1>6, <2>1
  <2>6. s.touches = st["pad"].touches
    BY DEF s
  <2> QED
    BY <1>2, <1>6, <1>11, <2>1, <2>2, <2>6, SourcesAre, TouchEnds
<1>12. CASE /\ StillHeld("pad", f) /\ f \in DOMAIN ids["pad"] /\ UNCHANGED <<ids, wrapped>>
            /\ Sends(With("pad", SetTouchPos(s)))
  <2>1. With("pad", SetTouchPos(s)) = st /\ UNCHANGED down
    BY <1>12, SourcesAre, Unchanged DEF SetTouchPos, StillHeld, s
  <2> QED
    BY <1>6, <1>12, <2>1, SendsOnly DEF Sends
<1> QED
  BY <1>8, <1>9, <1>10, <1>11, <1>12 DEF PadTouch, s

(* Something let go that neither a button nor a finger followed depends on.*)
LEMMA LetGoOnly ==
  ASSUME InputInv, NEW src \in TouchSources, NEW x, x \notin Fingers,
         ~stuck' => \A b \in st[src].buttons : x \notin Holding(src, b),
         Sends(st), down' = down \ {<<src, x>>}, stuck => stuck',
         UNCHANGED <<ids, mouse_touch_id, plugged, wrapped>>
  PROVE  InputInv'
<1>1. Followed(st, ids, mouse_touch_id, down, wrapped, stuck) /\ InputTyped(st, ids, mouse_touch_id)
  BY DEF InputInv, Followed
<1>2. FingersDown(ids', down')
  <2> SUFFICES ASSUME NEW y \in TouchSources, NEW f \in DOMAIN ids[y] PROVE <<y, f>> \in down'
    BY DEF FingersDown
  <2>1. f \in Fingers /\ <<y, f>> \in down
    BY <1>1 DEF Followed, FingersDown, InputTyped, IsFollowing
  <2> QED
    BY <2>1
<1>3. ASSUME ~stuck' PROVE ButtonsDown(st, down')
  <2> SUFFICES ASSUME NEW y \in Sources, NEW b \in st[y].buttons PROVE \E z \in Holding(y, b) : <<y, z>> \in down'
    BY DEF ButtonsDown
  <2>1. PICK z \in Holding(y, b) : <<y, z>> \in down
    BY <1>1, <1>3 DEF Followed, ButtonsDown
  <2>2. y = src => z # x
    BY <1>3, <2>1
  <2> QED
    BY <2>1, <2>2
<1>4. MouseDown(st["keyboard"], mouse_touch_id', down')
  BY <1>1, SourcesAre DEF Followed, MouseDown
<1>5. Followed(st, ids', mouse_touch_id', down', wrapped', stuck')
  BY <1>1, <1>2, <1>3, <1>4 DEF Followed
<1> QED
  BY <1>5, SendFollowed DEF Sends

LEMMA PadFollowed ==
  ASSUME InputInv, PadButton \/ MicButton \/ PadMotion \/ \E b \in BOOLEAN : PadPlugged(b)
  PROVE  InputInv'
<1>0. "x" \in Holding("pad", "x") /\ "x" \notin Fingers /\ "mic" \notin Fingers
  BY InputAssumption DEF Holding
<1>1. CASE PadButton
  <2> USE <1>1 DEF PadButton
  <2>1. CASE Down("pad", "x") /\ micbutton_push /\ Sends(st) /\ UNCHANGED stuck
    BY <2>1, SendsOnly DEF Sends, Down
  <2>2. CASE Down("pad", "x") /\ ~micbutton_push /\ Sends(Pressed("pad", "x")) /\ UNCHANGED stuck
    BY <2>2, <1>0, SourcesAre, ButtonPressed DEF Down
  <2>3. CASE /\ LetGo("pad", "x") /\ micbutton_push /\ Sends(st)
             /\ stuck' = (stuck \/ "x" \in st["pad"].buttons)
    <3>1. down' = down \ {<<"pad", "x">>}
      BY <2>3 DEF LetGo
    <3>2. ASSUME ~stuck', NEW b \in st["pad"].buttons PROVE "x" \notin Holding("pad", b)
      <4>1. b # "x"
        BY <2>3, <3>2, Zenon
      <4> QED
        BY <4>1 DEF Holding
    <3>3. stuck => stuck'
      BY <2>3, Zenon
    <3> QED
      BY <2>3, <3>1, <3>2, <3>3, <1>0, SourcesAre, LetGoOnly
  <2>4. CASE LetGo("pad", "x") /\ ~micbutton_push /\ Sends(Released("pad", "x")) /\ UNCHANGED stuck
    BY <2>4, <1>0, SourcesAre, ButtonReleased DEF LetGo, Holding
  <2> QED
    BY <2>1, <2>2, <2>3, <2>4
<1>2. CASE MicButton
  <2> USE <1>2 DEF MicButton
  <2>1. CASE Down("pad", "mic")
    BY <2>1, SendsOnly DEF Sends, Down
  <2>2. CASE LetGo("pad", "mic")
    <3>1. down' = down \ {<<"pad", "mic">>}
      BY <2>2 DEF LetGo
    <3> QED
      BY <3>1, <1>0, SourcesAre, LetGoOnly DEF Holding
  <2> QED
    BY <2>1, <2>2
<1>3. CASE PadMotion
  BY <1>3, SendsOnly DEF PadMotion, Sends
<1>4. CASE \E b \in BOOLEAN : PadPlugged(b)
  <2>1. PICK b \in BOOLEAN : PadPlugged(b)
    BY <1>4
  <2>2. /\ ids' = [ids EXCEPT !["pad"] = NoFingers] /\ down' = {d \in down : d[1] # "pad"}
        /\ SendFeedbackState(With("pad", NoInput), plugged', input_block)
        /\ UNCHANGED <<mouse_touch_id, wrapped, stuck>>
    BY <2>1 DEF PadPlugged, NewController
  <2>3. NoInput.buttons = {} /\ \A i \in TouchSlots : NoInput.touches[i] = -1
    BY DEF NoInput
  <2> QED
    BY <2>2, <2>3, NoInputIdle, SourcesAre, SourceReset
<1> QED
  BY <1>1, <1>2, <1>3, <1>4

LEMMA KeyboardFollowed ==
  ASSUME InputInv, Keyboard \/ MousePress \/ MouseMove \/ MouseRelease
  PROVE  InputInv'
<1>0. Holding("keyboard", "x") = {"x"} /\ Holding("keyboard", "touchpad") = {"right"}
  BY DEF Holding
<1>1. CASE Keyboard
  <2>1. CASE Down("keyboard", "x") /\ Sends(Pressed("keyboard", "x"))
    BY <1>0, <1>1, <2>1, SourcesAre, ButtonPressed DEF Keyboard, Down
  <2>2. CASE LetGo("keyboard", "x") /\ Sends(Released("keyboard", "x"))
    BY <1>0, <1>1, <2>2, SourcesAre, ButtonReleased DEF Keyboard, LetGo
  <2> QED
    BY <1>1, <2>1, <2>2 DEF Keyboard
<1>2. CASE MousePress
  <2>1. CASE Down("keyboard", "left") /\ Sends(st)
    BY <1>2, <2>1, SendsOnly DEF MousePress, Sends, Down
  <2>2. CASE Down("keyboard", "right") /\ Sends(Pressed("keyboard", "touchpad"))
    BY <1>0, <1>2, <2>2, SourcesAre, ButtonPressed DEF MousePress, Down
  <2> QED
    BY <1>2, <2>1, <2>2 DEF MousePress
<1>3. CASE MouseMove
  BY <1>3, MouseStarts
<1>4. CASE MouseRelease
  <2> DEFINE s == IF mouse_touch_id >= 0 THEN StopTouch(st["keyboard"], mouse_touch_id) ELSE st["keyboard"]
  <2>1. CASE /\ LetGo("keyboard", "left") /\ mouse_touch_id' = -1
             /\ Sends(With("keyboard", [s EXCEPT !.buttons = @ \ {"touchpad"}]))
    <3>1. UNCHANGED <<ids, plugged, wrapped, stuck>>
      BY <1>4 DEF MouseRelease
    <3> HIDE DEF s
    <3>2. s = IF mouse_touch_id >= 0 THEN StopTouch(st["keyboard"], mouse_touch_id) ELSE st["keyboard"]
      BY DEF s
    <3> QED
      BY <3>1, <3>2, <2>1, MouseStops
  <2>2. CASE LetGo("keyboard", "right") /\ UNCHANGED mouse_touch_id /\ Sends(Released("keyboard", "touchpad"))
    BY <1>0, <1>4, <2>2, SourcesAre, ButtonReleased DEF MouseRelease, LetGo
  <2> QED
    BY <1>4, <2>1, <2>2 DEF MouseRelease
<1> QED
  BY <1>1, <1>2, <1>3, <1>4

(* The touch screen and the touchpads of Setsu, with state s by then.      *)
LEMMA TouchFollowed ==
  ASSUME InputInv, NEW src \in {"screen", "setsu"}, NEW s \in PadStates, NEW f \in Fingers,
         s.touches = st[src].touches,
         ~stuck => \A b \in s.buttons : \E x \in Holding(src, b) : <<src, x>> \in down',
         UNCHANGED <<mouse_touch_id, plugged, stuck>>,
         \/ (Down(src, f) \/ StillHeld(src, f)) /\ Touched(src, f, s)
         \/ LetGo(src, f) /\ Lifted(src, f, s)
  PROVE  InputInv'
<1>0. src \in TouchSources
  BY SourcesAre
<1>1. \A g \in DOMAIN ids[src] : <<src, g>> \in down
  BY <1>0 DEF InputInv, Followed, FingersDown
<1>2. CASE (Down(src, f) \/ StillHeld(src, f)) /\ Touched(src, f, s)
  <2>1. (\A d \in down : d \in down') /\ <<src, f>> \in down'
    BY <1>2 DEF Down, StillHeld
  <2>2. CASE f \in DOMAIN ids[src] \/ FreeSlots(s) = {}
    <3>1. Sends(With(src, s)) /\ UNCHANGED <<ids, wrapped>>
      BY <1>2, <2>2 DEF Touched
    <3> QED
      BY <1>0, <1>1, <2>1, <3>1, TouchGoesOn
  <2>3. CASE ~(f \in DOMAIN ids[src] \/ FreeSlots(s) = {})
    <3>1. /\ ids' = [ids EXCEPT ![src] = Following(@, f, StartedId(s))]
          /\ wrapped' = (wrapped \/ Wraps(s))
          /\ Sends(With(src, StartTouch(s)))
      BY <1>2, <2>3 DEF Touched
    <3> QED
      BY <1>0, <2>1, <2>3, <3>1, TouchBegins
  <2> QED
    BY <2>2, <2>3
<1>3. CASE LetGo(src, f) /\ Lifted(src, f, s)
  <2>1. down' = down \ {<<src, f>>} /\ UNCHANGED wrapped
    BY <1>3 DEF LetGo, Lifted
  <2>2. CASE f \notin DOMAIN ids[src]
    <3>1. Sends(With(src, s)) /\ UNCHANGED ids
      BY <1>3, <2>2 DEF Lifted
    <3>2. \A y \in Sources : \A x : y # src /\ <<y, x>> \in down => <<y, x>> \in down'
      BY <2>1
    <3>3. \A g \in DOMAIN ids[src] : <<src, g>> \in down'
      BY <1>1, <2>1, <2>2
    <3> QED
      BY <1>0, <2>1, <3>1, <3>2, <3>3, TouchGoesOn
  <2>3. CASE f \in DOMAIN ids[src]
    <3>1. ids' = [ids EXCEPT ![src] = Without(@, f)] /\ Sends(With(src, StopTouch(s, ids[src][f])))
      BY <1>3, <2>3 DEF Lifted
    <3> QED
      BY <1>0, <2>1, <2>3, <3>1, TouchEnds
  <2> QED
    BY <2>2, <2>3
<1> QED
  BY <1>2, <1>3

LEMMA ScreenFollowed == ASSUME InputInv, NEW f \in Fingers, NEW click \in BOOLEAN, ScreenTouch(f, click) PROVE InputInv'
<1> DEFINE s == [st["screen"] EXCEPT !.buttons = IF click THEN {"touchpad"} ELSE {}]
<1>1. s \in PadStates /\ s.touches = st["screen"].touches /\ s.buttons = IF click THEN {"touchpad"} ELSE {}
  BY Unchanged, SourcesAre DEF PadStates
<1>2. \/ (Down("screen", f) \/ StillHeld("screen", f)) /\ Touched("screen", f, s)
      \/ ~click /\ LetGo("screen", f) /\ Lifted("screen", f, s)
  BY DEF ScreenTouch
<1> HIDE DEF s
<1>3. \A b \in s.buttons : \E x \in Holding("screen", b) : <<"screen", x>> \in down'
  <2> SUFFICES ASSUME NEW b \in s.buttons PROVE \E x \in Holding("screen", b) : <<"screen", x>> \in down'
    OBVIOUS
  <2>1. click /\ b = "touchpad"
    BY <1>1
  <2>2. f \in Holding("screen", b)
    BY <2>1 DEF Holding
  <2>3. <<"screen", f>> \in down'
    BY <1>2, <2>1 DEF Down, StillHeld
  <2> QED
    BY <2>2, <2>3
<1>4. UNCHANGED <<mouse_touch_id, plugged, stuck>>
  BY DEF ScreenTouch
<1> QED
  BY <1>1, <1>2, <1>3, <1>4, TouchFollowed

LEMMA SetsuFollowed == ASSUME InputInv, NEW f \in Fingers, SetsuTouch(f) PROVE InputInv'
<1> DEFINE s == st["setsu"]
<1>0. Followed(st, ids, mouse_touch_id, down, wrapped, stuck)
  BY DEF InputInv
<1>1. s \in PadStates /\ "click" \notin Fingers
  BY Unchanged, SourcesAre, InputAssumption
<1>2. ~stuck => \A b \in s.buttons : Holding("setsu", b) = {"click"} /\ <<"setsu", "click">> \in down
  BY <1>0, SourcesAre DEF Followed, ButtonsDown, Holding
<1>3. UNCHANGED <<mouse_touch_id, plugged, stuck>>
  BY DEF SetsuTouch
<1> HIDE DEF s
<1>4. CASE /\ Down("setsu", f) \/ StillHeld("setsu", f)
           /\ UNCHANGED <<st, ids, sent, input_block, wrapped, unsent>>
  <2>1. \A d \in down : d \in down'
    BY <1>4 DEF Down, StillHeld
  <2>2. Followed(st', ids', mouse_touch_id', down', wrapped', stuck')
    BY <1>0, <1>3, <1>4, <2>1 DEF Followed, FingersDown, ButtonsDown, MouseDown
  <2> QED
    BY <1>3, <1>4, <2>2 DEF InputInv, SentIs
<1>5. CASE \/ (Down("setsu", f) \/ StillHeld("setsu", f)) /\ Touched("setsu", f, s)
           \/ LetGo("setsu", f) /\ Lifted("setsu", f, s)
  <2>1. <<"setsu", "click">> \in down => <<"setsu", "click">> \in down'
    BY <1>1, <1>5 DEF Down, StillHeld, LetGo
  <2>2. ~stuck => \A b \in s.buttons : \E x \in Holding("setsu", b) : <<"setsu", x>> \in down'
    BY <1>2, <2>1
  <2>3. s.touches = st["setsu"].touches
    BY DEF s
  <2> QED
    BY <1>1, <1>3, <1>5, <2>2, <2>3, TouchFollowed
<1> QED
  BY <1>4, <1>5 DEF SetsuTouch, s

LEMMA SetsuButtonFollowed == InputInv /\ SetsuButton => InputInv'
<1> SUFFICES ASSUME InputInv, SetsuButton PROVE InputInv'
  OBVIOUS
<1> DEFINE k == st["setsu"]
<1>0. Followed(st, ids, mouse_touch_id, down, wrapped, stuck) /\ InputTyped(st, ids, mouse_touch_id)
  BY DEF InputInv, Followed
<1>1. k \in PadStates /\ "click" \notin Fingers
  BY Unchanged, SourcesAre, InputAssumption
<1>2. Holding("setsu", "touchpad") = {"click"} /\ Holding("setsu", "x") = {}
  BY DEF Holding
<1>3. UNCHANGED <<ids, mouse_touch_id, sent, wrapped, stuck>> /\ unsent' = TRUE
  BY DEF SetsuButton
<1>4. PICK s \in PadStates :
        /\ st' = With("setsu", s) /\ s.touches = k.touches
        /\ \/ s.buttons = k.buttons \cup {"touchpad"} /\ down' = down \cup {<<"setsu", "click">>}
           \/ s.buttons = k.buttons \ {"touchpad"} /\ down' = down \ {<<"setsu", "click">>}
  <2>1. CASE Down("setsu", "click") /\ st' = Pressed("setsu", "touchpad")
    <3> DEFINE s == [k EXCEPT !.buttons = @ \cup {"touchpad"}]
    <3>1. s \in PadStates /\ s.touches = k.touches /\ s.buttons = k.buttons \cup {"touchpad"}
      BY <1>1 DEF PadStates
    <3> QED
      BY <2>1, <3>1 DEF Down, Pressed
  <2>2. CASE LetGo("setsu", "click") /\ st' = Released("setsu", "touchpad")
    <3> DEFINE s == [k EXCEPT !.buttons = @ \ {"touchpad"}]
    <3>1. s \in PadStates /\ s.touches = k.touches /\ s.buttons = k.buttons \ {"touchpad"}
      BY <1>1 DEF PadStates
    <3> QED
      BY <2>2, <3>1 DEF LetGo, Released
  <2> QED
    BY <2>1, <2>2 DEF SetsuButton
<1>5. ~wrapped' => Matched(s, ids'["setsu"])
  BY <1>0, <1>3, <1>4, SourcesAre DEF Followed, Matched
<1>6. \A g \in DOMAIN ids'["setsu"] : <<"setsu", g>> \in down'
  <2> SUFFICES ASSUME NEW g \in DOMAIN ids["setsu"] PROVE <<"setsu", g>> \in down'
    BY <1>3
  <2>1. g \in Fingers /\ <<"setsu", g>> \in down
    BY <1>0, SourcesAre DEF Followed, FingersDown, InputTyped, IsFollowing
  <2> QED
    BY <2>1, <1>1, <1>4
<1>7. ASSUME ~stuck', NEW b \in s.buttons PROVE \E x \in Holding("setsu", b) : <<"setsu", x>> \in down'
  <2>1. CASE b \in k.buttons
    <3>1. Holding("setsu", b) = {"click"} /\ b = "touchpad"
      BY <1>0, <1>1, <1>2, <1>3, <1>7, <2>1, SourcesAre DEF Followed, ButtonsDown, PadStates
    <3> QED
      BY <1>4, <1>7, <3>1
  <2>2. CASE b \notin k.buttons
    BY <1>2, <1>4, <1>7, <2>2
  <2> QED
    BY <2>1, <2>2
<1>8. \A y \in Sources : \A x : y # "setsu" /\ <<y, x>> \in down => <<y, x>> \in down'
  BY <1>4
<1>9. /\ DOMAIN ids' = TouchSources /\ \A x \in TouchSources : IsFollowing(ids'[x])
      /\ mouse_touch_id' \in TouchIds \cup {-1}
  BY <1>0, <1>3 DEF InputTyped
<1>10. Followed(With("setsu", s), ids', mouse_touch_id', down', wrapped', stuck')
  BY <1>3, <1>5, <1>6, <1>7, <1>8, <1>9, SourcesAre, SourceFollowed
<1> QED
  BY <1>3, <1>4, <1>10 DEF InputInv, SentIs

LEMMA RemovedFollowed == InputInv /\ SetsuRemoved => InputInv'
<1> SUFFICES ASSUME InputInv, SetsuRemoved PROVE InputInv'
  OBVIOUS
<1> USE DEF SetsuRemoved
<1> DEFINE k == st["setsu"]
           gone == {ids["setsu"][f] : f \in DOMAIN ids["setsu"]}
           s == [k EXCEPT !.touches = [i \in TouchSlots |-> IF @[i] \in gone THEN -1 ELSE @[i]]]
<1>1. Followed(st, ids, mouse_touch_id, down, wrapped, stuck)
  BY DEF InputInv
<1>2. k \in PadStates
  BY Unchanged, SourcesAre
<1> DEFINE t == [i \in TouchSlots |-> IF k.touches[i] \in gone THEN -1 ELSE k.touches[i]]
<1>3. t \in [TouchSlots -> TouchIds \cup {-1}]
  BY <1>2 DEF PadStates
<1>4. s = [k EXCEPT !.touches = t]
  OBVIOUS
<1>5. ~wrapped => \A i \in TouchSlots : t[i] = -1
  BY <1>1, SourcesAre DEF Followed, Matched
<1>6. ~stuck' => k.buttons = {}
  <2> SUFFICES ASSUME ~stuck' PROVE k.buttons = {}
    OBVIOUS
  <2>1. ~stuck /\ "touchpad" \notin k.buttons
    BY Zenon
  <2>2. \A b \in k.buttons : b = "x" /\ \E x \in Holding("setsu", b) : TRUE
    BY <1>1, <1>2, <2>1, SourcesAre DEF Followed, ButtonsDown, PadStates
  <2>3. Holding("setsu", "x") = {}
    BY DEF Holding
  <2> QED
    BY <2>2, <2>3
<1>7. stuck => stuck'
  BY Zenon
<1>8. SendFeedbackState(With("setsu", s), plugged', input_block) /\ UNCHANGED <<mouse_touch_id, plugged, wrapped>>
  BY DEF Sends
<1> HIDE DEF s, t, k
<1>9. s \in PadStates /\ s.touches = t /\ s.buttons = k.buttons
  BY <1>2, <1>3, <1>4 DEF PadStates
<1> QED
  BY <1>5, <1>6, <1>7, <1>8, <1>9, SourcesAre, SourceReset

LEMMA InputStep == InputInv /\ [InputNext]_inputVars => InputInv'
<1> SUFFICES ASSUME InputInv, [InputNext]_inputVars PROVE InputInv'
  OBVIOUS
<1>1. CASE PadButton \/ MicButton \/ PadMotion \/ \E b \in BOOLEAN : PadPlugged(b)
  BY <1>1, PadFollowed
<1>2. CASE Keyboard \/ MousePress \/ MouseMove \/ MouseRelease
  BY <1>2, KeyboardFollowed
<1>3. CASE SetsuButton
  BY <1>3, SetsuButtonFollowed
<1>4. CASE SetsuRemoved
  BY <1>4, RemovedFollowed
<1>5. CASE Motion
  BY <1>5, SendsOnly DEF Motion, Sends
<1>6. CASE \E b \in BOOLEAN : BlockInput(b)
  BY <1>6, SendsOnly DEF BlockInput
<1>7. CASE \E f \in Fingers : PadTouch(f)
  BY <1>7, PadTouchFollowed
<1>8. CASE \E f \in Fingers : SetsuTouch(f)
  BY <1>8, SetsuFollowed
<1>9. CASE \E f \in Fingers : \E click \in BOOLEAN : ScreenTouch(f, click)
  BY <1>9, ScreenFollowed
<1>10. CASE UNCHANGED inputVars
  BY <1>10 DEF inputVars, InputInv, Followed, InputTyped, FingersDown, ButtonsDown, MouseDown, SentIs
<1> QED
  BY <1>1, <1>2, <1>3, <1>4, <1>5, <1>6, <1>7, <1>8, <1>9, <1>10 DEF InputNext

(* Every finger followed has a touch of its own, and when everything was   *)
(* let go the console is told so, whichever sources were mixed, blocked,   *)
(* unplugged and removed, for any fingers and touch ids, but for the cases *)
(* that wrapped, stuck and unsent name.                                    *)
THEOREM InputFollowsHolds == InputSpec => []InputFollows
<1>1. ASSUME InputInv PROVE InputFollows
  <2>1. Followed(st, ids, mouse_touch_id, down, wrapped, stuck) /\ InputTyped(st, ids, mouse_touch_id)
    BY <1>1 DEF InputInv, Followed
  <2>2. FingersApart
    <3> SUFFICES ASSUME ~wrapped, NEW src \in TouchSources
                 PROVE  /\ Range(ids[src]) = Range(st[src].touches) \ {-1}
                        /\ Cardinality(DOMAIN ids[src]) = Cardinality({i \in TouchSlots : st[src].touches[i] >= 0})
      BY DEF FingersApart
    <3>1. st[src] \in PadStates /\ IsFollowing(ids[src]) /\ Matched(st[src], ids[src])
      BY <2>1, SourcesAre DEF Followed, InputTyped
    <3> QED
      BY <3>1, MatchedCounts
  <2>3. ReleasedIsIdle
    <3> SUFFICES ASSUME down = {}, ~wrapped, ~stuck, ~unsent PROVE sent = Shown(NoInput)
      BY DEF ReleasedIsIdle
    <3>1. \A src \in Sources : st[src].buttons = {}
      BY <2>1 DEF Followed, ButtonsDown
    <3>2. ASSUME NEW src \in TouchSources, NEW i \in TouchSlots PROVE st[src].touches[i] = -1
      <4>1. Matched(st[src], ids[src]) /\ DOMAIN ids[src] = {}
        BY <2>1 DEF Followed, FingersDown
      <4> QED
        BY <4>1 DEF Matched
    <3>3. \A i \in TouchSlots : st["keyboard"].touches[i] = -1
      <4>1. mouse_touch_id = -1
        BY <2>1, TouchIdsNat DEF Followed, InputTyped, MouseDown
      <4> QED
        BY <2>1, <4>1 DEF Followed, MouseDown
    <3>4. \A src \in Sources, i \in TouchSlots : st[src].touches[i] = -1
      BY <3>2, <3>3 DEF Sources
    <3>5. ASSUME NEW a, NEW b, a.buttons = {}, b.buttons = {}, \A i \in TouchSlots : a.touches[i] = -1 /\ b.touches[i] = -1
          PROVE  StateOr(a, b).buttons = {} /\ \A i \in TouchSlots : StateOr(a, b).touches[i] = -1
      BY <3>5 DEF StateOr
    <3>6. NoInput.buttons = {} /\ \A i \in TouchSlots : NoInput.touches[i] = -1
      BY DEF NoInput
    <3> DEFINE gamepad == IF plugged THEN st["pad"] ELSE NoInput
               first == StateOr(st["setsu"], gamepad)
               second == StateOr(first, st["keyboard"])
               all == StateOr(second, st["screen"])
    <3>7. gamepad.buttons = {} /\ \A i \in TouchSlots : gamepad.touches[i] = -1
      BY <3>1, <3>4, <3>6, SourcesAre
    <3> HIDE DEF gamepad
    <3>8. first.buttons = {} /\ \A i \in TouchSlots : first.touches[i] = -1
      BY <3>1, <3>4, <3>5, <3>7, SourcesAre
    <3> HIDE DEF first
    <3>9. second.buttons = {} /\ \A i \in TouchSlots : second.touches[i] = -1
      BY <3>1, <3>4, <3>5, <3>8, SourcesAre
    <3>10. DOMAIN all.touches = TouchSlots
      BY DEF StateOr
    <3> HIDE DEF second
    <3>11. all.buttons = {} /\ all.touches = [i \in TouchSlots |-> -1]
      <4>1. all.buttons = {} /\ \A i \in TouchSlots : all.touches[i] = -1
        BY <3>1, <3>4, <3>5, <3>9, SourcesAre
      <4>2. all.touches = [i \in TouchSlots |-> all.touches[i]]
        BY DEF StateOr
      <4> QED
        BY <4>1, <4>2
    <3>12. Merged(st, plugged) = all
      BY DEF Merged, gamepad, first, second
    <3>13. Shown(all) = Shown(NoInput)
      BY <3>11 DEF Shown, NoInput
    <3> QED
      BY <1>1, <3>12, <3>13 DEF InputInv, SentIs
  <2> QED
    BY <2>2, <2>3 DEF InputFollows
<1> QED
  BY InputStart, InputStep, <1>1, PTL DEF InputSpec

-----------------------------------------------------------------------------
(* Touchpads (setsu.c).  The events of a frame, and the slots of a pad, are *)
(* gone through by folds; first what a fold over indices is made of.        *)

(* The greatest of some numbers up to n.                                   *)
LEMMA GreatestUpTo ==
  ASSUME NEW n \in Nat, NEW T, T \subseteq 1 .. n, T # {}
  PROVE  Max(T) \in T /\ Max(T) \in 1 .. n /\ \A k \in T : k <= Max(T)
<1> DEFINE U == {n - k : k \in T}
<1>1. U \subseteq Nat /\ U # {}
  <2>1. \A k \in T : n - k \in Nat
    OBVIOUS
  <2>2. PICK k \in T : TRUE
    OBVIOUS
  <2> QED BY <2>1, <2>2
<1>2. PICK u \in U : \A k \in U : u <= k
  BY ONLY <1>1, Least
<1>3. PICK t \in T : u = n - t
  BY <1>2
<1>4. \A k \in T : k <= t
  BY <1>2, <1>3
<1>5. \A k \in T : t >= k
  BY <1>4
<1> QED BY <1>3, <1>5 DEF Max

(* What a fold over the indices 1 .. n, the greatest last, is made of: a   *)
(* value for each set of indices.                                          *)
IsFold(g, n, base, F) ==
  \A T \in SUBSET (1 .. n) : g[T] = IF T = {} THEN base ELSE F[<<g[T \ {Max(T)}], Max(T)>>]

LEMMA FoldExists ==
  ASSUME NEW S, NEW n \in Nat, NEW base \in S, NEW F \in [S \X (1 .. n) -> S]
  PROVE  \E g \in [SUBSET (1 .. n) -> S] : IsFold(g, n, base, F)
<1> DEFINE Q(m) == \E g \in [SUBSET (1 .. m) -> S] : \A T \in SUBSET (1 .. m) :
                     g[T] = IF T = {} THEN base ELSE F[<<g[T \ {Max(T)}], Max(T)>>]
           C == {m \in 0 .. n : Q(m)}
<1>1. Q(0)
  <2> DEFINE z == [T \in SUBSET (1 .. 0) |-> base]
  <2>1. \A T \in SUBSET (1 .. 0) : T = {}
    OBVIOUS
  <2>2. z \in [SUBSET (1 .. 0) -> S] /\ \A T \in SUBSET (1 .. 0) : z[T] = base
    OBVIOUS
  <2> HIDE DEF z
  <2> QED BY <2>1, <2>2
<1>2. ASSUME NEW m \in 1 .. n, Q(m - 1) PROVE Q(m)
  <2>1. PICK g \in [SUBSET (1 .. (m - 1)) -> S] : \A T \in SUBSET (1 .. (m - 1)) :
               g[T] = IF T = {} THEN base ELSE F[<<g[T \ {Max(T)}], Max(T)>>]
    BY <1>2
  <2> DEFINE h == [T \in SUBSET (1 .. m) |-> IF m \in T THEN F[<<g[T \ {m}], m>>] ELSE g[T]]
  <2>2. ASSUME NEW T \in SUBSET (1 .. m) PROVE m \notin T => T \in SUBSET (1 .. (m - 1))
    OBVIOUS
  <2>3. ASSUME NEW T \in SUBSET (1 .. m), m \in T PROVE T \ {m} \in SUBSET (1 .. (m - 1)) /\ Max(T) = m
    <3>1. m \in Nat /\ T \subseteq 1 .. m /\ T # {}
      BY <2>3
    <3>2. Max(T) \in 1 .. m /\ m <= Max(T)
      BY <2>3, <3>1, GreatestUpTo
    <3>3. Max(T) = m
      BY <3>1, <3>2
    <3> QED BY <3>3
  <2>4. h \in [SUBSET (1 .. m) -> S]
    BY <2>1, <2>2, <2>3
  <2>5. ASSUME NEW T \in SUBSET (1 .. m) PROVE h[T] = IF T = {} THEN base ELSE F[<<h[T \ {Max(T)}], Max(T)>>]
    <3>1. CASE m \in T
      <4>1. h[T] = F[<<g[T \ {m}], m>>] /\ T \ {m} \in SUBSET (1 .. m) /\ h[T \ {m}] = g[T \ {m}]
        BY <3>1
      <4> QED BY <3>1, <4>1, <2>3
    <3>2. CASE m \notin T
      <4>1. T \in SUBSET (1 .. (m - 1)) /\ h[T] = g[T]
        BY <3>2, <2>2
      <4>2. h[T \ {Max(T)}] = g[T \ {Max(T)}]
        BY <3>2
      <4> QED BY <4>1, <4>2, <2>1
    <3> QED BY <3>1, <3>2
  <2> HIDE DEF h
  <2> QED BY <2>4, <2>5
<1> HIDE DEF Q
<1>3. 0 \in C /\ \A m \in 1 .. n : m - 1 \in C => m \in C
  BY <1>1, <1>2
<1> HIDE DEF C
<1>4. 0 .. n \subseteq C
  BY <1>3, Induction
<1>5. Q(n)
  BY <1>4 DEF C
<1> QED BY <1>5 DEF Q, IsFold

(* The sets of the first indices, which the fold goes through in turn.     *)
LEMMA FirstIndices ==
  ASSUME NEW k \in Nat \ {0}
  PROVE  1 .. k # {} /\ Max(1 .. k) = k /\ (1 .. k) \ {k} = 1 .. (k - 1)
<1>1. k \in 1 .. k
  OBVIOUS
<1>2. Max(1 .. k) \in 1 .. k /\ k <= Max(1 .. k)
  BY <1>1, GreatestUpTo
<1> QED BY <1>1, <1>2

-----------------------------------------------------------------------------
(* Open touchpads, and the events of their slots.                          *)
Slots == [prev : Int, id : Int, downed : BOOLEAN, dirty : BOOLEAN]
Devices == [open : {TRUE}, slot_cur : MTSlots, slots : [MTSlots -> Slots], held : SUBSET Int, touches : SUBSET Int]
SlotEvents == [type : {"slot"}, v : MTSlots]
IdEvents == [type : {"id"}, v : Int]
OtherEvents == [type : {"pos", "syn"}, v : {0}]
Events == SlotEvents \cup IdEvents \cup OtherEvents

(* device_drain goes through the slots.                                    *)
DrainTrace(g, d) ==
  /\ g \in [0 .. SlotCount -> Devices] /\ g[0] = d
  /\ \A k \in 1 .. SlotCount : g[k] = DrainSlot(g[k - 1], k - 1)

LEMMA DrainSlotTyped ==
  ASSUME NEW d \in Devices, NEW i \in MTSlots
  PROVE  DrainSlot(d, i) \in Devices
<1> DEFINE s == d.slots[i]
<1>1. s \in Slots
  BY DEF Devices
<1>2. Quiet(s.id) \in Slots
  BY <1>1 DEF Quiet, Slots
<1>3. [d.slots EXCEPT ![i] = Quiet(s.id)] \in [MTSlots -> Slots]
  BY <1>2 DEF Devices
<1>4. s.id \in Int /\ s.prev \in Int
  BY <1>1 DEF Slots
<1>5. /\ (d.held \ (IF s.prev # -1 THEN {s.prev} ELSE {})) \cup (IF s.downed THEN {s.id} ELSE {}) \in SUBSET Int
      /\ (d.touches \ (IF s.prev # -1 THEN {s.prev} ELSE {})) \cup (IF s.dirty THEN {s.id} ELSE {}) \in SUBSET Int
  BY <1>4 DEF Devices
<1> HIDE DEF s
<1>6. DrainSlot(d, i) = [d EXCEPT !.held = (d.held \ (IF s.prev # -1 THEN {s.prev} ELSE {})) \cup (IF s.downed THEN {s.id} ELSE {}),
                                  !.touches = (d.touches \ (IF s.prev # -1 THEN {s.prev} ELSE {})) \cup (IF s.dirty THEN {s.id} ELSE {}),
                                  !.slots = [d.slots EXCEPT ![i] = Quiet(s.id)]]
  BY DEF DrainSlot, s, Devices
<1> QED BY <1>3, <1>5, <1>6 DEF Devices

LEMMA DrainSteps ==
  ASSUME NEW d \in Devices
  PROVE  \E g : DrainTrace(g, d) /\ DeviceDrain(d) = g[SlotCount]
<1> DEFINE n == SlotCount
           order == [i \in 1 .. n |-> i - 1]
           F == [x \in Devices \X (1 .. n) |-> DrainSlot(x[1], order[x[2]])]
           Step(f, T) == IF T = {} THEN d ELSE DrainSlot(f[T \ {Max(T)}], order[Max(T)])
           h == CHOOSE f : f = [T \in SUBSET (1 .. n) |-> Step(f, T)]
           g == [k \in 0 .. n |-> h[1 .. k]]
<1>1. n \in Nat /\ DOMAIN order = 1 .. n /\ \A i \in 1 .. n : order[i] = i - 1 /\ order[i] \in MTSlots
  BY SetsuAssumption DEF MTSlots
<1>2. F \in [Devices \X (1 .. n) -> Devices]
  BY <1>1, DrainSlotTyped
<1>3. PICK f \in [SUBSET (1 .. n) -> Devices] : IsFold(f, n, d, F)
  <2> HIDE DEF F, n
  <2> QED BY <1>1, <1>2, FoldExists
<1>4. ASSUME NEW T \in SUBSET (1 .. n) PROVE f[T] = Step(f, T)
  <2>1. CASE T = {}
    BY <1>3, <2>1 DEF IsFold
  <2>2. CASE T # {}
    <3>1. Max(T) \in 1 .. n /\ T \ {Max(T)} \in SUBSET (1 .. n)
      BY <1>1, <2>2, GreatestUpTo
    <3>2. f[T] = F[<<f[T \ {Max(T)}], Max(T)>>]
      BY <1>3, <2>2 DEF IsFold
    <3> HIDE DEF Max, n, order
    <3> QED BY <1>3, <2>2, <3>1, <3>2
  <2> QED BY <2>1, <2>2
<1>5. h = [T \in SUBSET (1 .. n) |-> Step(h, T)]
  <2>1. f = [T \in SUBSET (1 .. n) |-> Step(f, T)]
    <3> HIDE DEF Step
    <3> QED BY <1>3, <1>4
  <2> HIDE DEF Step, n
  <2> QED BY <2>1
<1>6. DeviceDrain(d) = h[1 .. n]
  BY <1>1 DEF DeviceDrain, FoldLeft, MapThenFoldSet
<1> HIDE DEF h, F
<1>7. g[0] = d
  BY <1>1, <1>5
<1>8. ASSUME NEW k \in 1 .. n PROVE g[k] = DrainSlot(g[k - 1], k - 1)
  <2>1. k \in Nat \ {0} /\ k - 1 \in 0 .. n /\ k \in 0 .. n /\ 1 .. k \in SUBSET (1 .. n)
    BY <1>1
  <2>2. 1 .. k # {} /\ Max(1 .. k) = k /\ (1 .. k) \ {k} = 1 .. (k - 1)
    BY <2>1, FirstIndices
  <2>3. h[1 .. k] = DrainSlot(h[1 .. (k - 1)], order[k])
    BY <1>5, <2>1, <2>2
  <2> QED BY <1>1, <2>1, <2>3
<1>9. \A k \in 0 .. n : g[k] \in Devices
  <2> DEFINE C == {k \in 0 .. n : g[k] \in Devices}
  <2> HIDE DEF g
  <2>1. 0 \in C
    BY <1>1, <1>7
  <2>2. ASSUME NEW k \in 1 .. n, k - 1 \in C PROVE k \in C
    <3>1. k - 1 \in MTSlots
      BY <1>1 DEF MTSlots
    <3> QED BY <1>8, <2>2, <3>1, DrainSlotTyped
  <2> HIDE DEF C
  <2>3. 0 .. n \subseteq C
    BY <1>1, <2>1, <2>2, Induction
  <2> QED BY <2>3 DEF C
<1>10. DrainTrace(g, d) /\ g[n] = h[1 .. n]
  <2>1. g \in [0 .. n -> Devices] /\ g[n] = h[1 .. n]
    BY <1>1, <1>9
  <2> HIDE DEF g
  <2> QED BY <1>7, <1>8, <2>1 DEF DrainTrace
<1> QED BY <1>6, <1>10

(* What a drain tells, of the first k slots: the touches that ended are    *)
(* up, those that began are down, and those that moved have a position.    *)
UpsTo(d, k) == {d.slots[s].prev : s \in 0 .. k - 1} \ {-1}
DownsTo(d, k) == {d.slots[s].id : s \in {t \in 0 .. k - 1 : d.slots[t].downed}}
PlacesTo(d, k) == {d.slots[s].id : s \in {t \in 0 .. k - 1 : d.slots[t].dirty}}
DrainedTo(d, k, r) ==
  /\ r.slot_cur = d.slot_cur
  /\ \A s \in MTSlots : r.slots[s] = IF s < k THEN Quiet(d.slots[s].id) ELSE d.slots[s]
  /\ r.held = (d.held \ UpsTo(d, k)) \cup DownsTo(d, k)
  /\ r.touches = (d.touches \ UpsTo(d, k)) \cup PlacesTo(d, k)

(* No touch that ended is also on the pad.                                 *)
Distinct(d) == \A s, t \in MTSlots : d.slots[s].prev = -1 \/ d.slots[s].prev # d.slots[t].id

(* The order in which the slots are drained does not matter if no touch    *)
(* that ended in one slot is on the pad in another.                        *)
LEMMA Drained ==
  ASSUME NEW d \in Devices, Distinct(d)
  PROVE  DeviceDrain(d) \in Devices /\ DrainedTo(d, SlotCount, DeviceDrain(d))
<1> DEFINE n == SlotCount
<1>1. PICK g : DrainTrace(g, d) /\ DeviceDrain(d) = g[n]
  BY DrainSteps
<1>2. n \in Nat /\ MTSlots = 0 .. (n - 1)
  BY SetsuAssumption DEF MTSlots
<1> HIDE DEF n
<1>3. /\ g \in [0 .. n -> Devices] /\ g[0] = d
      /\ \A k \in 1 .. n : g[k] = DrainSlot(g[k - 1], k - 1)
  BY <1>1 DEF DrainTrace, n
<1>4. DrainedTo(d, 0, g[0])
  <2>1. UpsTo(d, 0) = {} /\ DownsTo(d, 0) = {} /\ PlacesTo(d, 0) = {}
    BY DEF UpsTo, DownsTo, PlacesTo
  <2>2. \A s \in MTSlots : ~(s < 0)
    BY <1>2
  <2> QED BY <1>3, <2>1, <2>2 DEF DrainedTo
<1>5. ASSUME NEW k \in 1 .. n, DrainedTo(d, k - 1, g[k - 1]) PROVE DrainedTo(d, k, g[k])
  <2> DEFINE i == k - 1
             x == g[k - 1]
             s == d.slots[i]
             ups == IF s.prev # -1 THEN {s.prev} ELSE {}
             downs == IF s.downed THEN {s.id} ELSE {}
             place == IF s.dirty THEN {s.id} ELSE {}
  <2>1. i \in MTSlots /\ i \in 0 .. n /\ k = i + 1 /\ i = k - 1 /\ ~(i < k - 1)
    BY <1>2
  <2>2. x \in Devices /\ g[k] = DrainSlot(x, i)
    BY <1>3, <2>1
  <2>3. x.slots[i] = s /\ x.slot_cur = d.slot_cur
    BY <1>5, <2>1 DEF DrainedTo
  <2> HIDE DEF x
  <2>4. /\ g[k].slot_cur = d.slot_cur
        /\ g[k].slots = [x.slots EXCEPT ![i] = Quiet(s.id)]
        /\ g[k].held = (x.held \ ups) \cup downs /\ g[k].touches = (x.touches \ ups) \cup place
    BY <2>2, <2>3 DEF DrainSlot, Devices
  <2>5. UpsTo(d, k) = UpsTo(d, i) \cup ups
    BY <2>1 DEF UpsTo
  <2>6. DownsTo(d, k) = DownsTo(d, i) \cup downs
    BY <2>1 DEF DownsTo
  <2>7. PlacesTo(d, k) = PlacesTo(d, i) \cup place
    BY <2>1 DEF PlacesTo
  <2>8. ups \cap DownsTo(d, i) = {} /\ ups \cap PlacesTo(d, i) = {}
    <3>1. \A t \in 0 .. i - 1 : t \in MTSlots
      BY <1>2, <2>1
    <3>2. \A t \in 0 .. i - 1 : d.slots[t].id \notin ups
      BY <2>1, <3>1 DEF Distinct
    <3> HIDE DEF ups
    <3> QED BY <3>2 DEF DownsTo, PlacesTo
  <2> HIDE DEF ups, downs, place
  <2>9. /\ x.held = (d.held \ UpsTo(d, i)) \cup DownsTo(d, i)
        /\ x.touches = (d.touches \ UpsTo(d, i)) \cup PlacesTo(d, i)
    BY <1>5 DEF DrainedTo, x
  <2>10. /\ g[k].held = (d.held \ UpsTo(d, k)) \cup DownsTo(d, k)
         /\ g[k].touches = (d.touches \ UpsTo(d, k)) \cup PlacesTo(d, k)
    BY <2>4, <2>5, <2>6, <2>7, <2>8, <2>9
  <2>11. ASSUME NEW t \in MTSlots PROVE g[k].slots[t] = IF t < k THEN Quiet(d.slots[t].id) ELSE d.slots[t]
    <3>1. x.slots[t] = IF t < i THEN Quiet(d.slots[t].id) ELSE d.slots[t]
      BY <1>5 DEF DrainedTo, x
    <3>2. g[k].slots[t] = IF t = i THEN Quiet(s.id) ELSE x.slots[t]
      BY <2>2, <2>4 DEF Devices
    <3>3. t < k <=> t < i \/ t = i
      BY <1>2, <2>1
    <3> QED BY <3>1, <3>2, <3>3
  <2> QED BY <2>4, <2>10, <2>11 DEF DrainedTo
<1>6. DrainedTo(d, n, g[n])
  <2> DEFINE C == {k \in 0 .. n : DrainedTo(d, k, g[k])}
  <2>1. 0 \in C /\ \A k \in 1 .. n : k - 1 \in C => k \in C
    BY <1>2, <1>4, <1>5
  <2> HIDE DEF C
  <2>2. 0 .. n \subseteq C
    BY <1>2, <2>1, Induction
  <2> QED BY <1>2, <2>2 DEF C
<1>7. g[n] \in Devices
  BY <1>2, <1>3
<1> QED BY <1>1, <1>6, <1>7 DEF n

LEMMA DrainTyped ==
  ASSUME NEW d \in Devices
  PROVE  DeviceDrain(d) \in Devices
<1>1. PICK g : DrainTrace(g, d) /\ DeviceDrain(d) = g[SlotCount]
  BY DrainSteps
<1> QED BY <1>1, SetsuAssumption DEF DrainTrace

LEMMA EventTyped ==
  ASSUME NEW d \in Devices, NEW e \in Events
  PROVE  DeviceEvent(d, e) \in Devices
<1>1. CASE e \in SlotEvents
  <2>1. DeviceEvent(d, e) = [d EXCEPT !.slot_cur = e.v] /\ e.v \in MTSlots
    BY <1>1 DEF DeviceEvent, SlotEvents
  <2> QED BY <2>1 DEF Devices
<1>2. CASE e \in IdEvents
  <2> DEFINE s == d.slots[d.slot_cur]
  <2>1. DeviceEvent(d, e) = [d EXCEPT !.slots = [d.slots EXCEPT ![d.slot_cur] = TrackingId(s, e.v)]] /\ e.v \in Int
    BY <1>2 DEF DeviceEvent, IdEvents, Devices
  <2>2. s \in Slots
    BY DEF Devices
  <2> HIDE DEF s
  <2>3. TrackingId(s, e.v) \in Slots
    BY <2>1, <2>2 DEF TrackingId, Slots
  <2>4. [d.slots EXCEPT ![d.slot_cur] = TrackingId(s, e.v)] \in [MTSlots -> Slots]
    BY <2>3 DEF Devices
  <2> QED BY <2>1, <2>4 DEF Devices
<1>3. CASE e \in OtherEvents
  <2>1. CASE e.type = "pos"
    <3> DEFINE s == [d.slots[d.slot_cur] EXCEPT !.dirty = TRUE]
    <3>1. DeviceEvent(d, e) = [d EXCEPT !.slots = [d.slots EXCEPT ![d.slot_cur] = s]]
      BY <2>1 DEF DeviceEvent, Devices
    <3>2. s \in Slots
      BY DEF Devices, Slots
    <3> HIDE DEF s
    <3>3. [d.slots EXCEPT ![d.slot_cur] = s] \in [MTSlots -> Slots]
      BY <3>2 DEF Devices
    <3> QED BY <3>1, <3>3 DEF Devices
  <2>2. CASE e.type = "syn"
    BY <2>2, DrainTyped DEF DeviceEvent
  <2> QED BY <1>3, <2>1, <2>2 DEF OtherEvents
<1> QED BY <1>1, <1>2, <1>3 DEF Events

(* poll_device handles the events it reads one after the other.            *)
Handled(d, evs) == FoldLeft(DeviceEvent, d, evs)
HandledTrace(g, d, evs) ==
  /\ g \in [0 .. Len(evs) -> Devices] /\ g[0] = d
  /\ \A k \in 1 .. Len(evs) : g[k] = DeviceEvent(g[k - 1], evs[k])

LEMMA HandledSteps ==
  ASSUME NEW d \in Devices, NEW evs \in Seq(Events)
  PROVE  \E g : HandledTrace(g, d, evs) /\ Handled(d, evs) = g[Len(evs)]
<1> DEFINE n == Len(evs)
           F == [x \in Devices \X (1 .. n) |-> DeviceEvent(x[1], evs[x[2]])]
           Step(f, T) == IF T = {} THEN d ELSE DeviceEvent(f[T \ {Max(T)}], evs[Max(T)])
           h == CHOOSE f : f = [T \in SUBSET (1 .. n) |-> Step(f, T)]
           g == [k \in 0 .. n |-> h[1 .. k]]
<1>1. n \in Nat /\ DOMAIN evs = 1 .. n /\ \A i \in 1 .. n : evs[i] \in Events
  OBVIOUS
<1>2. F \in [Devices \X (1 .. n) -> Devices]
  BY <1>1, EventTyped
<1>3. PICK f \in [SUBSET (1 .. n) -> Devices] : IsFold(f, n, d, F)
  <2> HIDE DEF F, n
  <2> QED BY <1>1, <1>2, FoldExists
<1>4. ASSUME NEW T \in SUBSET (1 .. n) PROVE f[T] = Step(f, T)
  <2>1. CASE T = {}
    BY <1>3, <2>1 DEF IsFold
  <2>2. CASE T # {}
    <3>1. Max(T) \in 1 .. n /\ T \ {Max(T)} \in SUBSET (1 .. n)
      BY <1>1, <2>2, GreatestUpTo
    <3>2. f[T] = F[<<f[T \ {Max(T)}], Max(T)>>]
      BY <1>3, <2>2 DEF IsFold
    <3> HIDE DEF Max, n
    <3> QED BY <1>3, <2>2, <3>1, <3>2
  <2> QED BY <2>1, <2>2
<1>5. h = [T \in SUBSET (1 .. n) |-> Step(h, T)]
  <2>1. f = [T \in SUBSET (1 .. n) |-> Step(f, T)]
    <3> HIDE DEF Step
    <3> QED BY <1>3, <1>4
  <2> HIDE DEF Step, n
  <2> QED BY <2>1
<1>6. Handled(d, evs) = h[1 .. n]
  BY <1>1 DEF Handled, FoldLeft, MapThenFoldSet
<1> HIDE DEF h, F
<1>7. g[0] = d
  BY <1>1, <1>5
<1>8. ASSUME NEW k \in 1 .. n PROVE g[k] = DeviceEvent(g[k - 1], evs[k])
  <2>1. k \in Nat \ {0} /\ k - 1 \in 0 .. n /\ k \in 0 .. n /\ 1 .. k \in SUBSET (1 .. n)
    BY <1>1
  <2>2. 1 .. k # {} /\ Max(1 .. k) = k /\ (1 .. k) \ {k} = 1 .. (k - 1)
    BY <2>1, FirstIndices
  <2>3. h[1 .. k] = DeviceEvent(h[1 .. (k - 1)], evs[k])
    BY <1>5, <2>1, <2>2
  <2> QED BY <1>1, <2>1, <2>3
<1>9. \A k \in 0 .. n : g[k] \in Devices
  <2> DEFINE C == {k \in 0 .. n : g[k] \in Devices}
  <2> HIDE DEF g
  <2>1. 0 \in C
    BY <1>1, <1>7
  <2>2. ASSUME NEW k \in 1 .. n, k - 1 \in C PROVE k \in C
    BY <1>1, <1>8, <2>2, EventTyped
  <2> HIDE DEF C, n
  <2>3. 0 .. n \subseteq C
    BY <1>1, <2>1, <2>2, Induction
  <2> QED BY <2>3 DEF C
<1>10. HandledTrace(g, d, evs) /\ g[n] = h[1 .. n]
  <2>1. g \in [0 .. n -> Devices] /\ g[n] = h[1 .. n]
    BY <1>1, <1>9
  <2> HIDE DEF g
  <2> QED BY <1>7, <1>8, <2>1 DEF HandledTrace
<1> QED BY <1>6, <1>10

LEMMA HandledTraced ==
  ASSUME NEW d \in Devices, NEW evs \in Seq(Events), NEW g, HandledTrace(g, d, evs)
  PROVE  Handled(d, evs) = g[Len(evs)] /\ Handled(d, evs) \in Devices
<1> DEFINE n == Len(evs)
<1>1. n \in Nat
  OBVIOUS
<1>2. PICK f : HandledTrace(f, d, evs) /\ Handled(d, evs) = f[n]
  BY HandledSteps
<1> DEFINE C == {k \in 0 .. n : f[k] = g[k]}
<1>3. 0 \in C /\ \A k \in 1 .. n : k - 1 \in C => k \in C
  BY <1>1, <1>2 DEF HandledTrace
<1> HIDE DEF C, n
<1>4. 0 .. n \subseteq C
  BY <1>1, <1>3, Induction
<1>5. f[n] = g[n]
  BY <1>1, <1>4 DEF C
<1>6. g[n] \in Devices
  BY <1>1 DEF HandledTrace, n
<1> QED BY <1>2, <1>5, <1>6 DEF n

LEMMA HandledNone ==
  ASSUME NEW d \in Devices
  PROVE  Handled(d, <<>>) = d
<1>1. <<>> \in Seq(Events) /\ Len(<<>>) = 0
  OBVIOUS
<1>2. PICK g : HandledTrace(g, d, <<>>) /\ Handled(d, <<>>) = g[0]
  BY <1>1, HandledSteps
<1> QED BY <1>2 DEF HandledTrace

LEMMA HandledOne ==
  ASSUME NEW d \in Devices, NEW e \in Events
  PROVE  Handled(d, <<e>>) = DeviceEvent(d, e)
<1>1. <<e>> \in Seq(Events) /\ Len(<<e>>) = 1 /\ <<e>>[1] = e
  OBVIOUS
<1>2. PICK g : HandledTrace(g, d, <<e>>) /\ Handled(d, <<e>>) = g[1]
  BY <1>1, HandledSteps
<1> QED BY <1>1, <1>2 DEF HandledTrace

(* Events are handled where the ones before them have left the device.     *)
LEMMA HandledOn ==
  ASSUME NEW d \in Devices, NEW a \in Seq(Events), NEW b \in Seq(Events)
  PROVE  Handled(d, a \o b) = Handled(Handled(d, a), b) /\ Handled(Handled(d, a), b) \in Devices
<1> DEFINE m == Len(a)
           n == Len(b)
<1>1. /\ m \in Nat /\ n \in Nat /\ a \o b \in Seq(Events) /\ Len(a \o b) = m + n
      /\ \A k \in 1 .. m : (a \o b)[k] = a[k]
      /\ \A k \in (m + 1) .. (m + n) : (a \o b)[k] = b[k - m]
  OBVIOUS
<1>2. PICK f : HandledTrace(f, d, a) /\ Handled(d, a) = f[m] /\ Handled(d, a) \in Devices
  BY HandledSteps, HandledTraced
<1>3. PICK g : HandledTrace(g, Handled(d, a), b) /\ Handled(Handled(d, a), b) = g[n] /\ g[n] \in Devices
  BY <1>2, HandledSteps, HandledTraced
<1> DEFINE h == [k \in 0 .. (m + n) |-> IF k <= m THEN f[k] ELSE g[k - m]]
<1>4. /\ f \in [0 .. m -> Devices] /\ f[0] = d /\ \A k \in 1 .. m : f[k] = DeviceEvent(f[k - 1], a[k])
      /\ g \in [0 .. n -> Devices] /\ g[0] = f[m] /\ \A k \in 1 .. n : g[k] = DeviceEvent(g[k - 1], b[k])
  BY <1>2, <1>3 DEF HandledTrace
<1> HIDE DEF m, n
<1>5. h \in [0 .. (m + n) -> Devices] /\ h[0] = d
  BY <1>1, <1>4
<1>6. ASSUME NEW k \in 1 .. (m + n) PROVE h[k] = DeviceEvent(h[k - 1], (a \o b)[k])
  <2>1. k \in 0 .. (m + n) /\ k - 1 \in 0 .. (m + n)
    BY <1>1
  <2>2. CASE k <= m
    <3>1. k \in 1 .. m /\ k - 1 <= m
      BY <1>1, <2>2
    <3>2. h[k] = f[k] /\ h[k - 1] = f[k - 1]
      BY <2>1, <3>1
    <3> HIDE DEF h
    <3> QED BY <1>1, <1>4, <3>1, <3>2
  <2>3. CASE ~(k <= m)
    <3>1. k \in (m + 1) .. (m + n) /\ k - m \in 1 .. n /\ (k - 1) - m = (k - m) - 1
      BY <1>1, <2>3
    <3>2. h[k] = g[k - m] /\ h[k - 1] = g[(k - m) - 1]
      <4>1. CASE k = m + 1
        <5>1. k - 1 = m /\ (k - m) - 1 = 0 /\ m <= m
          BY <1>1, <4>1
        <5>2. h[k - 1] = f[m]
          BY <2>1, <5>1
        <5> QED BY <1>4, <2>1, <2>3, <5>1, <5>2
      <4>2. CASE k # m + 1
        <5>1. ~(k - 1 <= m)
          BY <1>1, <3>1, <4>2
        <5> QED BY <2>1, <2>3, <3>1, <5>1
      <4> QED BY <4>1, <4>2
    <3>3. (a \o b)[k] = b[k - m]
      BY <1>1, <3>1
    <3> HIDE DEF h
    <3> QED BY <1>4, <3>1, <3>2, <3>3
  <2> QED BY <2>2, <2>3
<1>7. HandledTrace(h, d, a \o b) /\ h[m + n] = g[n]
  <2>1. h[m + n] = g[n]
    <3>1. CASE n = 0
      BY <1>1, <1>4, <3>1
    <3>2. CASE n # 0
      BY <1>1, <3>2
    <3> QED BY <3>1, <3>2
  <2> HIDE DEF h
  <2> QED BY <1>1, <1>5, <1>6, <2>1 DEF HandledTrace
<1> DEFINE c == a \o b
<1> HIDE DEF h, c
<1>8. c \in Seq(Events) /\ HandledTrace(h, d, c) /\ Len(c) = m + n
  BY <1>1, <1>7 DEF c
<1>9. Handled(d, c) = h[Len(c)]
  BY <1>8, HandledTraced
<1> QED BY <1>3, <1>7, <1>8, <1>9 DEF c

(* The frames of a queue, one after the other.                             *)
FramesTrace(g, d, qs) ==
  /\ g \in [0 .. Len(qs) -> Devices] /\ g[0] = d
  /\ \A k \in 1 .. Len(qs) : g[k] = Handled(g[k - 1], qs[k])

LEMMA FlattenSteps ==
  ASSUME NEW qs \in Seq(Seq(Events)), Len(qs) # 0
  PROVE  \E g : /\ g \in [1 .. Len(qs) -> Seq(Events)] /\ g[1] = qs[1]
                /\ \A k \in 2 .. Len(qs) : g[k] = g[k - 1] \o qs[k]
                /\ FlattenSeq(qs) = g[Len(qs)]
<1> DEFINE n == Len(qs)
           F == [x \in Seq(Events) \X (1 .. n) |-> x[1] \o qs[x[2]]]
           Step(f, i) == IF i = 1 THEN qs[i] ELSE f[i - 1] \o qs[i]
           h == CHOOSE f : f = [i \in 1 .. n |-> Step(f, i)]
<1>1. n \in Nat /\ n # 0 /\ \A i \in 1 .. n : qs[i] \in Seq(Events)
  OBVIOUS
<1>2. F \in [Seq(Events) \X (1 .. n) -> Seq(Events)] /\ <<>> \in Seq(Events)
  BY <1>1
<1>3. PICK f \in [0 .. n -> Seq(Events)] : IsRecursive(f, n, <<>>, F)
  <2> HIDE DEF F, n
  <2> QED BY <1>1, <1>2, Recursion
<1> DEFINE e == [i \in 1 .. n |-> f[i]]
<1>4. e \in [1 .. n -> Seq(Events)]
  BY <1>3
<1>5. ASSUME NEW i \in 1 .. n PROVE e[i] = Step(e, i)
  <2>1. f[i] = f[i - 1] \o qs[i] /\ f[0] = <<>>
    <3>1. i - 1 \in 0 .. n
      BY <1>1
    <3>2. f[i - 1] \in Seq(Events)
      BY <1>3, <3>1
    <3> HIDE DEF F, n
    <3>3. f[i] = F[<<f[i - 1], i>>] /\ f[0] = <<>>
      BY <1>3 DEF IsRecursive
    <3> QED BY <3>2, <3>3 DEF F
  <2>2. CASE i = 1
    <3>1. <<>> \o qs[1] = qs[1]
      BY <1>1
    <3>2. e[i] = f[i] /\ i - 1 = 0
      BY <2>2
    <3>3. f[i] = qs[i]
      BY <2>1, <2>2, <3>1, <3>2
    <3> QED BY <2>2, <3>2, <3>3
  <2>3. CASE i # 1
    <3>1. i - 1 \in 1 .. n
      BY <1>1, <2>3
    <3> QED BY <2>1, <2>3, <3>1
  <2> QED BY <2>2, <2>3
<1>6. e = [i \in 1 .. n |-> Step(e, i)]
  <2> HIDE DEF Step
  <2> QED BY <1>5
<1> HIDE DEF e
<1>7. h = [i \in 1 .. n |-> Step(h, i)]
  <2> HIDE DEF Step, n
  <2> QED BY <1>6
<1>8. FlattenSeq(qs) = h[n]
  BY <1>1 DEF FlattenSeq
<1> HIDE DEF h
<1>9. h[1] = qs[1] /\ \A k \in 2 .. n : h[k] = h[k - 1] \o qs[k]
  <2>1. \A k \in 1 .. n : h[k] = Step(h, k)
    <3> HIDE DEF Step, n
    <3> QED BY <1>7
  <2>2. 1 \in 1 .. n /\ \A k \in 2 .. n : k \in 1 .. n /\ k # 1
    BY <1>1
  <2> HIDE DEF n
  <2> QED BY <2>1, <2>2
<1>10. ASSUME NEW k \in 1 .. n PROVE h[k] \in Seq(Events)
  <2> DEFINE C == {i \in 0 .. n : i = 0 \/ h[i] \in Seq(Events)}
  <2>1. 0 \in C
    BY <1>1
  <2>2. ASSUME NEW i \in 1 .. n, i - 1 \in C PROVE i \in C
    <3>1. CASE i = 1
      BY <1>1, <1>9, <3>1
    <3>2. CASE i # 1
      <4>1. i \in 2 .. n /\ h[i - 1] \in Seq(Events) /\ qs[i] \in Seq(Events)
        BY <1>1, <2>2, <3>2
      <4>2. h[i - 1] \o qs[i] \in Seq(Events)
        BY <4>1
      <4>3. h[i] \in Seq(Events)
        BY <1>9, <4>1, <4>2
      <4> QED BY <2>2, <4>3
    <3> QED BY <3>1, <3>2
  <2> HIDE DEF C, n
  <2>3. 0 .. n \subseteq C
    BY <1>1, <2>1, <2>2, Induction
  <2>4. k \in C /\ k # 0
    BY <1>1, <2>3
  <2> QED BY <2>4 DEF C
<1>11. h \in [1 .. n -> Seq(Events)]
  BY <1>7, <1>10
<1> QED BY <1>8, <1>9, <1>11

LEMMA HandledFrames ==
  ASSUME NEW d \in Devices, NEW qs \in Seq(Seq(Events)), NEW g, FramesTrace(g, d, qs)
  PROVE  FlattenSeq(qs) \in Seq(Events) /\ Handled(d, FlattenSeq(qs)) = g[Len(qs)]
<1> DEFINE n == Len(qs)
<1>1. n \in Nat /\ \A i \in 1 .. n : qs[i] \in Seq(Events)
  OBVIOUS
<1>2. CASE n = 0
  <2>1. FlattenSeq(qs) = <<>>
    BY <1>2 DEF FlattenSeq
  <2>2. g[0] = d /\ <<>> \in Seq(Events)
    BY DEF FramesTrace
  <2> QED BY <1>2, <2>1, <2>2, HandledNone
<1>3. CASE n # 0
  <2>1. PICK f : /\ f \in [1 .. n -> Seq(Events)] /\ f[1] = qs[1]
                 /\ \A k \in 2 .. n : f[k] = f[k - 1] \o qs[k]
                 /\ FlattenSeq(qs) = f[n]
    BY <1>3, FlattenSteps
  <2>2. /\ g \in [0 .. n -> Devices] /\ g[0] = d
        /\ \A k \in 1 .. n : g[k] = Handled(g[k - 1], qs[k])
    BY DEF FramesTrace
  <2> DEFINE C == {k \in 0 .. n : k = 0 \/ Handled(d, f[k]) = g[k]}
  <2> HIDE DEF n
  <2>3. 0 \in C
    BY <1>1
  <2>4. ASSUME NEW k \in 1 .. n, k - 1 \in C PROVE k \in C
    <3>1. CASE k = 1
      BY <1>1, <2>1, <2>2, <3>1
    <3>2. CASE k # 1
      <4>1. k \in 2 .. n /\ k - 1 \in 1 .. n /\ k - 1 # 0
        BY <1>1, <3>2
      <4>2. Handled(d, f[k - 1]) = g[k - 1] /\ f[k] = f[k - 1] \o qs[k] /\ f[k - 1] \in Seq(Events) /\ qs[k] \in Seq(Events)
        BY <1>1, <2>1, <2>4, <4>1
      <4>3. Handled(d, f[k]) = Handled(g[k - 1], qs[k])
        BY <4>2, HandledOn
      <4> QED BY <2>2, <4>3
    <3> QED BY <3>1, <3>2
  <2> HIDE DEF C
  <2>5. 0 .. n \subseteq C
    BY <1>1, <2>3, <2>4, Induction
  <2>6. n \in C /\ f[n] \in Seq(Events)
    BY <1>1, <1>3, <2>1, <2>5
  <2>7. Handled(d, f[n]) = g[n]
    BY <1>3, <2>6 DEF C
  <2> QED BY <2>1, <2>6, <2>7 DEF n
<1> QED BY <1>2, <1>3

LEMMA HandledTyped ==
  ASSUME NEW d \in Devices, NEW evs \in Seq(Events)
  PROVE  Handled(d, evs) \in Devices
BY HandledSteps, HandledTraced

LEMMA FramesSteps ==
  ASSUME NEW d \in Devices, NEW qs \in Seq(Seq(Events))
  PROVE  \E g : FramesTrace(g, d, qs)
<1> DEFINE n == Len(qs)
           F == [x \in Devices \X (1 .. n) |-> Handled(x[1], qs[x[2]])]
<1>1. n \in Nat /\ \A i \in 1 .. n : qs[i] \in Seq(Events)
  OBVIOUS
<1>2. F \in [Devices \X (1 .. n) -> Devices]
  BY <1>1, HandledTyped
<1>3. PICK g \in [0 .. n -> Devices] : IsRecursive(g, n, d, F)
  <2> HIDE DEF F, n
  <2> QED BY <1>1, <1>2, Recursion
<1>4. ASSUME NEW k \in 1 .. n PROVE g[k] = Handled(g[k - 1], qs[k])
  <2>1. k - 1 \in 0 .. n
    BY <1>1
  <2>2. g[k - 1] \in Devices
    BY <1>3, <2>1
  <2> HIDE DEF F, n
  <2>3. g[k] = F[<<g[k - 1], k>>]
    BY <1>3 DEF IsRecursive
  <2> QED BY <2>2, <2>3 DEF F
<1> QED BY <1>3, <1>4 DEF FramesTrace, IsRecursive

LEMMA FlattenTyped ==
  ASSUME NEW qs \in Seq(Seq(Events))
  PROVE  FlattenSeq(qs) \in Seq(Events)
<1>1. CASE Len(qs) = 0
  <2>1. FlattenSeq(qs) = <<>>
    BY <1>1 DEF FlattenSeq
  <2> QED BY <2>1
<1>2. CASE Len(qs) # 0
  <2>1. PICK g \in [1 .. Len(qs) -> Seq(Events)] : FlattenSeq(qs) = g[Len(qs)]
    BY <1>2, FlattenSteps
  <2> QED BY <1>2, <2>1
<1> QED BY <1>1, <1>2

(* One more frame is handled after those before it.                        *)
LEMMA HandledAppend ==
  ASSUME NEW d \in Devices, NEW qs \in Seq(Seq(Events)), NEW q \in Seq(Events)
  PROVE  /\ FlattenSeq(Append(qs, q)) \in Seq(Events)
         /\ Handled(d, FlattenSeq(Append(qs, q))) = Handled(Handled(d, FlattenSeq(qs)), q)
<1> DEFINE n == Len(qs)
           rs == Append(qs, q)
<1>1. /\ n \in Nat /\ rs \in Seq(Seq(Events)) /\ Len(rs) = n + 1
      /\ (\A k \in 1 .. n : rs[k] = qs[k]) /\ rs[n + 1] = q
  OBVIOUS
<1> HIDE DEF rs
<1>2. PICK g : FramesTrace(g, d, rs)
  BY <1>1, FramesSteps
<1> DEFINE f == [k \in 0 .. n |-> g[k]]
<1>3. /\ g \in [0 .. (n + 1) -> Devices] /\ g[0] = d
      /\ \A k \in 1 .. (n + 1) : g[k] = Handled(g[k - 1], rs[k])
  BY <1>1, <1>2 DEF FramesTrace
<1>4. FramesTrace(f, d, qs) /\ f[n] = g[n]
  <2> HIDE DEF n
  <2>1. f \in [0 .. n -> Devices] /\ f[0] = d /\ f[n] = g[n]
    BY <1>1, <1>3
  <2>2. ASSUME NEW k \in 1 .. n PROVE f[k] = Handled(f[k - 1], qs[k])
    <3>1. k \in 0 .. n /\ k - 1 \in 0 .. n /\ k \in 1 .. (n + 1)
      BY <1>1
    <3>2. f[k] = g[k] /\ f[k - 1] = g[k - 1]
      BY <3>1
    <3> HIDE DEF f
    <3> QED BY <1>1, <1>3, <3>1, <3>2
  <2> HIDE DEF f
  <2> QED BY <2>1, <2>2 DEF FramesTrace, n
<1> HIDE DEF f
<1>5. Handled(d, FlattenSeq(qs)) = g[n]
  BY <1>4, HandledFrames
<1>6. Handled(d, FlattenSeq(rs)) = g[n + 1] /\ FlattenSeq(rs) \in Seq(Events)
  BY <1>1, <1>2, HandledFrames
<1>7. g[n + 1] = Handled(g[n], q)
  <2>1. n + 1 \in 1 .. (n + 1) /\ (n + 1) - 1 = n
    BY <1>1
  <2> HIDE DEF n
  <2> QED BY <1>1, <1>3, <2>1
<1> QED BY <1>5, <1>6, <1>7 DEF rs

-----------------------------------------------------------------------------
(* Pads, and what Setsu and the client know of one when all is read.       *)
Pads == [slot : [MTSlots -> [id : Int, moved : BOOLEAN]], cur : MTSlots]
FingersOf(P) == {P.slot[s].id : s \in MTSlots} \ {-1}
MovedOf(P) == {P.slot[s].id : s \in {t \in MTSlots : P.slot[t].moved}}
PadOK(P) ==
  /\ P \in Pads
  /\ \A s, t \in MTSlots : P.slot[s].id # -1 /\ P.slot[s].id = P.slot[t].id => s = t
  /\ \A s \in MTSlots : P.slot[s].moved => P.slot[s].id # -1
Follows(r, P) ==
  /\ r.slot_cur = P.cur
  /\ \A s \in MTSlots : r.slots[s] = Quiet(P.slot[s].id)
  /\ r.held = FingersOf(P)
  /\ r.touches \subseteq FingersOf(P) /\ MovedOf(P) \subseteq r.touches

(* One slot of a pad changes.                                              *)
Changed(P, s, f) == [slot |-> [P.slot EXCEPT ![s] = f], cur |-> s]

LEMMA ChangedFingers ==
  ASSUME NEW P, PadOK(P), NEW s \in MTSlots, NEW f \in [id : Int, moved : BOOLEAN],
         f.moved => f.id # -1,
         f.id # -1 /\ f.id # P.slot[s].id => f.id \notin FingersOf(P)
  PROVE  /\ PadOK(Changed(P, s, f))
         /\ FingersOf(Changed(P, s, f)) = (FingersOf(P) \ {P.slot[s].id}) \cup ({f.id} \ {-1})
         /\ MovedOf(Changed(P, s, f)) \subseteq (MovedOf(P) \ {P.slot[s].id}) \cup (IF f.moved THEN {f.id} ELSE {})
<1> DEFINE Q == Changed(P, s, f)
           old == P.slot[s].id
<1>1. /\ P.slot \in [MTSlots -> [id : Int, moved : BOOLEAN]]
      /\ Q.cur = s /\ Q.slot = [P.slot EXCEPT ![s] = f] /\ Q = [slot |-> Q.slot, cur |-> Q.cur]
  BY DEF PadOK, Pads, Changed
<1> HIDE DEF Q
<1>2. /\ \A t \in MTSlots : Q.slot[t] = IF t = s THEN f ELSE P.slot[t]
      /\ Q.slot \in [MTSlots -> [id : Int, moved : BOOLEAN]]
  BY <1>1
<1>3. Q \in Pads
  BY <1>1, <1>2 DEF Pads
<1>4. \A t \in MTSlots : t # s => P.slot[t].id = -1 \/ P.slot[t].id # f.id
  BY DEF PadOK, FingersOf
<1>5. \A t \in MTSlots : t # s => P.slot[t].id = -1 \/ P.slot[t].id # old
  BY DEF PadOK
<1>6. PadOK(Q)
  BY <1>2, <1>3, <1>4 DEF PadOK
<1>7. FingersOf(Q) = (FingersOf(P) \ {old}) \cup ({f.id} \ {-1})
  <2>1. ASSUME NEW i PROVE i \in FingersOf(Q) <=> i # -1 /\ (i = f.id \/ \E t \in MTSlots : t # s /\ i = P.slot[t].id)
    BY <1>2 DEF FingersOf
  <2>2. ASSUME NEW i PROVE i \in FingersOf(P) \ {old} <=> i # -1 /\ \E t \in MTSlots : t # s /\ i = P.slot[t].id
    BY <1>5 DEF FingersOf
  <2> QED BY <2>1, <2>2
<1>8. MovedOf(Q) \subseteq (MovedOf(P) \ {old}) \cup (IF f.moved THEN {f.id} ELSE {})
  <2>1. ASSUME NEW t \in MTSlots, Q.slot[t].moved
        PROVE  Q.slot[t].id \in (MovedOf(P) \ {old}) \cup (IF f.moved THEN {f.id} ELSE {})
    <3>1. CASE t = s
      BY <1>2, <2>1, <3>1
    <3>2. CASE t # s
      <4>1. Q.slot[t] = P.slot[t] /\ P.slot[t].id \in MovedOf(P)
        BY <1>2, <2>1, <3>2 DEF MovedOf
      <4>2. P.slot[t].id # old
        BY <1>5, <2>1, <3>2, <4>1 DEF PadOK
      <4> QED BY <4>1, <4>2
    <3> QED BY <3>1, <3>2
  <2> QED BY <2>1 DEF MovedOf
<1> QED BY <1>6, <1>7, <1>8 DEF Q

(* The end of a frame about slot s: an ended touch a, the touch b, down in *)
(* this frame or not, with a position or not.                              *)
LEMMA FrameEnds ==
  ASSUME NEW r \in Devices, NEW P, PadOK(P), Follows(r, P), NEW s \in MTSlots,
         NEW f \in [id : Int, moved : BOOLEAN], f.moved => f.id # -1,
         f.id # -1 /\ f.id # P.slot[s].id => f.id \notin FingersOf(P),
         NEW x \in Devices, NEW slot \in Slots, x.slot_cur = s, x.slots = [r.slots EXCEPT ![s] = slot],
         x.held = r.held, x.touches = r.touches, slot.id = f.id,
         slot.prev = IF f.id # P.slot[s].id THEN P.slot[s].id ELSE -1,
         slot.downed <=> f.id # -1 /\ f.id # P.slot[s].id,
         slot.dirty => f.id # -1,
         f.moved => slot.dirty \/ f.id \in r.touches
  PROVE  Follows(DeviceDrain(x), Changed(P, s, f)) /\ DeviceDrain(x) \in Devices
<1> DEFINE old == P.slot[s].id
           Q == Changed(P, s, f)
           y == DeviceDrain(x)
           ups == IF f.id # old THEN {old} \ {-1} ELSE {}
           downs == IF slot.downed THEN {f.id} ELSE {}
           place == IF slot.dirty THEN {f.id} ELSE {}
<1>1. /\ PadOK(Q) /\ FingersOf(Q) = (FingersOf(P) \ {old}) \cup ({f.id} \ {-1})
      /\ MovedOf(Q) \subseteq (MovedOf(P) \ {old}) \cup (IF f.moved THEN {f.id} ELSE {})
  BY ChangedFingers
<1>2. Q.cur = s /\ \A t \in MTSlots : Q.slot[t] = IF t = s THEN f ELSE P.slot[t]
  BY DEF Changed, PadOK, Pads
<1>3. \A t \in MTSlots : x.slots[t] = IF t = s THEN slot ELSE Quiet(P.slot[t].id)
  BY DEF Follows, Devices
<1>17. ASSUME NEW t \in MTSlots
       PROVE  /\ x.slots[t].prev = IF t = s THEN slot.prev ELSE -1
              /\ x.slots[t].id = IF t = s THEN f.id ELSE P.slot[t].id
              /\ x.slots[t].downed <=> t = s /\ slot.downed
              /\ x.slots[t].dirty <=> t = s /\ slot.dirty
  <2>1. CASE t = s
    <3>1. x.slots[t] = slot
      BY <1>3, <2>1
    <3> QED BY <2>1, <3>1
  <2>2. CASE t # s
    <3>1. x.slots[t] = Quiet(P.slot[t].id)
      BY <1>3, <2>2
    <3>2. /\ x.slots[t].prev = -1 /\ x.slots[t].id = P.slot[t].id
          /\ x.slots[t].downed = FALSE /\ x.slots[t].dirty = FALSE
      BY <3>1 DEF Quiet
    <3> QED BY <2>2, <3>2
  <2> QED BY <2>1, <2>2
<1>4. Distinct(x)
  <2>1. \A t \in MTSlots : t # s => P.slot[t].id = -1 \/ P.slot[t].id # old
    BY DEF PadOK
  <2>2. ASSUME NEW t \in MTSlots, NEW u \in MTSlots, x.slots[t].prev # -1 PROVE x.slots[t].prev # x.slots[u].id
    <3>1. t = s /\ slot.prev = old /\ f.id # old /\ old # -1 /\ x.slots[t].prev = old
      BY <1>17, <2>2
    <3>2. x.slots[u].id = IF u = s THEN f.id ELSE P.slot[u].id
      BY <1>17
    <3> QED BY <2>1, <3>1, <3>2
  <2> QED BY <2>2 DEF Distinct
<1>5. y \in Devices /\ DrainedTo(x, SlotCount, y)
  BY <1>4, Drained
<1>6. MTSlots = 0 .. SlotCount - 1 /\ \A t \in MTSlots : t < SlotCount
  BY SetsuAssumption DEF MTSlots
<1>7. UpsTo(x, SlotCount) = ups
  <2>1. UpsTo(x, SlotCount) = {slot.prev} \ {-1}
    BY <1>6, <1>17 DEF UpsTo
  <2> QED BY <2>1
<1>8. DownsTo(x, SlotCount) = downs
  <2>1. \A i : i \in DownsTo(x, SlotCount) <=> \E t \in MTSlots : x.slots[t].downed /\ i = x.slots[t].id
    BY <1>6 DEF DownsTo
  <2>2. \A i : i \in DownsTo(x, SlotCount) <=> slot.downed /\ i = f.id
    BY <1>17, <2>1
  <2> QED BY <2>2
<1>9. PlacesTo(x, SlotCount) = place
  <2>1. \A i : i \in PlacesTo(x, SlotCount) <=> \E t \in MTSlots : x.slots[t].dirty /\ i = x.slots[t].id
    BY <1>6 DEF PlacesTo
  <2>2. \A i : i \in PlacesTo(x, SlotCount) <=> slot.dirty /\ i = f.id
    BY <1>17, <2>1
  <2> QED BY <2>2
<1>10. /\ y.slot_cur = s /\ y.held = (r.held \ ups) \cup downs /\ y.touches = (r.touches \ ups) \cup place
       /\ \A t \in MTSlots : y.slots[t] = Quiet(x.slots[t].id)
  BY <1>5, <1>6, <1>7, <1>8, <1>9 DEF DrainedTo
<1>11. \A t \in MTSlots : y.slots[t] = Quiet(Q.slot[t].id)
  <2>1. \A t \in MTSlots : x.slots[t].id = Q.slot[t].id
    BY <1>2, <1>17
  <2> QED BY <1>10, <2>1
<1>12. old # -1 => old \in FingersOf(P)
  BY DEF FingersOf
<1> HIDE DEF Q, y, old
<1>13. /\ -1 \notin FingersOf(P) /\ r.held = FingersOf(P)
       /\ r.touches \subseteq FingersOf(P) /\ MovedOf(P) \subseteq r.touches
  BY DEF Follows, FingersOf
<1>14. slot.downed <=> f.id # -1 /\ f.id # old
  BY DEF old
<1>15. y.held = FingersOf(Q)
  BY <1>1, <1>10, <1>12, <1>13, <1>14
<1>16. y.touches \subseteq FingersOf(Q) /\ MovedOf(Q) \subseteq y.touches
  BY <1>1, <1>10, <1>12, <1>13, <1>14
<1> QED BY <1>2, <1>5, <1>10, <1>11, <1>15, <1>16 DEF Follows, Q, y

(* The events of a frame, one by one.                                      *)
LEMMA Joined ==
  ASSUME NEW a \in Seq(Events), NEW b \in Seq(Events)
  PROVE  a \o b \in Seq(Events)
OBVIOUS

LEMMA EventsAre ==
  /\ \A i \in MTSlots : SlotEvent(i) \in Seq(Events)
  /\ \A v \in Int : IdEvent(v) \in Seq(Events)
  /\ PosEvent \in Seq(Events) /\ SynEvent \in Seq(Events) /\ <<>> \in Seq(Events)
<1>1. ASSUME NEW i \in MTSlots PROVE SlotEvent(i) \in Seq(Events)
  <2>1. [type |-> "slot", v |-> i] \in Events
    BY DEF Events, SlotEvents
  <2> QED BY <2>1 DEF SlotEvent
<1>2. ASSUME NEW v \in Int PROVE IdEvent(v) \in Seq(Events)
  <2>1. [type |-> "id", v |-> v] \in Events
    BY DEF Events, IdEvents
  <2> QED BY <2>1 DEF IdEvent
<1>3. PosEvent \in Seq(Events) /\ SynEvent \in Seq(Events)
  <2>1. [type |-> "pos", v |-> 0] \in Events /\ [type |-> "syn", v |-> 0] \in Events
    BY DEF Events, OtherEvents
  <2> QED BY <2>1 DEF PosEvent, SynEvent
<1> QED BY <1>1, <1>2, <1>3

LEMMA HandledEvents ==
  ASSUME NEW d \in Devices
  PROVE  /\ \A i \in MTSlots : Handled(d, SlotEvent(i)) = [d EXCEPT !.slot_cur = i]
         /\ \A v \in Int : Handled(d, IdEvent(v)) = [d EXCEPT !.slots[d.slot_cur] = TrackingId(@, v)]
         /\ Handled(d, PosEvent) = [d EXCEPT !.slots[d.slot_cur].dirty = TRUE]
         /\ Handled(d, SynEvent) = DeviceDrain(d)
<1>1. ASSUME NEW i \in MTSlots PROVE Handled(d, SlotEvent(i)) = [d EXCEPT !.slot_cur = i]
  <2>1. [type |-> "slot", v |-> i] \in Events
    BY DEF Events, SlotEvents
  <2>2. Handled(d, SlotEvent(i)) = DeviceEvent(d, [type |-> "slot", v |-> i])
    BY <2>1, HandledOne DEF SlotEvent
  <2> QED BY <2>2 DEF DeviceEvent
<1>2. ASSUME NEW v \in Int PROVE Handled(d, IdEvent(v)) = [d EXCEPT !.slots[d.slot_cur] = TrackingId(@, v)]
  <2>1. [type |-> "id", v |-> v] \in Events
    BY DEF Events, IdEvents
  <2>2. Handled(d, IdEvent(v)) = DeviceEvent(d, [type |-> "id", v |-> v])
    BY <2>1, HandledOne DEF IdEvent
  <2> QED BY <2>2 DEF DeviceEvent
<1>3. Handled(d, PosEvent) = [d EXCEPT !.slots[d.slot_cur].dirty = TRUE]
  <2>1. [type |-> "pos", v |-> 0] \in Events
    BY DEF Events, OtherEvents
  <2>2. Handled(d, PosEvent) = DeviceEvent(d, [type |-> "pos", v |-> 0])
    BY <2>1, HandledOne DEF PosEvent
  <2> QED BY <2>2 DEF DeviceEvent
<1>4. Handled(d, SynEvent) = DeviceDrain(d)
  <2>1. [type |-> "syn", v |-> 0] \in Events
    BY DEF Events, OtherEvents
  <2>2. Handled(d, SynEvent) = DeviceEvent(d, [type |-> "syn", v |-> 0])
    BY <2>1, HandledOne DEF SynEvent
  <2> QED BY <2>2 DEF DeviceEvent
<1> QED BY <1>1, <1>2, <1>3, <1>4

(* The same of the fields.                                                 *)
LEMMA HandledSlot ==
  ASSUME NEW d \in Devices, NEW i \in MTSlots
  PROVE  LET r == Handled(d, SlotEvent(i))
         IN r \in Devices /\ r.slot_cur = i /\ r.slots = d.slots /\ r.held = d.held /\ r.touches = d.touches
<1>1. Handled(d, SlotEvent(i)) = [d EXCEPT !.slot_cur = i]
  BY HandledEvents
<1> QED BY <1>1 DEF Devices

LEMMA HandledId ==
  ASSUME NEW d \in Devices, NEW v \in Int
  PROVE  LET r == Handled(d, IdEvent(v)) slot == TrackingId(d.slots[d.slot_cur], v)
         IN /\ r \in Devices /\ slot \in Slots /\ r.slots = [d.slots EXCEPT ![d.slot_cur] = slot]
            /\ r.slot_cur = d.slot_cur /\ r.held = d.held /\ r.touches = d.touches
<1> DEFINE slot == TrackingId(d.slots[d.slot_cur], v)
<1>1. slot \in Slots
  <2>1. d.slots[d.slot_cur] \in Slots
    BY DEF Devices
  <2> QED BY <2>1 DEF TrackingId, Slots
<1>2. Handled(d, IdEvent(v)) = [d EXCEPT !.slots[d.slot_cur] = TrackingId(@, v)]
  BY HandledEvents
<1>3. Handled(d, IdEvent(v)) = [d EXCEPT !.slots = [d.slots EXCEPT ![d.slot_cur] = slot]]
  BY <1>2 DEF Devices
<1> HIDE DEF slot
<1>4. [d.slots EXCEPT ![d.slot_cur] = slot] \in [MTSlots -> Slots]
  BY <1>1 DEF Devices
<1> QED BY <1>1, <1>3, <1>4 DEF Devices, slot

LEMMA HandledPos ==
  ASSUME NEW d \in Devices
  PROVE  LET r == Handled(d, PosEvent) slot == [d.slots[d.slot_cur] EXCEPT !.dirty = TRUE]
         IN /\ r \in Devices /\ slot \in Slots /\ r.slots = [d.slots EXCEPT ![d.slot_cur] = slot]
            /\ r.slot_cur = d.slot_cur /\ r.held = d.held /\ r.touches = d.touches
<1> DEFINE slot == [d.slots[d.slot_cur] EXCEPT !.dirty = TRUE]
<1>1. slot \in Slots
  <2>1. d.slots[d.slot_cur] \in Slots
    BY DEF Devices
  <2> QED BY <2>1 DEF Slots
<1>2. Handled(d, PosEvent) = [d EXCEPT !.slots[d.slot_cur].dirty = TRUE]
  BY HandledEvents
<1>3. Handled(d, PosEvent) = [d EXCEPT !.slots = [d.slots EXCEPT ![d.slot_cur] = slot]]
  BY <1>2 DEF Devices
<1> HIDE DEF slot
<1>4. [d.slots EXCEPT ![d.slot_cur] = slot] \in [MTSlots -> Slots]
  BY <1>1 DEF Devices
<1> QED BY <1>1, <1>3, <1>4 DEF Devices, slot

(* A slot whose touch changes, after all of it has been told.              *)
LEMMA Tracked ==
  ASSUME NEW id \in Int, NEW v \in Int, v # id
  PROVE  TrackingId(Quiet(id), v) = [prev |-> id, id |-> v, downed |-> v # -1, dirty |-> FALSE]
<1> DEFINE q == Quiet(id)
<1>1. q.prev = -1 /\ q.id = id /\ q.downed = FALSE /\ q.dirty = FALSE
  BY DEF Quiet
<1> HIDE DEF q
<1>2. TrackingId(q, v) = [prev   |-> IF q.id # -1 /\ q.prev = -1 THEN q.id ELSE q.prev,
                          id     |-> v,
                          downed |-> q.downed \/ v # -1,
                          dirty  |-> q.dirty /\ ~(q.id # -1 /\ q.prev = -1)]
  BY DEF TrackingId
<1>3. (IF q.id # -1 /\ q.prev = -1 THEN q.id ELSE q.prev) = id
  BY <1>1
<1>4. (q.downed \/ v # -1) = (v # -1) /\ (q.dirty /\ ~(q.id # -1 /\ q.prev = -1)) = FALSE
  BY <1>1
<1> QED BY <1>2, <1>3, <1>4 DEF q

(* The kernel's frame about slot s of a pad.                               *)
FrameOf(P, s, evs) == (IF P.cur # s THEN SlotEvent(s) ELSE <<>>) \o evs \o SynEvent

LEMMA FrameTyped ==
  ASSUME NEW P, NEW s \in MTSlots, NEW evs \in Seq(Events)
  PROVE  FrameOf(P, s, evs) \in Seq(Events)
<1> DEFINE a == IF P.cur # s THEN SlotEvent(s) ELSE <<>>
<1>1. a \in Seq(Events) /\ SynEvent \in Seq(Events)
  BY EventsAre
<1>2. FrameOf(P, s, evs) = (a \o evs) \o SynEvent
  BY DEF FrameOf
<1> HIDE DEF a
<1>3. a \o evs \in Seq(Events)
  BY <1>1, Joined, Zenon
<1>4. (a \o evs) \o SynEvent \in Seq(Events)
  BY <1>1, <1>3, Joined, Zenon
<1> QED BY <1>2, <1>4

LEMMA HandledFrame ==
  ASSUME NEW r \in Devices, NEW P, Follows(r, P), NEW s \in MTSlots, NEW evs \in Seq(Events)
  PROVE  /\ FrameOf(P, s, evs) \in Seq(Events)
         /\ \E y \in Devices : /\ y.slot_cur = s /\ y.slots = r.slots /\ y.held = r.held /\ y.touches = r.touches
                               /\ Handled(y, evs) \in Devices
                               /\ Handled(r, FrameOf(P, s, evs)) = DeviceDrain(Handled(y, evs))
<1> DEFINE a == IF P.cur # s THEN SlotEvent(s) ELSE <<>>
           y == Handled(r, a)
<1>1. a \in Seq(Events) /\ SynEvent \in Seq(Events)
  BY EventsAre
<1>2. y \in Devices /\ y.slot_cur = s /\ y.slots = r.slots /\ y.held = r.held /\ y.touches = r.touches
  <2>1. CASE P.cur # s
    BY <2>1, HandledSlot
  <2>2. CASE P.cur = s
    <3>1. y = r
      BY <2>2, HandledNone
    <3> QED BY <2>2, <3>1 DEF Follows
  <2> QED BY <2>1, <2>2
<1> HIDE DEF a
<1>3. a \o evs \in Seq(Events) /\ Handled(r, a \o evs) = Handled(y, evs) /\ Handled(y, evs) \in Devices
  BY <1>1, HandledOn
<1> DEFINE b == a \o evs
<1> HIDE DEF b, y
<1>4. b \in Seq(Events) /\ Handled(r, b) = Handled(y, evs) /\ Handled(y, evs) \in Devices
  BY <1>3 DEF b
<1>5. b \o SynEvent \in Seq(Events) /\ Handled(r, b \o SynEvent) = Handled(Handled(r, b), SynEvent)
  BY <1>1, <1>4, HandledOn
<1>6. Handled(Handled(r, b), SynEvent) = DeviceDrain(Handled(y, evs))
  BY <1>4, HandledEvents
<1>7. FrameOf(P, s, evs) = b \o SynEvent
  BY DEF FrameOf, b, a
<1> QED BY <1>2, <1>4, <1>5, <1>6, <1>7

(* A finger comes down, also in the place of another one.                  *)
LEMMA DownFrame ==
  ASSUME NEW r \in Devices, NEW P, PadOK(P), Follows(r, P), NEW s \in MTSlots,
         NEW v \in Nat, v \notin FingersOf(P), NEW moved \in BOOLEAN, NEW f, f = [id |-> v, moved |-> moved],
         NEW pos, pos = IF moved THEN PosEvent ELSE <<>>,
         NEW evs, evs = IdEvent(v) \o pos
  PROVE  /\ evs \in Seq(Events) /\ FrameOf(P, s, evs) \in Seq(Events)
         /\ Follows(Handled(r, FrameOf(P, s, evs)), Changed(P, s, f))
<1> DEFINE old == P.slot[s].id
<1>1. IdEvent(v) \in Seq(Events) /\ pos \in Seq(Events)
  BY EventsAre
<1>12. evs \in Seq(Events)
  BY <1>1, Joined, Zenon
<1>2. ASSUME NEW e \in Seq(Events)
      PROVE  /\ FrameOf(P, s, e) \in Seq(Events)
             /\ \E y \in Devices : /\ y.slot_cur = s /\ y.slots = r.slots /\ y.held = r.held /\ y.touches = r.touches
                                   /\ Handled(r, FrameOf(P, s, e)) = DeviceDrain(Handled(y, e))
  BY HandledFrame
<1>3. PICK y \in Devices : /\ y.slot_cur = s /\ y.slots = r.slots /\ y.held = r.held /\ y.touches = r.touches
                           /\ Handled(r, FrameOf(P, s, evs)) = DeviceDrain(Handled(y, evs))
  BY <1>2, <1>12, Zenon
<1> DEFINE z == Handled(y, IdEvent(v))
           slot == TrackingId(y.slots[s], v)
<1>4. z \in Devices /\ slot \in Slots /\ z.slots = [y.slots EXCEPT ![s] = slot] /\ z.slot_cur = s /\ z.held = y.held /\ z.touches = y.touches
  BY <1>3, HandledId
<1>5. Handled(y, evs) = Handled(z, pos)
  <2>1. Handled(y, IdEvent(v) \o pos) = Handled(Handled(y, IdEvent(v)), pos)
    BY <1>1, HandledOn, Zenon
  <2> QED BY <2>1
<1>6. y.slots[s] = Quiet(old) /\ old \in Int /\ y.slots \in [MTSlots -> Slots] /\ v # old /\ v # -1
  BY <1>3 DEF Follows, PadOK, Pads, Devices, FingersOf
<1>7. slot.prev = old /\ slot.id = v /\ slot.downed = TRUE /\ slot.dirty = FALSE
  <2>1. slot = TrackingId(Quiet(old), v)
    BY <1>6
  <2>2. slot = [prev |-> old, id |-> v, downed |-> v # -1, dirty |-> FALSE]
    <3> HIDE DEF slot, old
    <3> QED BY <1>6, <2>1, Tracked
  <2> HIDE DEF slot, old
  <2> QED BY <1>6, <2>2
<1> HIDE DEF z, slot
<1> DEFINE x == Handled(z, pos)
           last == IF moved THEN [slot EXCEPT !.dirty = TRUE] ELSE slot
<1>8. last \in Slots /\ last.prev = old /\ last.id = v /\ last.downed = TRUE /\ last.dirty = moved
  BY <1>4, <1>7 DEF Slots
<1>9. x \in Devices /\ x.slots = [r.slots EXCEPT ![s] = last] /\ x.slot_cur = s /\ x.held = r.held /\ x.touches = r.touches
  <2>1. CASE moved
    <3>1. z.slots[s] = slot
      BY <1>4, <1>6
    <3>2. x \in Devices /\ x.slots = [z.slots EXCEPT ![s] = last] /\ x.slot_cur = s /\ x.held = z.held /\ x.touches = z.touches
      BY <1>4, <2>1, <3>1, HandledPos
    <3>3. [z.slots EXCEPT ![s] = last] = [y.slots EXCEPT ![s] = last]
      BY <1>4, <1>6
    <3> QED BY <1>3, <1>4, <3>2, <3>3
  <2>2. CASE ~moved
    <3>1. x = z /\ last = slot
      BY <1>4, <2>2, HandledNone
    <3> QED BY <1>3, <1>4, <3>1
  <2> QED BY <2>1, <2>2
<1>10. f \in [id : Int, moved : BOOLEAN] /\ f.id = v /\ f.moved = moved
  OBVIOUS
<1> HIDE DEF x, last
<1>11. Follows(DeviceDrain(x), Changed(P, s, f))
  BY <1>6, <1>8, <1>9, <1>10, FrameEnds
<1> QED BY <1>2, <1>3, <1>5, <1>11, <1>12 DEF x

(* A finger moves.                                                         *)
LEMMA MoveFrame ==
  ASSUME NEW r \in Devices, NEW P, PadOK(P), Follows(r, P), NEW s \in MTSlots, P.slot[s].id # -1,
         NEW f, f = [P.slot[s] EXCEPT !.moved = TRUE]
  PROVE  /\ FrameOf(P, s, PosEvent) \in Seq(Events)
         /\ Follows(Handled(r, FrameOf(P, s, PosEvent)), Changed(P, s, f))
<1> DEFINE old == P.slot[s].id
<1>1. PosEvent \in Seq(Events)
  BY EventsAre
<1>2. PICK y \in Devices : /\ y.slot_cur = s /\ y.slots = r.slots /\ y.held = r.held /\ y.touches = r.touches
                           /\ Handled(r, FrameOf(P, s, PosEvent)) = DeviceDrain(Handled(y, PosEvent))
  BY <1>1, HandledFrame
<1> DEFINE x == Handled(y, PosEvent)
           slot == [y.slots[s] EXCEPT !.dirty = TRUE]
<1>3. /\ x \in Devices /\ slot \in Slots /\ x.slots = [r.slots EXCEPT ![s] = slot]
      /\ x.slot_cur = s /\ x.held = r.held /\ x.touches = r.touches
  BY <1>2, HandledPos
<1>4. y.slots[s] = Quiet(old)
  BY <1>2 DEF Follows
<1>5. slot.prev = -1 /\ slot.id = old /\ slot.downed = FALSE /\ slot.dirty = TRUE
  BY <1>4 DEF Quiet
<1>6. f \in [id : Int, moved : BOOLEAN] /\ f.id = old /\ f.moved = TRUE
  BY DEF PadOK, Pads
<1> HIDE DEF x, slot
<1>7. Follows(DeviceDrain(x), Changed(P, s, f))
  BY <1>3, <1>5, <1>6, FrameEnds
<1> QED BY <1>1, <1>2, <1>7, HandledFrame DEF x

(* A finger lifts.                                                         *)
LEMMA UpFrame ==
  ASSUME NEW r \in Devices, NEW P, PadOK(P), Follows(r, P), NEW s \in MTSlots, P.slot[s].id # -1
  PROVE  /\ FrameOf(P, s, IdEvent(-1)) \in Seq(Events)
         /\ Follows(Handled(r, FrameOf(P, s, IdEvent(-1))), Changed(P, s, EmptySlot))
<1> DEFINE old == P.slot[s].id
<1>1. IdEvent(-1) \in Seq(Events)
  BY EventsAre
<1>2. PICK y \in Devices : /\ y.slot_cur = s /\ y.slots = r.slots /\ y.held = r.held /\ y.touches = r.touches
                           /\ Handled(r, FrameOf(P, s, IdEvent(-1))) = DeviceDrain(Handled(y, IdEvent(-1)))
  BY <1>1, HandledFrame
<1> DEFINE x == Handled(y, IdEvent(-1))
           slot == TrackingId(y.slots[s], -1)
<1>3. /\ x \in Devices /\ slot \in Slots /\ x.slots = [r.slots EXCEPT ![s] = slot]
      /\ x.slot_cur = s /\ x.held = r.held /\ x.touches = r.touches
  BY <1>2, HandledId
<1>4. y.slots[s] = Quiet(old)
  BY <1>2 DEF Follows
<1>5. slot.prev = old /\ slot.id = -1 /\ slot.downed = FALSE /\ slot.dirty = FALSE
  <2>1. slot = TrackingId(Quiet(old), -1)
    BY <1>4
  <2>2. old \in Int /\ old # -1
    BY DEF PadOK, Pads
  <2>3. slot = [prev |-> old, id |-> -1, downed |-> -1 # -1, dirty |-> FALSE]
    <3> HIDE DEF slot, old
    <3> QED BY <2>1, <2>2, Tracked
  <2> HIDE DEF slot, old
  <2> QED BY <2>3
<1>6. EmptySlot \in [id : Int, moved : BOOLEAN] /\ EmptySlot.id = -1 /\ EmptySlot.moved = FALSE
  BY DEF EmptySlot
<1> HIDE DEF x, slot
<1>7. Follows(DeviceDrain(x), Changed(P, s, EmptySlot))
  BY <1>3, <1>5, <1>6, FrameEnds
<1> QED BY <1>1, <1>2, <1>7, HandledFrame DEF x

-----------------------------------------------------------------------------
(* The kernel's queue has overflowed.  W are the touches libevdev knows of *)
(* and Setsu has told, P is the pad.                                       *)
Ended(W, P, s) == W[s] # -1 /\ P.slot[s].id # W[s]
Knows(d, W) ==
  /\ \A s \in MTSlots : d.slots[s] = Quiet(W[s])
  /\ d.held = {W[s] : s \in MTSlots} \ {-1} /\ d.touches \subseteq d.held
Related(W, P) ==
  /\ W \in [MTSlots -> Int]
  /\ \A s, t \in MTSlots : W[s] # -1 /\ W[s] = W[t] => s = t
  /\ \A s, t \in MTSlots : W[s] # -1 /\ W[s] = P.slot[t].id => s = t

EndEvents(W, P, i) == IF Ended(W, P, i) THEN SlotEvent(i) \o IdEvent(-1) ELSE <<>>
BeginEvents(W, P, i) ==
  IF P.slot[i].id = -1 THEN <<>>
  ELSE SlotEvent(i) \o (IF P.slot[i].id # W[i] THEN IdEvent(P.slot[i].id) ELSE <<>>)
       \o (IF P.slot[i].moved THEN PosEvent ELSE <<>>)
AllEnds(W, P) == [i \in 1 .. SlotCount |-> EndEvents(W, P, i - 1)]
AllBegins(W, P) == [i \in 1 .. SlotCount |-> BeginEvents(W, P, i - 1)]

LEMMA DifferenceIs ==
  ASSUME NEW W, NEW P, PadOK(P)
  PROVE  /\ AllEnds(W, P) \in Seq(Seq(Events)) /\ AllBegins(W, P) \in Seq(Seq(Events))
         /\ Len(AllEnds(W, P)) = SlotCount /\ Len(AllBegins(W, P)) = SlotCount
<1>1. SlotCount \in Nat /\ \A i \in 1 .. SlotCount : i - 1 \in MTSlots
  BY SetsuAssumption DEF MTSlots
<1>2. ASSUME NEW i \in MTSlots PROVE EndEvents(W, P, i) \in Seq(Events)
  <2>1. SlotEvent(i) \in Seq(Events) /\ IdEvent(-1) \in Seq(Events) /\ <<>> \in Seq(Events)
    BY EventsAre
  <2>2. SlotEvent(i) \o IdEvent(-1) \in Seq(Events)
    BY <2>1, Joined
  <2> QED BY <2>1, <2>2 DEF EndEvents
<1>3. ASSUME NEW i \in MTSlots PROVE BeginEvents(W, P, i) \in Seq(Events)
  <2> DEFINE b == IF P.slot[i].id # W[i] THEN IdEvent(P.slot[i].id) ELSE <<>>
             c == IF P.slot[i].moved THEN PosEvent ELSE <<>>
  <2>1. P.slot[i].id \in Int
    BY DEF PadOK, Pads
  <2>2. SlotEvent(i) \in Seq(Events) /\ b \in Seq(Events) /\ c \in Seq(Events) /\ <<>> \in Seq(Events)
    BY <2>1, EventsAre
  <2> HIDE DEF b, c
  <2>3. SlotEvent(i) \o b \in Seq(Events)
    BY <2>2, Joined
  <2>4. (SlotEvent(i) \o b) \o c \in Seq(Events)
    BY <2>2, <2>3, Joined, Zenon
  <2>5. BeginEvents(W, P, i) = IF P.slot[i].id = -1 THEN <<>> ELSE (SlotEvent(i) \o b) \o c
    BY DEF BeginEvents, b, c
  <2> QED BY <2>2, <2>4, <2>5
<1>4. \A i \in 1 .. SlotCount : EndEvents(W, P, i - 1) \in Seq(Events) /\ BeginEvents(W, P, i - 1) \in Seq(Events)
  BY <1>1, <1>2, <1>3
<1> QED BY <1>1, <1>4 DEF AllEnds, AllBegins

(* After the ends of the first k slots.                                    *)
EndsTo(d, W, P, k, r) ==
  /\ r.held = d.held /\ r.touches = d.touches
  /\ \A s \in MTSlots : r.slots[s] = IF s < k /\ Ended(W, P, s)
                                     THEN [prev |-> W[s], id |-> -1, downed |-> FALSE, dirty |-> FALSE]
                                     ELSE Quiet(W[s])

LEMMA HandledEnds ==
  ASSUME NEW d \in Devices, NEW W, NEW P, PadOK(P), Related(W, P), Knows(d, W)
  PROVE  LET r == Handled(d, FlattenSeq(AllEnds(W, P)))
         IN r \in Devices /\ EndsTo(d, W, P, SlotCount, r)
<1> DEFINE n == SlotCount
           qs == AllEnds(W, P)
<1>1. n \in Nat /\ MTSlots = 0 .. (n - 1)
  BY SetsuAssumption DEF MTSlots
<1>2. qs \in Seq(Seq(Events)) /\ Len(qs) = n
  BY DifferenceIs
<1>3. \A k \in 1 .. n : qs[k] = EndEvents(W, P, k - 1)
  BY <1>1 DEF AllEnds
<1> HIDE DEF n, qs
<1>4. PICK g : FramesTrace(g, d, qs)
  BY <1>2, FramesSteps
<1>5. g \in [0 .. n -> Devices] /\ g[0] = d /\ \A k \in 1 .. n : g[k] = Handled(g[k - 1], EndEvents(W, P, k - 1))
  BY <1>2, <1>3, <1>4 DEF FramesTrace
<1>6. EndsTo(d, W, P, 0, g[0])
  BY <1>1, <1>5 DEF EndsTo, Knows
<1>7. ASSUME NEW k \in 1 .. n, EndsTo(d, W, P, k - 1, g[k - 1]) PROVE EndsTo(d, W, P, k, g[k])
  <2> DEFINE i == k - 1
             x == g[i]
  <2>1. i \in MTSlots /\ i \in 0 .. n /\ \A s \in MTSlots : s < k <=> s < i \/ s = i
    BY <1>1
  <2>2. x \in Devices /\ g[k] = Handled(x, EndEvents(W, P, i)) /\ EndsTo(d, W, P, i, x)
    BY <1>5, <1>7, <2>1
  <2> HIDE DEF i, x
  <2>3. CASE ~Ended(W, P, i)
    <3>1. g[k] = x
      BY <2>2, <2>3, HandledNone DEF EndEvents
    <3> QED BY <2>1, <2>2, <2>3, <3>1 DEF EndsTo
  <2>4. CASE Ended(W, P, i)
    <3> DEFINE y == Handled(x, SlotEvent(i))
               z == Handled(y, IdEvent(-1))
    <3>1. g[k] = z
      <4>1. SlotEvent(i) \in Seq(Events) /\ IdEvent(-1) \in Seq(Events)
        BY <2>1, EventsAre
      <4>2. g[k] = Handled(x, SlotEvent(i) \o IdEvent(-1))
        BY <2>2, <2>4 DEF EndEvents
      <4> QED BY <2>2, <4>1, <4>2, HandledOn
    <3>2. y \in Devices /\ y.slot_cur = i /\ y.slots = x.slots /\ y.held = x.held /\ y.touches = x.touches
      BY <2>1, <2>2, HandledSlot
    <3> HIDE DEF y
    <3> DEFINE slot == TrackingId(y.slots[y.slot_cur], -1)
    <3>3. /\ slot \in Slots /\ z.slots = [y.slots EXCEPT ![y.slot_cur] = slot]
          /\ z.held = y.held /\ z.touches = y.touches
      BY <3>2, HandledId
    <3> HIDE DEF z
    <3>4. slot = [prev |-> W[i], id |-> -1, downed |-> FALSE, dirty |-> FALSE]
      <4> DEFINE w == W[i]
      <4>1. y.slots[y.slot_cur] = Quiet(w)
        <5>1. ~(i < i)
          BY <1>1, <2>1
        <5> QED BY <2>1, <2>2, <3>2, <5>1 DEF EndsTo
      <4>2. w \in Int /\ w # -1 /\ -1 \in Int
        BY <2>1, <2>4 DEF Ended, Related
      <4> HIDE DEF w
      <4>3. TrackingId(Quiet(w), -1) = [prev |-> w, id |-> -1, downed |-> -1 # -1, dirty |-> FALSE]
        BY <4>2, Tracked
      <4> QED BY <4>1, <4>3 DEF w
    <3> HIDE DEF slot
    <3>5. ASSUME NEW s \in MTSlots
          PROVE  z.slots[s] = IF s < k /\ Ended(W, P, s) THEN [prev |-> W[s], id |-> -1, downed |-> FALSE, dirty |-> FALSE]
                              ELSE Quiet(W[s])
      <4>1. CASE s = i
        <5>1. z.slots[s] = slot
          BY <2>1, <3>2, <3>3, <4>1 DEF Devices
        <5> QED BY <2>1, <2>4, <3>4, <4>1, <5>1
      <4>2. CASE s # i
        <5>1. z.slots[s] = x.slots[s]
          BY <2>1, <2>2, <3>2, <3>3, <4>2 DEF Devices
        <5> QED BY <2>1, <2>2, <4>2, <5>1 DEF EndsTo
      <4> QED BY <4>1, <4>2
    <3> QED BY <2>2, <3>1, <3>2, <3>3, <3>5 DEF EndsTo
  <2> QED BY <2>3, <2>4
<1>8. EndsTo(d, W, P, n, g[n])
  <2> DEFINE C == {k \in 0 .. n : EndsTo(d, W, P, k, g[k])}
  <2>1. 0 \in C /\ \A k \in 1 .. n : k - 1 \in C => k \in C
    BY <1>1, <1>6, <1>7
  <2> HIDE DEF C
  <2>2. 0 .. n \subseteq C
    BY <1>1, <2>1, Induction
  <2> QED BY <1>1, <2>2 DEF C
<1>9. Handled(d, FlattenSeq(qs)) = g[n] /\ g[n] \in Devices
  BY <1>1, <1>2, <1>4, <1>5, HandledFrames
<1> QED BY <1>8, <1>9 DEF n, qs

(* A slot whose touch, if it had one, has ended, and after the new one.    *)
Cleared(W, P, a, s) == [prev |-> a[s], id |-> IF Ended(W, P, s) THEN -1 ELSE W[s], downed |-> FALSE, dirty |-> FALSE]
Begun(W, P, a, s) ==
  [prev |-> a[s], id |-> P.slot[s].id, downed |-> P.slot[s].id # -1 /\ P.slot[s].id # W[s], dirty |-> P.slot[s].moved]

LEMMA Retracked ==
  ASSUME NEW a \in Int, NEW v \in Int, v # -1
  PROVE  TrackingId([prev |-> a, id |-> -1, downed |-> FALSE, dirty |-> FALSE], v)
           = [prev |-> a, id |-> v, downed |-> TRUE, dirty |-> FALSE]
<1> DEFINE q == [prev |-> a, id |-> -1, downed |-> FALSE, dirty |-> FALSE]
<1>1. q.prev = a /\ q.id = -1 /\ q.downed = FALSE /\ q.dirty = FALSE
  OBVIOUS
<1> HIDE DEF q
<1>2. TrackingId(q, v) = [prev   |-> IF q.id # -1 /\ q.prev = -1 THEN q.id ELSE q.prev,
                          id     |-> v,
                          downed |-> q.downed \/ v # -1,
                          dirty  |-> q.dirty /\ ~(q.id # -1 /\ q.prev = -1)]
  BY DEF TrackingId
<1>3. (IF q.id # -1 /\ q.prev = -1 THEN q.id ELSE q.prev) = a
  BY <1>1
<1>4. (q.downed \/ v # -1) = TRUE /\ (q.dirty /\ ~(q.id # -1 /\ q.prev = -1)) = FALSE
  BY <1>1
<1> QED BY <1>2, <1>3, <1>4 DEF q

(* The events of one slot that begins.                                     *)
LEMMA SlotBegins ==
  ASSUME NEW x \in Devices, NEW W, NEW P, PadOK(P), Related(W, P), NEW a \in [MTSlots -> Int], NEW i \in MTSlots,
         x.slots[i] = Cleared(W, P, a, i)
  PROVE  LET r == Handled(x, BeginEvents(W, P, i))
         IN /\ r \in Devices /\ r.slots = [x.slots EXCEPT ![i] = Begun(W, P, a, i)]
            /\ r.held = x.held /\ r.touches = x.touches
<1> DEFINE id == P.slot[i].id
           moved == P.slot[i].moved
           w == W[i]
           b == a[i]
<1>1. id \in Int /\ moved \in BOOLEAN /\ (moved => id # -1) /\ w \in Int /\ b \in Int
  BY DEF PadOK, Pads, Related
<1>2. /\ x.slots[i] = [prev |-> b, id |-> IF w # -1 /\ id # w THEN -1 ELSE w, downed |-> FALSE, dirty |-> FALSE]
      /\ Begun(W, P, a, i) = [prev |-> b, id |-> id, downed |-> id # -1 /\ id # w, dirty |-> moved]
  BY DEF Cleared, Begun, Ended
<1>3. x.slots \in [MTSlots -> Slots]
  BY DEF Devices
<1> DEFINE f == IF id # w THEN IdEvent(id) ELSE <<>>
           pos == IF moved THEN PosEvent ELSE <<>>
<1>4. BeginEvents(W, P, i) = IF id = -1 THEN <<>> ELSE (SlotEvent(i) \o f) \o pos
  BY DEF BeginEvents
<1> HIDE DEF id, moved, w, b
<1>5. CASE id = -1
  <2>1. Handled(x, BeginEvents(W, P, i)) = x
    BY <1>4, <1>5, HandledNone
  <2>2. x.slots[i] = [prev |-> b, id |-> -1, downed |-> FALSE, dirty |-> FALSE]
    BY <1>1, <1>2, <1>5
  <2>3. moved = FALSE /\ (id # -1 /\ id # w) = FALSE
    BY <1>1, <1>5
  <2>4. x.slots[i] = Begun(W, P, a, i)
    BY <1>2, <1>5, <2>2, <2>3
  <2>5. x.slots = [x.slots EXCEPT ![i] = Begun(W, P, a, i)]
    BY <1>3, <2>4
  <2> QED BY <2>1, <2>5
<1>6. CASE id # -1
  <2> DEFINE y == Handled(x, SlotEvent(i))
             z == Handled(y, f)
             u == Handled(z, pos)
             first == [prev |-> b, id |-> id, downed |-> id # -1 /\ id # w, dirty |-> FALSE]
  <2>1. SlotEvent(i) \in Seq(Events) /\ f \in Seq(Events) /\ pos \in Seq(Events)
    BY <1>1, EventsAre
  <2>2. Handled(x, BeginEvents(W, P, i)) = u
    <3>1. BeginEvents(W, P, i) = (SlotEvent(i) \o f) \o pos
      BY <1>4, <1>6
    <3> HIDE DEF f, pos
    <3>2. SlotEvent(i) \o f \in Seq(Events) /\ Handled(x, SlotEvent(i) \o f) = Handled(Handled(x, SlotEvent(i)), f)
      BY <2>1, Joined, HandledOn
    <3> DEFINE c == SlotEvent(i) \o f
    <3> HIDE DEF c
    <3>3. c \in Seq(Events) /\ Handled(x, c) = Handled(Handled(x, SlotEvent(i)), f)
      BY <3>2 DEF c
    <3>4. Handled(x, c \o pos) = Handled(Handled(x, c), pos)
      BY <2>1, <3>3, HandledOn
    <3> QED BY <3>1, <3>3, <3>4 DEF c
  <2>3. y \in Devices /\ y.slot_cur = i /\ y.slots = x.slots /\ y.held = x.held /\ y.touches = x.touches
    BY HandledSlot
  <2> HIDE DEF y
  <2>4. z \in Devices /\ z.slots = [x.slots EXCEPT ![i] = first] /\ z.slot_cur = i /\ z.held = x.held /\ z.touches = x.touches
    <3>1. CASE id = w
      <4>1. z = y
        BY <2>3, <3>1, HandledNone
      <4>2. x.slots[i] = first
        BY <1>1, <1>2, <3>1
      <4> QED BY <1>3, <2>3, <4>1, <4>2
    <3>2. CASE id # w
      <4> DEFINE slot == TrackingId(y.slots[y.slot_cur], id)
      <4>1. z = Handled(y, IdEvent(id))
        BY <3>2
      <4>2. z \in Devices /\ z.slots = [x.slots EXCEPT ![i] = slot] /\ z.slot_cur = i /\ z.held = x.held /\ z.touches = x.touches
        BY <1>1, <2>3, <4>1, HandledId
      <4>3. y.slots[y.slot_cur] = [prev |-> b, id |-> -1, downed |-> FALSE, dirty |-> FALSE]
        BY <1>1, <1>2, <2>3, <3>2
      <4>4. TrackingId([prev |-> b, id |-> -1, downed |-> FALSE, dirty |-> FALSE], id)
              = [prev |-> b, id |-> id, downed |-> TRUE, dirty |-> FALSE]
        BY <1>1, <1>6, Retracked
      <4>5. slot = first
        BY <1>6, <3>2, <4>3, <4>4
      <4> HIDE DEF slot, z, first
      <4> QED BY <4>2, <4>5
    <3> QED BY <3>1, <3>2
  <2> HIDE DEF z
  <2>5. /\ u \in Devices /\ u.slots = [x.slots EXCEPT ![i] = [first EXCEPT !.dirty = moved]]
        /\ u.held = x.held /\ u.touches = x.touches
    <3>1. z.slots[z.slot_cur] = first
      BY <1>3, <2>4
    <3>2. CASE moved
      <4>1. /\ u \in Devices /\ u.slots = [z.slots EXCEPT ![i] = [first EXCEPT !.dirty = TRUE]]
            /\ u.held = z.held /\ u.touches = z.touches
        BY <2>4, <3>1, <3>2, HandledPos
      <4> DEFINE second == [first EXCEPT !.dirty = TRUE]
      <4>2. second = [first EXCEPT !.dirty = moved]
        BY <1>1, <3>2
      <4> HIDE DEF second, first
      <4>3. [z.slots EXCEPT ![i] = second] = [x.slots EXCEPT ![i] = second]
        BY <1>3, <2>4
      <4> QED BY <2>4, <4>1, <4>2, <4>3 DEF second
    <3>3. CASE ~moved
      <4>1. u = z
        BY <2>4, <3>3, HandledNone
      <4>2. first = [first EXCEPT !.dirty = moved]
        <5>1. moved = FALSE
          BY <1>1, <3>3
        <5>2. [first EXCEPT !.dirty = moved]
                = [prev |-> b, id |-> id, downed |-> id # -1 /\ id # w, dirty |-> moved]
          OBVIOUS
        <5> QED BY <5>1, <5>2
      <4> HIDE DEF first
      <4> QED BY <2>4, <4>1, <4>2
    <3> QED BY <3>2, <3>3
  <2>6. [first EXCEPT !.dirty = moved] = Begun(W, P, a, i)
    BY <1>2
  <2> HIDE DEF u, first
  <2> QED BY <2>2, <2>5, <2>6
<1> QED BY <1>5, <1>6

(* After the beginnings of the first k slots.                              *)
BeginsTo(d, W, P, a, k, r) ==
  /\ r.held = d.held /\ r.touches = d.touches
  /\ \A s \in MTSlots : r.slots[s] = IF s < k THEN Begun(W, P, a, s) ELSE Cleared(W, P, a, s)

LEMMA HandledBegins ==
  ASSUME NEW d \in Devices, NEW W, NEW P, PadOK(P), Related(W, P), NEW a \in [MTSlots -> Int],
         \A s \in MTSlots : d.slots[s] = Cleared(W, P, a, s)
  PROVE  LET r == Handled(d, FlattenSeq(AllBegins(W, P)))
         IN r \in Devices /\ BeginsTo(d, W, P, a, SlotCount, r)
<1> DEFINE n == SlotCount
           qs == AllBegins(W, P)
<1>1. n \in Nat /\ MTSlots = 0 .. (n - 1)
  BY SetsuAssumption DEF MTSlots
<1>2. qs \in Seq(Seq(Events)) /\ Len(qs) = n
  BY DifferenceIs
<1>3. \A k \in 1 .. n : qs[k] = BeginEvents(W, P, k - 1)
  BY <1>1 DEF AllBegins
<1> HIDE DEF n, qs
<1>4. PICK g : FramesTrace(g, d, qs)
  BY <1>2, FramesSteps
<1>5. g \in [0 .. n -> Devices] /\ g[0] = d /\ \A k \in 1 .. n : g[k] = Handled(g[k - 1], BeginEvents(W, P, k - 1))
  BY <1>2, <1>3, <1>4 DEF FramesTrace
<1>6. BeginsTo(d, W, P, a, 0, g[0])
  BY <1>1, <1>5 DEF BeginsTo
<1>7. ASSUME NEW k \in 1 .. n, BeginsTo(d, W, P, a, k - 1, g[k - 1]) PROVE BeginsTo(d, W, P, a, k, g[k])
  <2> DEFINE i == k - 1
             x == g[i]
             r == Handled(x, BeginEvents(W, P, i))
  <2>1. i \in MTSlots /\ i \in 0 .. n /\ ~(i < i) /\ \A s \in MTSlots : s < k <=> s < i \/ s = i
    BY <1>1
  <2>2. x \in Devices /\ g[k] = r /\ BeginsTo(d, W, P, a, i, x)
    BY <1>5, <1>7, <2>1
  <2> HIDE DEF i, x
  <2>3. x.slots[i] = Cleared(W, P, a, i)
    BY <2>1, <2>2 DEF BeginsTo
  <2>4. r \in Devices /\ r.slots = [x.slots EXCEPT ![i] = Begun(W, P, a, i)] /\ r.held = x.held /\ r.touches = x.touches
    BY <2>1, <2>2, <2>3, SlotBegins
  <2> HIDE DEF r
  <2>5. ASSUME NEW s \in MTSlots
        PROVE  r.slots[s] = IF s < k THEN Begun(W, P, a, s) ELSE Cleared(W, P, a, s)
    <3>1. r.slots[s] = IF s = i THEN Begun(W, P, a, i) ELSE x.slots[s]
      BY <2>2, <2>4 DEF Devices
    <3> QED BY <2>1, <2>2, <3>1 DEF BeginsTo
  <2> QED BY <2>2, <2>4, <2>5 DEF BeginsTo
<1>8. BeginsTo(d, W, P, a, n, g[n])
  <2> DEFINE C == {k \in 0 .. n : BeginsTo(d, W, P, a, k, g[k])}
  <2>1. 0 \in C /\ \A k \in 1 .. n : k - 1 \in C => k \in C
    BY <1>1, <1>6, <1>7
  <2> HIDE DEF C
  <2>2. 0 .. n \subseteq C
    BY <1>1, <2>1, Induction
  <2> QED BY <1>1, <2>2 DEF C
<1>9. Handled(d, FlattenSeq(qs)) = g[n] /\ g[n] \in Devices
  BY <1>1, <1>2, <1>4, <1>5, HandledFrames
<1> QED BY <1>8, <1>9 DEF n, qs

(* The touches that have not ended.                                        *)
Lasting(W, P) == {W[s] : s \in {t \in MTSlots : ~Ended(W, P, t)}} \ {-1}

(* The end of what libevdev makes up: y is the device, a the touches that  *)
(* have ended and are still to be told up.                                 *)
LEMMA DifferenceEnds ==
  ASSUME NEW y \in Devices, NEW W, NEW P, PadOK(P), Related(W, P), NEW a \in [MTSlots -> Int],
         \A s \in MTSlots : a[s] = -1 \/ (a[s] = W[s] /\ Ended(W, P, s)),
         y.slot_cur = P.cur, \A s \in MTSlots : y.slots[s] = Begun(W, P, a, s),
         NEW A, A = {a[s] : s \in MTSlots}, y.held \ A = Lasting(W, P), y.touches \ A \subseteq y.held \ A,
         -1 \notin y.held /\ -1 \notin y.touches
  PROVE  DeviceDrain(y) \in Devices /\ Follows(DeviceDrain(y), P)
<1> DEFINE z == DeviceDrain(y)
<1>1. \A s \in MTSlots : s < SlotCount /\ s \in 0 .. SlotCount - 1
  BY SetsuAssumption DEF MTSlots
<1>2. MTSlots = 0 .. SlotCount - 1
  BY DEF MTSlots
<1>3. ASSUME NEW s \in MTSlots
      PROVE  /\ y.slots[s].prev = a[s] /\ y.slots[s].id = P.slot[s].id
             /\ y.slots[s].downed <=> P.slot[s].id # -1 /\ P.slot[s].id # W[s]
             /\ y.slots[s].dirty <=> P.slot[s].moved
  <2>1. y.slots[s] = Begun(W, P, a, s)
    OBVIOUS
  <2>2. /\ Begun(W, P, a, s).prev = a[s] /\ Begun(W, P, a, s).id = P.slot[s].id
        /\ Begun(W, P, a, s).downed = (P.slot[s].id # -1 /\ P.slot[s].id # W[s])
        /\ Begun(W, P, a, s).dirty = P.slot[s].moved
    BY DEF Begun
  <2> QED BY <2>1, <2>2
<1>4. Distinct(y)
  <2>1. ASSUME NEW s \in MTSlots, NEW t \in MTSlots, y.slots[s].prev # -1 PROVE y.slots[s].prev # y.slots[t].id
    <3>1. y.slots[s].prev = W[s] /\ W[s] # -1 /\ P.slot[s].id # W[s]
      BY <1>3, <2>1 DEF Ended
    <3>2. W[s] # P.slot[t].id
      BY <3>1 DEF Related
    <3> QED BY <1>3, <3>1, <3>2
  <2> QED BY <2>1 DEF Distinct
<1>5. z \in Devices /\ DrainedTo(y, SlotCount, z)
  BY <1>4, Drained
<1> HIDE DEF z
<1>6. UpsTo(y, SlotCount) = A \ {-1}
  BY <1>2, <1>3 DEF UpsTo
<1>7. \A i : i \in DownsTo(y, SlotCount) <=> \E s \in MTSlots : P.slot[s].id # -1 /\ P.slot[s].id # W[s] /\ i = P.slot[s].id
  <2>1. \A i : i \in DownsTo(y, SlotCount) <=> \E s \in MTSlots : y.slots[s].downed /\ i = y.slots[s].id
    BY <1>2 DEF DownsTo
  <2> QED BY <1>3, <2>1
<1>8. PlacesTo(y, SlotCount) = MovedOf(P)
  <2>1. \A i : i \in PlacesTo(y, SlotCount) <=> \E s \in MTSlots : y.slots[s].dirty /\ i = y.slots[s].id
    BY <1>2 DEF PlacesTo
  <2>2. \A i : i \in MovedOf(P) <=> \E s \in MTSlots : P.slot[s].moved /\ i = P.slot[s].id
    BY DEF MovedOf
  <2>3. \A s \in MTSlots : (y.slots[s].dirty <=> P.slot[s].moved) /\ y.slots[s].id = P.slot[s].id
    BY <1>3
  <2>4. ASSUME NEW i \in PlacesTo(y, SlotCount) PROVE i \in MovedOf(P)
    <3>1. PICK s \in MTSlots : y.slots[s].dirty /\ i = y.slots[s].id
      BY ONLY <2>1, <2>4
    <3>2. P.slot[s].moved /\ i = P.slot[s].id
      BY ONLY <2>3, <3>1
    <3> QED BY ONLY <2>2, <3>2
  <2>5. ASSUME NEW i \in MovedOf(P) PROVE i \in PlacesTo(y, SlotCount)
    <3>1. PICK s \in MTSlots : P.slot[s].moved /\ i = P.slot[s].id
      BY ONLY <2>2, <2>5
    <3>2. y.slots[s].dirty /\ i = y.slots[s].id
      BY ONLY <2>3, <3>1
    <3> QED BY ONLY <2>1, <3>2
  <2> QED BY <2>4, <2>5
<1>9. z.slot_cur = P.cur /\ \A s \in MTSlots : z.slots[s] = Quiet(P.slot[s].id)
  BY <1>1, <1>3, <1>5 DEF DrainedTo
<1>10. y.held \ (A \ {-1}) = y.held \ A /\ y.touches \ (A \ {-1}) = y.touches \ A
  OBVIOUS
<1>11. z.held = FingersOf(P)
  <2>1. \A i : i \in y.held \ A <=> i # -1 /\ \E s \in MTSlots : ~Ended(W, P, s) /\ i = W[s]
    BY DEF Lasting
  <2>2. \A i : i \in FingersOf(P) <=> i # -1 /\ \E s \in MTSlots : i = P.slot[s].id
    BY DEF FingersOf
  <2>3. ASSUME NEW i PROVE i \in z.held <=> i \in FingersOf(P)
    <3>1. i \in z.held <=> i \in y.held \ A \/ i \in DownsTo(y, SlotCount)
      BY <1>5, <1>6, <1>10 DEF DrainedTo
    <3>2. i \in y.held \ A => i \in FingersOf(P)
      BY <2>1, <2>2 DEF Ended
    <3>3. i \in DownsTo(y, SlotCount) => i \in FingersOf(P)
      BY <1>7, <2>2
    <3>4. i \in FingersOf(P) => i \in y.held \ A \/ i \in DownsTo(y, SlotCount)
      BY <1>7, <2>1, <2>2 DEF Ended
    <3> QED BY <3>1, <3>2, <3>3, <3>4
  <2> QED BY <2>3
<1>12. MovedOf(P) \subseteq FingersOf(P)
  BY DEF MovedOf, FingersOf, PadOK
<1>13. z.touches = (y.touches \ A) \cup MovedOf(P) /\ z.held = (y.held \ A) \cup DownsTo(y, SlotCount)
  BY <1>5, <1>6, <1>8, <1>10 DEF DrainedTo
<1>14. y.touches \ A \subseteq y.held \ A
  OBVIOUS
<1>15. z.touches \subseteq FingersOf(P) /\ MovedOf(P) \subseteq z.touches
  BY <1>11, <1>12, <1>13, <1>14
<1> QED BY <1>5, <1>9, <1>11, <1>15 DEF Follows, z

(* Between the ends and the beginnings there may be an end of a frame.     *)
Between(x, twice) == IF twice THEN DeviceDrain(x) ELSE x
ToTell(W, P, twice) == [s \in MTSlots |-> IF ~twice /\ Ended(W, P, s) THEN W[s] ELSE -1]

LEMMA BetweenThem ==
  ASSUME NEW d \in Devices, NEW W, NEW P, PadOK(P), Related(W, P), Knows(d, W), NEW twice \in BOOLEAN,
         NEW x \in Devices, EndsTo(d, W, P, SlotCount, x)
  PROVE  LET y == Between(x, twice)
             a == ToTell(W, P, twice)
             A == {a[s] : s \in MTSlots}
         IN /\ y \in Devices /\ a \in [MTSlots -> Int]
            /\ \A s \in MTSlots : y.slots[s] = Cleared(W, P, a, s)
            /\ \A s \in MTSlots : a[s] = -1 \/ (a[s] = W[s] /\ Ended(W, P, s))
            /\ y.held \ A = Lasting(W, P) /\ y.touches \ A \subseteq y.held \ A
            /\ -1 \notin y.held /\ -1 \notin y.touches
<1> DEFINE y == Between(x, twice)
           a == ToTell(W, P, twice)
           A == {a[s] : s \in MTSlots}
           gone == {W[s] : s \in {t \in MTSlots : Ended(W, P, t)}}
<1>1. /\ a \in [MTSlots -> Int]
      /\ \A s \in MTSlots : a[s] = IF ~twice /\ Ended(W, P, s) THEN W[s] ELSE -1
  BY DEF ToTell, Related
<1> HIDE DEF a
<1>2. \A s \in MTSlots : a[s] = -1 \/ (a[s] = W[s] /\ Ended(W, P, s))
  BY <1>1
<1>3. /\ MTSlots = 0 .. SlotCount - 1 /\ \A s \in MTSlots : s < SlotCount
  BY SetsuAssumption DEF MTSlots
<1>4. \A s \in MTSlots : x.slots[s] = IF Ended(W, P, s) THEN [prev |-> W[s], id |-> -1, downed |-> FALSE, dirty |-> FALSE]
                                      ELSE Quiet(W[s])
  BY <1>3 DEF EndsTo
<1>5. ASSUME NEW s \in MTSlots
      PROVE  /\ x.slots[s].prev = IF Ended(W, P, s) THEN W[s] ELSE -1
             /\ x.slots[s].id = IF Ended(W, P, s) THEN -1 ELSE W[s]
             /\ ~x.slots[s].downed /\ ~x.slots[s].dirty
  <2>1. CASE Ended(W, P, s)
    <3>1. x.slots[s] = [prev |-> W[s], id |-> -1, downed |-> FALSE, dirty |-> FALSE]
      BY <1>4, <2>1
    <3> QED BY <2>1, <3>1
  <2>2. CASE ~Ended(W, P, s)
    <3>1. x.slots[s] = Quiet(W[s])
      BY <1>4, <2>2
    <3> QED BY <2>2, <3>1 DEF Quiet
  <2> QED BY <2>1, <2>2
<1>6. d.held = {W[s] : s \in MTSlots} \ {-1} /\ d.touches \subseteq d.held /\ x.held = d.held /\ x.touches = d.touches
  BY DEF Knows, EndsTo
<1>7. d.held \ gone = Lasting(W, P) /\ -1 \notin gone
  <2>1. ASSUME NEW s \in MTSlots, NEW t \in MTSlots, Ended(W, P, s), ~Ended(W, P, t) PROVE W[s] # W[t]
    BY <2>1 DEF Related, Ended
  <2>2. \A i : i \in gone <=> \E s \in MTSlots : Ended(W, P, s) /\ i = W[s]
    OBVIOUS
  <2>3. \A i : i \in Lasting(W, P) <=> i # -1 /\ \E s \in MTSlots : ~Ended(W, P, s) /\ i = W[s]
    BY DEF Lasting
  <2>4. \A i : i \in d.held <=> i # -1 /\ \E s \in MTSlots : i = W[s]
    BY <1>6
  <2>5. -1 \notin gone
    BY <2>2 DEF Ended
  <2> HIDE DEF gone
  <2>6. ASSUME NEW i PROVE i \in d.held \ gone <=> i \in Lasting(W, P)
    <3>1. i \in Lasting(W, P) => i \in d.held /\ i \notin gone
      BY <2>1, <2>2, <2>3, <2>4
    <3>2. i \in d.held /\ i \notin gone => i \in Lasting(W, P)
      BY <2>2, <2>3, <2>4
    <3> QED BY <3>1, <3>2
  <2> QED BY <2>5, <2>6
<1>8. ASSUME ~twice
       PROVE  /\ y \in Devices /\ a \in [MTSlots -> Int]
              /\ \A s \in MTSlots : y.slots[s] = Cleared(W, P, a, s)
              /\ \A s \in MTSlots : a[s] = -1 \/ (a[s] = W[s] /\ Ended(W, P, s))
              /\ y.held \ A = Lasting(W, P) /\ y.touches \ A \subseteq y.held \ A
              /\ -1 \notin y.held /\ -1 \notin y.touches
  <2>1. y = x
    BY <1>8 DEF Between
  <2>2. \A s \in MTSlots : a[s] = IF Ended(W, P, s) THEN W[s] ELSE -1
    BY <1>1, <1>8
  <2>3. ASSUME NEW s \in MTSlots PROVE x.slots[s] = Cleared(W, P, a, s)
    BY <1>4, <2>2 DEF Cleared, Quiet
  <2>4. A \ {-1} = gone
    <3>1. \A i : i \in A \ {-1} <=> i # -1 /\ \E s \in MTSlots : i = a[s]
      OBVIOUS
    <3>2. \A i : i \in gone <=> \E s \in MTSlots : Ended(W, P, s) /\ i = W[s]
      OBVIOUS
    <3>3. \A s \in MTSlots : Ended(W, P, s) => W[s] # -1
      BY DEF Ended
    <3> QED BY <2>2, <3>1, <3>2, <3>3
  <2>5. x.held \ A = d.held \ gone /\ x.touches \ A \subseteq x.held \ A /\ -1 \notin x.held /\ -1 \notin x.touches
    BY <1>6, <2>4
  <2> QED BY <1>1, <1>2, <1>7, <2>1, <2>3, <2>5
<1>9. ASSUME twice
       PROVE  /\ y \in Devices /\ a \in [MTSlots -> Int]
              /\ \A s \in MTSlots : y.slots[s] = Cleared(W, P, a, s)
              /\ \A s \in MTSlots : a[s] = -1 \/ (a[s] = W[s] /\ Ended(W, P, s))
              /\ y.held \ A = Lasting(W, P) /\ y.touches \ A \subseteq y.held \ A
              /\ -1 \notin y.held /\ -1 \notin y.touches
  <2>1. y = DeviceDrain(x)
    BY <1>9 DEF Between
  <2>2. \A s \in MTSlots : a[s] = -1
    BY <1>1, <1>9
  <2>3. Distinct(x)
    <3>1. ASSUME NEW s \in MTSlots, NEW t \in MTSlots, x.slots[s].prev # -1 PROVE x.slots[s].prev # x.slots[t].id
      <4>1. x.slots[s].prev = W[s] /\ Ended(W, P, s)
        BY <1>5, <3>1
      <4>2. CASE Ended(W, P, t)
        BY <1>5, <3>1, <4>2
      <4>3. CASE ~Ended(W, P, t)
        <5>1. W[s] # W[t]
          BY <4>1, <4>3 DEF Related, Ended
        <5> QED BY <1>5, <4>1, <4>3, <5>1
      <4> QED BY <4>2, <4>3
    <3> QED BY <3>1 DEF Distinct
  <2>4. DeviceDrain(x) \in Devices /\ DrainedTo(x, SlotCount, DeviceDrain(x))
    BY <2>3, Drained
  <2> HIDE DEF y
  <2>5. UpsTo(x, SlotCount) = gone
    <3>1. \A i : i \in UpsTo(x, SlotCount) <=> i # -1 /\ \E s \in MTSlots : i = x.slots[s].prev
      BY <1>3 DEF UpsTo
    <3>2. \A i : i \in gone <=> \E s \in MTSlots : Ended(W, P, s) /\ i = W[s]
      OBVIOUS
    <3>3. \A s \in MTSlots : Ended(W, P, s) => W[s] # -1
      BY DEF Ended
    <3>4. \A s \in MTSlots : x.slots[s].prev = IF Ended(W, P, s) THEN W[s] ELSE -1
      BY <1>5
    <3> HIDE DEF gone
    <3> QED BY <3>1, <3>2, <3>3, <3>4
  <2>6. DownsTo(x, SlotCount) = {} /\ PlacesTo(x, SlotCount) = {}
    BY <1>3, <1>5 DEF DownsTo, PlacesTo
  <2>7. y.held = d.held \ gone /\ y.touches = d.touches \ gone
    BY <1>6, <2>1, <2>4, <2>5, <2>6 DEF DrainedTo
  <2>8. ASSUME NEW s \in MTSlots PROVE y.slots[s] = Cleared(W, P, a, s)
    <3>1. y.slots[s] = Quiet(x.slots[s].id)
      BY <1>3, <2>1, <2>4 DEF DrainedTo
    <3>2. x.slots[s].id = IF Ended(W, P, s) THEN -1 ELSE W[s]
      BY <1>5
    <3> QED BY <2>2, <3>1, <3>2 DEF Quiet, Cleared
  <2>9. -1 \notin d.held /\ \A i \in A : i = -1
    BY <1>6, <2>2
  <2> HIDE DEF A, gone
  <2>10. y.held \ A = d.held \ gone /\ y.touches \ A \subseteq y.held \ A /\ -1 \notin y.held /\ -1 \notin y.touches
    BY <1>6, <2>7, <2>9
  <2> QED BY <1>1, <1>2, <1>7, <2>1, <2>4, <2>8, <2>10 DEF A
<1> HIDE DEF y, A
<1>10. /\ y \in Devices /\ a \in [MTSlots -> Int]
       /\ \A s \in MTSlots : y.slots[s] = Cleared(W, P, a, s)
       /\ \A s \in MTSlots : a[s] = -1 \/ (a[s] = W[s] /\ Ended(W, P, s))
       /\ y.held \ A = Lasting(W, P) /\ y.touches \ A \subseteq y.held \ A
       /\ -1 \notin y.held /\ -1 \notin y.touches
  BY <1>8, <1>9
<1> QED BY <1>10 DEF y, A, a

(* Reading after an overflow makes up for all that was dropped.            *)
DifferenceOf(W, P, twice) ==
  FlattenSeq(AllEnds(W, P)) \o (IF twice THEN SynEvent ELSE <<>>)
  \o FlattenSeq(AllBegins(W, P)) \o SlotEvent(P.cur) \o SynEvent

LEMMA DifferenceTyped ==
  ASSUME NEW W, NEW P, PadOK(P), NEW twice \in BOOLEAN
  PROVE  DifferenceOf(W, P, twice) \in Seq(Events)
<1> DEFINE ends == FlattenSeq(AllEnds(W, P))
           syn == IF twice THEN SynEvent ELSE <<>>
           begins == FlattenSeq(AllBegins(W, P))
           slot == SlotEvent(P.cur)
<1>1. P.cur \in MTSlots
  BY DEF PadOK, Pads
<1>2. ends \in Seq(Events) /\ begins \in Seq(Events)
  <2>1. AllEnds(W, P) \in Seq(Seq(Events)) /\ AllBegins(W, P) \in Seq(Seq(Events))
    BY DifferenceIs
  <2> QED BY <2>1, FlattenTyped, Zenon
<1>3. syn \in Seq(Events) /\ slot \in Seq(Events) /\ SynEvent \in Seq(Events)
  BY <1>1, EventsAre
<1>4. DifferenceOf(W, P, twice) = (((ends \o syn) \o begins) \o slot) \o SynEvent
  BY DEF DifferenceOf
<1> HIDE DEF ends, syn, begins, slot
<1>5. ends \o syn \in Seq(Events)
  BY <1>2, <1>3, Joined, Zenon
<1>6. (ends \o syn) \o begins \in Seq(Events)
  BY <1>2, <1>5, Joined, Zenon
<1>7. ((ends \o syn) \o begins) \o slot \in Seq(Events)
  BY <1>3, <1>6, Joined, Zenon
<1>8. (((ends \o syn) \o begins) \o slot) \o SynEvent \in Seq(Events)
  BY <1>3, <1>7, Joined, Zenon
<1> QED BY <1>4, <1>8

LEMMA HandledDifference ==
  ASSUME NEW d \in Devices, NEW W, NEW P, PadOK(P), Related(W, P), Knows(d, W), NEW twice \in BOOLEAN
  PROVE  LET r == Handled(d, DifferenceOf(W, P, twice))
         IN DifferenceOf(W, P, twice) \in Seq(Events) /\ r \in Devices /\ Follows(r, P)
<1> DEFINE ends == FlattenSeq(AllEnds(W, P))
           syn == IF twice THEN SynEvent ELSE <<>>
           begins == FlattenSeq(AllBegins(W, P))
           slot == SlotEvent(P.cur)
           a == ToTell(W, P, twice)
<1>1. P.cur \in MTSlots
  BY DEF PadOK, Pads
<1>2. ends \in Seq(Events) /\ begins \in Seq(Events)
  <2>1. AllEnds(W, P) \in Seq(Seq(Events)) /\ AllBegins(W, P) \in Seq(Seq(Events))
    BY DifferenceIs
  <2> QED BY <2>1, FlattenTyped, Zenon
<1>3. syn \in Seq(Events) /\ slot \in Seq(Events) /\ SynEvent \in Seq(Events)
  BY <1>1, EventsAre
<1>4. DifferenceOf(W, P, twice) = (((ends \o syn) \o begins) \o slot) \o SynEvent
  BY DEF DifferenceOf
<1>5. Handled(d, ends) \in Devices /\ EndsTo(d, W, P, SlotCount, Handled(d, ends))
  BY HandledEnds
<1>6. Handled(Handled(d, ends), syn) = Between(Handled(d, ends), twice)
  BY <1>5, HandledNone, HandledEvents DEF Between
<1> HIDE DEF ends, syn, begins, slot, a
<1> DEFINE y == Between(Handled(d, ends), twice)
<1>7. /\ y \in Devices /\ a \in [MTSlots -> Int]
      /\ \A s \in MTSlots : y.slots[s] = Cleared(W, P, a, s)
      /\ \A s \in MTSlots : a[s] = -1 \/ (a[s] = W[s] /\ Ended(W, P, s))
      /\ y.held \ {a[s] : s \in MTSlots} = Lasting(W, P)
      /\ y.touches \ {a[s] : s \in MTSlots} \subseteq y.held \ {a[s] : s \in MTSlots}
      /\ -1 \notin y.held /\ -1 \notin y.touches
  BY <1>5, BetweenThem DEF a
<1> HIDE DEF y
<1> DEFINE z == Handled(y, begins)
           u == Handled(z, slot)
<1>8. z \in Devices /\ BeginsTo(y, W, P, a, SlotCount, z)
  BY <1>7, HandledBegins DEF begins
<1> HIDE DEF z
<1>9. u \in Devices /\ u.slot_cur = P.cur /\ u.slots = z.slots /\ u.held = z.held /\ u.touches = z.touches
  BY <1>1, <1>8, HandledSlot DEF slot
<1>10. u.held = y.held /\ u.touches = y.touches /\ \A s \in MTSlots : u.slots[s] = Begun(W, P, a, s)
  <2>1. \A s \in MTSlots : s < SlotCount
    BY SetsuAssumption DEF MTSlots
  <2> QED BY <1>8, <1>9, <2>1 DEF BeginsTo
<1> HIDE DEF u
<1>11. DeviceDrain(u) \in Devices /\ Follows(DeviceDrain(u), P)
  <2> DEFINE A == {a[s] : s \in MTSlots}
  <2>1. /\ u.held \ A = Lasting(W, P) /\ u.touches \ A \subseteq u.held \ A
        /\ -1 \notin u.held /\ -1 \notin u.touches
    BY <1>7, <1>10
  <2>2. A = {a[s] : s \in MTSlots}
    OBVIOUS
  <2> HIDE DEF A
  <2> QED BY <1>7, <1>9, <1>10, <2>1, <2>2, DifferenceEnds
<1>12. Handled(u, SynEvent) = DeviceDrain(u)
  BY <1>9, HandledEvents
<1> DEFINE e1 == ends \o syn
<1>13. e1 \in Seq(Events) /\ Handled(d, e1) = y
  <2>1. e1 \in Seq(Events)
    BY <1>2, <1>3, Joined, Zenon
  <2>2. Handled(d, ends \o syn) = Handled(Handled(d, ends), syn)
    BY <1>2, <1>3, HandledOn, Zenon
  <2> QED BY <1>6, <2>1, <2>2 DEF y
<1> DEFINE e2 == e1 \o begins
<1> HIDE DEF e1
<1>14. e2 \in Seq(Events) /\ Handled(d, e2) = z
  <2>1. e2 \in Seq(Events)
    BY <1>2, <1>13, Joined, Zenon
  <2>2. Handled(d, e1 \o begins) = Handled(Handled(d, e1), begins)
    BY <1>2, <1>13, HandledOn, Zenon
  <2> QED BY <1>13, <2>1, <2>2 DEF z
<1> DEFINE e3 == e2 \o slot
<1> HIDE DEF e2
<1>15. e3 \in Seq(Events) /\ Handled(d, e3) = u
  <2>1. e3 \in Seq(Events)
    BY <1>3, <1>14, Joined, Zenon
  <2>2. Handled(d, e2 \o slot) = Handled(Handled(d, e2), slot)
    BY <1>3, <1>14, HandledOn, Zenon
  <2> QED BY <1>14, <2>1, <2>2 DEF u
<1> DEFINE e4 == e3 \o SynEvent
<1> HIDE DEF e3
<1>16. e4 \in Seq(Events) /\ Handled(d, e4) = DeviceDrain(u)
  <2>1. e4 \in Seq(Events)
    BY <1>3, <1>15, Joined, Zenon
  <2>2. Handled(d, e3 \o SynEvent) = Handled(Handled(d, e3), SynEvent)
    BY <1>3, <1>15, HandledOn, Zenon
  <2> QED BY <1>12, <1>15, <2>1, <2>2
<1>17. DifferenceOf(W, P, twice) = e4
  BY <1>4 DEF e1, e2, e3
<1> QED BY <1>11, <1>16, <1>17

-----------------------------------------------------------------------------
(* The list of devices, and what udev says of them.  A listed device is    *)
(* doomed when its removal was told.                                       *)
Entries == [path : Paths, connect_dirty : BOOLEAN, disconnect_dirty : BOOLEAN]
Notices == [path : Paths, added : BOOLEAN]
Doomed(avail, p) == Listed(avail, p) /\ \A i \in DOMAIN avail : avail[i].path = p => avail[i].disconnect_dirty

LEMMA UpdateDoes ==
  ASSUME NEW avail \in Seq(Entries), NEW e \in Notices
  PROVE  LET r == UpdateUdevDevice(avail, e)
         IN /\ r \in Seq(Entries)
            /\ \A p : Listed(avail, p) => Listed(r, p)
            /\ \A p : Doomed(avail, p) => Doomed(r, p)
            /\ Listed(avail, e.path) /\ ~e.added => Doomed(r, e.path)
            /\ e.added => Listed(r, e.path)
            /\ \A p : Listed(r, p) => Listed(avail, p) \/ p = e.path
<1> DEFINE r == UpdateUdevDevice(avail, e)
           n == Len(avail)
<1>1. n \in Nat /\ DOMAIN avail = 1 .. n /\ (\A i \in 1 .. n : avail[i] \in Entries) /\ e.path \in Paths /\ e.added \in BOOLEAN
  BY DEF Notices
<1>2. CASE Listed(avail, e.path) /\ ~e.added
  <2> DEFINE c == [i \in 1 .. n |-> IF avail[i].path = e.path THEN [avail[i] EXCEPT !.disconnect_dirty = TRUE] ELSE avail[i]]
  <2>1. r = c
    BY <1>1, <1>2 DEF UpdateUdevDevice
  <2>2. ASSUME NEW i \in 1 .. n
        PROVE  /\ c[i] \in Entries /\ c[i].path = avail[i].path
               /\ c[i].disconnect_dirty <=> avail[i].disconnect_dirty \/ avail[i].path = e.path
    <3>1. CASE avail[i].path = e.path
      <4>1. c[i] = [avail[i] EXCEPT !.disconnect_dirty = TRUE] /\ avail[i] \in Entries
        BY <1>1, <3>1
      <4>2. c[i] \in Entries /\ c[i].path = avail[i].path /\ c[i].disconnect_dirty = TRUE
        BY <4>1 DEF Entries
      <4> QED BY <3>1, <4>2
    <3>2. CASE avail[i].path # e.path
      <4>1. c[i] = avail[i]
        BY <3>2
      <4> QED BY <1>1, <3>2, <4>1
    <3> QED BY <3>1, <3>2
  <2>3. c \in Seq(Entries) /\ DOMAIN c = 1 .. n
    BY <1>1, <2>2
  <2> HIDE DEF c, n
  <2>4. \A p : Listed(c, p) <=> Listed(avail, p)
    BY <1>1, <2>2, <2>3 DEF Listed
  <2>5. \A p : Doomed(avail, p) => Doomed(c, p)
    BY <1>1, <2>2, <2>3, <2>4 DEF Doomed
  <2>6. Doomed(c, e.path)
    BY <1>1, <1>2, <2>2, <2>3, <2>4 DEF Doomed
  <2> QED BY <1>2, <2>1, <2>3, <2>4, <2>5, <2>6
<1>3. CASE ~Listed(avail, e.path) /\ (e.added \/ e.path \in Usb)
  <2> DEFINE new == [path |-> e.path, connect_dirty |-> TRUE, disconnect_dirty |-> FALSE]
             c == <<new>> \o avail
  <2>1. r = c
    BY <1>3 DEF UpdateUdevDevice
  <2>2. new \in Entries /\ new.path = e.path
    BY <1>1 DEF Entries
  <2> HIDE DEF new
  <2>3. c \in Seq(Entries) /\ DOMAIN c = 1 .. (n + 1) /\ c[1] = new /\ \A i \in 2 .. (n + 1) : c[i] = avail[i - 1]
    BY <1>1, <2>2
  <2> HIDE DEF c, n
  <2>4. \A i \in 1 .. n : i + 1 \in DOMAIN c /\ c[i + 1] = avail[i]
    BY <1>1, <2>3
  <2>5. \A i \in DOMAIN c : i = 1 \/ (i - 1 \in 1 .. n /\ c[i] = avail[i - 1])
    BY <1>1, <2>3
  <2>6. ASSUME NEW p PROVE Listed(c, p) <=> Listed(avail, p) \/ p = e.path
    <3>1. Listed(avail, p) => Listed(c, p)
      BY <1>1, <2>4 DEF Listed
    <3>2. p = e.path => Listed(c, p)
      BY <1>1, <2>2, <2>3 DEF Listed
    <3>3. Listed(c, p) => Listed(avail, p) \/ p = e.path
      BY <1>1, <2>2, <2>3, <2>5 DEF Listed
    <3> QED BY <3>1, <3>2, <3>3
  <2>7. ASSUME NEW p, Doomed(avail, p) PROVE Doomed(c, p)
    <3>1. Listed(c, p) /\ p # e.path
      BY <1>3, <2>6, <2>7 DEF Doomed
    <3>2. ASSUME NEW i \in DOMAIN c, c[i].path = p PROVE c[i].disconnect_dirty
      <4>1. i - 1 \in 1 .. n /\ c[i] = avail[i - 1]
        BY <2>2, <2>3, <2>5, <3>1, <3>2
      <4> QED BY <1>1, <2>7, <3>2, <4>1 DEF Doomed
    <3> QED BY <3>1, <3>2 DEF Doomed
  <2> QED BY <1>3, <2>1, <2>3, <2>6, <2>7
<1>4. CASE ~(Listed(avail, e.path) /\ ~e.added) /\ ~(~Listed(avail, e.path) /\ (e.added \/ e.path \in Usb))
  <2>1. r = avail
    BY <1>4 DEF UpdateUdevDevice
  <2> QED BY <1>4, <2>1
<1> QED BY <1>2, <1>3, <1>4

UpdateTrace(g, avail, ms) ==
  /\ g \in [0 .. Len(ms) -> Seq(Entries)] /\ g[0] = avail
  /\ \A k \in 1 .. Len(ms) : g[k] = UpdateUdevDevice(g[k - 1], ms[k])

LEMMA UpdateSteps ==
  ASSUME NEW avail \in Seq(Entries), NEW ms \in Seq(Notices)
  PROVE  \E g : UpdateTrace(g, avail, ms) /\ FoldLeft(UpdateUdevDevice, avail, ms) = g[Len(ms)]
<1> DEFINE n == Len(ms)
           L == Seq(Entries)
           F == [x \in L \X (1 .. n) |-> UpdateUdevDevice(x[1], ms[x[2]])]
           Step(f, T) == IF T = {} THEN avail ELSE UpdateUdevDevice(f[T \ {Max(T)}], ms[Max(T)])
           h == CHOOSE f : f = [T \in SUBSET (1 .. n) |-> Step(f, T)]
           g == [k \in 0 .. n |-> h[1 .. k]]
<1>1. n \in Nat /\ DOMAIN ms = 1 .. n /\ \A i \in 1 .. n : ms[i] \in Notices
  OBVIOUS
<1>11. \A a \in L, e \in Notices : UpdateUdevDevice(a, e) \in L
  BY UpdateDoes
<1>2. F \in [L \X (1 .. n) -> L]
  <2> HIDE DEF L
  <2> QED BY <1>1, <1>11
<1>3. PICK f \in [SUBSET (1 .. n) -> L] : IsFold(f, n, avail, F)
  <2>1. avail \in L
    OBVIOUS
  <2> HIDE DEF F, n, L
  <2> QED BY <1>1, <1>2, <2>1, FoldExists
<1> HIDE DEF L
<1>4. ASSUME NEW T \in SUBSET (1 .. n) PROVE f[T] = Step(f, T)
  <2>1. CASE T = {}
    BY <1>3, <2>1 DEF IsFold
  <2>2. CASE T # {}
    <3>1. Max(T) \in 1 .. n /\ T \ {Max(T)} \in SUBSET (1 .. n)
      BY <1>1, <2>2, GreatestUpTo
    <3>2. f[T] = F[<<f[T \ {Max(T)}], Max(T)>>]
      BY <1>3, <2>2 DEF IsFold
    <3> HIDE DEF Max, n
    <3> QED BY <1>3, <2>2, <3>1, <3>2
  <2> QED BY <2>1, <2>2
<1>5. h = [T \in SUBSET (1 .. n) |-> Step(h, T)]
  <2>1. f = [T \in SUBSET (1 .. n) |-> Step(f, T)]
    <3> HIDE DEF Step
    <3> QED BY <1>3, <1>4
  <2> HIDE DEF Step, n
  <2> QED BY <2>1
<1>6. FoldLeft(UpdateUdevDevice, avail, ms) = h[1 .. n]
  BY <1>1 DEF FoldLeft, MapThenFoldSet
<1> HIDE DEF h, F
<1>7. g[0] = avail
  BY <1>1, <1>5
<1>8. ASSUME NEW k \in 1 .. n PROVE g[k] = UpdateUdevDevice(g[k - 1], ms[k])
  <2>1. k \in Nat \ {0} /\ k - 1 \in 0 .. n /\ k \in 0 .. n /\ 1 .. k \in SUBSET (1 .. n)
    BY <1>1
  <2>2. 1 .. k # {} /\ Max(1 .. k) = k /\ (1 .. k) \ {k} = 1 .. (k - 1)
    BY <2>1, FirstIndices
  <2>3. h[1 .. k] = UpdateUdevDevice(h[1 .. (k - 1)], ms[k])
    BY <1>5, <2>1, <2>2
  <2> QED BY <1>1, <2>1, <2>3
<1>9. \A k \in 0 .. n : g[k] \in L
  <2> DEFINE C == {k \in 0 .. n : g[k] \in L}
  <2> HIDE DEF g
  <2>1. 0 \in C
    BY <1>1, <1>7 DEF L
  <2>2. ASSUME NEW k \in 1 .. n, k - 1 \in C PROVE k \in C
    BY <1>1, <1>8, <1>11, <2>2
  <2> HIDE DEF C, n
  <2>3. 0 .. n \subseteq C
    BY <1>1, <2>1, <2>2, Induction
  <2> QED BY <2>3 DEF C
<1>10. UpdateTrace(g, avail, ms) /\ g[n] = h[1 .. n]
  <2>1. g \in [0 .. n -> L] /\ g[n] = h[1 .. n]
    BY <1>1, <1>9
  <2> HIDE DEF g
  <2> QED BY <1>7, <1>8, <2>1 DEF UpdateTrace, L
<1> QED BY <1>6, <1>10

(* What the list is after udev's events ms.                                *)
LEMMA ListAfter ==
  ASSUME NEW avail \in Seq(Entries), NEW ms \in Seq(Notices)
  PROVE  LET r == FoldLeft(UpdateUdevDevice, avail, ms)
         IN /\ r \in Seq(Entries)
            /\ \A p : Listed(avail, p) => Listed(r, p)
            /\ \A k \in DOMAIN ms : ms[k].added => Listed(r, ms[k].path)
            /\ \A k \in DOMAIN ms : /\ ~ms[k].added
                                    /\ \/ Listed(avail, ms[k].path)
                                       \/ \E j \in 1 .. k - 1 : ms[j].path = ms[k].path /\ ms[j].added
                                    => Doomed(r, ms[k].path)
            /\ \A p : Listed(r, p) => Listed(avail, p) \/ \E k \in DOMAIN ms : ms[k].path = p
<1> DEFINE n == Len(ms)
<1>1. n \in Nat /\ DOMAIN ms = 1 .. n /\ \A i \in 1 .. n : ms[i] \in Notices
  OBVIOUS
<1>2. PICK g : UpdateTrace(g, avail, ms) /\ FoldLeft(UpdateUdevDevice, avail, ms) = g[n]
  BY UpdateSteps
<1>3. g \in [0 .. n -> Seq(Entries)] /\ g[0] = avail /\ \A k \in 1 .. n : g[k] = UpdateUdevDevice(g[k - 1], ms[k])
  BY <1>2 DEF UpdateTrace
<1> HIDE DEF n
<1>4. ASSUME NEW k \in 1 .. n
      PROVE  /\ \A p : Listed(g[k - 1], p) => Listed(g[k], p)
             /\ \A p : Doomed(g[k - 1], p) => Doomed(g[k], p)
             /\ Listed(g[k - 1], ms[k].path) /\ ~ms[k].added => Doomed(g[k], ms[k].path)
             /\ ms[k].added => Listed(g[k], ms[k].path)
             /\ \A p : Listed(g[k], p) => Listed(g[k - 1], p) \/ p = ms[k].path
  <2>1. k - 1 \in 0 .. n
    BY <1>1
  <2>2. g[k - 1] \in Seq(Entries) /\ ms[k] \in Notices /\ g[k] = UpdateUdevDevice(g[k - 1], ms[k])
    BY <1>1, <1>3, <2>1
  <2> DEFINE a == g[k - 1]
             e == ms[k]
  <2>3. a \in Seq(Entries) /\ e \in Notices /\ g[k] = UpdateUdevDevice(a, e)
    BY <2>2
  <2> HIDE DEF a, e
  <2> DEFINE b == UpdateUdevDevice(a, e)
  <2>4. /\ \A p : Listed(a, p) => Listed(b, p)
        /\ \A p : Doomed(a, p) => Doomed(b, p)
        /\ Listed(a, e.path) /\ ~e.added => Doomed(b, e.path)
        /\ e.added => Listed(b, e.path)
        /\ \A p : Listed(b, p) => Listed(a, p) \/ p = e.path
    BY <2>3, UpdateDoes
  <2> HIDE DEF b
  <2> QED BY <2>3, <2>4 DEF a, b, e
<1>5. ASSUME NEW p
      PROVE  \A m \in 0 .. n : \A j \in 0 .. m : /\ Listed(g[j], p) => Listed(g[m], p)
                                                 /\ Doomed(g[j], p) => Doomed(g[m], p)
  <2> DEFINE Keeps(j, m) == (Listed(g[j], p) => Listed(g[m], p)) /\ (Doomed(g[j], p) => Doomed(g[m], p))
             C == {m \in 0 .. n : \A j \in 0 .. m : Keeps(j, m)}
  <2>1. \A j \in 0 .. n : Keeps(j, j)
    OBVIOUS
  <2>2. ASSUME NEW m \in 1 .. n, NEW j, Keeps(j, m - 1) PROVE Keeps(j, m)
    BY <1>4, <2>2
  <2> HIDE DEF Keeps
  <2>3. 0 \in C
    BY <1>1, <2>1
  <2>4. ASSUME NEW m \in 1 .. n, m - 1 \in C PROVE m \in C
    <3>1. m \in 0 .. n /\ \A j \in 0 .. m : j = m \/ j \in 0 .. (m - 1)
      BY <1>1
    <3>2. \A j \in 0 .. (m - 1) : Keeps(j, m - 1)
      BY <2>4
    <3> QED BY <2>1, <2>2, <3>1, <3>2
  <2> HIDE DEF C
  <2>5. 0 .. n \subseteq C
    BY <1>1, <2>3, <2>4, Induction
  <2>6. \A m \in 0 .. n : \A j \in 0 .. m : Keeps(j, m)
    BY <2>5 DEF C
  <2> QED BY <2>6 DEF Keeps
<1>6. 0 \in 0 .. n /\ n \in 0 .. n /\ \A k \in 1 .. n : k \in 0 .. n /\ k - 1 \in 0 .. n
  BY <1>1
<1>7. g[n] \in Seq(Entries) /\ \A p : Listed(avail, p) => Listed(g[n], p)
  BY <1>3, <1>5, <1>6
<1>8. \A k \in 1 .. n : ms[k].added => Listed(g[n], ms[k].path)
  BY <1>4, <1>5, <1>6
<1>9. ASSUME NEW k \in 1 .. n, ~ms[k].added,
             Listed(avail, ms[k].path) \/ \E j \in 1 .. k - 1 : ms[j].path = ms[k].path /\ ms[j].added
      PROVE  Doomed(g[n], ms[k].path)
  <2>1. Listed(g[k - 1], ms[k].path)
    <3>1. CASE Listed(avail, ms[k].path)
      <4>1. 0 \in 0 .. (k - 1)
        BY <1>1
      <4> QED BY <1>3, <1>5, <1>6, <3>1, <4>1
    <3>2. CASE \E j \in 1 .. k - 1 : ms[j].path = ms[k].path /\ ms[j].added
      <4>1. PICK j \in 1 .. k - 1 : ms[j].path = ms[k].path /\ ms[j].added
        BY <3>2
      <4>2. j \in 1 .. n /\ j \in 0 .. (k - 1)
        BY <1>1
      <4>3. Listed(g[j], ms[k].path)
        BY <1>4, <4>1, <4>2
      <4> QED BY <1>5, <1>6, <4>2, <4>3
    <3> QED BY <1>9, <3>1, <3>2
  <2>2. Doomed(g[k], ms[k].path)
    BY <1>4, <1>9, <2>1
  <2> QED BY <1>5, <1>6, <2>2
<1>10. ASSUME NEW p, Listed(g[n], p) PROVE Listed(avail, p) \/ \E k \in 1 .. n : ms[k].path = p
  <2> DEFINE C == {m \in 0 .. n : Listed(g[m], p) => Listed(avail, p) \/ \E k \in 1 .. n : ms[k].path = p}
  <2>1. 0 \in C
    BY <1>3, <1>6
  <2>2. ASSUME NEW m \in 1 .. n, m - 1 \in C PROVE m \in C
    BY <1>4, <1>6, <2>2
  <2> HIDE DEF C
  <2>3. 0 .. n \subseteq C
    BY <1>1, <2>1, <2>2, Induction
  <2>4. n \in C
    BY <1>6, <2>3
  <2> QED BY <1>10, <2>4 DEF C
<1> QED BY <1>1, <1>2, <1>7, <1>8, <1>9, <1>10

(* setsu_poll drops the devices whose removal it told.                     *)
LEMMA KeptDoes ==
  ASSUME NEW q \in Seq(Entries), NEW a \in Entries
  PROVE  /\ Kept(q, a) \in Seq(Entries)
         /\ \A p : Listed(Kept(q, a), p) <=> Listed(q, p) \/ (a.path = p /\ ~a.disconnect_dirty)
<1> DEFINE b == [a EXCEPT !.connect_dirty = FALSE]
           r == Append(q, b)
           n == Len(q)
<1>1. b \in Entries /\ b.path = a.path
  BY DEF Entries
<1> HIDE DEF b
<1>2. n \in Nat /\ DOMAIN q = 1 .. n /\ r \in Seq(Entries) /\ DOMAIN r = 1 .. (n + 1) /\ r[n + 1] = b /\ \A i \in 1 .. n : r[i] = q[i]
  BY <1>1
<1> HIDE DEF r, n
<1>3. \A p : Listed(r, p) <=> Listed(q, p) \/ a.path = p
  <2>1. \A i \in DOMAIN r : i \in DOMAIN q \/ i = n + 1
    BY <1>2
  <2>2. \A i \in DOMAIN q : i \in DOMAIN r /\ r[i] = q[i]
    BY <1>2
  <2>3. n + 1 \in DOMAIN r /\ r[n + 1].path = a.path
    BY <1>1, <1>2
  <2> QED BY <2>1, <2>2, <2>3 DEF Listed
<1>4. Kept(q, a) = IF a.disconnect_dirty THEN q ELSE r
  BY DEF Kept, r, b
<1> QED BY <1>2, <1>3, <1>4

KeptTrace(g, avail) ==
  /\ g \in [0 .. Len(avail) -> Seq(Entries)] /\ g[0] = <<>>
  /\ \A k \in 1 .. Len(avail) : g[k] = Kept(g[k - 1], avail[k])

LEMMA KeptSteps ==
  ASSUME NEW avail \in Seq(Entries)
  PROVE  \E g : KeptTrace(g, avail) /\ FoldLeft(Kept, <<>>, avail) = g[Len(avail)]
<1> DEFINE n == Len(avail)
           L == Seq(Entries)
           F == [x \in L \X (1 .. n) |-> Kept(x[1], avail[x[2]])]
           Step(f, T) == IF T = {} THEN <<>> ELSE Kept(f[T \ {Max(T)}], avail[Max(T)])
           h == CHOOSE f : f = [T \in SUBSET (1 .. n) |-> Step(f, T)]
           g == [k \in 0 .. n |-> h[1 .. k]]
<1>1. n \in Nat /\ DOMAIN avail = 1 .. n /\ \A i \in 1 .. n : avail[i] \in Entries
  OBVIOUS
<1>11. <<>> \in L /\ \A q \in L, a \in Entries : Kept(q, a) \in L
  BY KeptDoes
<1>2. F \in [L \X (1 .. n) -> L]
  <2> HIDE DEF L
  <2> QED BY <1>1, <1>11
<1>3. PICK f \in [SUBSET (1 .. n) -> L] : IsFold(f, n, <<>>, F)
  <2> HIDE DEF F, n, L
  <2> QED BY <1>1, <1>2, <1>11, FoldExists
<1> HIDE DEF L
<1>4. ASSUME NEW T \in SUBSET (1 .. n) PROVE f[T] = Step(f, T)
  <2>1. CASE T = {}
    BY <1>3, <2>1 DEF IsFold
  <2>2. CASE T # {}
    <3>1. Max(T) \in 1 .. n /\ T \ {Max(T)} \in SUBSET (1 .. n)
      BY <1>1, <2>2, GreatestUpTo
    <3>2. f[T] = F[<<f[T \ {Max(T)}], Max(T)>>]
      BY <1>3, <2>2 DEF IsFold
    <3> HIDE DEF Max, n
    <3> QED BY <1>3, <2>2, <3>1, <3>2
  <2> QED BY <2>1, <2>2
<1>5. h = [T \in SUBSET (1 .. n) |-> Step(h, T)]
  <2>1. f = [T \in SUBSET (1 .. n) |-> Step(f, T)]
    <3> HIDE DEF Step
    <3> QED BY <1>3, <1>4
  <2> HIDE DEF Step, n
  <2> QED BY <2>1
<1>6. FoldLeft(Kept, <<>>, avail) = h[1 .. n]
  BY <1>1 DEF FoldLeft, MapThenFoldSet
<1> HIDE DEF h, F
<1>7. g[0] = <<>>
  BY <1>1, <1>5
<1>8. ASSUME NEW k \in 1 .. n PROVE g[k] = Kept(g[k - 1], avail[k])
  <2>1. k \in Nat \ {0} /\ k - 1 \in 0 .. n /\ k \in 0 .. n /\ 1 .. k \in SUBSET (1 .. n)
    BY <1>1
  <2>2. 1 .. k # {} /\ Max(1 .. k) = k /\ (1 .. k) \ {k} = 1 .. (k - 1)
    BY <2>1, FirstIndices
  <2>3. h[1 .. k] = Kept(h[1 .. (k - 1)], avail[k])
    BY <1>5, <2>1, <2>2
  <2> QED BY <1>1, <2>1, <2>3
<1>9. \A k \in 0 .. n : g[k] \in L
  <2> DEFINE C == {k \in 0 .. n : g[k] \in L}
  <2> HIDE DEF g
  <2>1. 0 \in C
    BY <1>1, <1>7, <1>11
  <2>2. ASSUME NEW k \in 1 .. n, k - 1 \in C PROVE k \in C
    BY <1>1, <1>8, <1>11, <2>2
  <2> HIDE DEF C, n
  <2>3. 0 .. n \subseteq C
    BY <1>1, <2>1, <2>2, Induction
  <2> QED BY <2>3 DEF C
<1>10. KeptTrace(g, avail) /\ g[n] = h[1 .. n]
  <2>1. g \in [0 .. n -> L] /\ g[n] = h[1 .. n]
    BY <1>1, <1>9
  <2> HIDE DEF g
  <2> QED BY <1>7, <1>8, <2>1 DEF KeptTrace, L
<1> QED BY <1>6, <1>10

LEMMA KeptAfter ==
  ASSUME NEW avail \in Seq(Entries)
  PROVE  LET q == FoldLeft(Kept, <<>>, avail)
         IN /\ q \in Seq(Entries)
            /\ \A p : Listed(q, p) <=> \E i \in DOMAIN avail : avail[i].path = p /\ ~avail[i].disconnect_dirty
<1> DEFINE n == Len(avail)
           Stays(i, p) == avail[i].path = p /\ ~avail[i].disconnect_dirty
<1>1. n \in Nat /\ DOMAIN avail = 1 .. n /\ \A i \in 1 .. n : avail[i] \in Entries
  OBVIOUS
<1>2. PICK g : KeptTrace(g, avail) /\ FoldLeft(Kept, <<>>, avail) = g[n]
  BY KeptSteps
<1>3. g \in [0 .. n -> Seq(Entries)] /\ g[0] = <<>> /\ \A k \in 1 .. n : g[k] = Kept(g[k - 1], avail[k])
  BY <1>2 DEF KeptTrace
<1> HIDE DEF n
<1>4. ASSUME NEW k \in 1 .. n PROVE \A p : Listed(g[k], p) <=> Listed(g[k - 1], p) \/ Stays(k, p)
  <2>1. k - 1 \in 0 .. n
    BY <1>1
  <2> DEFINE q == g[k - 1]
             a == avail[k]
  <2>2. q \in Seq(Entries) /\ a \in Entries /\ g[k] = Kept(q, a)
    BY <1>1, <1>3, <2>1
  <2> HIDE DEF q, a
  <2>3. \A p : Listed(Kept(q, a), p) <=> Listed(q, p) \/ (a.path = p /\ ~a.disconnect_dirty)
    BY <2>2, KeptDoes
  <2> QED BY <2>2, <2>3 DEF q, a
<1>5. \A p : ~Listed(g[0], p)
  BY <1>3 DEF Listed
<1> HIDE DEF Stays
<1>6. ASSUME NEW p PROVE Listed(g[n], p) <=> \E i \in 1 .. n : Stays(i, p)
  <2> DEFINE Q(m) == Listed(g[m], p) <=> \E i \in 1 .. m : Stays(i, p)
             C == {m \in 0 .. n : Q(m)}
  <2>1. Q(0)
    BY <1>5
  <2>2. ASSUME NEW m \in 1 .. n, Q(m - 1) PROVE Q(m)
    <3>1. \A i : i \in 1 .. m <=> i \in 1 .. (m - 1) \/ i = m
      BY <1>1
    <3> QED BY <1>4, <2>2, <3>1
  <2> HIDE DEF Q
  <2>3. 0 \in C /\ \A m \in 1 .. n : m - 1 \in C => m \in C
    BY <1>1, <2>1, <2>2
  <2> HIDE DEF C
  <2>4. 0 .. n \subseteq C
    BY <1>1, <2>3, Induction
  <2>5. Q(n)
    BY <1>1, <2>4 DEF C
  <2> QED BY <2>5 DEF Q
<1>7. g[n] \in Seq(Entries)
  BY <1>1, <1>3
<1> QED BY <1>1, <1>2, <1>6, <1>7 DEF Stays

(* The members of a finite set, in some order.                             *)
LEMMA SetToSeqIs ==
  ASSUME NEW S, IsFiniteSet(S)
  PROVE  SetToSeq(S) \in Seq(S) /\ \A x \in S : \E k \in DOMAIN SetToSeq(S) : SetToSeq(S)[k] = x
<1> DEFINE n == Cardinality(S)
           f == SetToSeq(S)
<1>1. n \in Nat /\ ExistsBijection(1 .. n, S)
  BY FS_CardinalityType
<1>2. PICK b \in [1 .. n -> S] : \A i, j \in 1 .. n : b[i] = b[j] => i = j
  BY <1>1 DEF ExistsBijection, Bijection, Injection, IsInjective
<1>3. f \in [1 .. n -> S] /\ \A i, j \in 1 .. n : f[i] = f[j] => i = j
  <2>1. \E g \in [1 .. n -> S] : IsInjective(g)
    BY <1>2 DEF IsInjective
  <2>2. f \in [1 .. n -> S] /\ IsInjective(f)
    BY <2>1 DEF SetToSeq
  <2> QED BY <2>2 DEF IsInjective
<1> HIDE DEF f, n
<1>4. f \in Injection(1 .. n, S)
  BY <1>3 DEF Injection, IsInjective
<1>5. Cardinality(1 .. n) = n
  <2>1. Cardinality(1 .. n) = IF 1 > n THEN 0 ELSE n - 1 + 1
    BY <1>1, FS_Interval
  <2> QED BY <1>1, <2>1
<1>6. f \in Surjection(1 .. n, S)
  BY <1>4, <1>5, FS_Injection DEF n
<1>7. \A x \in S : \E k \in 1 .. n : f[k] = x
  BY <1>6 DEF Surjection
<1>8. f \in Seq(S) /\ DOMAIN f = 1 .. n
  BY ONLY <1>1, <1>3, SeqDef
<1> QED BY ONLY <1>7, <1>8 DEF f

-----------------------------------------------------------------------------
(* The invariant.  Pads hold fingers of ids already given out, each once.  *)
PadsRight ==
  /\ ids_given \in Nat /\ pad \in [Paths -> Pads]
  /\ \A p \in Paths : PadOK(pad[p]) /\ \A s \in MTSlots : pad[p].slot[s].id < ids_given

(* What is plugged in is listed or udev is about to tell of it; what is    *)
(* not is not listed, or udev is about to tell so.                         *)
Heard(p, added) == \E k \in DOMAIN monitor : monitor[k].path = p /\ monitor[k].added = added
Dropped(p) ==
  \E k \in DOMAIN monitor : /\ monitor[k].path = p /\ ~monitor[k].added
                            /\ \/ Listed(avail_dev, p)
                               \/ \E j \in 1 .. k - 1 : monitor[j].path = p /\ monitor[j].added
ListRight ==
  /\ node \in SUBSET Paths /\ alive \in BOOLEAN /\ missed \in SUBSET Paths /\ overlooked \in SUBSET Paths
  /\ monitor \in Seq(Notices) /\ avail_dev \in Seq(Entries)
  /\ alive => \A p \in Paths \ overlooked :
       /\ p \in node => Listed(avail_dev, p) \/ Heard(p, TRUE)
       /\ p \notin node => Dropped(p) \/ (~Listed(avail_dev, p) /\ \A k \in DOMAIN monitor : monitor[k].path # p)

(* What is open is listed, and plugged in or known to have been removed.   *)
Files == [queue : Seq(Seq(Events)), dropped : BOOLEAN, seen : [MTSlots -> Int]]
OpenRight ==
  /\ dev \in [Paths -> Devices \cup {NoDevice}] /\ evdev \in [Paths -> Files]
  /\ \A p \in Paths : dev[p].open => alive /\ Listed(avail_dev, p) /\ (p \in node \/ Heard(p, FALSE))

(* The events queued for a device take it to where the pad is, or the      *)
(* difference to what libevdev knows does.                                 *)
CatchesUp(d, f, P) ==
  /\ Knows(d, f.seen) /\ Related(f.seen, P)
  /\ f.dropped => f.queue = <<>>
  /\ ~f.dropped => Follows(Handled(d, FlattenSeq(f.queue)), P)
ReadRight ==
  \A p \in Paths \ missed : dev[p].open /\ ~Heard(p, FALSE) =>
    CatchesUp(dev[p], evdev[p], pad[p]) /\ \A s \in MTSlots : evdev[p].seen[s] < ids_given

SetsuInv == PadsRight /\ ListRight /\ OpenRight /\ ReadRight

-----------------------------------------------------------------------------
(* What the code reads of an overflow is what was shown above.             *)
LEMMA DifferenceOfPad ==
  ASSUME NEW p \in Paths, NEW twice \in BOOLEAN
  PROVE  Difference(p, twice) = DifferenceOf(evdev[p].seen, pad[p], twice)
<1> DEFINE W == evdev[p].seen
           P == pad[p]
           n == SlotCount
           order == [i \in 1 .. n |-> i - 1]
           is == IdsOf(p)
           Ends(i) == IF W[i] # -1 /\ is[i] # W[i] THEN SlotEvent(i) \o IdEvent(-1) ELSE <<>>
           Begins(i) == IF is[i] = -1 THEN <<>>
                        ELSE SlotEvent(i) \o (IF is[i] # W[i] THEN IdEvent(is[i]) ELSE <<>>)
                             \o (IF P.slot[i].moved THEN PosEvent ELSE <<>>)
<1>1. \A i \in 1 .. n : order[i] = i - 1 /\ i - 1 \in MTSlots
  BY SetsuAssumption DEF MTSlots
<1>2. \A i \in MTSlots : is[i] = P.slot[i].id
  BY DEF IdsOf
<1>3. [i \in 1 .. n |-> Ends(order[i])] = AllEnds(W, P)
  <2>1. \A i \in MTSlots : Ends(i) = EndEvents(W, P, i)
    BY <1>2 DEF EndEvents, Ended
  <2> HIDE DEF Ends, order, W, P, n
  <2>2. \A i \in 1 .. n : Ends(order[i]) = EndEvents(W, P, i - 1)
    BY <1>1, <2>1
  <2> QED BY <2>2 DEF AllEnds, n
<1>4. [i \in 1 .. n |-> Begins(order[i])] = AllBegins(W, P)
  <2>1. \A i \in MTSlots : Begins(i) = BeginEvents(W, P, i)
    BY <1>2 DEF BeginEvents
  <2> HIDE DEF Begins, order, W, P, n
  <2>2. \A i \in 1 .. n : Begins(order[i]) = BeginEvents(W, P, i - 1)
    BY <1>1, <2>1
  <2> QED BY <2>2 DEF AllBegins, n
<1>5. Difference(p, twice)
        = FlattenSeq([i \in 1 .. n |-> Ends(order[i])]) \o (IF twice THEN SynEvent ELSE <<>>)
          \o FlattenSeq([i \in 1 .. n |-> Begins(order[i])]) \o SlotEvent(P.cur) \o SynEvent
  BY DEF Difference
<1> HIDE DEF Ends, Begins, order, n, W, P
<1>6. Difference(p, twice)
        = FlattenSeq(AllEnds(W, P)) \o (IF twice THEN SynEvent ELSE <<>>)
          \o FlattenSeq(AllBegins(W, P)) \o SlotEvent(P.cur) \o SynEvent
  BY <1>3, <1>4, <1>5
<1> QED BY <1>6 DEF DifferenceOf, W, P

(* When all has been read, libevdev knows the pad, and nothing is queued.  *)
LEMMA Reading ==
  ASSUME PadsRight, NEW p \in Paths, NEW d \in Devices, Follows(d, pad[p])
  PROVE  /\ ReadUp(p) \in Files /\ CatchesUp(d, ReadUp(p), pad[p])
         /\ \A s \in MTSlots : ReadUp(p).seen[s] < ids_given
<1> DEFINE P == pad[p]
           W == IdsOf(p)
<1>1. PadOK(P) /\ \A s \in MTSlots : P.slot[s].id \in Int /\ P.slot[s].id < ids_given
  BY DEF PadsRight, PadOK, Pads
<1>2. W \in [MTSlots -> Int] /\ \A s \in MTSlots : W[s] = P.slot[s].id
  BY <1>1 DEF IdsOf
<1> HIDE DEF P, W
<1>3. Related(W, P)
  BY <1>1, <1>2 DEF Related, PadOK
<1>4. Knows(d, W)
  <2>1. {W[s] : s \in MTSlots} = {P.slot[s].id : s \in MTSlots}
    BY <1>2
  <2> QED BY <1>2, <2>1 DEF Knows, Follows, FingersOf, P
<1>5. <<>> \in Seq(Seq(Events)) /\ FlattenSeq(<<>>) = <<>>
  BY DEF FlattenSeq
<1>6. Handled(d, FlattenSeq(<<>>)) = d
  BY <1>5, HandledNone
<1>7. ReadUp(p) = [queue |-> <<>>, dropped |-> FALSE, seen |-> W]
  BY DEF ReadUp, W
<1>8. ReadUp(p) \in Files
  BY <1>2, <1>5, <1>7 DEF Files
<1>9. ReadUp(p).queue = <<>> /\ ReadUp(p).dropped = FALSE /\ ReadUp(p).seen = W
  BY <1>7
<1> QED BY <1>1, <1>2, <1>3, <1>4, <1>6, <1>8, <1>9 DEF CatchesUp, P

(* An open device that is read follows its pad.                            *)
LEMMA PollReads ==
  ASSUME PadsRight, OpenRight, ReadRight, NEW p \in Paths, dev[p].open, NEW twice \in BOOLEAN
  PROVE  LET r == PollDevice(dev[p], p, twice)
         IN r \in Devices /\ (p \in node /\ p \notin missed /\ ~Heard(p, FALSE) => Follows(r, pad[p]))
<1> DEFINE P == pad[p]
           f == evdev[p]
           d == dev[p]
           r == PollDevice(d, p, twice)
<1>1. PadOK(P) /\ f \in Files /\ d \in Devices
  BY DEF PadsRight, OpenRight, NoDevice
<1>2. f.queue \in Seq(Seq(Events)) /\ f.dropped \in BOOLEAN
  BY <1>1 DEF Files
<1>3. r = Handled(d, CASE p \notin node -> <<>>
                   [] p \in node /\ f.dropped -> Difference(p, twice)
                   [] OTHER -> FlattenSeq(f.queue))
  BY DEF PollDevice, Handled
<1>4. p \notin missed /\ ~Heard(p, FALSE) => CatchesUp(d, f, P)
  BY DEF ReadRight
<1>5. Difference(p, twice) = DifferenceOf(f.seen, P, twice)
  BY DifferenceOfPad
<1> HIDE DEF P, f, d, r
<1>6. CASE p \notin node
  <2>1. r = d
    BY <1>1, <1>3, <1>6, HandledNone
  <2> QED BY <1>1, <1>6, <2>1 DEF r, d
<1>7. CASE p \in node /\ f.dropped
  <2>1. r = Handled(d, DifferenceOf(f.seen, P, twice))
    BY <1>3, <1>5, <1>7
  <2>2. r \in Devices
    BY <1>1, <2>1, DifferenceTyped, HandledTyped
  <2>3. CatchesUp(d, f, P) => Follows(r, P)
    BY <1>1, <2>1, HandledDifference DEF CatchesUp
  <2> QED BY <1>4, <2>2, <2>3 DEF r, d, P
<1>8. CASE p \in node /\ ~f.dropped
  <2>1. r = Handled(d, FlattenSeq(f.queue))
    BY <1>3, <1>8
  <2>2. r \in Devices
    BY <1>1, <1>2, <2>1, FlattenTyped, HandledTyped
  <2>3. CatchesUp(d, f, P) => Follows(r, P)
    BY <1>8, <2>1 DEF CatchesUp
  <2> QED BY <1>4, <2>2, <2>3 DEF r, d, P
<1> QED BY <1>6, <1>7, <1>8

(* A device just opened, of a pad that is not in use.                      *)
LEMMA OpenedReads ==
  ASSUME PadsRight, NEW p \in Paths
  PROVE  /\ Opened \in Devices
         /\ pad[p].cur = 0 /\ (\A s \in MTSlots : pad[p].slot[s].id = -1) => Follows(Opened, pad[p])
<1>1. 0 \in MTSlots
  BY SetsuAssumption DEF MTSlots
<1>2. Quiet(-1) \in Slots
  BY DEF Quiet, Slots
<1>3. Opened \in Devices
  <2> DEFINE slots == [s \in MTSlots |-> Quiet(-1)]
  <2>1. slots \in [MTSlots -> Slots] /\ {} \in SUBSET Int
    BY <1>2
  <2>2. Opened = [open |-> TRUE, slot_cur |-> 0, slots |-> slots, held |-> {}, touches |-> {}]
    BY DEF Opened
  <2> HIDE DEF slots
  <2> QED BY <1>1, <2>1, <2>2 DEF Devices
<1>4. ASSUME pad[p].cur = 0, \A s \in MTSlots : pad[p].slot[s].id = -1
      PROVE  Follows(Opened, pad[p])
  <2>1. \A s \in MTSlots : ~pad[p].slot[s].moved
    BY <1>4 DEF PadsRight, PadOK
  <2>2. FingersOf(pad[p]) = {} /\ MovedOf(pad[p]) = {}
    BY <1>4, <2>1 DEF FingersOf, MovedOf
  <2>3. /\ Opened.slot_cur = 0 /\ Opened.held = {} /\ Opened.touches = {}
        /\ \A s \in MTSlots : Opened.slots[s] = Quiet(-1)
    BY DEF Opened
  <2> QED BY <1>4, <2>2, <2>3 DEF Follows
<1> QED BY <1>3, <1>4

-----------------------------------------------------------------------------
(* The steps.  What a poll makes of the list.                              *)
LEMMA PollList ==
  ASSUME SetsuInv, NEW fails, NEW twice, SetsuPoll(fails, twice)
  PROVE  LET avail == FoldLeft(UpdateUdevDevice, avail_dev, monitor)
             closes == {p \in Paths : \E i \in DOMAIN avail : avail[i].path = p /\ avail[i].disconnect_dirty}
         IN /\ ListRight'
            /\ \A p \in Paths : Listed(avail, p) /\ p \notin closes => Listed(avail_dev', p)
            /\ \A p \in Paths : Listed(avail_dev, p) => Listed(avail, p)
            /\ \A p \in Paths : Listed(avail_dev, p) /\ Heard(p, FALSE) => p \in closes
<1> DEFINE avail == FoldLeft(UpdateUdevDevice, avail_dev, monitor)
           closes == {p \in Paths : \E i \in DOMAIN avail : avail[i].path = p /\ avail[i].disconnect_dirty}
           opens == {p \in node \ fails : \E i \in DOMAIN avail : avail[i].path = p /\ avail[i].connect_dirty}
<1>1. /\ node \in SUBSET Paths /\ alive \in BOOLEAN /\ missed \in SUBSET Paths /\ overlooked \in SUBSET Paths
      /\ monitor \in Seq(Notices) /\ avail_dev \in Seq(Entries)
  BY DEF SetsuInv, ListRight
<1>2. /\ alive /\ avail_dev' = FoldLeft(Kept, <<>>, avail)
      /\ missed' = (missed \ closes) \cup {p \in opens : pad[p].cur # 0 \/ \E s \in MTSlots : pad[p].slot[s].id # -1}
      /\ overlooked' = overlooked \cup (closes \cap node)
      /\ monitor' = <<>> /\ node' = node /\ alive' = alive
  BY DEF SetsuPoll
<1>3. /\ avail \in Seq(Entries)
      /\ \A p : Listed(avail_dev, p) => Listed(avail, p)
      /\ \A k \in DOMAIN monitor : monitor[k].added => Listed(avail, monitor[k].path)
      /\ \A k \in DOMAIN monitor : /\ ~monitor[k].added
                                   /\ \/ Listed(avail_dev, monitor[k].path)
                                      \/ \E j \in 1 .. k - 1 : monitor[j].path = monitor[k].path /\ monitor[j].added
                                   => Doomed(avail, monitor[k].path)
      /\ \A p : Listed(avail, p) => Listed(avail_dev, p) \/ \E k \in DOMAIN monitor : monitor[k].path = p
  BY <1>1, ListAfter
<1> HIDE DEF avail
<1>4. /\ avail_dev' \in Seq(Entries)
      /\ \A p : Listed(avail_dev', p) <=> \E i \in DOMAIN avail : avail[i].path = p /\ ~avail[i].disconnect_dirty
  BY <1>2, <1>3, KeptAfter
<1>5. \A p \in Paths : p \in closes <=> \E i \in DOMAIN avail : avail[i].path = p /\ avail[i].disconnect_dirty
  OBVIOUS
<1>6. \A p \in Paths : Listed(avail, p) /\ p \notin closes => Listed(avail_dev', p)
  BY <1>4, <1>5 DEF Listed
<1>7. \A p \in Paths : Doomed(avail, p) => p \in closes /\ ~Listed(avail_dev', p)
  BY <1>4, <1>5 DEF Doomed, Listed
<1>8. \A p : ~Listed(avail, p) => ~Listed(avail_dev', p)
  BY <1>4 DEF Listed
<1>9. closes \in SUBSET Paths /\ opens \in SUBSET Paths
  BY <1>1
<1> HIDE DEF closes, opens
<1>10. \A p \in Paths : Dropped(p) => Doomed(avail, p)
  BY <1>3 DEF Dropped
<1>11. \A p \in Paths : Listed(avail_dev, p) /\ Heard(p, FALSE) => Doomed(avail, p)
  BY <1>3 DEF Heard
<1>12. \A p \in Paths : Heard(p, TRUE) => Listed(avail, p)
  BY <1>3 DEF Heard
<1>13. ASSUME NEW p \in Paths \ overlooked'
       PROVE  /\ p \in node' => Listed(avail_dev', p)
              /\ p \notin node' => ~Listed(avail_dev', p)
  <2>1. p \in Paths \ overlooked /\ (p \in node => p \notin closes)
    BY <1>2, <1>13
  <2>2. /\ p \in node => Listed(avail_dev, p) \/ Heard(p, TRUE)
        /\ p \notin node => Dropped(p) \/ (~Listed(avail_dev, p) /\ \A k \in DOMAIN monitor : monitor[k].path # p)
    BY <1>2, <2>1 DEF SetsuInv, ListRight
  <2>3. CASE p \in node
    BY <1>2, <1>3, <1>6, <1>12, <2>1, <2>2, <2>3
  <2>4. CASE p \notin node
    <3>1. Dropped(p) \/ ~Listed(avail, p)
      BY <1>3, <2>2, <2>4
    <3> QED BY <1>2, <1>7, <1>8, <1>10, <2>4, <3>1
  <2> QED BY <2>3, <2>4
<1>14. missed' \in SUBSET Paths /\ overlooked' \in SUBSET Paths /\ monitor' \in Seq(Notices) /\ DOMAIN monitor' = {}
  <2>1. {p \in opens : pad[p].cur # 0 \/ \E s \in MTSlots : pad[p].slot[s].id # -1} \in SUBSET Paths
    BY <1>9
  <2> QED BY <1>1, <1>2, <1>9, <2>1
<1>15. ListRight'
  <2>1. /\ node' \in SUBSET Paths /\ alive' \in BOOLEAN /\ missed' \in SUBSET Paths /\ overlooked' \in SUBSET Paths
        /\ monitor' \in Seq(Notices) /\ avail_dev' \in Seq(Entries)
    BY <1>1, <1>2, <1>4, <1>14
  <2> QED BY <1>13, <1>14, <2>1 DEF ListRight
<1> QED BY <1>3, <1>6, <1>7, <1>11, <1>15 DEF closes, avail

LEMMA PollKeeps ==
  ASSUME SetsuInv, NEW fails, NEW twice \in BOOLEAN, SetsuPoll(fails, twice)
  PROVE  SetsuInv'
<1> DEFINE avail == FoldLeft(UpdateUdevDevice, avail_dev, monitor)
           closes == {p \in Paths : \E i \in DOMAIN avail : avail[i].path = p /\ avail[i].disconnect_dirty}
           opens == {p \in node \ fails : \E i \in DOMAIN avail : avail[i].path = p /\ avail[i].connect_dirty}
           Device(p) == CASE p \in closes -> NoDevice
                          [] p \in opens \ closes -> Opened
                          [] p \notin opens \cup closes /\ dev[p].open -> PollDevice(dev[p], p, twice)
                          [] OTHER -> NoDevice
<1>1. PadsRight /\ ListRight /\ OpenRight /\ ReadRight
  BY DEF SetsuInv
<1>2. /\ alive /\ monitor' = <<>> /\ node' = node /\ alive' = alive /\ pad' = pad /\ ids_given' = ids_given
      /\ dev' = [p \in Paths |-> Device(p)]
      /\ evdev' = [p \in Paths |-> IF dev'[p].open THEN ReadUp(p) ELSE NoFile]
      /\ missed' = (missed \ closes) \cup {p \in opens : pad[p].cur # 0 \/ \E s \in MTSlots : pad[p].slot[s].id # -1}
  BY DEF SetsuPoll
<1>3. /\ ListRight'
      /\ \A p \in Paths : Listed(avail, p) /\ p \notin closes => Listed(avail_dev', p)
      /\ \A p \in Paths : Listed(avail_dev, p) => Listed(avail, p)
      /\ \A p \in Paths : Listed(avail_dev, p) /\ Heard(p, FALSE) => p \in closes
  BY PollList
<1>4. opens \subseteq node /\ \A p \in opens : Listed(avail, p)
  BY DEF Listed
<1> HIDE DEF avail, closes, opens
<1>5. PadsRight'
  BY <1>1, <1>2 DEF PadsRight
<1>6. ASSUME NEW p \in Paths
      PROVE  /\ dev'[p] \in Devices \cup {NoDevice}
             /\ dev'[p].open => /\ dev'[p] \in Devices /\ Listed(avail_dev', p) /\ p \in node
                                /\ p \notin missed' => Follows(dev'[p], pad[p])
  <2>1. dev'[p] = Device(p) /\ ~NoDevice.open
    BY <1>2 DEF NoDevice
  <2>2. CASE p \in closes
    BY <2>1, <2>2
  <2>3. CASE p \in opens \ closes
    <3>1. dev'[p] = Opened
      BY <2>1, <2>3
    <3>2. Listed(avail_dev', p) /\ p \in node
      BY <1>3, <1>4, <2>3
    <3>3. p \notin missed' => pad[p].cur = 0 /\ \A s \in MTSlots : pad[p].slot[s].id = -1
      BY <1>2, <2>3
    <3> QED BY <1>1, <3>1, <3>2, <3>3, OpenedReads
  <2>4. CASE p \notin opens \cup closes /\ dev[p].open
    <3>1. dev'[p] = PollDevice(dev[p], p, twice)
      BY <2>1, <2>4
    <3>2. Listed(avail_dev, p) /\ ~Heard(p, FALSE) /\ p \in node
      BY <1>1, <1>3, <2>4 DEF OpenRight
    <3>3. p \notin missed' => p \notin missed
      BY <1>2, <2>4
    <3>4. dev'[p] \in Devices /\ (p \notin missed => Follows(dev'[p], pad[p]))
      BY <1>1, <2>4, <3>1, <3>2, PollReads
    <3>5. Listed(avail_dev', p)
      BY <1>3, <2>4, <3>2
    <3> QED BY <3>2, <3>3, <3>4, <3>5
  <2>5. CASE p \notin opens \cup closes /\ ~dev[p].open
    BY <2>1, <2>5
  <2> QED BY <2>2, <2>3, <2>4, <2>5
<1>7. NoFile \in Files
  <2>1. [s \in MTSlots |-> -1] \in [MTSlots -> Int] /\ <<>> \in Seq(Seq(Events))
    OBVIOUS
  <2> QED BY <2>1 DEF NoFile, Files
<1>8. ASSUME NEW p \in Paths PROVE ReadUp(p) \in Files
  <2>1. IdsOf(p) \in [MTSlots -> Int] /\ <<>> \in Seq(Seq(Events))
    BY <1>1 DEF IdsOf, PadsRight, Pads
  <2> QED BY <2>1 DEF ReadUp, Files
<1> HIDE DEF Device
<1>9. dev' \in [Paths -> Devices \cup {NoDevice}] /\ evdev' \in [Paths -> Files]
  <2>1. dev' = [p \in Paths |-> dev'[p]]
    BY <1>2
  <2>2. \A p \in Paths : (IF dev'[p].open THEN ReadUp(p) ELSE NoFile) \in Files
    BY <1>7, <1>8
  <2> QED BY <1>2, <1>6, <2>1, <2>2
<1>10. OpenRight'
  BY <1>2, <1>6, <1>9 DEF OpenRight
<1>11. ReadRight'
  <2>1. ASSUME NEW p \in Paths \ missed', dev'[p].open
        PROVE  CatchesUp(dev'[p], evdev'[p], pad'[p]) /\ \A s \in MTSlots : evdev'[p].seen[s] < ids_given'
    <3> DEFINE d == dev'[p]
    <3>1. d \in Devices /\ Follows(d, pad[p]) /\ evdev'[p] = ReadUp(p)
      BY <1>2, <1>6, <2>1
    <3> HIDE DEF d
    <3>2. CatchesUp(d, ReadUp(p), pad[p]) /\ \A s \in MTSlots : ReadUp(p).seen[s] < ids_given
      BY <1>1, <3>1, Reading
    <3> QED BY <1>2, <3>1, <3>2 DEF d
  <2> QED BY <2>1 DEF ReadRight
<1> QED BY <1>3, <1>5, <1>10, <1>11 DEF SetsuInv

LEMMA SetsuInitRight == SetsuInit => SetsuInv
<1> SUFFICES ASSUME SetsuInit PROVE SetsuInv
  OBVIOUS
<1>1. 0 \in MTSlots
  BY SetsuAssumption DEF MTSlots
<1>2. EmptySlot \in [id : Int, moved : BOOLEAN] /\ EmptySlot.id = -1 /\ EmptySlot.moved = FALSE
  BY DEF EmptySlot
<1>3. IdlePad \in Pads /\ PadOK(IdlePad) /\ \A s \in MTSlots : IdlePad.slot[s].id = -1
  BY <1>1, <1>2 DEF IdlePad, Pads, PadOK
<1>4. PadsRight
  BY <1>3 DEF SetsuInit, PadsRight
<1>5. ListRight
  <2>1. node = {} /\ alive = FALSE /\ missed = {} /\ overlooked = {} /\ monitor = <<>> /\ avail_dev = <<>>
    BY DEF SetsuInit
  <2>2. <<>> \in Seq(Notices) /\ <<>> \in Seq(Entries) /\ {} \in SUBSET Paths
    OBVIOUS
  <2> QED BY <2>1, <2>2 DEF ListRight
<1>6. NoFile \in Files
  <2>1. [s \in MTSlots |-> -1] \in [MTSlots -> Int] /\ <<>> \in Seq(Seq(Events))
    OBVIOUS
  <2> QED BY <2>1 DEF NoFile, Files
<1>7. \A p \in Paths : dev[p] = NoDevice /\ ~dev[p].open
  BY DEF SetsuInit, NoDevice
<1>8. OpenRight
  BY <1>6, <1>7 DEF SetsuInit, OpenRight
<1>9. ReadRight
  BY <1>7 DEF ReadRight
<1> QED BY <1>4, <1>5, <1>8, <1>9 DEF SetsuInv

LEMMA NewKeeps ==
  ASSUME SetsuInv, NEW between \in SUBSET Paths, SetsuNew(between)
  PROVE  SetsuInv'
<1>1. PadsRight /\ ListRight /\ OpenRight /\ ReadRight /\ node \in SUBSET Paths
  BY DEF SetsuInv, ListRight
<1> DEFINE heard == {[path |-> p, added |-> p \in node] : p \in between}
           found == {[path |-> p, added |-> TRUE] : p \in node}
<1>2. /\ ~alive /\ alive' = TRUE /\ monitor' = SetToSeq(heard)
      /\ avail_dev' = FoldLeft(UpdateUdevDevice, <<>>, SetToSeq(found))
      /\ overlooked' = between \ node
      /\ node' = node /\ pad' = pad /\ ids_given' = ids_given /\ dev' = dev /\ evdev' = evdev /\ missed' = missed
  BY DEF SetsuNew
<1>3. heard \subseteq Notices /\ found \subseteq Notices
  <2>1. ASSUME NEW p \in Paths, NEW b \in BOOLEAN PROVE [path |-> p, added |-> b] \in Notices
    BY DEF Notices
  <2>2. ASSUME NEW p \in between PROVE [path |-> p, added |-> p \in node] \in Notices
    <3> DEFINE b == p \in node
    <3>1. b \in BOOLEAN
      OBVIOUS
    <3> HIDE DEF b
    <3>2. [path |-> p, added |-> b] \in Notices
      BY <2>1, <3>1
    <3> QED BY <3>2 DEF b
  <2>3. \A p \in node : [path |-> p, added |-> TRUE] \in Notices
    BY <1>1, <2>1
  <2> QED BY <2>2, <2>3
<1>4. IsFiniteSet(heard) /\ IsFiniteSet(found)
  <2>1. IsFiniteSet(between) /\ IsFiniteSet(node)
    BY <1>1, SetsuAssumption, FS_Subset
  <2> DEFINE F == [p \in between |-> [path |-> p, added |-> p \in node]]
             G == [p \in node |-> [path |-> p, added |-> TRUE]]
  <2>2. F \in Surjection(between, heard) /\ G \in Surjection(node, found)
    BY DEF Surjection
  <2> QED BY <2>1, <2>2, FS_Surjection
<1>5. monitor' \in Seq(heard)
  BY <1>2, <1>4, SetToSeqIs
<1> DEFINE ms == SetToSeq(found)
<1>6. ms \in Seq(found) /\ \A x \in found : \E k \in DOMAIN ms : ms[k] = x
  BY <1>4, SetToSeqIs
<1> HIDE DEF ms
<1>7. \A k \in DOMAIN monitor' : \E p \in between : monitor'[k].path = p
  <2>1. \A k \in DOMAIN monitor' : monitor'[k] \in heard
    BY <1>5
  <2>2. \A x \in heard : \E p \in between : x.path = p
    OBVIOUS
  <2> QED BY <2>1, <2>2
<1>8. \A k \in DOMAIN ms : ms[k].path \in node
  <2>1. \A k \in DOMAIN ms : ms[k] \in found
    BY <1>6
  <2>2. \A x \in found : x.path \in node
    OBVIOUS
  <2> QED BY <2>1, <2>2
<1>9. \A p \in node : \E k \in DOMAIN ms : ms[k].path = p /\ ms[k].added
  <2>1. ASSUME NEW p \in node PROVE \E k \in DOMAIN ms : ms[k].path = p /\ ms[k].added
    <3>1. [path |-> p, added |-> TRUE] \in found
      OBVIOUS
    <3>2. PICK k \in DOMAIN ms : ms[k] = [path |-> p, added |-> TRUE]
      BY <1>6, <3>1
    <3> QED BY <3>2
  <2> QED BY <2>1
<1>10. ms \in Seq(Notices) /\ monitor' \in Seq(Notices) /\ <<>> \in Seq(Entries)
  BY <1>3, <1>5, <1>6
<1> HIDE DEF heard, found
<1> DEFINE e == <<>>
<1>11. e \in Seq(Entries) /\ (\A p : ~Listed(e, p)) /\ avail_dev' = FoldLeft(UpdateUdevDevice, e, ms)
  BY <1>2, <1>10 DEF Listed, ms
<1> HIDE DEF e
<1>12. /\ avail_dev' \in Seq(Entries)
       /\ \A k \in DOMAIN ms : ms[k].added => Listed(avail_dev', ms[k].path)
       /\ \A p : Listed(avail_dev', p) => \E k \in DOMAIN ms : ms[k].path = p
  <2> DEFINE r == FoldLeft(UpdateUdevDevice, e, ms)
  <2>1. /\ r \in Seq(Entries)
        /\ \A k \in DOMAIN ms : ms[k].added => Listed(r, ms[k].path)
        /\ \A p : Listed(r, p) => Listed(e, p) \/ \E k \in DOMAIN ms : ms[k].path = p
    BY <1>10, <1>11, ListAfter
  <2> HIDE DEF r
  <2> QED BY <1>11, <2>1 DEF r
<1>13. /\ \A p \in node : Listed(avail_dev', p)
       /\ \A p : Listed(avail_dev', p) => p \in node
  BY <1>8, <1>9, <1>12
<1>14. ListRight'
  <2>1. /\ node' \in SUBSET Paths /\ alive' \in BOOLEAN /\ missed' \in SUBSET Paths /\ overlooked' \in SUBSET Paths
        /\ monitor' \in Seq(Notices) /\ avail_dev' \in Seq(Entries)
    BY <1>1, <1>2, <1>10, <1>12 DEF ListRight
  <2>2. ASSUME NEW p \in Paths \ overlooked', p \notin node' PROVE \A k \in DOMAIN monitor' : monitor'[k].path # p
    BY <1>2, <1>7, <2>2
  <2> QED BY <1>2, <1>13, <2>1, <2>2 DEF ListRight
<1>15. \A p \in Paths : ~dev[p].open
  BY <1>1, <1>2 DEF OpenRight
<1> QED BY <1>1, <1>2, <1>14, <1>15 DEF SetsuInv, PadsRight, OpenRight, ReadRight

LEMMA FreeKeeps ==
  ASSUME SetsuInv, SetsuFree
  PROVE  SetsuInv'
<1>1. PadsRight /\ ListRight
  BY DEF SetsuInv
<1>2. PadsRight'
  BY <1>1 DEF SetsuFree, PadsRight
<1>3. ListRight'
  <2>1. node \in SUBSET Paths /\ node' = node /\ alive' = FALSE /\ missed' = {} /\ overlooked' = {} /\ monitor' = <<>> /\ avail_dev' = <<>>
    BY <1>1 DEF SetsuFree, ListRight
  <2>2. <<>> \in Seq(Notices) /\ <<>> \in Seq(Entries) /\ {} \in SUBSET Paths
    OBVIOUS
  <2> QED BY <2>1, <2>2 DEF ListRight
<1>4. NoFile \in Files
  <2>1. [s \in MTSlots |-> -1] \in [MTSlots -> Int] /\ <<>> \in Seq(Seq(Events))
    OBVIOUS
  <2> QED BY <2>1 DEF NoFile, Files
<1>5. dev' = [p \in Paths |-> NoDevice] /\ evdev' = [p \in Paths |-> NoFile] /\ ~NoDevice.open
  BY DEF SetsuFree, NoDevice
<1>6. OpenRight' /\ ReadRight'
  BY <1>4, <1>5 DEF OpenRight, ReadRight
<1> QED BY <1>2, <1>3, <1>6 DEF SetsuInv

LEMMA PlugKeeps ==
  ASSUME SetsuInv, NEW p \in Paths, Plug(p)
  PROVE  SetsuInv'
<1>1. PadsRight /\ ListRight /\ OpenRight /\ ReadRight
  BY DEF SetsuInv
<1> DEFINE e == [path |-> p, added |-> p \notin node]
           n == Len(monitor)
<1>2. /\ node' = (IF p \in node THEN node \ {p} ELSE node \cup {p}) /\ pad' = [pad EXCEPT ![p] = IdlePad]
      /\ monitor' = (IF alive THEN Append(monitor, e) ELSE monitor)
      /\ ids_given' = ids_given /\ alive' = alive /\ avail_dev' = avail_dev /\ dev' = dev /\ evdev' = evdev
      /\ missed' = missed /\ overlooked' = overlooked
  BY DEF Plug
<1>3. e \in Notices /\ e.path = p /\ e.added = (p \notin node)
  BY DEF Notices
<1> HIDE DEF e
<1>4. /\ monitor \in Seq(Notices) /\ n \in Nat /\ DOMAIN monitor = 1 .. n
      /\ monitor' \in Seq(Notices)
      /\ alive => /\ DOMAIN monitor' = 1 .. (n + 1) /\ monitor'[n + 1] = e
                  /\ \A k \in 1 .. n : monitor'[k] = monitor[k]
  BY <1>1, <1>2, <1>3 DEF ListRight
<1> HIDE DEF n
<1>5. PadsRight'
  <2>1. 0 \in MTSlots
    BY SetsuAssumption DEF MTSlots
  <2>2. EmptySlot \in [id : Int, moved : BOOLEAN] /\ EmptySlot.id = -1 /\ EmptySlot.moved = FALSE
    BY DEF EmptySlot
  <2>3. IdlePad \in Pads /\ PadOK(IdlePad) /\ \A s \in MTSlots : IdlePad.slot[s].id = -1
    BY <2>1, <2>2 DEF IdlePad, Pads, PadOK
  <2>4. pad' \in [Paths -> Pads] /\ \A q \in Paths : pad'[q] = IF q = p THEN IdlePad ELSE pad[q]
    BY <1>1, <1>2, <2>3 DEF PadsRight
  <2>5. ASSUME NEW q \in Paths PROVE PadOK(pad'[q]) /\ \A s \in MTSlots : pad'[q].slot[s].id < ids_given
    <3>1. CASE q = p
      BY <1>1, <2>3, <2>4, <3>1 DEF PadsRight
    <3>2. CASE q # p
      BY <1>1, <2>4, <3>2 DEF PadsRight
    <3> QED BY <3>1, <3>2
  <2> QED BY <1>1, <1>2, <2>4, <2>5 DEF PadsRight
<1>6. ASSUME NEW q \in Paths, NEW b \in BOOLEAN, alive
      PROVE  Heard(q, b)' <=> Heard(q, b) \/ (q = p /\ b = (p \notin node))
  <2>1. Heard(q, b)' <=> \E k \in 1 .. (n + 1) : monitor'[k].path = q /\ monitor'[k].added = b
    BY <1>4, <1>6 DEF Heard
  <2>2. Heard(q, b) <=> \E k \in 1 .. n : monitor[k].path = q /\ monitor[k].added = b
    BY <1>4 DEF Heard
  <2>3. \A k : k \in 1 .. (n + 1) <=> k \in 1 .. n \/ k = n + 1
    BY <1>4
  <2> QED BY <1>3, <1>4, <1>6, <2>1, <2>2, <2>3
<1>7. ASSUME NEW q \in Paths, alive
      PROVE  /\ Dropped(q) => Dropped(q)'
             /\ q = p /\ p \in node /\ (Listed(avail_dev, p) \/ Heard(p, TRUE)) => Dropped(q)'
  <2>1. ASSUME NEW k \in 1 .. n
        PROVE  k \in DOMAIN monitor' /\ monitor'[k] = monitor[k] /\ \A j \in 1 .. k - 1 : monitor'[j] = monitor[j]
    <3>1. \A j \in 1 .. k - 1 : j \in 1 .. n
      BY <1>4
    <3>2. k \in 1 .. (n + 1)
      BY <1>4
    <3> QED BY <1>4, <1>7, <3>1, <3>2
  <2>2. Dropped(q) => Dropped(q)'
    BY <1>2, <1>4, <2>1 DEF Dropped
  <2>3. ASSUME q = p, p \in node, Listed(avail_dev, p) \/ Heard(p, TRUE) PROVE Dropped(q)'
    <3>1. n + 1 \in DOMAIN monitor' /\ monitor'[n + 1].path = p /\ ~monitor'[n + 1].added /\ (n + 1) - 1 = n
      <4>1. n + 1 \in DOMAIN monitor' /\ monitor'[n + 1] = e /\ (n + 1) - 1 = n
        BY <1>4, <1>7
      <4>2. ~e.added
        BY <1>3, <2>3
      <4> QED BY <1>3, <4>1, <4>2
    <3>2. Listed(avail_dev', p) \/ \E j \in 1 .. n : monitor'[j].path = p /\ monitor'[j].added
      BY <1>2, <1>4, <1>7, <2>3 DEF Heard
    <3> QED BY <2>3, <3>1, <3>2 DEF Dropped
  <2> QED BY <2>2, <2>3
<1>8. ListRight'
  <2>1. /\ node' \in SUBSET Paths /\ alive' \in BOOLEAN /\ missed' \in SUBSET Paths /\ overlooked' \in SUBSET Paths
        /\ monitor' \in Seq(Notices) /\ avail_dev' \in Seq(Entries)
    BY <1>1, <1>2, <1>4 DEF ListRight
  <2>2. ASSUME alive, NEW q \in Paths \ overlooked
        PROVE  /\ q \in node' => Listed(avail_dev', q) \/ Heard(q, TRUE)'
               /\ q \notin node' => Dropped(q)' \/ (~Listed(avail_dev', q) /\ \A k \in DOMAIN monitor' : monitor'[k].path # q)
    <3>1. /\ q \in node => Listed(avail_dev, q) \/ Heard(q, TRUE)
          /\ q \notin node => Dropped(q) \/ (~Listed(avail_dev, q) /\ \A k \in DOMAIN monitor : monitor[k].path # q)
      BY <1>1, <2>2 DEF ListRight
    <3>2. CASE q = p /\ p \in node
      BY <1>2, <1>7, <2>2, <3>1, <3>2
    <3>3. CASE q = p /\ p \notin node
      BY <1>2, <1>6, <2>2, <3>3
    <3>4. CASE q # p
      <4>1. q \in node' <=> q \in node
        BY <1>2, <3>4
      <4>2. q \in node => Listed(avail_dev', q) \/ Heard(q, TRUE)'
        BY <1>2, <1>6, <2>2, <3>1
      <4>3. (\A k \in DOMAIN monitor : monitor[k].path # q) => \A k \in DOMAIN monitor' : monitor'[k].path # q
        <5>1. \A k \in DOMAIN monitor' : k \in 1 .. n \/ k = n + 1
          BY <1>4, <2>2
        <5> QED BY <1>3, <1>4, <2>2, <3>4, <5>1
      <4> QED BY <1>2, <1>7, <2>2, <3>1, <4>1, <4>2, <4>3
    <3> QED BY <3>2, <3>3, <3>4
  <2> QED BY <1>2, <2>1, <2>2 DEF ListRight
<1>9. OpenRight'
  <2>1. ASSUME NEW q \in Paths, dev[q].open
        PROVE  alive /\ Listed(avail_dev, q) /\ (q \in node' \/ Heard(q, FALSE)')
    <3>1. alive /\ Listed(avail_dev, q) /\ (q \in node \/ Heard(q, FALSE))
      BY <1>1, <2>1 DEF OpenRight
    <3>2. Heard(q, FALSE)' <=> Heard(q, FALSE) \/ (q = p /\ p \in node)
      BY <1>6, <3>1
    <3> QED BY <1>2, <3>1, <3>2
  <2> QED BY <1>1, <1>2, <2>1 DEF OpenRight
<1>10. ReadRight'
  <2>1. ASSUME NEW q \in Paths \ missed, dev[q].open, ~Heard(q, FALSE)'
        PROVE  CatchesUp(dev[q], evdev[q], pad'[q]) /\ \A s \in MTSlots : evdev[q].seen[s] < ids_given
    <3>1. alive /\ (q \in node \/ Heard(q, FALSE))
      BY <1>1, <2>1 DEF OpenRight
    <3>2. ~Heard(q, FALSE) /\ ~(q = p /\ p \in node)
      BY <1>6, <2>1, <3>1
    <3>3. q # p
      BY <3>1, <3>2
    <3>4. pad'[q] = pad[q]
      BY <1>1, <1>2, <3>3 DEF PadsRight
    <3> QED BY <1>1, <2>1, <3>2, <3>4 DEF ReadRight
  <2> QED BY <1>2, <2>1 DEF ReadRight
<1> QED BY <1>5, <1>8, <1>9, <1>10 DEF SetsuInv

(* A frame of the kernel about slot s of a pad, which is f afterwards.     *)
LEMMA FrameKeeps ==
  ASSUME SetsuInv, NEW p \in Paths, NEW s \in MTSlots, NEW evs, NEW f \in [id : Int, moved : BOOLEAN], NEW drop,
         Frame(p, s, evs, f, drop),
         ids_given' \in Nat, ids_given <= ids_given', f.id < ids_given', f.moved => f.id # -1,
         f.id = -1 \/ f.id = pad[p].slot[s].id \/ ids_given <= f.id,
         FrameOf(pad[p], s, evs) \in Seq(Events),
         \A r \in Devices : Follows(r, pad[p]) => Follows(Handled(r, FrameOf(pad[p], s, evs)), Changed(pad[p], s, f))
  PROVE  SetsuInv'
<1>1. PadsRight /\ ListRight /\ OpenRight /\ ReadRight
  BY DEF SetsuInv
<1> DEFINE P == pad[p]
           Q == Changed(P, s, f)
           report == FrameOf(P, s, evs)
           file == evdev[p]
           next == CASE ~dev[p].open \/ file.dropped -> file
                     [] dev[p].open /\ ~file.dropped /\ drop -> [file EXCEPT !.dropped = TRUE, !.queue = <<>>]
                     [] OTHER -> [file EXCEPT !.queue = Append(file.queue, report)]
<1>2. /\ p \in node /\ pad' = [pad EXCEPT ![p] = Q]
      /\ node' = node /\ monitor' = monitor /\ alive' = alive /\ avail_dev' = avail_dev /\ dev' = dev
      /\ missed' = missed /\ overlooked' = overlooked
  BY DEF Frame, Changed
<1>3. evdev' = [evdev EXCEPT ![p] = next]
  BY DEF Frame, FrameOf
<1>4. PadOK(P) /\ ids_given \in Nat /\ \A t \in MTSlots : P.slot[t].id \in Int /\ P.slot[t].id < ids_given
  BY <1>1 DEF PadsRight, PadOK, Pads
<1>5. PadOK(Q)
  <2>1. f.id # -1 /\ f.id # P.slot[s].id => f.id \notin FingersOf(P)
    BY <1>4 DEF FingersOf
  <2> QED BY <1>4, <2>1, ChangedFingers
<1>6. \A t \in MTSlots : Q.slot[t] = IF t = s THEN f ELSE P.slot[t]
  BY <1>4 DEF Changed, PadOK, Pads
<1>7. file \in Files /\ report \in Seq(Events)
  BY <1>1 DEF OpenRight
<1> HIDE DEF Q, report, next
<1>8. PadsRight'
  <2>1. pad' \in [Paths -> Pads] /\ \A q \in Paths : pad'[q] = IF q = p THEN Q ELSE pad[q]
    BY <1>1, <1>2, <1>5 DEF PadsRight, PadOK
  <2>2. \A t \in MTSlots : Q.slot[t].id < ids_given'
    BY <1>4, <1>6
  <2>3. ASSUME NEW q \in Paths PROVE PadOK(pad'[q]) /\ \A t \in MTSlots : pad'[q].slot[t].id < ids_given'
    <3>1. CASE q = p
      BY <1>5, <2>1, <2>2, <3>1
    <3>2. CASE q # p
      <4>1. pad'[q] = pad[q] /\ PadOK(pad[q]) /\ \A t \in MTSlots : pad[q].slot[t].id \in Int /\ pad[q].slot[t].id < ids_given
        BY <1>1, <2>1, <3>2 DEF PadsRight, PadOK, Pads
      <4> QED BY <1>4, <4>1
    <3> QED BY <3>1, <3>2
  <2> QED BY <2>1, <2>3 DEF PadsRight
<1>9. ListRight'
  BY <1>1, <1>2 DEF ListRight, Heard, Dropped
<1>10. next \in Files
  <2>1. file.queue \in Seq(Seq(Events)) /\ file.dropped \in BOOLEAN
    BY <1>7 DEF Files
  <2>2. [file EXCEPT !.dropped = TRUE, !.queue = <<>>] \in Files
    <3>1. <<>> \in Seq(Seq(Events))
      OBVIOUS
    <3> QED BY <1>7, <3>1 DEF Files
  <2>3. [file EXCEPT !.queue = Append(file.queue, report)] \in Files
    <3>1. Append(file.queue, report) \in Seq(Seq(Events))
      BY <1>7, <2>1
    <3> QED BY <1>7, <3>1 DEF Files
  <2> QED BY <1>7, <2>2, <2>3 DEF next
<1>11. evdev' \in [Paths -> Files] /\ \A q \in Paths : evdev'[q] = IF q = p THEN next ELSE evdev[q]
  BY <1>1, <1>3, <1>10 DEF OpenRight
<1>12. OpenRight'
  BY <1>1, <1>2, <1>11 DEF OpenRight, Heard
<1>13. ASSUME dev[p].open, CatchesUp(dev[p], file, P), \A t \in MTSlots : file.seen[t] < ids_given
       PROVE  CatchesUp(dev[p], next, Q) /\ next.seen = file.seen
  <2> DEFINE W == file.seen
             d == dev[p]
             qs == file.queue
  <2>1. W \in [MTSlots -> Int] /\ qs \in Seq(Seq(Events)) /\ d \in Devices
    BY <1>1, <1>7, <1>13 DEF Files, OpenRight, NoDevice
  <2>2. Knows(d, W) /\ Related(W, P)
    BY <1>13 DEF CatchesUp
  <2>3. Related(W, Q)
    <3>1. ASSUME NEW a \in MTSlots, NEW b \in MTSlots, W[a] # -1, W[a] = Q.slot[b].id PROVE a = b
      <4>1. CASE b # s
        <5>1. W[a] = P.slot[b].id
          BY <1>6, <3>1, <4>1
        <5> QED BY <2>2, <3>1, <5>1 DEF Related
      <4>2. CASE b = s
        <5>1. W[a] = f.id /\ W[a] < ids_given /\ W[a] \in Int
          BY <1>6, <1>13, <2>1, <3>1, <4>2
        <5>2. W[a] = P.slot[b].id
          BY <1>4, <3>1, <4>2, <5>1
        <5> QED BY <2>2, <3>1, <5>2 DEF Related
      <4> QED BY <4>1, <4>2
    <3> QED BY <2>2, <3>1 DEF Related
  <2>4. file.dropped \in BOOLEAN
    BY <1>7 DEF Files
  <2>5. CASE file.dropped
    <3>1. next = file
      BY <2>5 DEF next
    <3> QED BY <1>13, <2>2, <2>3, <2>5, <3>1 DEF CatchesUp
  <2>6. CASE ~file.dropped /\ drop
    <3>1. next = [file EXCEPT !.dropped = TRUE, !.queue = <<>>]
      BY <1>13, <2>6 DEF next
    <3>2. next.dropped = TRUE /\ next.queue = <<>> /\ next.seen = W
      BY <1>7, <3>1 DEF Files
    <3> QED BY <2>2, <2>3, <3>2 DEF CatchesUp
  <2>7. CASE ~file.dropped /\ ~drop
    <3>1. next = [file EXCEPT !.queue = Append(file.queue, report)]
      BY <1>13, <2>7 DEF next
    <3>2. next.dropped = file.dropped /\ next.queue = Append(qs, report) /\ next.seen = W
      BY <1>7, <3>1 DEF Files
    <3> DEFINE r == Handled(d, FlattenSeq(qs))
    <3>3. r \in Devices /\ Follows(r, P)
      BY <1>13, <2>1, <2>7, FlattenTyped, HandledTyped DEF CatchesUp
    <3> HIDE DEF d, qs
    <3>4. Handled(d, FlattenSeq(Append(qs, report))) = Handled(r, report)
      BY <1>7, <2>1, HandledAppend
    <3> HIDE DEF r
    <3>5. Follows(Handled(r, report), Q)
      BY <3>3 DEF report, Q
    <3>6. Knows(d, next.seen) /\ Related(next.seen, Q) /\ ~next.dropped /\ Follows(Handled(d, FlattenSeq(next.queue)), Q)
      BY <2>2, <2>3, <2>7, <3>2, <3>4, <3>5
    <3> QED BY <3>2, <3>6 DEF CatchesUp, d
  <2> QED BY <2>5, <2>6, <2>7
<1>14. ReadRight'
  <2>1. ASSUME NEW q \in Paths \ missed, dev[q].open, ~Heard(q, FALSE)
        PROVE  CatchesUp(dev[q], evdev'[q], pad'[q]) /\ \A t \in MTSlots : evdev'[q].seen[t] < ids_given'
    <3>1. CatchesUp(dev[q], evdev[q], pad[q]) /\ \A t \in MTSlots : evdev[q].seen[t] < ids_given
      BY <1>1, <2>1 DEF ReadRight
    <3>2. \A t \in MTSlots : evdev[q].seen[t] \in Int /\ evdev[q].seen[t] < ids_given'
      <4>1. evdev[q].seen \in [MTSlots -> Int]
        BY <1>1 DEF OpenRight, Files
      <4>2. \A t \in MTSlots : evdev[q].seen[t] \in Int
        BY <4>1
      <4> QED BY <1>4, <3>1, <4>2
    <3>3. CASE q = p
      <4>1. evdev'[q] = next /\ pad'[q] = Q
        BY <1>1, <1>2, <1>11, <3>3 DEF PadsRight
      <4> QED BY <1>13, <2>1, <3>1, <3>2, <3>3, <4>1
    <3>4. CASE q # p
      <4>1. evdev'[q] = evdev[q] /\ pad'[q] = pad[q]
        BY <1>1, <1>2, <1>11, <3>4 DEF PadsRight
      <4> QED BY <3>1, <3>2, <4>1
    <3> QED BY <3>3, <3>4
  <2> QED BY <1>2, <2>1 DEF ReadRight, Heard
<1> QED BY <1>8, <1>9, <1>12, <1>14 DEF SetsuInv

LEMMA FingerDownKeeps ==
  ASSUME SetsuInv, NEW p \in Paths, NEW s \in MTSlots, NEW moved \in BOOLEAN, NEW drop, FingerDown(p, s, moved, drop)
  PROVE  SetsuInv'
<1> DEFINE pos == IF moved THEN PosEvent ELSE <<>>
           v == ids_given
           evs == IdEvent(v) \o pos
           f == [id |-> v, moved |-> moved]
           P == pad[p]
<1>1. v \in Nat /\ PadOK(P) /\ \A t \in MTSlots : P.slot[t].id \in Int /\ P.slot[t].id < v
  BY DEF SetsuInv, PadsRight, PadOK, Pads
<1>2. Frame(p, s, evs, f, drop) /\ ids_given' = v + 1
  BY DEF FingerDown
<1>3. v \notin FingersOf(P)
  BY <1>1 DEF FingersOf
<1>4. \A r \in Devices : Follows(r, P) => /\ FrameOf(P, s, evs) \in Seq(Events)
                                          /\ Follows(Handled(r, FrameOf(P, s, evs)), Changed(P, s, f))
  <2>1. pos = (IF moved THEN PosEvent ELSE <<>>) /\ evs = IdEvent(v) \o pos /\ f = [id |-> v, moved |-> moved]
    OBVIOUS
  <2> HIDE DEF pos, evs, f, P, v
  <2> QED BY <1>1, <1>3, <2>1, DownFrame
<1>5. FrameOf(P, s, evs) \in Seq(Events)
  <2>1. IdEvent(v) \in Seq(Events) /\ pos \in Seq(Events)
    BY <1>1, EventsAre
  <2> HIDE DEF pos, v
  <2>2. evs \in Seq(Events)
    BY <2>1, Joined, Zenon
  <2> HIDE DEF evs, P
  <2> QED BY <2>2, FrameTyped
<1>6. f \in [id : Int, moved : BOOLEAN] /\ f.id = v /\ v # -1
  BY <1>1
<1> HIDE DEF evs, f
<1>7. ids_given' \in Nat /\ ids_given <= ids_given' /\ f.id < ids_given' /\ ids_given <= f.id
  BY <1>1, <1>2, <1>6
<1> HIDE DEF v
<1> QED BY <1>2, <1>4, <1>5, <1>6, <1>7, FrameKeeps

LEMMA FingerMovesKeeps ==
  ASSUME SetsuInv, NEW p \in Paths, NEW s \in MTSlots, NEW drop, FingerMoves(p, s, drop)
  PROVE  SetsuInv'
<1> DEFINE P == pad[p]
           f == [P.slot[s] EXCEPT !.moved = TRUE]
<1>1. /\ ids_given \in Nat /\ PadOK(P) /\ P.slot[s] \in [id : Int, moved : BOOLEAN]
      /\ P.slot[s].id \in Int /\ P.slot[s].id < ids_given
  BY DEF SetsuInv, PadsRight, PadOK, Pads
<1>2. Frame(p, s, PosEvent, f, drop) /\ ids_given' = ids_given /\ P.slot[s].id # -1
  BY DEF FingerMoves
<1>3. \A r \in Devices : Follows(r, P) => Follows(Handled(r, FrameOf(P, s, PosEvent)), Changed(P, s, f))
  <2>1. f = [P.slot[s] EXCEPT !.moved = TRUE]
    OBVIOUS
  <2> HIDE DEF f, P
  <2> QED BY <1>1, <1>2, <2>1, MoveFrame
<1>4. FrameOf(P, s, PosEvent) \in Seq(Events)
  BY EventsAre, FrameTyped
<1>5. f \in [id : Int, moved : BOOLEAN] /\ f.id = P.slot[s].id
  BY <1>1
<1> HIDE DEF f
<1>6. ids_given' \in Nat /\ ids_given <= ids_given' /\ f.id < ids_given' /\ f.id # -1
  BY <1>1, <1>2, <1>5
<1> QED BY <1>2, <1>3, <1>4, <1>5, <1>6, FrameKeeps

LEMMA FingerUpKeeps ==
  ASSUME SetsuInv, NEW p \in Paths, NEW s \in MTSlots, NEW drop, FingerUp(p, s, drop)
  PROVE  SetsuInv'
<1> DEFINE P == pad[p]
<1>1. ids_given \in Nat /\ PadOK(P)
  BY DEF SetsuInv, PadsRight
<1>2. Frame(p, s, IdEvent(-1), EmptySlot, drop) /\ ids_given' = ids_given /\ P.slot[s].id # -1
  BY DEF FingerUp
<1>3. \A r \in Devices : Follows(r, P) => Follows(Handled(r, FrameOf(P, s, IdEvent(-1))), Changed(P, s, EmptySlot))
  <2> HIDE DEF P
  <2> QED BY <1>1, <1>2, UpFrame
<1>4. FrameOf(P, s, IdEvent(-1)) \in Seq(Events)
  BY EventsAre, FrameTyped
<1>5. EmptySlot \in [id : Int, moved : BOOLEAN] /\ EmptySlot.id = -1 /\ EmptySlot.moved = FALSE
  BY DEF EmptySlot
<1>6. ids_given' \in Nat /\ ids_given <= ids_given' /\ EmptySlot.id < ids_given'
  BY <1>1, <1>2, <1>5
<1> QED BY <1>2, <1>3, <1>4, <1>5, <1>6, FrameKeeps

LEMMA SetsuInvariant == SetsuSpec => []SetsuInv
<1>1. SetsuInit => SetsuInv
  BY SetsuInitRight
<1>2. SetsuInv /\ [SetsuNext]_setsuVars => SetsuInv'
  <2> SUFFICES ASSUME SetsuInv, [SetsuNext]_setsuVars PROVE SetsuInv'
    OBVIOUS
  <2>1. ASSUME NEW fails \in SUBSET Paths, NEW twice \in BOOLEAN, SetsuPoll(fails, twice) PROVE SetsuInv'
    BY <2>1, PollKeeps
  <2>2. ASSUME NEW between \in SUBSET Paths, SetsuNew(between) PROVE SetsuInv'
    BY <2>2, NewKeeps
  <2>3. CASE SetsuFree
    BY <2>3, FreeKeeps
  <2>4. ASSUME NEW p \in Paths, Plug(p) PROVE SetsuInv'
    BY <2>4, PlugKeeps
  <2>5. ASSUME NEW p \in Paths, NEW s \in MTSlots, NEW drop \in BOOLEAN, FingerMoves(p, s, drop) PROVE SetsuInv'
    BY <2>5, FingerMovesKeeps
  <2>6. ASSUME NEW p \in Paths, NEW s \in MTSlots, NEW drop \in BOOLEAN, FingerUp(p, s, drop) PROVE SetsuInv'
    BY <2>6, FingerUpKeeps
  <2>7. ASSUME NEW p \in Paths, NEW s \in MTSlots, NEW drop \in BOOLEAN, NEW moved \in BOOLEAN, FingerDown(p, s, moved, drop)
        PROVE  SetsuInv'
    BY <2>7, FingerDownKeeps
  <2>8. CASE UNCHANGED setsuVars
    BY <2>8 DEF setsuVars, SetsuInv, PadsRight, ListRight, OpenRight, ReadRight, Heard, Dropped
  <2> QED BY <2>1, <2>2, <2>3, <2>4, <2>5, <2>6, <2>7, <2>8 DEF SetsuNext
<1> QED BY <1>1, <1>2, PTL DEF SetsuSpec

(* TouchpadsFollow: the list that setsu_poll keeps is of the touchpads that *)
(* are plugged in, but for those overlooked, and once it has read an open   *)
(* one the client holds the touches of the fingers on it, and knows where   *)
(* those are that moved; for any number of touchpads, slots, touches, plugs *)
(* and queued events, whatever frames are lost to a full queue of the       *)
(* kernel.                                                                  *)
THEOREM TouchpadsFollowHolds == SetsuSpec => []TouchpadsFollow
<1>1. SetsuInv => TouchesTold
  <2> SUFFICES ASSUME SetsuInv, monitor = <<>>, NEW p \in node, dev[p].open, evdev[p].queue = <<>>,
                      ~evdev[p].dropped, p \notin missed
               PROVE  /\ dev[p].held = FingersOn(p)
                      /\ dev[p].touches \subseteq FingersOn(p) /\ Moved(p) \subseteq dev[p].touches
    BY DEF TouchesTold
  <2>1. p \in Paths /\ ~Heard(p, FALSE) /\ dev[p] \in Devices
    BY DEF SetsuInv, ListRight, Heard, OpenRight, NoDevice
  <2>2. CatchesUp(dev[p], evdev[p], pad[p])
    BY <2>1 DEF SetsuInv, ReadRight
  <2>3. FlattenSeq(<<>>) = <<>>
    BY DEF FlattenSeq
  <2>4. Handled(dev[p], <<>>) = dev[p]
    BY <2>1, HandledNone
  <2>5. Follows(dev[p], pad[p])
    BY <2>2, <2>3, <2>4 DEF CatchesUp
  <2> QED BY <2>5 DEF Follows, FingersOf, MovedOf, FingersOn, Moved
<1>2. SetsuInv => DevicesTold
  <2> SUFFICES ASSUME SetsuInv, alive, monitor = <<>>, NEW p \in Paths
               PROVE  /\ p \notin overlooked => (Listed(avail_dev, p) <=> p \in node)
                      /\ dev[p].open => p \in node /\ Listed(avail_dev, p)
    BY DEF DevicesTold
  <2>1. ~Heard(p, FALSE) /\ ~Heard(p, TRUE) /\ ~Dropped(p)
    BY DEF Heard, Dropped
  <2>2. p \notin overlooked => (Listed(avail_dev, p) <=> p \in node)
    BY <2>1 DEF SetsuInv, ListRight
  <2>3. dev[p].open => p \in node /\ Listed(avail_dev, p)
    BY <2>1 DEF SetsuInv, OpenRight
  <2> QED BY <2>2, <2>3
<1> QED BY <1>1, <1>2, SetsuInvariant, PTL DEF TouchpadsFollow
=============================================================================
