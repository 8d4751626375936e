------------------------------- MODULE Regist -------------------------------
(***************************************************************************)
(* lib/src/regist.c: the thread that registers this client at a console,   *)
(* found by a search in the local network, or reached over a punched hole  *)
(* (psn).  The owner starts it, may stop it through the stop pipe, and     *)
(* learns the end from one event.  The console and the network are         *)
(* external: searches and answers may be lost, and answers incomplete.     *)
(***************************************************************************)
EXTENDS Naturals, FiniteSets

CONSTANT MaxStray    \* bound on packets that are no answer to the search

ASSUME RegistAssumption == MaxStray \in Nat

Keys == {"RegistKey", "RP-Key", "Mac"}

VARIABLES
  gpc,        \* what the thread does next
  psn,        \* info.holepunch_info is given
  stopped,    \* chiaki_regist_stop was called
  stray,      \* packets received that were no answer
  response,   \* the answer: its code, whether all of it has come, and its valid keys
  event,      \* the events given to the callback
  in_time     \* history: the stop came before the whole answer had been received

registVars == <<gpc, psn, stopped, stray, response, event, in_time>>

NoResponse == [code |-> 0, whole |-> FALSE, keys |-> {}]

RegistInit ==
  /\ gpc = "idle" /\ psn = FALSE /\ stopped = FALSE /\ stray = 0
  /\ response = NoResponse /\ event = << >> /\ in_time = FALSE

RegistGoes(to) == gpc' = to /\ UNCHANGED <<psn, stopped, stray, response, event, in_time>>

(* chiaki_regist_start.                                                    *)
RegistStart ==
  /\ gpc = "idle"
  /\ psn' \in BOOLEAN
  /\ gpc' = "format"
  /\ UNCHANGED <<stopped, stray, response, event, in_time>>

(* The payload and the header are formatted, which fails for want of       *)
(* random numbers, an identity of the user or space.                       *)
RegistFormat ==
  /\ gpc = "format"
  /\ \/ RegistGoes("failed")
     \/ psn /\ RegistGoes("rudp_init")
     \/ ~psn /\ RegistGoes("resolve")

(* RUDP and its cookie; a stop is not looked at.                           *)
RegistRudp ==
  \/ gpc = "rudp_init" /\ (RegistGoes("rudp_cookie") \/ RegistGoes("failed"))
  \/ gpc = "rudp_cookie" /\ (RegistGoes("header") \/ RegistGoes("failed"))

(* The name is resolved and a socket for the search is made and connected. *)
RegistResolve ==
  /\ gpc = "resolve"
  /\ RegistGoes("search") \/ RegistGoes("failed")

(* chiaki_stop_pipe_select_single: the pipe, then the socket, or the       *)
(* timeout.                                                                *)
Select(received) ==
  IF stopped THEN RegistGoes("canceled") ELSE received \/ RegistGoes("failed")

(* regist_search: one search packet, and answers until the timeout.        *)
RegistSearch ==
  /\ gpc = "search"
  /\ Select(\/ RegistGoes("sleep")
            \/ /\ stray < MaxStray
               /\ stray' = stray + 1
               /\ UNCHANGED <<gpc, psn, stopped, response, event, in_time>>)

RegistSleep ==
  /\ gpc = "sleep"
  /\ IF stopped THEN RegistGoes("canceled") ELSE RegistGoes("connect")

(* regist_request_connect and the two sends block, a stop or not.          *)
RegistConnect ==
  /\ gpc = "connect"
  /\ RegistGoes("header") \/ RegistGoes("failed")

(* regist_recv_response: the header of the answer.                         *)
RegistHeader ==
  /\ gpc = "header"
  /\ LET received == \E code \in {200, 403} : \E whole \in BOOLEAN : \E keys \in SUBSET Keys :
           /\ response' = [code |-> code, whole |-> whole, keys |-> keys]
           /\ gpc' = IF psn THEN "finish" ELSE "status"
           /\ UNCHANGED <<psn, stopped, stray, event, in_time>>
     IN  IF psn THEN received \/ RegistGoes("failed") ELSE Select(received)

RegistFinish ==
  /\ gpc = "finish"
  /\ RegistGoes("status") \/ RegistGoes("failed")

(* The code and the length of the content.  Over RUDP the answer is one    *)
(* message.                                                                *)
RegistStatus ==
  /\ gpc = "status"
  /\ \/ response.code # 200 /\ RegistGoes("failed")
     \/ response.code = 200 /\ RegistGoes("failed")        \* no or a wrong Content-Length
     \/ response.code = 200 /\ response.whole /\ RegistGoes("parse")
     \/ response.code = 200 /\ ~response.whole /\ RegistGoes(IF psn THEN "failed" ELSE "content")

RegistContent ==
  /\ gpc = "content"
  /\ Select(/\ response' = [response EXCEPT !.whole = TRUE]
            /\ gpc' = "parse"
            /\ UNCHANGED <<psn, stopped, stray, event, in_time>>)

(* Mutant: the address of the console is not required.                     *)
RegistParseNoMac ==
  /\ gpc = "parse"
  /\ RegistGoes(IF {"RegistKey", "RP-Key"} \subseteq response.keys THEN "success" ELSE "failed")

(* regist_parse_response_payload.                                          *)
RegistParse ==
  /\ gpc = "parse"
  /\ RegistGoes(IF response.keys = Keys THEN "success" ELSE "failed")

(* The labels fail_socket, fail_addrinfos and fail: one event.             *)
RegistReport ==
  /\ gpc \in {"success", "failed", "canceled"}
  /\ event' = <<gpc>>
  /\ gpc' = "ended"
  /\ UNCHANGED <<psn, stopped, stray, response, in_time>>

RegistStop ==
  /\ gpc # "idle" /\ ~stopped
  /\ stopped' = TRUE
  /\ in_time' = (gpc \in {"format", "resolve", "search", "sleep", "connect", "header", "content"})
  /\ UNCHANGED <<gpc, psn, stray, response, event>>

RegistThread ==
  \/ RegistFormat \/ RegistRudp \/ RegistResolve \/ RegistSearch \/ RegistSleep \/ RegistConnect
  \/ RegistHeader \/ RegistFinish \/ RegistStatus \/ RegistContent \/ RegistParse \/ RegistReport

RegistNext == RegistStart \/ RegistThread \/ RegistStop

(* The thread runs; what blocks in it has a timeout.                       *)
RegistFairness == WF_registVars(RegistThread)

RegistSpec == RegistInit /\ [][RegistNext]_registVars /\ RegistFairness

-----------------------------------------------------------------------------
(* A success is told with all three keys of a complete, accepted answer,   *)
(* and not after a stop that came before that answer, except over RUDP,    *)
(* where no wait looks at the stop pipe.                                   *)
SuccessIsDeserved == event = <<"success">> =>
  /\ response = [code |-> 200, whole |-> TRUE, keys |-> Keys]
  /\ in_time => psn

(* The owner gets its event: chiaki_regist_fini, which joins, returns.     *)
RegistEnds == gpc = "format" ~> event # << >>
=============================================================================
