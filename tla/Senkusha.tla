------------------------------ MODULE Senkusha ------------------------------
(***************************************************************************)
(* lib/src/senkusha.c: before the stream starts, the session measures the  *)
(* round trip time and the largest packets that pass in both directions.   *)
(* chiaki_senkusha_run is one thread that sends a request and waits, with  *)
(* a timeout, until the Takion callback has seen the answer; the callback  *)
(* runs only while that thread waits, which holds the mutex otherwise.     *)
(* The console and the network are external: packets above the MTU of the  *)
(* path are dropped, and answers are lost, late or repeated.               *)
(***************************************************************************)
EXTENDS Naturals, FiniteSets

CONSTANTS
  MinSize, MaxSize,   \* 576 and 1454
  MtuRetries,         \* 3
  PingCount           \* SENKUSHA_PING_COUNT_DEFAULT

ASSUME SenkushaAssumption ==
  /\ MinSize \in Nat /\ MaxSize \in Nat /\ MinSize + 1 < MaxSize
  /\ MtuRetries \in Nat \ {0} /\ PingCount \in Nat \ {0}

VARIABLES
  spc,              \* what chiaki_senkusha_run does next
  waiting,          \* it is in chiaki_cond_timedwait_pred
  test_finished,
  attempt,          \* ping_index, or the attempt of an MTU test
  pings_successful,
  lo, hi, cur,      \* min, max and cur of an MTU test
  mtu_in, mtu_out,
  answers,          \* answers on their way, and whether they are to the current request
  path,             \* external: the MTU of the path in both directions
  disturbed         \* history: an answer of an MTU test was lost or late

senkushaVars == <<spc, waiting, test_finished, attempt, pings_successful,
                  lo, hi, cur, mtu_in, mtu_out, answers, path, disturbed>>
test == <<attempt, pings_successful, lo, hi, cur, mtu_in, mtu_out>>

SenkushaInit ==
  /\ spc = "idle" /\ waiting = FALSE /\ test_finished = FALSE
  /\ attempt = 0 /\ pings_successful = 0
  /\ lo = MinSize /\ hi = MaxSize /\ cur = MaxSize /\ mtu_in = 0 /\ mtu_out = 0
  /\ answers = {} /\ path = [in |-> MinSize, out |-> MinSize] /\ disturbed = FALSE

Simple == {"connect", "version", "big", "echo_on", "echo_off", "client_mtu", "client_mtu_end"}
After == [connect |-> "version", version |-> "big", big |-> "echo_on", echo_on |-> "ping",
          echo_off |-> "mtu_in", client_mtu |-> "mtu_out", client_mtu_end |-> "disconnect"]

SenkushaStart ==
  /\ spc = "idle"
  /\ spc' = "connect"
  /\ path' \in [in : MinSize .. MaxSize, out : MinSize .. MaxSize]
  /\ UNCHANGED <<waiting, test_finished, test, answers, disturbed>>

(* The request passes if it and its answer fit the path.                   *)
Fits ==
  /\ spc = "mtu_in" => cur <= path.in
  /\ spc = "mtu_out" => cur <= path.out

(* What answers a request: a pong, a video packet, an acknowledgement, or  *)
(* a message or event of its own.                                          *)
AnswerTo(request) ==
  CASE request \in {"ping", "mtu_out"} -> "pong"
    [] request \in {"echo_on", "echo_off", "client_mtu_end"} -> "ack"
    [] OTHER -> request

(* A request is sent under a number of its own (data_ack_seq_num_expected, *)
(* mtu_id or a random ping_tag), which answers carry; the thread waits.    *)
(* Late answers are kept where the same kind is awaited again.             *)
SenkushaSends ==
  /\ spc \in Simple \cup {"ping", "mtu_in", "mtu_out"} /\ ~waiting
  /\ waiting' = TRUE /\ test_finished' = FALSE
  /\ LET late == { [kind |-> a.kind, current |-> FALSE] : a \in { b \in answers : b.kind \in {"pong", "ack", "mtu_in"} } }
     IN  answers' \in {late} \cup (IF Fits THEN {late \cup {[kind |-> AnswerTo(spc), current |-> TRUE]}} ELSE {})
  /\ UNCHANGED <<spc, test, path, disturbed>>

(* A message that cannot be sent ends the run, except a ping of the MTU    *)
(* test, which fails at once as if it had timed out (see MtuTimeout).      *)
SenkushaSendFails ==
  /\ spc \in (Simple \ {"client_mtu_end"}) \cup {"ping", "mtu_in"} /\ ~waiting
  /\ spc' = IF spc \in {"connect", "version", "big"} THEN "failed" ELSE "disconnect_failed"
  /\ UNCHANGED <<waiting, test_finished, test, answers, path, disturbed>>

(* Mutant: the callback does not compare the tag.                          *)
ExpectedUntagged(a) == waiting /\ a.kind = AnswerTo(spc)

(* senkusha_takion_cb and the functions it calls: the answer is the one    *)
(* that the current state expects.                                         *)
Expected(a) == waiting /\ a.kind = AnswerTo(spc) /\ a.current

SenkushaCallback(a) ==
  /\ a \in answers
  /\ answers' \in {answers, answers \ {a}}
  /\ test_finished' = (test_finished \/ Expected(a))
  /\ answers' # answers \/ test_finished' # test_finished
  /\ UNCHANGED <<spc, waiting, test, path, disturbed>>

-----------------------------------------------------------------------------
(* The handshakes: an answer in time, or the run has failed.  Failing to   *)
(* end the last test is reported, though both results are there.           *)
SimpleDone ==
  /\ spc \in Simple /\ waiting
  /\ waiting' = FALSE
  /\ \/ /\ test_finished
        /\ spc' = After[spc]
        /\ IF spc \in {"echo_on", "echo_off", "client_mtu"}
           THEN /\ attempt' = 0 /\ lo' = MinSize /\ hi' = MaxSize
                /\ cur' = IF spc = "client_mtu" THEN mtu_in ELSE MaxSize
           ELSE UNCHANGED <<attempt, lo, hi, cur>>
     \/ /\ ~test_finished
        /\ spc' = IF spc \in {"connect", "version", "big"} THEN "failed" ELSE "disconnect_failed"
        /\ UNCHANGED <<attempt, lo, hi, cur>>
  /\ UNCHANGED <<test_finished, pings_successful, mtu_in, mtu_out, answers, path, disturbed>>

(* senkusha_run_rtt_test: one pong is enough.                              *)
PingDone ==
  /\ spc = "ping" /\ waiting
  /\ waiting' = FALSE
  /\ attempt' = attempt + 1
  /\ pings_successful' = pings_successful + (IF test_finished THEN 1 ELSE 0)
  /\ spc' = IF attempt' < PingCount THEN "ping" ELSE "echo_off"
  /\ UNCHANGED <<test_finished, lo, hi, cur, mtu_in, mtu_out, answers, path, disturbed>>

NoPong ==
  /\ spc = "mtu_in" /\ ~waiting /\ pings_successful = 0
  /\ spc' = "disconnect_failed"
  /\ UNCHANGED <<waiting, test_finished, test, answers, path, disturbed>>

(* One round of the binary search of senkusha_run_mtu_in_test and          *)
(* senkusha_run_mtu_out_test.                                              *)
Bisect(success) ==
  /\ lo' = IF success THEN cur ELSE lo
  /\ hi' = IF success THEN hi ELSE cur
  /\ cur' = lo' + (hi' - lo') \div 2
  /\ attempt' = 0

MtuAnswered ==
  /\ spc \in {"mtu_in", "mtu_out"} /\ waiting /\ test_finished
  /\ waiting' = FALSE
  /\ Bisect(TRUE)
  /\ UNCHANGED <<spc, test_finished, pings_successful, mtu_in, mtu_out, answers, path, disturbed>>

MtuTimeout ==
  /\ spc \in {"mtu_in", "mtu_out"} /\ waiting /\ ~test_finished
  /\ waiting' = FALSE
  /\ IF attempt + 1 < MtuRetries
     THEN attempt' = attempt + 1 /\ UNCHANGED <<lo, hi, cur>>
     ELSE Bisect(FALSE)
  /\ disturbed' = (disturbed \/ Fits)
  /\ UNCHANGED <<spc, test_finished, pings_successful, mtu_in, mtu_out, answers, path>>

(* The search is over when the bounds are next to each other.  The first   *)
(* size tried is the upper bound for one direction and the size found for  *)
(* the other, so that the upper bound itself is not tried again.           *)
MtuFound ==
  /\ spc \in {"mtu_in", "mtu_out"} /\ ~waiting /\ hi - lo <= 1
  /\ IF spc = "mtu_in"
     THEN mtu_in' = lo /\ spc' = "client_mtu" /\ UNCHANGED mtu_out
     ELSE mtu_out' = lo /\ spc' = "client_mtu_end" /\ UNCHANGED mtu_in
  /\ UNCHANGED <<waiting, test_finished, attempt, pings_successful, lo, hi, cur, answers, path, disturbed>>

(* The disconnect message; then Takion is closed, with the mutex released. *)
SenkushaEnd ==
  /\ spc \in {"disconnect", "disconnect_failed", "failed"}
  /\ spc' = IF spc = "disconnect" THEN "done" ELSE "done_failed"
  /\ UNCHANGED <<waiting, test_finished, test, answers, path, disturbed>>

SenkushaThread ==
  \/ SenkushaSends /\ (spc \in {"mtu_in", "mtu_out"} => hi - lo > 1 /\ pings_successful > 0)
  \/ SenkushaSendFails
  \/ SimpleDone \/ PingDone \/ NoPong \/ MtuAnswered \/ MtuTimeout
  \/ (pings_successful > 0 /\ MtuFound) \/ SenkushaEnd

SenkushaNext ==
  \/ SenkushaStart \/ SenkushaThread
  \/ \E a \in answers : SenkushaCallback(a)

(* Every wait has a timeout.                                               *)
SenkushaFairness == WF_senkushaVars(SenkushaThread)
SenkushaSpec == SenkushaInit /\ [][SenkushaNext]_senkushaVars /\ SenkushaFairness

-----------------------------------------------------------------------------
(* Whatever answers are lost, late or repeated, no size is found that does *)
(* not pass: the answer to a smaller packet is not taken for that to a     *)
(* larger one.  When no answer of an MTU test is lost or late, the sizes   *)
(* are the largest that pass, except that the largest of all is not tried  *)
(* outwards when it did not pass inwards.                                  *)
MtuIsRight ==
  /\ spc \in {"disconnect", "done"} =>
       /\ mtu_in \in MinSize .. path.in
       /\ mtu_out \in MinSize .. path.out
  /\ spc \in {"disconnect", "done"} /\ ~disturbed =>
       /\ mtu_in = path.in
       /\ mtu_out = IF mtu_in < MaxSize /\ path.out = MaxSize THEN MaxSize - 1 ELSE path.out

(* The measurement ends, though the console may never answer.              *)
SenkushaEnds == spc = "connect" ~> spc \in {"done", "done_failed"}
=============================================================================
