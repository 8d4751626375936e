-------------------------------- MODULE Stun --------------------------------
(***************************************************************************)
(* lib/src/remote/stun.h, and the part of send_offer in holepunch.c that   *)
(* uses it: from the ports under which up to four STUN servers see the     *)
(* client, the port under which the console will see it is predicted, and  *)
(* ports from there on are offered; once for the control port and, with    *)
(* what was learnt, again for the data port.                               *)
(*                                                                         *)
(* The NAT is external: for each new destination it takes the port that is *)
(* nat_step further on, and stays out of the reserved ports.  Answers of   *)
(* servers are lost or come late.                                          *)
(***************************************************************************)
EXTENDS Integers, Sequences, FiniteSets

CONSTANTS
  PortMax,        \* UINT16_MAX
  Reserved,       \* 1024
  Dynamic,        \* 49152, where guesses go on after the last port
  NatSteps,       \* the steps a NAT may take
  FirstPorts,     \* where it may begin
  NatAddresses,   \* the addresses it may show
  Servers,        \* how many servers there are to ask
  Guesses,        \* the STUN candidates of an offer: 8
  RandomGuesses   \* RANDOM_ALLOCATION_GUESSES_NUMBER

ASSUME StunAssumption ==
  /\ PortMax \in Nat /\ Reserved \in 1..PortMax /\ Dynamic \in 1..PortMax
  /\ NatSteps \subseteq Int /\ FirstPorts \subseteq 1..PortMax
  /\ Servers \in Nat /\ Guesses \in Nat \ {0, 1} /\ RandomGuesses \in Nat

(* What the code's numbers, 75 guesses, 1024 and 65535 ports, satisfy: the *)
(* guesses are few among the ports and among the reserved ones.            *)
ASSUME GuessesAssumption ==
  /\ 4 * RandomGuesses <= PortMax - Reserved
  /\ RandomGuesses <= 2 * (Reserved + 1)

VARIABLES
  upc, round,          \* "ask", "offer" or "done"; 1 for the control, 2 for the data port
  nat_step, nat,       \* external: the NAT's step and the port it gave last
  servers_asked,       \* in this round
  late_answer,         \* external: an answer that missed its timeout waits at the socket
  seen,                \* the addresses and ports servers have answered with
  increment,           \* stun_allocation_increment, Untested at first
  random_allocation,   \* stun_random_allocation
  stun_port, offered   \* the port to start from, and the ports offered

stunVars ==
  <<upc, round, nat_step, nat, servers_asked, late_answer, seen, increment, random_allocation,
    stun_port, offered>>

Untested == -1

StunInit ==
  /\ upc = "ask" /\ round = 1
  /\ nat_step \in NatSteps /\ nat \in FirstPorts
  /\ servers_asked = 0 /\ late_answer = FALSE /\ seen = << >>
  /\ increment = Untested /\ random_allocation = FALSE
  /\ stun_port = 0 /\ offered = {}

-----------------------------------------------------------------------------
Short(n) == n % (PortMax + 1)                       \* uint16_t
Quotient(n, d) == IF n < 0 THEN -((-n) \div d) ELSE n \div d

(* The port after p, in steps of d, leaving out the reserved ones.         *)
NextPort(p, d) ==
  LET q == p + d IN
  IF q < Reserved /\ p > Reserved THEN PortMax - (Reserved - q)
  ELSE IF q < 1 THEN q + PortMax
  ELSE IF q > PortMax THEN q - PortMax + Reserved
  ELSE q

(* External.                                                               *)
NatNext(p) == IF nat_step = 0 THEN p ELSE NextPort(p, nat_step)

(* stun_get_external_address_from_server: the next packet at the socket    *)
(* must answer this request.  One late answer makes the next server fail,  *)
(* whose own answer then is late.                                          *)
AskServer(addr) ==
  /\ upc = "ask" /\ servers_asked < Servers
  /\ Len(seen) < (IF increment = Untested THEN 4 ELSE 1)
  /\ servers_asked' = servers_asked + 1
  /\ nat' = NatNext(nat)
  /\ \/ ~late_answer /\ seen' = Append(seen, [addr |-> addr, port |-> nat']) /\ UNCHANGED late_answer
     \/ late_answer' \in BOOLEAN /\ UNCHANGED seen
  /\ UNCHANGED <<upc, round, nat_step, increment, random_allocation, stun_port, offered>>

(* The request cannot be sent: the socket is closed, and no more is asked. *)
AskFails ==
  /\ upc = "ask"
  /\ upc' = "failed"
  /\ UNCHANGED <<round, nat_step, nat, servers_asked, late_answer, seen, increment, random_allocation,
                 stun_port, offered>>

-----------------------------------------------------------------------------
(* stun_port_allocation_test: the step of the NAT and whether it is        *)
(* random, from two, three or four answers.                                *)
Same(i, j) == seen[i].addr = seen[j].addr
Step(i, j) == seen[j].port - seen[i].port
Guess(inc, rnd) == [inc |-> inc, rnd |-> rnd]

GuessTwo == Guess(IF Same(1, 2) THEN Step(1, 2) ELSE 0, FALSE)

GuessThree ==
  IF Same(1, 2)
  THEN Guess(Step(1, 2), Same(1, 3) /\ Step(2, 3) # Step(1, 2))
  ELSE Guess(IF Same(1, 3) THEN Quotient(Step(1, 3), 2)
             ELSE IF Same(2, 3) THEN Step(2, 3) ELSE 0, FALSE)

(* The first address is not that of the second server.                     *)
GuessFourMixed ==
  CASE Same(1, 4) /\ Same(1, 3) -> Guess(Step(3, 4), Quotient(Step(1, 3), 2) # Step(3, 4))
    [] Same(1, 4) /\ ~Same(1, 3) -> Guess(Quotient(Step(1, 4), 4), FALSE)
    [] ~Same(1, 4) /\ Same(1, 3) -> Guess(Quotient(Step(1, 3), 2), FALSE)
    [] ~Same(1, 3) /\ ~Same(1, 4) /\ Same(2, 4) /\ Same(2, 3) -> Guess(Step(3, 4), Step(2, 3) # Step(3, 4))
    [] ~Same(1, 3) /\ ~Same(1, 4) /\ Same(2, 4) /\ ~Same(2, 3) -> Guess(Quotient(Step(1, 4), 4), FALSE)
    [] ~Same(1, 3) /\ ~Same(1, 4) /\ ~Same(2, 4) /\ Same(2, 3) -> Guess(Quotient(Step(1, 3), 2), FALSE)
    [] OTHER -> Guess(IF Same(3, 4) THEN Step(4, 3) ELSE 0, FALSE)

(* Mutant: the middle step decides.                                        *)
GuessFourSteadyMiddle == Guess(Short(Step(2, 3)), FALSE)

(* Four times the same address: two equal steps of three decide.  They are *)
(* kept in 16 bits, a step back is an enormous one.                        *)
GuessFourSteady ==
  LET a == Short(Step(1, 2))
      b == Short(Step(2, 3))
      c == Short(Step(3, 4))
  IN CASE a = b \/ a = c -> Guess(a, FALSE)
       [] a # b /\ b = c -> Guess(b, FALSE)
       [] OTHER -> Guess(a, TRUE)

GuessFour ==
  CASE ~Same(1, 2) -> GuessFourMixed
    [] Same(1, 2) /\ ~Same(2, 3) ->
         Guess(Step(1, 2), Same(2, 4) /\ Quotient(Step(2, 4), 2) # Step(1, 2))
    [] Same(1, 2) /\ Same(2, 3) /\ ~Same(3, 4) -> Guess(Step(1, 2), Step(2, 3) # Step(1, 2))
    [] OTHER -> GuessFourSteady

Last == seen[Len(seen)].port

(* With fewer answers the port is moved on for those still to come.        *)
AllocationTest ==
  /\ upc = "ask" /\ increment = Untested
  /\ Len(seen) = 4 \/ (servers_asked = Servers /\ seen # << >>)
  /\ LET g == CASE Len(seen) = 1 -> Guess(0, FALSE)
               [] Len(seen) = 2 -> GuessTwo
               [] Len(seen) = 3 -> GuessThree
               [] OTHER -> GuessFour
     IN /\ increment' = g.inc
        /\ random_allocation' = (random_allocation \/ g.rnd)
        /\ stun_port' = Short(CASE Len(seen) = 2 -> Last + 2 * g.inc
                                [] Len(seen) = 3 -> Last + g.inc
                                [] OTHER -> Last)
  /\ upc' = "offer"
  /\ UNCHANGED <<round, nat_step, nat, servers_asked, late_answer, seen, offered>>

(* get_client_addr_remote_stun when the test was made for the other port.  *)
ExternalAddress ==
  /\ upc = "ask" /\ increment # Untested /\ Len(seen) = 1
  /\ stun_port' = Last
  /\ upc' = "offer"
  /\ UNCHANGED <<round, nat_step, nat, servers_asked, late_answer, seen, increment, random_allocation, offered>>

NoAddress ==
  /\ upc = "ask" /\ servers_asked = Servers /\ seen = << >>
  /\ upc' = "failed"
  /\ UNCHANGED <<round, nat_step, nat, servers_asked, late_answer, seen, increment, random_allocation,
                 stun_port, offered>>

-----------------------------------------------------------------------------
(* The STUN candidates of send_offer: the port itself for a NAT that keeps *)
(* it; ports in a row for one that is random; else some steps further on.  *)
StepPorts ==
  LET walk[i \in 0..Guesses] == IF i = 0 THEN stun_port ELSE NextPort(walk[i - 1], increment)
  IN {Short(walk[i]) : i \in 1..Guesses}

RowPorts ==
  {IF stun_port + i > PortMax THEN Dynamic + (stun_port + i - PortMax - 1) ELSE stun_port + i :
     i \in 0..(RandomGuesses - 1)}

OfferedPorts ==
  CASE increment = 0 -> {stun_port}
    [] increment # 0 /\ random_allocation -> RowPorts
    [] OTHER -> StepPorts

SendCandidates ==
  /\ upc = "offer"
  /\ offered' = OfferedPorts
  /\ upc' = "done"
  /\ UNCHANGED <<round, nat_step, nat, servers_asked, late_answer, seen, increment, random_allocation, stun_port>>

(* The hole for the data port: a new socket.                               *)
SecondRound ==
  /\ upc = "done" /\ round = 1
  /\ upc' = "ask" /\ round' = 2
  /\ servers_asked' = 0 /\ late_answer' = FALSE /\ seen' = << >> /\ offered' = {}
  /\ nat' = NatNext(nat)
  /\ UNCHANGED <<nat_step, increment, random_allocation, stun_port>>

StunNext ==
  \/ \E a \in NatAddresses : AskServer(a)
  \/ AskFails \/ AllocationTest \/ ExternalAddress \/ NoAddress \/ SendCandidates \/ SecondRound
StunSpec == StunInit /\ [][StunNext]_stunVars
-----------------------------------------------------------------------------
(* The ports the NAT gives to the next two destinations are offered to the *)
(* console, also across the last port, if the NAT's steps are all the same *)
(* and not backwards, and four servers answered.  At most one of those     *)
(* asked did not; then the steps must be short enough for the next two to  *)
(* be within a row of guesses, which is what is offered when the ports     *)
(* went past the last one between the answers, too.                        *)
StepsShort ==
  \/ servers_asked = 4 /\ 8 * nat_step <= PortMax - Reserved
  \/ servers_asked = 5 /\ 2 * nat_step < RandomGuesses
PortPredicted ==
  (/\ upc = "done" /\ round = 1 /\ nat_step >= 0 /\ StepsShort
   /\ Len(seen) = 4 /\ \A i \in 2..4 : Same(1, i))
  => {NatNext(nat), NatNext(NatNext(nat))} \subseteq offered
=============================================================================
