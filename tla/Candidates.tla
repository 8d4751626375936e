----------------------------- MODULE Candidates -----------------------------
(***************************************************************************)
(* check_candidates of lib/src/remote/holepunch.c: which address of the    *)
(* console can be reached, and through which socket.  A candidate is       *)
(* selected when it has answered three requests, each sent after the       *)
(* answer to the one before.  Requests of the console are answered; one    *)
(* from an address not offered makes that address a candidate.             *)
(*                                                                         *)
(* The network is external: it loses, delays and repeats packets.          *)
(***************************************************************************)
EXTENDS Integers, FiniteSets

CONSTANTS
  Offered,        \* the console's candidates
  Strangers,      \* other addresses packets come from
  Six,            \* the addresses reached over IPv6
  ExtraMax,       \* EXTRA_CANDIDATE_ADDRESSES
  Retries,        \* SELECT_CANDIDATE_TRIES
  MaxPackets      \* bound on the packets that arrive

ASSUME CandidatesAssumption ==
  /\ Six \subseteq Offered \cup Strangers /\ Offered \cap Strangers = {}
  /\ ExtraMax \in Nat /\ Retries \in Nat /\ MaxPackets \in Nat

VARIABLES
  kpc,                    \* "send", "select", "follow" (the console's request), "selected", ...
  random,                 \* stun_random_allocation
  usable,                 \* the sockets that are there
  watched,                \* fds
  got, derived,           \* responses_received; the addresses added
  retries, response, connecting, responded,
  selected,
  requested, replied,     \* history: the requests sent to each address, and those it answered
  inbox, arrived          \* external: packets that wait at a socket

candidateVars ==
  <<kpc, random, usable, watched, got, derived, retries, response, connecting, responded, selected,
    requested, replied, inbox, arrived>>

PeerAddresses == Offered \cup Strangers
SocketOf(a) == IF a \in Six THEN "v6" ELSE "v4"
Packets == [from : PeerAddresses, type : {"REQ", "RESP"}, id : 0..2]
             \cup [from : PeerAddresses, type : {"BAD"}, id : {0}]

CandidatesInit ==
  /\ kpc = "send"
  /\ random \in BOOLEAN /\ usable \in {{"v4"}, {"v4", "v6"}, {}}
  /\ watched = usable
  /\ got = [a \in PeerAddresses |-> 0] /\ derived = {}
  /\ retries = 0 /\ response = FALSE /\ connecting = FALSE /\ responded = FALSE
  /\ selected = {}
  /\ requested = [a \in PeerAddresses |-> {}] /\ replied = [a \in PeerAddresses |-> {}]
  /\ inbox = {} /\ arrived = 0

-----------------------------------------------------------------------------
(* Behind a NAT with random ports many sockets are opened, and each one    *)
(* that could be opened is closed at once: the test is inverted.  Their    *)
(* invalid numbers are then put into fds, which stops the program or makes *)
(* select fail.                                                            *)
RandomSockets == IF random THEN {"crashed", "failed"} ELSE {"select"}

(* The first request goes to every candidate over its socket, if there is  *)
(* one; a send that fails leaves out a candidate.                          *)
SendRequests ==
  /\ kpc = "send"
  /\ \E S \in SUBSET Offered :
       IF S = {} THEN kpc' = "failed" /\ UNCHANGED requested
       ELSE /\ kpc' \in RandomSockets
            /\ requested' = [a \in PeerAddresses |->
                           IF a \in S /\ SocketOf(a) \in usable THEN {0} ELSE {}]
  /\ UNCHANGED <<random, usable, watched, got, derived, retries, response, connecting, responded,
                 selected, replied, inbox, arrived>>

-----------------------------------------------------------------------------
Ready == {s \in watched : \E p \in inbox : SocketOf(p.from) = s}

(* Nothing came in half a second: the first request again.                 *)
SelectRetry ==
  /\ kpc = "select" /\ Ready = {}
  /\ retries < Retries /\ ~response
  /\ retries' = retries + 1
  /\ watched' = usable
  /\ requested' = [a \in PeerAddresses |->
                 IF a \in Offered \cup derived /\ SocketOf(a) \in usable THEN requested[a] \cup {0} ELSE requested[a]]
  /\ UNCHANGED <<kpc, random, usable, got, derived, response, connecting, responded, selected, replied,
                 inbox, arrived>>

(* Once there was an answer the wait is five seconds instead.  The fds     *)
(* that select has emptied are not set again.                              *)
SelectConnecting ==
  /\ kpc = "select" /\ Ready = {}
  /\ response /\ ~connecting
  /\ connecting' = TRUE /\ watched' = {}
  /\ UNCHANGED <<kpc, random, usable, got, derived, retries, response, responded, selected, requested,
                 replied, inbox, arrived>>

(* No answer, no second answer in time, or an error of select.             *)
SelectGivesUp ==
  /\ kpc = "select"
  /\ kpc' = "failed"
  /\ UNCHANGED <<random, usable, watched, got, derived, retries, response, connecting, responded,
                 selected, requested, replied, inbox, arrived>>

(* IPv4 first.  Only the sockets that were ready are watched from now on.  *)
Reads(p) ==
  /\ kpc = "select" /\ p \in inbox
  /\ SocketOf(p.from) = IF "v4" \in Ready THEN "v4" ELSE "v6"
  /\ Ready # {} /\ watched' = Ready
  /\ inbox' = inbox \ {p}

IsKnown(a) == a \in Offered \cup derived
Derived(a) == IF IsKnown(a) THEN derived ELSE derived \cup {a}
Admitted(a) == IsKnown(a) \/ Cardinality(derived) < ExtraMax

(* A packet of no use ends it all when it comes from an offered candidate. *)
Rejected(p) ==
  /\ Reads(p)
  /\ p.type = "BAD" \/ ~Admitted(p.from)
  /\ IF p.from \in Offered THEN kpc' = "failed" ELSE UNCHANGED kpc
  /\ derived' = IF Admitted(p.from) THEN Derived(p.from) ELSE derived
  /\ UNCHANGED <<random, usable, got, retries, response, connecting, responded, selected, requested, replied,
                 arrived>>

(* A request is answered, and from a new address answered with our own;    *)
(* when that cannot be sent, it is the end.                                *)
Requested(p) ==
  /\ Reads(p) /\ p.type = "REQ" /\ Admitted(p.from)
  /\ responded' = TRUE
  /\ derived' = Derived(p.from)
  /\ requested' = IF p.from \in derived' /\ got[p.from] = 0
              THEN [requested EXCEPT ![p.from] = @ \cup {0}] ELSE requested
  /\ kpc' \in {kpc, "failed"}
  /\ UNCHANGED <<random, usable, got, retries, response, connecting, selected, replied, arrived>>

(* Mutant: the id of the request is not compared.                          *)
MatchesAny(p) == TRUE

(* The answer to the request sent last to that candidate.                  *)
Matches(p) == p.id = got[p.from]

Responded(p) ==
  /\ Reads(p) /\ p.type = "RESP" /\ Admitted(p.from)
  /\ derived' = Derived(p.from)
  /\ IF Matches(p)
     THEN /\ response' = TRUE
          /\ got' = [got EXCEPT ![p.from] = @ + 1]
          /\ IF got[p.from] = 2
             THEN /\ \/ kpc' = "follow" /\ selected' = {p.from}
                     \/ kpc' = "failed" /\ UNCHANGED selected
                  /\ UNCHANGED requested
             ELSE requested' = [requested EXCEPT ![p.from] = @ \cup {got'[p.from]}] /\ UNCHANGED <<kpc, selected>>
     ELSE UNCHANGED <<kpc, response, got, selected, requested>>
  /\ UNCHANGED <<random, usable, retries, connecting, responded, replied, arrived>>

(* receive_request_send_response_ps on the selected socket, now connected. *)
(* Without a request of the console, now or before, the candidate is given *)
(* up after all.                                                           *)
Followed ==
  /\ kpc = "follow"
  /\ LET asking == {p \in inbox : p.from \in selected /\ p.type = "REQ"}
         bad == {p \in inbox : p.from \in selected /\ p.type = "BAD"}
     IN kpc' \in (IF responded \/ asking # {} THEN {"selected"} ELSE {"failed"})
                   \cup (IF bad # {} THEN {"failed"} ELSE {})
  /\ UNCHANGED <<random, usable, watched, got, derived, retries, response, connecting, responded,
                 selected, requested, replied, inbox, arrived>>

-----------------------------------------------------------------------------
(* External: an answer, possibly repeated, a request of the console or     *)
(* something else arrives.                                                 *)
Arrives(p) ==
  /\ kpc = "select" /\ arrived < MaxPackets /\ SocketOf(p.from) \in usable
  /\ p.type = "RESP" => p.id \in requested[p.from]
  /\ p.type = "REQ" => p.id = 0
  /\ arrived' = arrived + 1
  /\ inbox' = inbox \cup {p}
  /\ replied' = IF p.type = "RESP" THEN [replied EXCEPT ![p.from] = @ \cup {p.id}] ELSE replied
  /\ UNCHANGED <<kpc, random, usable, watched, got, derived, retries, response, connecting, responded,
                 selected, requested>>

CheckThread ==
  \/ SendRequests \/ SelectRetry \/ SelectConnecting \/ SelectGivesUp \/ Followed
  \/ \E p \in inbox : Rejected(p) \/ Requested(p) \/ Responded(p)

CandidatesNext == CheckThread \/ \E p \in Packets : Arrives(p)
CandidatesSpec == CandidatesInit /\ [][CandidatesNext]_candidateVars
-----------------------------------------------------------------------------
(* A candidate that is selected has answered all three requests: packets   *)
(* the network repeats, and answers to a request that was sent again, do   *)
(* not count twice, and two candidates are never taken for one.            *)
ThriceAnswered ==
  kpc \in {"follow", "selected"} => \E a \in PeerAddresses : selected = {a} /\ replied[a] = 0..2
=============================================================================
