-------------------------- MODULE DiscoveryService --------------------------
(***************************************************************************)
(* The list of a discovery service (lib/src/discoveryservice.c): consoles  *)
(* that answered one of its last pings.  A list maps a console's host_id   *)
(* to its state and to the number of pings since its last answer, that is, *)
(* ping_index - last_ping_index.  Every change is under state_mutex.       *)
(***************************************************************************)
EXTENDS Naturals, FiniteSets

CONSTANTS HostsMax, DropPings    \* hosts_max and host_drop_pings

ASSUME DiscoveryAssumption == HostsMax \in Nat \ {0} /\ DropPings \in Nat

NoHosts == << >>

(* discovery_service_ping and discovery_service_drop_old_hosts.            *)
DropOldHosts(list) ==
  [c \in { d \in DOMAIN list : list[d].age + 1 <= DropPings } |-> [list[c] EXCEPT !.age = @ + 1]]

(* discovery_service_host_received: a new host takes a place if there is   *)
(* one; what is known of a host is replaced by the answer.                 *)
HostReceived(list, c, state) ==
  IF c \notin DOMAIN list /\ Cardinality(DOMAIN list) = HostsMax THEN list
  ELSE [d \in DOMAIN list \cup {c} |-> IF d = c THEN [state |-> state, age |-> 0] ELSE list[d]]

(* What the callback is given.                                             *)
States(list) == [c \in DOMAIN list |-> list[c].state]

(* Mutant: only a new host or one less is a change.                        *)
ChangeOfHosts(old, new) == DOMAIN old # DOMAIN new

(* The flag "change" of both functions.                                    *)
Change(old, new) == States(old) # States(new)
=============================================================================
