-------------------------- MODULE DiscoveryManager --------------------------
(***************************************************************************)
(* gui/src/discoverymanager.cpp with its discovery services: one for IPv4  *)
(* and one for IPv6, whose callbacks queue their list for the main thread, *)
(* and one for each manual host, whose callback sets discovery_host right  *)
(* in the service's thread.  Consoles are external.                        *)
(***************************************************************************)
EXTENDS DiscoveryService, Sequences

CONSTANTS
  Consoles,
  Manual,       \* the console added as a manual host
  MaxEvents     \* bound on the queue of the main thread

ASSUME ManagerAssumption == MaxEvents \in Nat

Automatic == {"ipv4", "ipv6"}
Services == Automatic \cup {"manual"}

VARIABLES
  running,      \* the services that exist
  lists,        \* of each service
  events,       \* lists queued for the main thread
  shown,        \* DiscoveryManager::hosts
  discovered,   \* ManualService::discovery_host, as a list
  registered,   \* the manual host is a registered one
  power,        \* external: the state of each console
  late,         \* history: shown is a list of a service that had been stopped
  told          \* history: what each service last told its callback

discoveryVars == <<running, lists, events, shown, discovered, registered, power, late, told>>

DiscoveryInit ==
  /\ running = {} /\ lists = [s \in Services |-> NoHosts] /\ told = [s \in Services |-> NoHosts]
  /\ events = << >> /\ shown = NoHosts /\ discovered = NoHosts /\ registered = FALSE
  /\ power = [c \in Consoles |-> "off"] /\ late = FALSE

(* DiscoveryServiceHostsCallback and DiscoveryServiceHostsManualCallback.  *)
Callback(s, list) ==
  /\ told' = [told EXCEPT ![s] = list]
  /\ IF s = "manual"
     THEN discovered' = list /\ UNCHANGED events
     ELSE events' = Append(events, [list |-> list, old |-> FALSE]) /\ UNCHANGED discovered

(* discovery_service_report_state.                                         *)
Updates(s, list) ==
  /\ lists' = [lists EXCEPT ![s] = list]
  /\ IF Change(lists[s], list) THEN Callback(s, States(list)) ELSE UNCHANGED <<events, discovered, told>>
  /\ UNCHANGED <<running, shown, registered, power, late>>

ServicePing(s) ==
  /\ s \in running /\ Len(events) < MaxEvents
  /\ Updates(s, DropOldHosts(lists[s]))

(* The thread of discovery.c has received an answer.                       *)
ServiceReceives(s, c) ==
  /\ s \in running /\ Len(events) < MaxEvents
  /\ power[c] # "off" /\ (s = "manual" => c = Manual)
  /\ Updates(s, HostReceived(lists[s], c, power[c]))

(* chiaki_discovery_service_fini joins both threads.                       *)
Stops(gone) ==
  /\ running' = running \ gone
  /\ lists' = [s \in Services |-> IF s \in gone THEN NoHosts ELSE lists[s]]
  /\ told' = [s \in Services |-> IF s \in gone THEN NoHosts ELSE told[s]]
  /\ discovered' = IF "manual" \in gone THEN NoHosts ELSE discovered

(* SetActive(true), with UpdateManualServices: each of the services may    *)
(* fail to start, and without IPv4 the others are not tried.               *)
Activate ==
  /\ ~ (Automatic \subseteq running)
  /\ \/ /\ running' \in { running \cup {"ipv4"} \cup more : more \in SUBSET
                           ({"ipv6"} \cup IF registered THEN {"manual"} ELSE {}) }
     \/ "ipv4" \notin running /\ UNCHANGED running
  /\ UNCHANGED <<lists, events, shown, discovered, registered, power, late, told>>

(* Mutant: the list is left alone.                                         *)
DeactivateKeeps ==
  /\ running \cap Automatic # {}
  /\ Stops(running)
  /\ events' = [i \in DOMAIN events |-> [events[i] EXCEPT !.old = TRUE]]
  /\ UNCHANGED <<registered, power, shown, late>>

(* SetActive(false).                                                       *)
Deactivate ==
  /\ running \cap Automatic # {}
  /\ Stops(running)
  /\ shown' = NoHosts /\ late' = FALSE
  /\ events' = [i \in DOMAIN events |-> [events[i] EXCEPT !.old = TRUE]]
  /\ UNCHANGED <<registered, power>>

(* The settings change: UpdateManualServices.                              *)
SettingsChange ==
  /\ registered' = ~registered
  /\ IF running \cap Automatic = {} \/ (registered' /\ "manual" \in running)
     THEN UNCHANGED <<running, lists, discovered, told>>
     ELSE IF registered'
     THEN running' \in {running, running \cup {"manual"}} /\ UNCHANGED <<lists, discovered, told>>
     ELSE Stops({"manual"})
  /\ UNCHANGED <<events, shown, power, late>>

(* The slot DiscoveryServiceHosts: the list of one service replaces what   *)
(* was shown, that of the other service too.                               *)
HandleEvent ==
  /\ events # << >>
  /\ shown' = Head(events).list /\ late' = Head(events).old
  /\ events' = Tail(events)
  /\ UNCHANGED <<running, lists, discovered, registered, power, told>>

(* GetHosts.                                                               *)
GetHosts == DOMAIN shown \cup DOMAIN discovered

(* SendWakeup, chiaki_discovery_wakeup: a console in standby may wake up.  *)
Wakeup(c) ==
  /\ power[c] = "standby"
  /\ power' = [power EXCEPT ![c] = "ready"]
  /\ UNCHANGED <<running, lists, events, shown, discovered, registered, late, told>>

PowerChanges(c) ==
  /\ power' \in { [power EXCEPT ![c] = p] : p \in {"off", "standby", "ready"} \ {power[c]} }
  /\ UNCHANGED <<running, lists, events, shown, discovered, registered, late, told>>

DiscoveryNext ==
  \/ \E s \in Services : ServicePing(s) \/ \E c \in Consoles : ServiceReceives(s, c)
  \/ Activate \/ Deactivate \/ SettingsChange \/ HandleEvent
  \/ \E c \in Consoles : Wakeup(c) \/ PowerChanges(c)

(* A service pings as long as it runs, and the main thread gets to its     *)
(* events.  Strong fairness makes up for MaxEvents: the code's queue is    *)
(* never full.                                                             *)
DiscoveryFairness ==
  /\ \A s \in Services : SF_discoveryVars(ServicePing(s))
  /\ WF_discoveryVars(HandleEvent)

DiscoverySpec == DiscoveryInit /\ [][DiscoveryNext]_discoveryVars /\ DiscoveryFairness

-----------------------------------------------------------------------------
(* The services' lists respect their bounds.                               *)
DiscoveryTypeOK ==
  /\ running \subseteq Services
  /\ \A s \in Services : /\ DOMAIN lists[s] \subseteq Consoles
                         /\ Cardinality(DOMAIN lists[s]) <= HostsMax
                         /\ \A c \in DOMAIN lists[s] : lists[s][c].age \in 0 .. DropPings
  /\ Len(events) <= MaxEvents

(* A service has told its callback what is in its list: neither a changed  *)
(* state nor a host that was dropped goes unreported, over any order of    *)
(* pings, answers and restarts of the service.                             *)
ToldIsKnown == \A s \in running : told[s] = States(lists[s])

(* A console that is off for good is not shown for good, unless its list   *)
(* was still queued when discovery was stopped: that list is shown after   *)
(* that, also when discovery has been started again.                       *)
GoneIsNotShown == \A c \in Consoles :
  <>[](power[c] = "off") => <>[](c \in GetHosts => late)
=============================================================================
