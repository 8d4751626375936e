-------------------------------- MODULE Setsu --------------------------------
(***************************************************************************)
(* Touchpads read from the kernel (setsu/src/setsu.c): the list of devices *)
(* kept from udev's events, the multitouch slots of those that are open,   *)
(* and what setsu_poll tells the client, which opens every touchpad it is  *)
(* told of and keeps the touches it is told the position of                *)
(* (gui/src/streamsession.cpp, setsu_ids).                                 *)
(*                                                                         *)
(* Motion sensors, which have no state beyond their last values, and       *)
(* positions are left out.  The kernel, udev and libevdev are external:    *)
(* the kernel's queue of a device holds whole frames, a current slot is    *)
(* not named again, and when the queue overflows libevdev makes up events  *)
(* for the difference.                                                     *)
(***************************************************************************)
EXTENDS Integers, Sequences, FiniteSets, SequencesExt

CONSTANTS
  Paths,       \* device nodes of touchpads
  Usb,         \* those whose ids udev knows, also when they are gone
  SlotCount,   \* SLOTS_COUNT
  MaxTouches,  \* bound on the tracking ids given out
  MaxPlugs,    \* bound on plugging in and out
  MaxQueue     \* bound on the events queued by udev, and by the kernel for a device

ASSUME SetsuAssumption ==
  IsFiniteSet(Paths) /\ SlotCount \in Nat \ {0} /\ MaxTouches \in Nat /\ MaxPlugs \in Nat /\ MaxQueue \in Nat

VARIABLES
  node,      \* external: the pads that are plugged in
  pad,       \* external: the finger in each slot, whether it moved, and the current slot
  ids_given, plugs,  \* external, bounded
  monitor,   \* udev's events not yet received
  alive,     \* setsu is not NULL
  avail_dev, \* the list, newest first
  dev,       \* the open devices, and what the client was told of their touches
  evdev,     \* external: what the kernel and libevdev hold of an open device
  missed, overlooked   \* history: pads in use when they were opened, or unplugged at a bad moment

setsuVars == <<node, pad, ids_given, plugs, monitor, alive, avail_dev, dev, evdev, missed, overlooked>>

MTSlots == 0 .. SlotCount - 1
EmptySlot == [id |-> -1, moved |-> FALSE]
IdlePad == [slot |-> [s \in MTSlots |-> EmptySlot], cur |-> 0]
NoDevice == [open |-> FALSE]
IdsOf(p) == [s \in MTSlots |-> pad[p].slot[s].id]
Quiet(id) == [prev |-> -1, id |-> id, downed |-> FALSE, dirty |-> FALSE]
Opened ==
  [open     |-> TRUE,
   slot_cur |-> 0,
   slots    |-> [s \in MTSlots |-> Quiet(-1)],
   held     |-> {},         \* told down and not yet up
   touches  |-> {}]         \* setsu_ids: told a position and not yet up
NoFile == [queue |-> <<>>, dropped |-> FALSE, seen |-> [s \in MTSlots |-> -1]]
ReadUp(p) ==
  [queue    |-> <<>>,       \* frames not yet read
   dropped  |-> FALSE,      \* SYN_DROPPED is queued
   seen     |-> IdsOf(p)]   \* what libevdev knows of the slots

SetsuInit ==
  /\ node = {} /\ pad = [p \in Paths |-> IdlePad] /\ ids_given = 0 /\ plugs = 0
  /\ monitor = <<>> /\ alive = FALSE /\ avail_dev = <<>> /\ dev = [p \in Paths |-> NoDevice]
  /\ evdev = [p \in Paths |-> NoFile] /\ missed = {} /\ overlooked = {}

-----------------------------------------------------------------------------
(* update_udev_device: a node already in the list is not added again, also *)
(* if its removal is still to be told; the removal of one that is not in   *)
(* the list adds it (is_device_interesting still knows a pad of Usb).      *)
Listed(avail, p) == \E i \in DOMAIN avail : avail[i].path = p
UpdateUdevDevice(avail, e) ==
  CASE Listed(avail, e.path) /\ ~e.added ->
         [i \in DOMAIN avail |-> IF avail[i].path = e.path THEN [avail[i] EXCEPT !.disconnect_dirty = TRUE] ELSE avail[i]]
    [] ~Listed(avail, e.path) /\ (e.added \/ e.path \in Usb) ->
         <<[path |-> e.path, connect_dirty |-> TRUE, disconnect_dirty |-> FALSE]>> \o avail
    [] OTHER -> avail

(* setsu_poll, of a listed device: one whose removal was told is freed.    *)
Kept(list, a) == IF a.disconnect_dirty THEN list ELSE Append(list, [a EXCEPT !.connect_dirty = FALSE])

(* Mutant: only an end without a new touch is an end.                      *)
TrackingIdUp(s, id) ==
  LET ends == s.id # -1 /\ s.prev = -1 /\ id = -1
  IN [prev   |-> IF ends THEN s.id ELSE s.prev,
      id     |-> id,
      downed |-> s.downed \/ id # -1,
      dirty  |-> s.dirty /\ ~ends]

(* ABS_MT_TRACKING_ID: the touch that ends first within a frame is kept to *)
(* be told up.                                                             *)
TrackingId(s, id) ==
  LET ends == s.id # -1 /\ s.prev = -1
  IN [prev   |-> IF ends THEN s.id ELSE s.prev,
      id     |-> id,
      downed |-> s.downed \/ id # -1,
      dirty  |-> s.dirty /\ ~ends]

(* device_drain, of one slot: up, down, position.                          *)
DrainSlot(d, i) ==
  LET s == d.slots[i]
      up == IF s.prev # -1 THEN {s.prev} ELSE {}
  IN [d EXCEPT !.held = (@ \ up) \cup (IF s.downed THEN {s.id} ELSE {}),
               !.touches = (@ \ up) \cup (IF s.dirty THEN {s.id} ELSE {}),
               !.slots[i] = Quiet(s.id)]
DeviceDrain(d) == FoldLeft(DrainSlot, d, [i \in 1 .. SlotCount |-> i - 1])

DeviceEvent(d, e) ==
  CASE e.type = "slot" -> [d EXCEPT !.slot_cur = e.v]
    [] e.type = "id"   -> [d EXCEPT !.slots[d.slot_cur] = TrackingId(@, e.v)]
    [] e.type = "pos"  -> [d EXCEPT !.slots[d.slot_cur].dirty = TRUE]
    [] e.type = "syn"  -> DeviceDrain(d)

-----------------------------------------------------------------------------
(* What libevdev makes of an overflow: the touches that ended, then those  *)
(* that began, in one frame or, in later versions, in two.                 *)
SlotEvent(i) == <<[type |-> "slot", v |-> i]>>
IdEvent(v) == <<[type |-> "id", v |-> v]>>
PosEvent == <<[type |-> "pos", v |-> 0]>>
SynEvent == <<[type |-> "syn", v |-> 0]>>
Difference(p, twice) ==
  LET order == [i \in 1 .. SlotCount |-> i - 1]
      was == evdev[p].seen
      is == IdsOf(p)
      Ends(i) == IF was[i] # -1 /\ is[i] # was[i] THEN SlotEvent(i) \o IdEvent(-1) ELSE <<>>
      Begins(i) == IF is[i] = -1 THEN <<>>
                   ELSE SlotEvent(i) \o (IF is[i] # was[i] THEN IdEvent(is[i]) ELSE <<>>)
                        \o (IF pad[p].slot[i].moved THEN PosEvent ELSE <<>>)
  IN FlattenSeq([i \in 1 .. SlotCount |-> Ends(order[i])]) \o (IF twice THEN SynEvent ELSE <<>>)
     \o FlattenSeq([i \in 1 .. SlotCount |-> Begins(order[i])]) \o SlotEvent(pad[p].cur) \o SynEvent

(* poll_device: everything there is to read, unless the device is gone     *)
(* (ENODEV).                                                               *)
PollDevice(d, p, twice) ==
  FoldLeft(DeviceEvent, d, CASE p \notin node -> <<>>
                             [] p \in node /\ evdev[p].dropped -> Difference(p, twice)
                             [] OTHER -> FlattenSeq(evdev[p].queue))

(* setsu_poll: devices added are opened by the callback (there is nothing  *)
(* to read of them yet), those removed closed (kill_avail_device), and     *)
(* then every open one is read.                                            *)
SetsuPoll(fails, twice) ==
  /\ alive
  /\ LET avail == FoldLeft(UpdateUdevDevice, avail_dev, monitor)
         Flagged(p, flag) == \E i \in DOMAIN avail : avail[i].path = p /\ avail[i][flag]
         opens == {p \in node \ fails : Flagged(p, "connect_dirty")}
         closes == {p \in Paths : Flagged(p, "disconnect_dirty")}
         Device(p) == CASE p \in closes -> NoDevice
                        [] p \in opens \ closes -> Opened
                        [] p \notin opens \cup closes /\ dev[p].open -> PollDevice(dev[p], p, twice)
                        [] OTHER -> NoDevice
     IN /\ avail_dev' = FoldLeft(Kept, <<>>, avail)
        /\ dev' = [p \in Paths |-> Device(p)]
        /\ evdev' = [p \in Paths |-> IF dev'[p].open THEN ReadUp(p) ELSE NoFile]
        /\ missed' = (missed \ closes) \cup {p \in opens : pad[p].cur # 0 \/ \E s \in MTSlots : pad[p].slot[s].id # -1}
        /\ overlooked' = overlooked \cup (closes \cap node)
  /\ monitor' = <<>>
  /\ UNCHANGED <<node, pad, ids_given, plugs, alive>>

(* setsu_new: listens to udev, then scans: a pad plugged in in between is  *)
(* found twice, and one unplugged in between is only heard of.             *)
SetsuNew(between) ==
  /\ ~alive /\ alive' = TRUE
  /\ monitor' = SetToSeq({[path |-> p, added |-> p \in node] : p \in between})
  /\ avail_dev' = FoldLeft(UpdateUdevDevice, <<>>, SetToSeq({[path |-> p, added |-> TRUE] : p \in node}))
  /\ overlooked' = between \ node
  /\ UNCHANGED <<node, pad, ids_given, plugs, dev, evdev, missed>>

(* setsu_free: every device is closed and the lists are freed.             *)
SetsuFree ==
  /\ alive /\ alive' = FALSE
  /\ avail_dev' = <<>> /\ monitor' = <<>>
  /\ dev' = [p \in Paths |-> NoDevice] /\ evdev' = [p \in Paths |-> NoFile]
  /\ missed' = {} /\ overlooked' = {}
  /\ UNCHANGED <<node, pad, ids_given, plugs>>

-----------------------------------------------------------------------------
(* External: pads come and go.  A pad plugged in again is new to udev, but *)
(* an open file of the old one stays dead.                                 *)
Plug(p) ==
  /\ plugs < MaxPlugs /\ plugs' = plugs + 1 /\ Len(monitor) < MaxQueue
  /\ node' = IF p \in node THEN node \ {p} ELSE node \cup {p}
  /\ pad' = [pad EXCEPT ![p] = IdlePad]
  /\ monitor' = IF alive THEN Append(monitor, [path |-> p, added |-> p \notin node]) ELSE monitor
  /\ UNCHANGED <<ids_given, alive, avail_dev, dev, evdev, missed, overlooked>>

(* A finger comes down, moves, lifts, or is taken for another one; the     *)
(* kernel names its position only if it changed.  The queue may overflow.  *)
Frame(p, s, evs, slot, drop) ==
  /\ p \in node
  /\ pad' = [pad EXCEPT ![p] = [slot |-> [@.slot EXCEPT ![s] = slot], cur |-> s]]
  /\ LET frame == (IF pad[p].cur # s THEN SlotEvent(s) ELSE <<>>) \o evs \o SynEvent
         file == evdev[p]
     IN evdev' = [evdev EXCEPT ![p] = CASE ~dev[p].open \/ file.dropped -> file
                                        [] dev[p].open /\ ~file.dropped /\ drop -> [file EXCEPT !.dropped = TRUE, !.queue = <<>>]
                                        [] OTHER -> [file EXCEPT !.queue = Append(@, frame)]]
  /\ Len(evdev[p].queue) < MaxQueue
  /\ UNCHANGED <<node, plugs, monitor, alive, avail_dev, dev, missed, overlooked>>

FingerDown(p, s, moved, drop) ==
  /\ ids_given < MaxTouches /\ ids_given' = ids_given + 1
  /\ Frame(p, s, IdEvent(ids_given) \o (IF moved THEN PosEvent ELSE <<>>), [id |-> ids_given, moved |-> moved], drop)
FingerMoves(p, s, drop) ==
  /\ pad[p].slot[s].id # -1 /\ UNCHANGED ids_given
  /\ Frame(p, s, PosEvent, [pad[p].slot[s] EXCEPT !.moved = TRUE], drop)
FingerUp(p, s, drop) ==
  /\ pad[p].slot[s].id # -1 /\ UNCHANGED ids_given
  /\ Frame(p, s, IdEvent(-1), EmptySlot, drop)

SetsuNext ==
  \/ \E fails \in SUBSET Paths, twice \in BOOLEAN : SetsuPoll(fails, twice)
  \/ \E between \in SUBSET Paths : SetsuNew(between)
  \/ SetsuFree
  \/ \E p \in Paths : Plug(p)
  \/ \E p \in Paths, s \in MTSlots, drop \in BOOLEAN :
       FingerMoves(p, s, drop) \/ FingerUp(p, s, drop) \/ \E moved \in BOOLEAN : FingerDown(p, s, moved, drop)

SetsuSpec == SetsuInit /\ [][SetsuNext]_setsuVars
-----------------------------------------------------------------------------
(* When all has been read the client holds the touches of the fingers that *)
(* are on the pad and have moved, and no others: each is told down once    *)
(* and up in the end, whatever frames were dropped or fingers exchanged.   *)
(* Unless the pad was in use when it was opened: touches and the current   *)
(* slot of then are not known.                                             *)
FingersOn(p) == {pad[p].slot[s].id : s \in MTSlots} \ {-1}
Moved(p) == {pad[p].slot[s].id : s \in {t \in MTSlots : pad[p].slot[t].moved}}
TouchesTold == monitor = <<>> => \A p \in node :
  dev[p].open /\ evdev[p].queue = <<>> /\ ~evdev[p].dropped /\ p \notin missed =>
    /\ dev[p].held = FingersOn(p)
    /\ dev[p].touches \subseteq FingersOn(p) /\ Moved(p) \subseteq dev[p].touches

(* When udev has nothing to say, the list is what is plugged in, and only  *)
(* what is listed and plugged in is open.  Unless a pad was unplugged and  *)
(* plugged in again between two polls, or unplugged while Setsu started:   *)
(* the one is not found again, the other is listed although it is gone.    *)
DevicesTold ==
  alive /\ monitor = <<>> => \A p \in Paths : /\ p \notin overlooked => (Listed(avail_dev, p) <=> p \in node)
                                              /\ dev[p].open => p \in node /\ Listed(avail_dev, p)

TouchpadsFollow == TouchesTold /\ DevicesTold
=============================================================================
