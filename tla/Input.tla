-------------------------------- MODULE Input --------------------------------
(***************************************************************************)
(* What the player presses and touches, on the way to the console: the     *)
(* states of the game controller (gui/src/controllermanager.cpp), of       *)
(* keyboard and mouse, of the touch screen and of the touchpads read by    *)
(* Setsu, and their union (lib/src/controller.c), which                    *)
(* StreamSession::SendFeedbackState (gui/src/streamsession.cpp) hands to   *)
(* the session.                                                            *)
(*                                                                         *)
(* Sticks, triggers, motion and positions are left out: a source sets them *)
(* to what its device says.  Player and devices are external.              *)
(***************************************************************************)
EXTENDS Integers, FiniteSets, Functions

CONSTANTS
  Fingers,    \* on one touch device
  IdCount,    \* TOUCH_ID_MASK + 1
  MaxPresses  \* bound on how often something is pressed or touched

ASSUME InputAssumption ==
  /\ IdCount \in Nat \ {0} /\ MaxPresses \in Nat
  /\ Fingers \cap {"x", "mic", "click"} = {}   \* the names of the buttons

VARIABLES
  st,              \* the ChiakiControllerState of each source
  ids,             \* touch_ids, touch_tracker, setsu_ids: the touch id of each finger
  mouse_touch_id,
  plugged,         \* the controller is open
  micbutton_push, muted,
  input_block,
  sent,            \* what the session was given last
  down, presses,   \* external: what is held down, by source; presses so far
  wrapped, stuck, unsent   \* history: the cases in which the code is known to go wrong

inputVars ==
  <<st, ids, mouse_touch_id, plugged, micbutton_push, muted, input_block, sent, down, presses,
    wrapped, stuck, unsent>>

TouchSources == {"pad", "screen", "setsu"}
Sources == TouchSources \cup {"keyboard"}
TouchSlots == {1, 2}   \* CHIAKI_CONTROLLER_TOUCHES_MAX
NoInput == [buttons |-> {}, touches |-> [i \in TouchSlots |-> -1], next |-> 0]
Shown(s) == [buttons |-> s.buttons, touches |-> s.touches]
NoFingers == [f \in {} |-> 0]

InputInit ==
  /\ st = [s \in Sources |-> NoInput] /\ ids = [s \in TouchSources |-> NoFingers]
  /\ mouse_touch_id = -1 /\ plugged = TRUE /\ micbutton_push = FALSE /\ muted = TRUE
  /\ input_block = 0 /\ sent = Shown(NoInput) /\ down = {} /\ presses = 0
  /\ wrapped = FALSE /\ stuck = FALSE /\ unsent = FALSE

-----------------------------------------------------------------------------
(* chiaki_controller_state_start_touch: the first free slot.               *)
FreeSlots(s) == {i \in TouchSlots : s.touches[i] < 0}
StartTouch(s) ==
  LET i == CHOOSE j \in FreeSlots(s) : \A k \in FreeSlots(s) : j <= k
  IN IF FreeSlots(s) = {} THEN s
     ELSE [s EXCEPT !.touches[i] = s.next, !.next = (s.next + 1) % IdCount]
StartedId(s) == IF FreeSlots(s) = {} THEN -1 ELSE s.next
Wraps(s) == FreeSlots(s) # {} /\ \E i \in TouchSlots : s.touches[i] = s.next

(* chiaki_controller_state_stop_touch: the first slot with the id.         *)
StopTouch(s, id) ==
  LET With == {i \in TouchSlots : s.touches[i] = id}
      i == CHOOSE j \in With : \A k \in With : j <= k
  IN IF With = {} THEN s ELSE [s EXCEPT !.touches[i] = -1]

(* chiaki_controller_state_set_touch_pos changes a position only.          *)
SetTouchPos(s) == s

StateOr(a, b) ==
  [buttons |-> a.buttons \cup b.buttons,
   touches |-> [i \in TouchSlots |-> IF a.touches[i] >= 0 THEN a.touches[i] ELSE b.touches[i]],
   next    |-> 0]

Merged(states, open) ==
  LET pad == IF open THEN states["pad"] ELSE NoInput
  IN StateOr(StateOr(StateOr(states["setsu"], pad), states["keyboard"]), states["screen"])

(* Input is blocked while the window's own controls are used, and after    *)
(* that until no button is held.                                           *)
SendFeedbackState(states, open, block) ==
  LET merged == Merged(states, open)
  IN /\ unsent' = FALSE
     /\ IF block = 0 \/ (block = 2 /\ merged.buttons = {})
        THEN st' = states /\ sent' = Shown(merged) /\ input_block' = 0
        ELSE /\ st' = [states EXCEPT !["keyboard"] = NoInput]
             /\ sent' = Shown(NoInput) /\ input_block' = block

Sends(states) == SendFeedbackState(states, plugged, input_block)
With(src, s) == [st EXCEPT ![src] = s]
Pressed(src, b) == With(src, [st[src] EXCEPT !.buttons = @ \cup {b}])
Released(src, b) == With(src, [st[src] EXCEPT !.buttons = @ \ {b}])

(* The touch ids of the fingers when a finger comes and when it goes.      *)
Following(t, f, id) == [g \in {f} \cup DOMAIN t |-> IF g = f THEN id ELSE t[g]]
Without(t, f) == Restrict(t, DOMAIN t \ {f})

(* External: something is pressed or let go.                               *)
Down(src, x) ==
  /\ <<src, x>> \notin down /\ down' = down \cup {<<src, x>>}
  /\ presses < MaxPresses /\ presses' = presses + 1
LetGo(src, x) == <<src, x>> \in down /\ down' = down \ {<<src, x>>} /\ UNCHANGED presses
StillHeld(src, x) == <<src, x>> \in down /\ UNCHANGED <<down, presses>>

-----------------------------------------------------------------------------
(* HandleEvents and ControllerEvent: a controller that is not open is not  *)
(* listened to.                                                            *)
Listened == plugged

(* Controller::HandleButtonEvent.  Any release after the microphone button *)
(* was pressed is taken for that button's.                                 *)
PadButton ==
  /\ Listened
  /\ \/ /\ Down("pad", "x")
        /\ Sends(IF micbutton_push THEN st ELSE Pressed("pad", "x"))
        /\ UNCHANGED <<micbutton_push, muted, stuck>>
     \/ /\ LetGo("pad", "x")
        /\ IF micbutton_push
           THEN /\ micbutton_push' = FALSE /\ muted' = ~muted /\ Sends(st)
                /\ stuck' = (stuck \/ "x" \in st["pad"].buttons)
           ELSE Sends(Released("pad", "x")) /\ UNCHANGED <<micbutton_push, muted, stuck>>
  /\ UNCHANGED <<ids, mouse_touch_id, plugged, wrapped>>

(* ToggleMute (the microphone itself is external).                         *)
MicButton ==
  /\ Listened
  /\ \/ Down("pad", "mic") /\ micbutton_push' = TRUE /\ UNCHANGED muted
     \/ LetGo("pad", "mic") /\ micbutton_push' = FALSE /\ muted' = ~muted
  /\ Sends(st)
  /\ UNCHANGED <<ids, mouse_touch_id, plugged, wrapped, stuck>>

(* HandleAxisEvent and HandleSensorEvent.                                  *)
PadMotion ==
  /\ Listened
  /\ Sends(st)
  /\ UNCHANGED <<ids, mouse_touch_id, plugged, micbutton_push, muted, down, presses, wrapped, stuck>>

(* HandleTouchpadEvent.                                                    *)
PadTouch(f) ==
  /\ Listened
  /\ \/ /\ Down("pad", f)
        /\ IF Cardinality(DOMAIN ids["pad"]) >= Cardinality(TouchSlots)
           THEN UNCHANGED <<st, ids, sent, input_block, wrapped, unsent>>
           ELSE /\ ids' = [ids EXCEPT !["pad"] = Following(@, f, StartedId(st["pad"]))]
                /\ wrapped' = (wrapped \/ Wraps(st["pad"]))
                /\ Sends(With("pad", StartTouch(st["pad"])))
     \/ /\ LetGo("pad", f)
        /\ IF f \notin DOMAIN ids["pad"]
           THEN UNCHANGED <<st, ids, sent, input_block, unsent>>
           ELSE /\ ids' = [ids EXCEPT !["pad"] = Without(@, f)]
                /\ Sends(With("pad", StopTouch(st["pad"], ids["pad"][f])))
        /\ UNCHANGED wrapped
     \/ /\ StillHeld("pad", f) /\ f \in DOMAIN ids["pad"]
        /\ Sends(With("pad", SetTouchPos(st["pad"])))
        /\ UNCHANGED <<ids, wrapped>>
  /\ UNCHANGED <<mouse_touch_id, plugged, micbutton_push, muted, stuck>>

(* A new Controller, and the end of one that nobody refers to any more.    *)
NewController == [state |-> NoInput, touch_ids |-> NoFingers, micbutton_push |-> FALSE]

(* UpdateAvailableControllers and UpdateGamepads: a controller that comes  *)
(* back is a new one.                                                      *)
PadPlugged(in) ==
  /\ plugged # in
  /\ plugged' = in /\ micbutton_push' = NewController.micbutton_push
  /\ ids' = [ids EXCEPT !["pad"] = NewController.touch_ids]
  /\ down' = {d \in down : d[1] # "pad"} /\ UNCHANGED presses
  /\ SendFeedbackState(With("pad", NewController.state), in, input_block)
  /\ UNCHANGED <<mouse_touch_id, muted, wrapped, stuck>>

-----------------------------------------------------------------------------
(* HandleKeyboardEvent.                                                    *)
Keyboard ==
  /\ \/ Down("keyboard", "x") /\ Sends(Pressed("keyboard", "x"))
     \/ LetGo("keyboard", "x") /\ Sends(Released("keyboard", "x"))
  /\ UNCHANGED <<ids, mouse_touch_id, plugged, micbutton_push, muted, wrapped, stuck>>

(* HandleMousePressEvent, MoveEvent and ReleaseEvent: dragging with the    *)
(* left button is a touch, the other buttons are a click.                  *)
MousePress ==
  /\ \/ Down("keyboard", "left") /\ Sends(st)
     \/ Down("keyboard", "right") /\ Sends(Pressed("keyboard", "touchpad"))
  /\ UNCHANGED <<ids, mouse_touch_id, plugged, micbutton_push, muted, wrapped, stuck>>

MouseMove ==
  /\ <<"keyboard", "left">> \in down /\ <<"keyboard", "right">> \notin down /\ mouse_touch_id < 0
  /\ mouse_touch_id' = StartedId(st["keyboard"])
  /\ wrapped' = (wrapped \/ Wraps(st["keyboard"]))
  /\ Sends(With("keyboard", StartTouch(st["keyboard"])))
  /\ UNCHANGED <<ids, plugged, micbutton_push, muted, down, presses, stuck>>

MouseRelease ==
  /\ LET s == IF mouse_touch_id >= 0 THEN StopTouch(st["keyboard"], mouse_touch_id) ELSE st["keyboard"] IN
     \/ /\ LetGo("keyboard", "left") /\ mouse_touch_id' = -1
        /\ Sends(With("keyboard", [s EXCEPT !.buttons = @ \ {"touchpad"}]))
     \/ /\ LetGo("keyboard", "right") /\ UNCHANGED mouse_touch_id
        /\ Sends(Released("keyboard", "touchpad"))
  /\ UNCHANGED <<ids, plugged, micbutton_push, muted, wrapped, stuck>>

-----------------------------------------------------------------------------
(* A finger of the touch screen or of a Setsu touchpad starts a touch,     *)
(* unless there are two, or moves; s is the source's state by then.        *)
Touched(src, f, s) ==
  IF f \in DOMAIN ids[src] \/ FreeSlots(s) = {}
  THEN Sends(With(src, s)) /\ UNCHANGED <<ids, wrapped>>
  ELSE /\ ids' = [ids EXCEPT ![src] = Following(@, f, StartedId(s))]
       /\ wrapped' = (wrapped \/ Wraps(s))
       /\ Sends(With(src, StartTouch(s)))

Lifted(src, f, s) ==
  /\ IF f \notin DOMAIN ids[src]
     THEN Sends(With(src, s)) /\ UNCHANGED ids
     ELSE /\ ids' = [ids EXCEPT ![src] = Without(@, f)]
          /\ Sends(With(src, StopTouch(s, ids[src][f])))
  /\ UNCHANGED wrapped

(* HandleTouchEvent: the edge of the screen and a double tap are clicks;   *)
(* every event ends the last click.                                        *)
ScreenTouch(f, click) ==
  /\ LET s == [st["screen"] EXCEPT !.buttons = IF click THEN {"touchpad"} ELSE {}] IN
     \/ (Down("screen", f) \/ StillHeld("screen", f)) /\ Touched("screen", f, s)
     \/ ~click /\ LetGo("screen", f) /\ Lifted("screen", f, s)
  /\ UNCHANGED <<mouse_touch_id, plugged, micbutton_push, muted, stuck>>

(* HandleSetsuEvent; a touch too many is not sent.                         *)
SetsuTouch(f) ==
  /\ \/ /\ Down("setsu", f) \/ StillHeld("setsu", f)
        /\ IF f \notin DOMAIN ids["setsu"] /\ FreeSlots(st["setsu"]) = {}
           THEN UNCHANGED <<st, ids, sent, input_block, wrapped, unsent>>
           ELSE Touched("setsu", f, st["setsu"])
     \/ LetGo("setsu", f) /\ Lifted("setsu", f, st["setsu"])
  /\ UNCHANGED <<mouse_touch_id, plugged, micbutton_push, muted, stuck>>

(* The button is not sent by itself.                                       *)
SetsuButton ==
  /\ \/ Down("setsu", "click") /\ st' = Pressed("setsu", "touchpad")
     \/ LetGo("setsu", "click") /\ st' = Released("setsu", "touchpad")
  /\ unsent' = TRUE
  /\ UNCHANGED <<ids, mouse_touch_id, plugged, micbutton_push, muted, input_block, sent, wrapped, stuck>>

(* Mutant: the touches stay.                                               *)
SetsuRemovedKeeps ==
  /\ \E d \in down : d[1] = "setsu"
  /\ ids' = [ids EXCEPT !["setsu"] = NoFingers]
  /\ stuck' = (stuck \/ "touchpad" \in st["setsu"].buttons)
  /\ down' = {d \in down : d[1] # "setsu"} /\ UNCHANGED presses
  /\ Sends(st)
  /\ UNCHANGED <<mouse_touch_id, plugged, micbutton_push, muted, wrapped>>

(* The touchpad is removed: its touches end, its button stays.             *)
SetsuRemoved ==
  /\ \E d \in down : d[1] = "setsu"
  /\ ids' = [ids EXCEPT !["setsu"] = NoFingers]
  /\ LET gone == {ids["setsu"][f] : f \in DOMAIN ids["setsu"]} IN
     Sends(With("setsu", [st["setsu"] EXCEPT !.touches = [i \in TouchSlots |-> IF @[i] \in gone THEN -1 ELSE @[i]]]))
  /\ stuck' = (stuck \/ "touchpad" \in st["setsu"].buttons)
  /\ down' = {d \in down : d[1] # "setsu"} /\ UNCHANGED presses
  /\ UNCHANGED <<mouse_touch_id, plugged, micbutton_push, muted, wrapped>>

(* Motion, and the timers that send it.                                    *)
Motion ==
  /\ Sends(st)
  /\ UNCHANGED <<ids, mouse_touch_id, plugged, micbutton_push, muted, down, presses, wrapped, stuck>>

BlockInput(block) ==
  /\ SendFeedbackState(st, plugged, IF block THEN 1 ELSE 2)
  /\ UNCHANGED <<ids, mouse_touch_id, plugged, micbutton_push, muted, down, presses, wrapped, stuck>>

InputNext ==
  \/ PadButton \/ MicButton \/ Keyboard \/ MousePress \/ MouseMove \/ MouseRelease
  \/ SetsuButton \/ SetsuRemoved \/ Motion \/ PadMotion
  \/ \E f \in Fingers : PadTouch(f) \/ SetsuTouch(f) \/ \E click \in BOOLEAN : ScreenTouch(f, click)
  \/ \E b \in BOOLEAN : PadPlugged(b) \/ BlockInput(b)

InputSpec == InputInit /\ [][InputNext]_inputVars
-----------------------------------------------------------------------------
(* Unless a touch was held until the touch ids came round again            *)
(* (start_touch does not look whether the next one is free), every finger  *)
(* followed has a slot of its own and there is no touch without a finger.  *)
FingersApart ==
  ~wrapped =>
    \A src \in TouchSources :
      LET t == st[src].touches IN
      /\ Range(ids[src]) = Range(t) \ {-1}
      /\ Cardinality(DOMAIN ids[src]) = Cardinality({i \in TouchSlots : t[i] >= 0})

(* When everything has been let go, the console is told so, however the    *)
(* sources were mixed, blocked, unplugged and removed meanwhile.  Known    *)
(* exceptions: touch ids that came round; a button held when the           *)
(* microphone button, or the touchpad it belongs to, was used or removed;  *)
(* the button of a touchpad read by Setsu until the next send.             *)
ReleasedIsIdle == down = {} /\ ~wrapped /\ ~stuck /\ ~unsent => sent = Shown(NoInput)

InputFollows == FingersApart /\ ReleasedIsIdle
=============================================================================
