---------------------------- MODULE FeedbackSender ----------------------------
(***************************************************************************)
(* The feedback sender (lib/src/feedbacksender.c) with its history buffer  *)
(* (lib/src/feedback.c): the thread that tells the console what the user   *)
(* does with the controller.                                               *)
(*                                                                         *)
(* Sticks and sensors travel in state packets, which are repeated while    *)
(* nothing happens.  Buttons, triggers and touches travel as events; each  *)
(* event is sent in a history packet together with the newest Size - 1     *)
(* events before it.  Both kinds are lost on the way; the console is       *)
(* modelled by what the packets are for: it takes the sticks from a state  *)
(* packet and replays the events of a history packet, oldest first.        *)
(*                                                                         *)
(* The user and the end of the stream are serialised by                    *)
(* feedback_sender_mutex.  The thread holds state_mutex except while it    *)
(* sleeps, also while it sends; a key is a button or a trigger, stick      *)
(* stands for all that a state packet carries.                             *)
(***************************************************************************)
EXTENDS Integers, Sequences, FiniteSets

CONSTANTS Keys,      \* buttons, L2 and R2, as numbers: their order in send_history
          Levels,    \* of a key, 0 is released
          Sticks,    \* positions of sticks and sensors
          Touches,   \* slots of the touch pad, as numbers
          Ids,       \* of touches
          Pos,       \* of touches
          Idle,      \* the stick at rest
          Size       \* FEEDBACK_HISTORY_BUFFER_SIZE

ASSUME FeedbackAssumption ==
  /\ Keys \subseteq Nat /\ Touches \subseteq Nat /\ IsFiniteSet(Keys) /\ IsFiniteSet(Touches)
  /\ Ids \subseteq Nat
  /\ 0 \in Levels /\ Idle \in Sticks /\ Size \in Nat \ {0}

VARIABLES active,       \* feedback_sender_active of the stream connection
          session,      \* controller_state of the session
          state, prev,  \* controller_state, controller_state_prev
          changed,      \* controller_state_changed
          should_stop,
          history_buf,  \* ChiakiFeedbackHistoryBuffer
          pc,           \* where the thread is
          todo,         \* events of this round that are still to be sent
          user,         \* the caller of set_controller_state or fini
          console,      \* what the console believes
          lost          \* history packets lost since the last that arrived

feedbackVars ==
  <<active, session, state, prev, changed, should_stop, history_buf, pc, todo, user, console, lost>>

None == -1
Up == [id |-> None, pos |-> None]
TouchStates == {Up} \cup [id : Ids, pos : Pos]
States == {s \in [keys : [Keys -> Levels], stick : Sticks, touch : [Touches -> TouchStates]] :
             \A i, j \in Touches : i # j /\ s.touch[i] # Up => s.touch[i].id # s.touch[j].id}
IdleState == [keys |-> [k \in Keys |-> 0], stick |-> Idle, touch |-> [i \in Touches |-> Up]]

Event(kind, what, value) == [kind |-> kind, what |-> what, value |-> value]
Events ==
  {Event("key", k, l) : k \in Keys, l \in Levels} \cup {Event("touch", i, d) : i \in Ids, d \in 0 .. 1}
Blank == Event("none", None, None)
RingSlots == 0 .. (Size - 1)

(* chiaki_stream_connection_run has not come to the feedback sender yet.   *)
FeedbackInit ==
  /\ active = FALSE
  /\ session \in States
  /\ state = IdleState /\ prev = IdleState
  /\ changed = FALSE /\ should_stop = FALSE
  /\ history_buf = [events |-> [i \in RingSlots |-> Blank], begin |-> 0, len |-> 0]
  /\ pc = "none" /\ todo = << >>
  /\ user = "idle"
  /\ console = [stick |-> Idle, keys |-> IdleState.keys, touches |-> {}]
  /\ lost = 0

-----------------------------------------------------------------------------
(* controller_state_equals_for_feedback_state, ..._history.                *)
EqualsState(a, b) == a.stick = b.stick
EqualsHistory(a, b) == a.keys = b.keys /\ a.touch = b.touch

Holds == pc \in {"test", "send"}   \* the thread has state_mutex

(* Mutant: the caller returns without a signal.                            *)
SetSilently(s) ==
  /\ state' = s
  /\ changed' = (changed \/ state # s)
  /\ user' = "idle"

(* chiaki_feedback_sender_set_controller_state up to its signal.           *)
Set(s) ==
  /\ state' = s
  /\ changed' = (changed \/ state # s)
  /\ user' = IF state # s THEN "signal" ELSE "idle"

(* chiaki_session_set_controller_state.  Bound: after the end, where it no *)
(* longer reaches the feedback sender, it is not called.                   *)
SetControllerState(s) ==
  /\ user = "idle" /\ session # s /\ pc # "ended"
  /\ session' = s
  /\ IF active THEN ~Holds /\ Set(s) ELSE UNCHANGED <<state, changed, user>>
  /\ UNCHANGED <<active, prev, should_stop, history_buf, pc, todo, console, lost>>

(* The stream connection starts the thread and gives it the state that the *)
(* session has by now.                                                     *)
FeedbackStart ==
  /\ pc = "none" /\ user = "idle"
  /\ active' = TRUE
  /\ pc' = "start"
  /\ Set(session)
  /\ UNCHANGED <<session, prev, should_stop, history_buf, todo, console, lost>>

(* chiaki_cond_signal after state_mutex was released.                      *)
Wake == IF pc = "asleep" THEN "woken" ELSE pc
Signal ==
  /\ user \in {"signal", "finiSignal"}
  /\ user' = IF user = "signal" THEN "idle" ELSE "join"
  /\ pc' = Wake
  /\ UNCHANGED <<active, session, state, prev, changed, should_stop, history_buf, todo, console, lost>>

(* chiaki_feedback_sender_fini, under feedback_sender_mutex.               *)
Fini ==
  /\ user = "idle" /\ active /\ ~Holds
  /\ active' = FALSE
  /\ should_stop' = TRUE
  /\ user' = "finiSignal"
  /\ UNCHANGED <<session, state, prev, changed, history_buf, pc, todo, console, lost>>

FiniJoin ==
  /\ user = "join" /\ pc = "ended"
  /\ user' = "idle"
  /\ UNCHANGED <<active, session, state, prev, changed, should_stop, history_buf, pc, todo, console, lost>>

-----------------------------------------------------------------------------
(* The thread: chiaki_cond_timedwait_pred with state_cond_check.           *)
Lock ==
  /\ pc \in {"start", "woken"}
  /\ pc' = "test"
  /\ UNCHANGED <<active, session, state, prev, changed, should_stop, history_buf, todo, user, console, lost>>

Sleep ==
  /\ pc = "test" /\ ~should_stop /\ ~changed
  /\ pc' = "asleep"
  /\ UNCHANGED <<active, session, state, prev, changed, should_stop, history_buf, todo, user, console, lost>>

FeedbackSpurious ==
  /\ pc = "asleep"
  /\ pc' = "woken"
  /\ UNCHANGED <<active, session, state, prev, changed, should_stop, history_buf, todo, user, console, lost>>

Expire ==
  /\ pc = "asleep"
  /\ pc' = "expired"
  /\ UNCHANGED <<active, session, state, prev, changed, should_stop, history_buf, todo, user, console, lost>>

(* The wait is over: its condition holds, or its time is up.               *)
Waited == pc = "expired" \/ (pc = "test" /\ (should_stop \/ changed))

FeedbackStop ==
  /\ Waited /\ should_stop
  /\ pc' = "ended"
  /\ UNCHANGED <<active, session, state, prev, changed, should_stop, history_buf, todo, user, console, lost>>

(* The numbers of a finite set in their order.                             *)
InOrder(S) == [n \in 1 .. Cardinality(S) |-> CHOOSE x \in S : Cardinality({y \in S : y <= x}) = n]

(* The events by which two states differ, in the order of                  *)
(* feedback_sender_send_history.                                           *)
KeysChanged == {k \in Keys : prev.keys[k] # state.keys[k]}
KeyEvent(k) == Event("key", k, state.keys[k])

(* A touch that has ended is told even if another has taken its slot; that *)
(* one is not told until it moves.                                         *)
Ended(i) == prev.touch[i].id # state.touch[i].id /\ prev.touch[i] # Up
TouchesChanged == {i \in Touches : Ended(i) \/ (state.touch[i] # Up /\ prev.touch[i] # state.touch[i])}
TouchEvent(i) ==
  IF Ended(i) THEN Event("touch", prev.touch[i].id, 0) ELSE Event("touch", state.touch[i].id, 1)

HistoryEvents ==
  [n \in DOMAIN InOrder(KeysChanged) |-> KeyEvent(InOrder(KeysChanged)[n])]
    \o [n \in DOMAIN InOrder(TouchesChanged) |-> TouchEvent(InOrder(TouchesChanged)[n])]

(* Mutant: with nothing new, nothing is sent.                              *)
SendStateOnChange == changed /\ ~EqualsState(state, prev)
SendState == changed => ~EqualsState(state, prev)
SendHistory == changed /\ ~EqualsHistory(state, prev)

(* One round up to the history: the state is sent, and arrives or not.     *)
Round(arrives) ==
  /\ Waited /\ ~should_stop
  /\ changed' = FALSE
  /\ console' = IF SendState /\ arrives THEN [console EXCEPT !.stick = state.stick] ELSE console
  /\ todo' = IF SendHistory THEN HistoryEvents ELSE << >>
  /\ pc' = "send"
  /\ UNCHANGED <<active, session, state, prev, should_stop, history_buf, user, lost>>

(* chiaki_feedback_history_buffer_push                                     *)
HistoryPush(h, e) ==
  LET b == (h.begin + Size - 1) % Size
  IN  [events |-> [h.events EXCEPT ![b] = e],
       begin  |-> b,
       len    |-> IF h.len + 1 >= Size THEN Size ELSE h.len + 1]

(* chiaki_feedback_history_buffer_format: newest first.                    *)
Format(h) == [i \in 1 .. h.len |-> h.events[(h.begin + i - 1) % Size]]

(* The console replays a packet, oldest event first.                       *)
Apply(c, e) ==
  CASE e.kind = "key"   -> [c EXCEPT !.keys[e.what] = e.value]
    [] e.kind = "touch" -> [c EXCEPT !.touches = IF e.value = 1 THEN @ \cup {e.what} ELSE @ \ {e.what}]
    [] OTHER            -> c
Replayed(c, packet) ==
  LET after[n \in 0 .. Len(packet)] ==
        IF n = 0 THEN c ELSE Apply(after[n - 1], packet[Len(packet) - n + 1])
  IN  after
Replay(c, packet) == Replayed(c, packet)[Len(packet)]

(* feedback_sender_send_history for one event.  The assumption on the      *)
(* network is in the guard: never are Size packets lost in a row.          *)
SendEvent(arrives) ==
  /\ pc = "send" /\ todo # << >>
  /\ arrives \/ lost < Size - 1
  /\ history_buf' = HistoryPush(history_buf, Head(todo))
  /\ todo' = Tail(todo)
  /\ console' = IF arrives THEN Replay(console, Format(history_buf')) ELSE console
  /\ lost' = IF arrives THEN 0 ELSE lost + 1
  /\ UNCHANGED <<active, session, state, prev, changed, should_stop, pc, user>>

RoundEnd ==
  /\ pc = "send" /\ todo = << >>
  /\ prev' = state
  /\ pc' = "test"
  /\ UNCHANGED <<active, session, state, changed, should_stop, history_buf, todo, user, console, lost>>

-----------------------------------------------------------------------------
FeedbackNext ==
  \/ \E s \in States : SetControllerState(s)
  \/ FeedbackStart \/ Signal \/ Fini \/ FiniJoin
  \/ Lock \/ Sleep \/ FeedbackSpurious \/ Expire \/ FeedbackStop \/ RoundEnd
  \/ \E arrives \in BOOLEAN : Round(arrives) \/ SendEvent(arrives)

FeedbackThread ==
  \/ Lock \/ Sleep \/ FeedbackStop \/ RoundEnd
  \/ \E arrives \in BOOLEAN : Round(arrives) \/ SendEvent(arrives)

(* The thread runs on, its deadline comes whatever wakes it up before, and *)
(* packets that are sent again and again arrive at last.                   *)
Fairness ==
  /\ WF_feedbackVars(FeedbackThread) /\ WF_feedbackVars(Signal) /\ WF_feedbackVars(FiniJoin)
  /\ SF_feedbackVars(Expire) /\ SF_feedbackVars(Round(TRUE))

FeedbackSpec == FeedbackInit /\ [][FeedbackNext]_feedbackVars /\ Fairness

-----------------------------------------------------------------------------
(* Types; the history never exceeds its ring.                              *)
FeedbackTypeOK ==
  /\ active \in BOOLEAN /\ changed \in BOOLEAN /\ should_stop \in BOOLEAN
  /\ session \in States /\ state \in States /\ prev \in States
  /\ history_buf.events \in [RingSlots -> Events \cup {Blank}]
  /\ history_buf.begin \in RingSlots /\ history_buf.len \in 0 .. Size
  /\ pc \in {"none", "start", "test", "asleep", "woken", "expired", "send", "ended"}
  /\ \A i \in 1 .. Len(todo) : todo[i] \in Events
  /\ user \in {"idle", "signal", "finiSignal", "join"}
  /\ console.stick \in Sticks /\ console.keys \in [Keys -> Levels] /\ console.touches \subseteq Ids
  /\ lost \in RingSlots

(* No change and no stop is slept over: while the thread sleeps and there  *)
(* is something to do, the signal is under way.                            *)
NoOversleep == pc = "asleep" /\ (changed \/ should_stop) => user \in {"signal", "finiSignal"}

(* Between rounds: the history packet that arrived last made up for those  *)
(* lost before it.  The console knows what keys are down, and no touch     *)
(* stays down on it that the user has ended.                               *)
ConsoleCatchesUp ==
  pc # "send" /\ lost = 0 =>
    /\ console.keys = prev.keys
    /\ console.touches \subseteq {prev.touch[i].id : i \in Touches}

(* What the user did is sent without delay, and the console makes the same *)
(* of it.                                                                  *)
InputArrives == NoOversleep /\ ConsoleCatchesUp

(* When the user leaves the controller as it is, the console gets the      *)
(* position of the sticks at last, whatever was lost.                      *)
SticksSettle ==
  <>[]active /\ <>[][UNCHANGED session]_feedbackVars
    => <>[](console.stick = session.stick)
===============================================================================
