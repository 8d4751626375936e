# A verification project for Chiaki

Chiaki is a client for the remote play protocol of game consoles.  Its library (`lib/`) finds a
console, registers with it, opens a session, over the local network or through the internet, and
then exchanges a stream of video, audio, controller input and control messages with it over UDP.
The desktop client (`gui/`) manages consoles and sessions and reads the input devices.  This
directory holds TLA+ models of the parts whose correctness depends on orders of events that tests
hardly produce: threads that share a structure, messages that are lost or overtake each other,
numbers that wrap around, waits that time out, objects replaced while their events are still queued.
TLC checks the models on small instances; TLAPS proves the theorems about some of them for every
value of their constants.

Contents: 1 inventory, 2 modules and code, 3 runs, 4 fairness, 5 proofs, 6 disagreements and
observations, 7 what is not modelled, 8 plan.

## 1. Inventory

### The parts and how they interact

    Client (gui): discovery manager, backend, stream session, input devices (Setsu)
       |-- Discovery service (one thread for each; lists)
       |-- Registration      (thread; TCP or RUDP)
       |-- Hole punching     (PSN web socket, STUN, candidates) -> RUDP, sockets
       `-- Session -> Ctrl            (control channel over TCP or RUDP: login, session id, ...)
              |----> Senkusha         (measures MTU and round trip time over its own Takion)
              `----> StreamConnection
                    |-- Takion ------- send buffer (re-send thread)
                    |      |  |------- reorder queue of data messages
                    |      |  `------- key positions, GKCrypt (key stream thread)
                    |      `-- callbacks: events, data messages, audio/video packets
                    |-- Video receiver -- frame processor, FEC --.
                    |-- Audio receivers ------------------------- packet statistics
                    |-- Congestion control (thread) <------------'
                    `-- Feedback sender (thread) <--- input

| Part | State it keeps | Operations | Shared with, or called by | What is hard about it | What makes it correct |
|---|---|---|---|---|---|
| Sequence numbers (`seqnum.h`) | none | `lt`, `gt`, addition modulo 2^16 or 2^32 | every queue | numbers half the range apart are ordered neither way | comparison is right for all distances below half the range |
| Reorder queue (`reorderqueue.c`) | ring of entries with a flag, `begin`, `count`, drop strategy | init, push, pull, peek, drop, fini | Takion thread | ring index and number wrap around at different places; stale entries outside the window | an element has one owner; it is delivered under its own number, once |
| Takion send buffer (`takionsendbuffer.c`) | array of packets with number, tries, time of last send; `should_stop` | push, ack, re-send thread, fini | senders of data messages, Takion thread | acknowledgement while the re-send thread scans; give-up with the mutex released; fini | no packet leaked or freed twice; each reported acknowledged at most once; re-sending ends |
| GKCrypt (`gkcrypt.c`) | ring of key stream, window `key_pos_min`/`populated`/`start_offset`, `last_key_pos`, stop flag; current MAC key | init, get key stream, generator thread, MAC, encrypt, fini | Takion thread and every thread that sends | the chunk is written with the mutex released; the ring rotates, wraps and skips; MACs are made in another order than positions were taken | key stream and MAC key are those of the position; no wake-up lost |
| Key positions (`ChiakiKeyState`, `key_pos_local`) | last position whose MAC was right; next position to send with | request, commit; advance | Takion thread; senders | 32 of 64 bits are transmitted; reordering over a wrap-around | no genuine packet rejected; no position used twice |
| Takion (`takion.c`) | socket, tags, sequence numbers, data queue, postponed packets, crypt mode, stop pipe | connect, close, send (data, ack, congestion, feedback, raw), thread: handshake, receive, MAC, dispatch | everything above; senders on several threads | handshake with timeouts and retries; packets before the keys are set; end of the thread | messages in order, once, and acknowledged |
| Packet statistics, congestion control | counters of generations and of sequence numbers; `stop_cond` | push generation, push number, get and reset; start, thread, stop | Takion thread, congestion thread | counters shared by two threads, half of them without the mutex | every unit in exactly one report |
| Frame processor, FEC, video receiver | unit slots of the frame under construction, statistics, reference frames | alloc, put unit, flush; AV packet, flush frame | Takion thread | lost, late and repeated units; corrupt frames | a frame handed on is complete or recovered; a missing one is reported |
| Audio receiver | last frame index, statistics | stream info, AV packet | Takion thread | redundant units of earlier frames | every frame at most once, in order |
| Feedback sender (`feedbacksender.c`, `feedback.c`) | controller state and the last one sent, history ring | set state, thread, fini | client, Takion | changes while sending; ring of 16 events | every press and release reaches the console |
| Stream connection (`streamconnection.c`) | state, `state_finished`, `state_failed`, `should_stop`, `remote_disconnected`, receivers, threads | run, stop, Takion callbacks, senders | session thread, Takion thread, user | four timed waits against callbacks, disconnect and stop; tear-down in the right order | a stop ends it; nothing used after free; the result says what happened |
| Senkusha (`senkusha.c`) | state, expected pings, MTU bounds | run: connect, RTT test, MTU tests | session thread, Takion thread | timeouts, late answers | terminates; sizes found do pass |
| Session and Ctrl (`session.c`, `ctrl.c`) | stop and failure flags, session id, login state, quit reason; socket, counters, message queue | start, stop, join, set login PIN; ctrl thread | client, two threads | stop at each step, PIN retries, two mutexes | quit event once, last, with a true reason; join returns |
| Registration (`regist.c`) | stop pipe, target | search, request, response | client | timeout against stop | event once, success only when it is one |
| Discovery service, discovery manager | known hosts with the ping each was last seen at; queued lists | thread: ping, timeouts, response; fini; start and stop, manual hosts | client | expiry against answers; lists queued for another thread | callback exactly when the list changed; nothing shown for good that is gone |
| RUDP and its send buffer (`remote/rudp*.c`) | counters, packets in flight | init, cookie, session messages; control messages, ack, re-send | registration, ctrl | repeated requests, two senders, re-sending | answers belong to requests; messages kept until acknowledged |
| Hole punching (`remote/holepunch.c`) | state bits, notification queue, sockets per port, flags for a cancel | create, start, punch hole, delete; web socket thread | client thread, worker, session thread | notifications repeated, late, for another port; cancel anywhere; sockets that change hands | a hole per port with its own offer; a cancel is heeded; no socket closed twice |
| Candidates, STUN (`holepunch.c`, `stun.h`) | candidates, requests and answers; ports seen | check candidates; ask servers, predict | hole punching | repeated and late answers; ports that wrap around | what is selected has answered; the next ports are offered |
| Client sessions (`qmlbackend.cpp`, `streamsession.cpp`) | current session, timers, sleep state, tokens | connect, stop, quit, retry, sleep and resume, PSN connect in a worker, token refresh | main thread, worker, library threads | signals queued for a session that is no longer current | a signal meets its own session; a stopped session goes |
| Client input (`controllermanager.cpp`, `streamsession.cpp`, `controller.c`) | state per source, touch ids, blocked flag | every device event, union, send | main thread | several sources, ids that wrap around, sources removed while pressed | what is let go is released |
| Setsu (`setsu.c`) | device list, slots per device | poll, connect, disconnect, events | client | frames dropped, devices exchanged | touches told down are told up, once |
| Ciphers, HTTP, launch spec, codecs, orientation | -- | straight-line computation and adapters | -- | nothing a model checker reaches | -- |
| Settings and user interface, `android`, `switch`, `cli`, `steamdeck_native` | -- | -- | the library | -- | -- |

The hazards that follow from this list are in `PROJECT.json` under `hazards`, each at its line and
with the properties that would notice it going wrong; the one that no property covers says why.

## 2. Modules and code

Every module begins with a comment on what it abstracts from.  Definitions keep the names of the
code; `PROJECT.json` maps each to its lines.  Names of the form "... mutant" in comments mark
variants of a definition with a plausible bug; they show that the properties can fail and are used
by nothing else.  Common conventions: work done under a mutex without releasing it is one step;
what is done with the mutex released, or without taking it, is a step of its own; a thread in a
condition wait is `asleep`/`wait`, is moved on by a signal, by its timeout or spuriously, and then
tests its predicate again as `chiaki_cond_timedwait_pred` does (a timeout ends the wait without
looking at the predicate); a signal to a thread that is not waiting has no effect.

* **SeqNum** -- the macro of `seqnum.h` for a range of `2 * Half` numbers.  `SeqLt(a, b)` is the
  code's two cases, not "the distance is small"; that it means this is a lemma.

* **ReorderQueue** -- `begin`, `count`, and per ring slot the flag (`set`) and the element
  (`user`), which outlive the window exactly as in the code.  `fate` and `tag` are history: who
  owns an element, and under which number it was pushed.  `Push` has one disjunct per return of
  `chiaki_reorder_queue_push`; the drop loop and the loop that moves the end are given by the
  number of rounds they make.  Sequence numbers start anywhere and any number can be pushed next.
  `chiaki_reorder_queue_drop` is left out: its only caller first passes `peek` a NULL for the
  number, which `peek` writes to, and never gets as far as dropping.

* **TakionSendBuffer** -- two senders (a data message is sent first and pushed afterwards), the
  Takion thread that handles acknowledgements and finally frees the buffer, the re-send thread, and
  time.  `buf` says who owns the memory of each message.  The give-up is four steps, because it
  releases the mutex, reads the slot, and acknowledges.  `Tick` makes packets older and the `now`
  of a scan (`late`) staler.

* **SendBufferAck** -- the loop by which `chiaki_takion_send_buffer_ack` compacts its array while
  scanning it, one iteration per step, against its specification: the packets that are not
  acknowledged, in order.  TakionSendBuffer uses that specification as one step.

* **KeyBuffer** -- positions are counted in cipher blocks and a cell holds the position of the key
  stream stored in it, or `Garbage` while it is being written; `ReadsRight` is then about the
  index arithmetic of the two `memcpy` calls of a reader.  The generator releases the mutex while it
  writes; readers move `last` meanwhile.

* **KeyState** -- the console's 64-bit position with its low half transmitted; the network loses,
  reorders, repeats and damages packets.  The MAC is ideal: it matches exactly when the position
  was completed to the one the console used.  The network assumption is a guard of `Send`: no
  packet still under way, nor the last one taken, is half the low range (2^31 bytes) behind.

* **CongestionControl** -- `packetstats.c` and `congestioncontrol.c`: counting by the Takion thread,
  with `push_seq`, which takes no mutex, as a load and a store; collecting field by field; the
  report with its cap and its truncation to 16 bits; the stop.  `Wide` stands for 2^64, to which
  the difference of two 16-bit numbers is converted.

* **StreamConnection** -- `chiaki_stream_connection_run` with its four timed waits, its labels and
  its failures; the callbacks of the Takion thread, which hold `state_mutex` throughout; stop and
  fini.  The console and Takion's delivery in order are external and modelled from how the
  callbacks use them.  `info` and `early` are history.

* **VideoReceiver** -- `videoreceiver.c` with `frameprocessor.c`.  Everything runs on the Takion
  thread, so one packet is one step; the operators named after the C functions take the record `vr`
  of both structures and return it changed.  A unit is known by the true number of its frame, so
  that `WholeFrames` can tell units apart whose 16-bit indices are equal; `at`, `decoded`,
  `pending`, `header` and `sample` are history.  Erasure decoding is ideal.  What the parser says of
  the reference of a slice, whether it could be rewritten, and whether the decoder took the frame
  is chosen freely.  The network assumption is a guard of `SendFrame`: some frame is decoded in
  every half of the indices (32768 frames), and none is so long among the reference frames that its
  index comes up again.

* **FeedbackSender** -- `feedbacksender.c` with the ring of `feedback.c`, from
  `chiaki_session_set_controller_state` and the start by the stream connection to fini.  The thread
  holds `state_mutex` except while it sleeps; each history packet is a step, because each may be
  lost.  The console is modelled by what the packets are for: it takes the sticks from a state
  packet and replays a history packet, oldest event first.  The network assumption is a guard of
  `SendEvent`: `Size` history packets (16) are never lost in a row.

* **StreamRun** -- what the stream connection promises to the session thread: it returns once, and
  what it returns says what happened.  `Implements` is the refinement of it by StreamConnection, and
  Session relies on StreamRun instead of on the detailed module.

* **Takion** -- the Takion thread: handshake, one packet after the other, postponed packets, the data
  queue with its acknowledgements, close and end.  The queue is the set of its numbers, as
  ReorderQueue shows it to be.  The network loses, repeats and reorders; the console keeps a window
  and repeats what was not acknowledged.  `tpc = "crashed"` is what happens at `takion.c:905` (see
  section 6).
* **ReliableStream** -- what a connection promises for data messages: every one, once, in order,
  while it is open.  `IsReliable` is the refinement of it by Takion, liveness included.
* **TakionCrypt** -- what every sender does about keys: it takes a key position under one lock and
  makes its MAC under another hold of it, so that others come in between, the MAC key is refreshed
  and an older one is made again; feedback and microphone packets do both at once and encrypt.
  A key is known by what it is derived from, a byte of the key stream by its position.

* **AudioReceiver** -- an audio packet's own frames and those it repeats.  Frames have their true
  number beside the 16 bits the code sees.

* **Senkusha** -- the thread that measures round trip time and the two MTUs by bisection, and its
  callback, with answers lost, late and repeated.  `disturbed` is history: an answer was.

* **Session** with **Ctrl** -- the session thread from the session request over the login, Senkusha
  and the stream to QUIT; the ctrl thread with its select, its pipe and its message queue; the
  registration thread of a PSN connection; a user who enters PINs and may stop.  `state_mutex` is
  `locked` where the session thread holds it between two steps, `notif_mutex` is a function of where
  the ctrl thread is, so that the two orders in which they are taken are in the model.

* **Regist** -- the registration thread with the search, the request over TCP or RUDP and the answer.
  Every wait that looks at the stop pipe may be canceled, and prefers that as the code does.

* **DiscoveryService** has the operations on a list of consoles (a module of operators), and
  **DiscoveryManager** the services for IPv4, IPv6 and a manual host, whose lists are queued for the
  main thread, starting, stopping, changes of the settings and wake-ups.

* **Rudp** -- exchanges of request and answer repeated after a timeout, then control messages of two
  threads, numbered by a counter that is read again after its mutex was released, kept in the send
  buffer, and sent again by its thread until they are acknowledged or given up.  The buffer is the
  set of its packets; those of one number are told apart by the message they carry.

* **Holepunch** -- create, start, punch_hole for each port and fini, the web socket thread, the
  notification queue and a user who cancels.  PSN owes notifications and delivers them in any order
  or never.  `kept`, `open` and `dropped` follow every socket.  **Candidates** is
  `check_candidates` in detail, **Stun** the prediction of ports with the NAT made explicit
  (steps of one size, through the last port and around the reserved ones).

* **Backend** -- `qmlbackend.cpp` with the life of its `StreamSession` objects: connecting at home and
  through PSN (worker thread), retries, stopping, sleep and resume, the reconnect timer with its
  token requests.  `posted` holds the signals not handled yet, with the session that sent them.

* **Input** -- the states of game controller, keyboard and mouse, touch screen and touchpads, their
  union and what is sent of it.  Player and devices press, touch, are plugged in and out and
  blocked in any order.  `stuck`, `wrapped` and `unsent` name the cases in which the code is known
  to go wrong.  **Setsu** reads touchpads: udev's queue, the list of devices, the slots of the
  multitouch protocol, and what the callback is told.  `dev` is what Setsu keeps of an open device,
  `evdev` what the kernel and libevdev hold of it: frames not read yet, or the note that some were
  lost, for which libevdev makes up the difference between the slots it knew and those of the pad.

`MC*` modules only add what TLC needs: symmetry sets and definitions for constants; the two runs that
need neither name the component's module with a configuration `MC*.cfg`.  A run that
holds several components has a variable `part` that says which one a behaviour is about; the
others rest in their initial states.  Such components share no state, so that nothing is lost by
looking at them one at a time, and their state spaces add up instead of multiplying.  Components
that do interact are composed: Ctrl is extended by Session, the receivers and threads are part of
StreamConnection, and what a session needs of a stream is StreamRun.  `*Proofs` modules hold
theorems.

## 3. Runs

| Run | Properties | Bounds and why they are enough |
|---|---|---|
| `reorder_queue` | `Ownership`; `Labelled`; `BeyondIsGe` | 16 numbers, ring of 4, 4 elements, every begin: windows wrap around both the numbers and the ring, numbers jump beyond the ring and behind the window, stale entries are passed over |
| `send_buffer` | `PacketsKept`; `RetryEnds` | 3 messages, 2 slots (so the buffer overflows), one retry, numbers that wrap at the second message, two senders that may push in the wrong order |
| `send_buffer_fini` | violated: `FiniJoins` | the same |
| `keys` | `ReadsRight`; `GeneratorAnswers`; `NoneRejected`; `SentUnderOwnKey` | ring: 3 chunks of 2 blocks, positions up to 13, two readers: it goes around twice, rotates and skips. Positions: low halves of 12 numbers up to 40: three wrap-arounds, each in both directions. Packets: two threads and the feedback, 4 packets, blocks of 4, a MAC key for every 8, up to the last position |
| `media` | `Covered`; `DecoderFed`; `AudioInOrder`; `ReportsRight` | video: 2 data and 2 redundant units, 8 indices and 10 frames (so the index wraps around), packets up to 2 frames late, a change of profile at frame 4, 2 reference frames. Audio: one frame of its own and two repeated in a packet, 30 frames over 8 numbers. Statistics: 8 sequence numbers, 3 audio packets, 2 frames, several collections between them |
| `congestion_control_overflow` | violated: `DiffOverflows` | 6 sequence numbers |
| `feedback` | `InputArrives`; `InputFollows`; `TouchpadsFollow`; `SticksSettle` | sender: one key, one touch slot with 2 ids and 2 positions, 2 stick positions, a history of 2 events, any number of inputs. Input: three fingers over 2 touch ids, 4 presses. Touchpad: one pad of 2 slots, 3 touches, plugged in or out 4 times, 3 queued frames |
| `takion` | `AckAccounted`; `AvInOrder`; `Compacted`; `IsReliable` | 4 data messages through a queue for 3 (so that the console is ahead of it), the first makes the keys, 2 audio/video packets with space to postpone one. Compaction: every array of 5 numbers out of 6 and every acknowledged number |
| `session` | `ReasonIsTrue`; `ToldOnce`; `StopEnds`; `HeartbeatAnswered` | one PIN, one message of another thread, one message of the console beyond the login, one address; at home and through PSN, a stop at every point |
| `client` | `RunInOrder`; `Implements`; `ToldIsKnown`; `GoneIsNotShown`; `SuccessIsDeserved`; `MtuIsRight`; `SessionsInOrder`; `CallsEnd` | stream: one BANG, STREAMINFO, DISCONNECT and stop, every failure. Discovery: 2 consoles, lists of one, dropped after one ping, one queued list. Registration: 2 stray packets. Senkusha: sizes 2 to 5, 2 retries. Sessions: 3 of them, one connect, one sleep, 2 reconnects |
| `stream_connection_info` | violated: `InfoNotMissed` | no failures |
| `remote` | `PunchedForPort`; `SocketsKept`; `CancelHeeded`; `HolepunchEnds`; `ThriceAnswered`; `PortPredicted`; `RudpDelivers` | hole punching: both ports, one repeated offer, one cancel. Candidates: two offered, one stranger, one retry, 4 packets. STUN: 31 ports, steps from -1 to 3, beginning with the first and the last ports, 6 servers, 6 random guesses. RUDP: 7 exchanges of 4 types, 2 tries, a send buffer of 2, 2 messages of each thread |

What they show, in short.

* The reorder queue hands every element to exactly one party, and pull returns for a number the
  element pushed under it, whatever the order of pushes.  While the send buffer lives no packet is
  leaked or freed twice, an acknowledgement is reported once, the re-send thread never sleeps
  without a timeout on a buffer with packets, and every packet leaves the buffer at last.
* Key stream served from the ring is right while a chunk is being written, and the generator never
  misses a reader that ran beyond it, nor sleeps over a request or the end unless a signal is due.  Key positions are completed correctly through wrap-arounds
  and back.  No two packets use the same positions, and each has the MAC key of its own, however
  the senders overtake each other; a packet caught between its two halves by the keys being set
  is the one exception.
* A video frame is decoded or reported, whatever is lost, late or refused; the decoder gets whole
  frames only, after the header of their profile, with the references they need.  Audio is in
  order, and its redundant units are never used.  Units are reported once.
* One history packet makes up for fewer than 16 lost before it.  What is let go is released at the
  console whatever sources were mixed, apart from the named cases; touches read from a pad are told
  down and up once each, also when the kernel drops frames.
* A Takion connection is a reliable stream of data messages as long as it lasts, and what it has
  delivered is acknowledged, but for an acknowledgement lost on the way.  A stream connection that is
  stopped returns, uses nothing after it was freed, and returns an error that says what happened;
  the one path on which congestion control outlives Takion is named by `TornDownInOrder`.
* A session's QUIT is its last event and its reason is true.  A stop ends it, unless one of three
  hangs happens, each of which is a named predicate (`RegistDeadlock`, `PinDeadlock`, `StopLost`).
* A service has told what is in its list; a console that is off is not shown for good, unless its
  list was queued when discovery stopped.  Registration reports a success only when it is one;
  Senkusha never finds a size that does not pass; no signal is handled for another session than its
  own.
* A hole is punched with the offer for its port, unless an offer came again after its ACCEPT; a
  canceled connection never streams; no socket is closed twice or shared; every session ends or hangs
  in one of three named ways (`Hangs`).  What is selected has answered three times.  Ports are
  predicted right when the NAT steps evenly and not too far.  An answer over RUDP is that to its
  request unless an earlier request of its type was repeated, and a control message stays in the buffer until it was
  taken, given up, or refused in one named race.

Where a property names an exception ("unless ..."), the code fails the property without it; the
exceptions are among the observations of section 6.

Deadlock is not checked where the system may really stop (all elements used, connection closed,
thread joined, session gone); the liveness properties say what must happen before.

## 4. Fairness

* `TakionSendBuffer`: weak fairness of the re-send thread, of fini once begun, of a push once the
  message was sent, and of time; strong fairness of the expiry of a timed wait, because its
  deadline is absolute (`thread.c`, `chiaki_cond_timedwait_pred`) and spurious wake-ups do not put
  it off.  Nothing forces the console to acknowledge, or the connection to end.
* `KeyBuffer`: weak fairness of the generator, of a reader's pending signal and of fini.  Nothing
  forces a request, nor does the cipher have to fail.
* `StreamConnection`: weak fairness of run, of its sleeping and waking, of the delivery of what has
  arrived, and of the end of the Takion thread once its stop pipe is stopped; strong fairness of
  stop's taking the mutex, which others hold for short critical sections again and again.
* `FeedbackSender`: weak fairness of the thread, of a signal that is due and of the join; strong
  fairness of the expiry (an absolute deadline) and of a state packet's arriving when it is sent
  again and again.  Nothing forces the user to do anything.
* `Takion`: weak fairness of the thread (its selects have timeouts) and of the console's
  repetitions; strong fairness of the arrival of a message that is repeated until acknowledged.
* `Session` with `Ctrl`: weak fairness of both threads, of the expiry of timed waits, of the
  registration and of the stream once it was stopped (StreamRun).  Nothing is assumed of the
  console, the user or the sockets: a select without timeout may last.
* `Regist`, `Senkusha`, `Holepunch`: weak fairness of the threads; what blocks in them has a timeout,
  and where it has none the model lets it block (`Hangs`).  PSN may never deliver.
* `DiscoveryManager`: a service pings as long as it runs (strong fairness makes up for the bound on
  queued lists, which the code does not have) and the main thread gets to its events.
* `Backend`: the main thread gets to its events and timers, requests are answered, and the library
  ends a session that was stopped (`StopEnds` of Session).

## 5. Proofs

TLAPS proves these for every value of the constants that satisfies the assumptions named in the
modules.  A `*Proofs` module extends the modules of the components it is about.  Each theorem of the
form `Spec => []Inv` rests on an invariant that every step keeps, named below.

* **SeqNumProofs** (`HalfAssumption`: `Half` is positive).  Facts about a number and its distance
  from another: `SeqLt` and `SeqGt` say that the distance is below half the range in one or the
  other direction, adding is inverse to measuring the distance.  `Least` (every non-empty set of
  naturals has a least element, from the well-foundedness of `<`), `Induction` and `Recursion` (a
  function defined by recursion over the naturals satisfies its equation) are what the inductions
  of the other modules rest on.
* **ReorderQueueProofs** (the ring is at most half of the numbers, and divides them; both hold of
  the code, where both are powers of two).  The inductive invariant is
  `TypeOK /\ Held /\ Accounted /\ LastOccupied`.  `Ownership` alone is not inductive: the ring
  keeps flags and pointers of elements that have left, so `Held` says of each occupied slot *of the
  window* that its element is owned by the queue and carries the number that belongs to the slot,
  and `Accounted` that every element owned by the queue is in such a slot.  The argument for `Push`
  beyond the end rests on `PushBeyondShape` (what the two loops leave: the new window is the rest of
  the old one, cleared slots, and the element pushed) and on `SlotsDistinct` (numbers of a window
  occupy different slots).  Results: `TypeCorrect`, `OwnershipHolds`, `LabelledHolds`,
  `LastOccupiedHolds`, the action property `LeavesOnceHolds`, and `BeyondIsGeHolds`, which needs
  the types only.
* **TakionSendBufferProofs** (fewer messages than half of the numbers).  `PacketsKept` relates the
  memory of each message to the live slots.  The invariant says who has a message: nobody, the one
  sender that is about to push it, or the one slot with its number (`Held`, `Owned`); a message
  reported acknowledged was acknowledged and has been freed (`Reported`); the buffer is torn down
  only after the re-send thread has ended (`Torn`), which decides how long to sleep with the mutex
  held (`Decided`).  `CompactKeeps` is the lemma on acknowledgements: whichever packets they remove,
  the array keeps the others, each once.  Results: `SendBufferTypeCorrect`, `PacketsKeptHolds`.
* **TakionProofs**.  A connection over a network that loses, repeats and reorders.  `DataInv`: the
  callback got exactly the messages before `begin`, the queue has none of them and not `begin`
  itself (that is what `PulledIsARun` says of flushing the queue).  `AckInv`: nothing is
  acknowledged that was not delivered.  `AvInv`: whenever a packet is handled with the keys, none is
  postponed any more.  Results: `TakionTypeCorrect`, `AckAccountedHolds`, `AvInOrderHolds`, and
  `TakionRefinesStream`, by which each step is one of ReliableStream, or none: the safety part of
  `IsReliable`.  For the compaction of the send buffer (any size) the invariant relates the array
  during the scan to the original: the kept prefix is the selection of the packets scanned, the rest
  is shifted by the number removed.  Results: `AckTypeCorrect`, `CompactedHolds`.
* **KeysProofs**.  KeyBuffer (any chunk size, at least two chunks): `IInv` adds to the types that the
  window is aligned to chunks and that each cell of the window holds the key stream of its
  position, the chunk being written excepted; `ChunkFits` and `NextChunk` are the ring arithmetic.
  Results: `KeyBufferTypeCorrect`, `NeverAheadHolds`, `ReadsRightHolds`, and `SignalDueHolds`, the
  safety part of `GeneratorAnswers`: whoever made the generator's predicate true still has to signal.  KeyState (any width):
  `RequestPosCorrect` says that for positions less than half the low range apart, completing the low
  half of one with the other gives it back; `NoneRejected` follows with the invariant
  `KeyStateTypeOK /\ Near`, by which `prev` too stays within the lag of the newest packet.  Results:
  `KeyStateTypeCorrect`, `NoneRejectedHolds`.  TakionCrypt (any block size, refresh and number of
  senders): positions taken lie apart from each other and behind `key_pos_local`, those sent and
  those a sender still holds (`Behind`, `AllApart`), and the MAC key of the moment is that of its
  index (`KeyMade`).  Result: `SentUnderOwnKeyHolds`.
* **SessionProofs** (any number of addresses, PINs and messages).  The ctrl thread has been joined
  at QUIT (`Threads`); a PIN is with the user, with one of the two threads, or sent (`PinsCounted`);
  each reason rests on what happened from the step that sets it on (`ReasonFounded`).  Results:
  `ToldOnceHolds`, `ReasonIsTrueHolds`.  The parts of a connection through the internet:
  + hole punching, for any number of notifications and cancels.  `CancelInv`: once canceled, a cancel
    is pending in the flags or on the pipe, or the session is leaving (`CancelHeededHolds`).  `SocketInv`
    says which ports name which sockets at each place, and that what is open is named or dropped
    (`SocketsKeptHolds`).  `PunchInv`: the offers in the queue are in the order of the ports, one
    that came before the ACCEPT of its port is found first and cleared with it (`PunchedForPortHolds`);
  + candidates: what is counted for an address are answers it has given, in their order
    (`CandidateInv`, `ThriceAnsweredHolds`);
  + STUN, any ports, NAT and guesses.  `PortInv`: the ports seen are one step apart, but for at most
    one answer missed; from it four of them give the step (`FourPorts`), also around the reserved
    ports, and `WalkIs`, an induction over the ports offered, says that a row of guesses has the
    next two (`PortPredictedHolds`);
  + RUDP, any exchanges and numbers of tries and messages.  `ExchangeInv` bounds the answers under way
    by the requests sent, so that without a repetition those of an exchange are used up when it ends;
    `ControlInv` keeps track of each number by where its message is (`RudpDeliversHolds`).
* **ClientProofs**.  Stream connection: `RunInv` relates what run has set up to where it is, with all
  its failures.  Results: `RunInOrderHolds`, and `RunImplements`, the safety part of `Implements`.
  Registration: what the thread knows of the answer where it is (`SuccessIsDeservedHolds`).
  Discovery, with any consoles: what was told is what is in the list, for services that run
  and that do not (`ToldIsKnownHolds`), and a list keeps to its size and the age of its hosts
  (`DiscoveryTypeCorrect`).  Senkusha, with any bounds and MTU: both searches keep the
  size they look for between their bounds (`MtuIsRightHolds`).  Backend: the signals queued follow
  from what the one living session does (`Queued`), so that none is left when it is replaced; and
  each session that may still be made was asked for (`AskedInv`).  Result: `SessionsInOrderHolds`.
  Input, with any number of fingers, slots and presses: `InputInv` relates each source to what is
  down at it.  A finger that is down has one slot of its own (`Matched`), every touch and button of a
  source is held by something that is down, or is one of the named exceptions (`FingersDown`,
  `ButtonsDown`, `MouseDown`), and what was sent is the union of the sources (`SentIs`).  Result:
  `InputFollowsHolds`.
  Setsu, with any number of touchpads, slots, touches, plugs and queued events.  `SetsuInv` has four
  parts: each touch on the pads has an id of its own (`PadsRight`); what is plugged in is listed or
  udev is about to tell of it, and the other way round (`ListRight`); what is open is listed, and
  plugged in unless its removal is about to be told (`OpenRight`); and the events queued for an open
  device take its slots and the touches told to where the pad is, or, when frames were lost, what
  libevdev knows is what Setsu knows, so that the difference does (`ReadRight`).
  `TouchesTold` says this of empty queues only and is not inductive.  A frame, the slots of
  a device and the list are gone through by folds, each with its induction (`FoldExists`, and `Induction`
  of SeqNumProofs).  `Drained`: the order of the slots does not matter, since no touch that ended
  in one is on the pad in another.  `DownFrame`, `MoveFrame` and `UpFrame`: one more frame in
  the queue takes the device to the pad's next state.  `HandledDifference`: an overflow
  is made up for, whether libevdev tells it in one frame or in two.  `ListAfter`: what a poll makes
  of udev's events, in any order.  Result: `TouchpadsFollowHolds`.
* **MediaProofs** (any width, units, frames, packets, keys and touches).  Packet statistics: what was reported and
  what is counted add up, and a push in progress has read at least what was counted since the reset
  (`ReportsRightHolds`).  Audio: by induction over the units of a packet each leaves the receiver in
  step with the newest frame played (`AudioInOrderHolds`).  Video: `ReceiverInv` says that the slots
  have units of the current frame only and the counters count them, that `refs` are the indices of
  the frames decoded, that only the current frame is not accounted for, and that between packets
  a frame that can be flushed lacks units.  Results: `CoveredHolds`, `DecoderFedHolds`.  Feedback:
  `SenderInv` says of each key and touch that the newest event of the ring about it is right (what the
  last round said, or due to be corrected by an event not yet sent), and that what the console
  believes is right unless a packet it missed spoke of it (`Known`).  `InOrderIs` (no key or touch that
  changed is left out), `Formatted` (the ring shifts by one) and `ReplayIs` (the console ends with
  the newest event, by induction over the packet) are the lemmas.  Results: `InputArrivesHolds`, `FeedbackTypeCorrect`.

Five of the assumptions were found by proofs that failed without them.  The instances of section 3
satisfy them, and those on constants hold of the code's:

* `AudioAssumption`: the units of a packet, two numbers of four bits, are fewer than half of the
  frame numbers; a repeated frame would else be taken for a new one.
* `VideoAssumption`: packets come late by less than half of the frame indices.
* `SendFrame` (VideoReceiver): no frame is still among the reference frames when its index comes up
  again.  With two reference frames that follows from one frame being decoded in every half of the
  indices; with the sixteen of the code it is an assumption of its own, for a stream of which only
  one frame in thousands can be decoded.
* `SenkushaAssumption`: the bounds are at least two apart, else the first size tried is the largest.
* `GuessesAssumption` (Stun): the ports guessed are few among all ports and among the reserved ones.
  With it goes `StepsShort`, a condition of `PortPredicted`: when one answer was missed and the ports
  went past the last one, a NAT that steps further than the row of guesses is predicted wrong.

Only model-checked: all liveness, and the liveness part of the two refinements (leads-to under
fairness, and ENABLED, are beyond the prover).  Every invariant of the runs is proved.  Type
invariants are stated in the modules with the most intricate state (`TypeOK`, `TakionTypeOK`,
`CtrlTypeOK` and so on); those named in the results above are proved, the others hold on the
instances of section 3 and can be named in their configurations.  The library's induction theorems
take an operator as a parameter, which the provers cannot instantiate; inductions here are over a
set of numbers, by a least counterexample.  That a fold has the recursive form its definition gives
it is proved for each fold anew (for Setsu with `FoldExists`).  No module declares a RECURSIVE operator.

## 6. Disagreements and observations

Three are runs that expect a violation, with an entry of `findings` that has both lines:

* `send_buffer_fini` (`takionsendbuffer.c:70`): fini sets `should_stop` and signals without the
  mutex.  The signal can fall between the re-send thread's test and its sleep on the empty buffer,
  and the join then never returns.
* `congestion_control_overflow` (`packetstats.c:64`): after a wrap-around the difference is near
  2^64, not the 16-bit distance that "overflow on purpose" asks for.
* `stream_connection_info` (`streamconnection.c:418`): STREAMINFO that arrives before run has woken
  up from BANG is dropped.

Others are known from modelling; they have no run of their own:

* `reorderqueue.c:82` asserts `ge(seq_num, end)`; a number exactly half the range ahead of an empty
  window is neither before nor after it.  `BeyondIsGe` says that this is the only one.
* `reorderqueue.c:172`: drop hands the element to the callback and leaves it in the window.
* `takionsendbuffer.c:251`: a give-up reads the slot after it has released the mutex, where another
  packet may be by then, and can store several acknowledged numbers through a pointer to one.
* `takion.c:579`: a push can come after the Takion thread freed the buffer (`PushFreed`).
* `takionsendbuffer.c:243`: a packet pushed during the give-up of a scan is newer than the scan's
  `now`; the unsigned difference is enormous and it is sent again at once.
* `packetstats.c:46`: `push_seq` can undo a concurrent reset, so that an interval counts packets
  again; `NeverUndercounts` says that it never misses one.
* `streamconnection.c:176`: a receiver that cannot be created leaves `state_mutex` locked
  (`ConnectNoReceivers`), and a later stop waits for it.
* `frameprocessor.h:43` says of `flushed` "whether we have already flushed the current frame"; the
  flush never sets it.  That no frame is handed on twice is due to `frame_index_prev` (`InOrder`).
* `videoreceiver.c:161`: `frames_lost` is a difference of an index and its successor modulo 2^16, and
  counts frames again that were counted before; it is only shown to the user.
* `frameprocessor.c:78`: without redundant units one is expected nevertheless, so every complete
  frame is counted with one unit lost.
* `feedbacksender.c:216`: a touch that takes the slot of another within one round is not told until
  it moves.  That the other does not stay down is `ConsoleCatchesUp`.
* `feedbacksender.c:160`: history packets are not repeated while nothing happens, so that a press
  whose packet is lost is known to the console only with the next event.
* `gkcrypt.c:247`: the block counter of the key stream is an `int`, while MACs count in 64 bits; they
  part beyond 2^35 bytes.
* `takion.c:430`: the key position advances by the size and its remainder, not by what is missing to
  a full block.  It is harmless, since the position need not be one of a block (`PositionsApart`).
* `takion.c:502`: a packet that took its position before the keys were set, and is sent after, has a
  MAC for position 0 (`raced`).
* `takion.c:905`: `peek` is called with a NULL for the number, which it writes to; this is reached
  when a message waits in the queue as the keys become available (`tpc = "crashed"`).
* `takion.c:1179`: a lost acknowledgement is not repeated until a later message is pulled (`ack_lost`).
* `takion.c`, handshake: DATA that overtakes COOKIE_ACK ends the connection.  Packets still postponed
  when the thread ends are leaked.
* `takion.c:245`: when the extra messages of a punched socket cannot be read, `ret` is still SUCCESS: the
  caller goes on with a connection that has no socket and no thread.
* `audioreceiver.c:88`: redundant units are handled after a packet's own, when they are older than the
  last frame, and so are never used; frame 0 is never delivered.
* `senkusha.c`: outwards the largest size is not tried unless it passed inwards (`MtuIsRight`).
* `session.c:454`: the registration thread is joined with `state_mutex` held, which its callback takes
  (`RegistDeadlock`).  `session.c:531` and `ctrl.c:295` take two mutexes in opposite orders
  (`PinDeadlock`).  `ctrl.c:374`: the pipe is reset for a PIN before the stop is looked at
  (`StopLost`).  `ctrl.c:232`: a late write to the pipe is never reset (`Spins`).  `ctrl.c:315`: a failed
  connection of ctrl overwrites any other reason to quit.
* `rudp.c:197`: the counter is read again after its mutex was released, so that two messages may wait
  for the same number and one of them is refused (`raced`).  Answers are told apart by type alone:
  once a request was repeated, its second answer is taken for that of the next request of its
  type, whose own is left for the one after that (`Repeated`).
  `ctrl.c:434` does not recognise a message it has had.
* `holepunch.c:749`: create waits for the web socket without a timeout; `holepunch.c:4295`: a result of
  another request is found again and again; `holepunch.c:1028`: a canceled start returns with the
  mutex locked that fini takes (`Hangs`).  `holepunch.c:1980`: an offer repeated after its ACCEPT is
  queued and taken for that of the other port (`late`).  A chosen socket is given up but not closed
  when a cancel follows (`dropped`).
* `holepunch.c:3240`: a test the wrong way round closes every socket; after a timeout the set of
  sockets is not filled again (`holepunch.c:3471`).
* `stun.h`: a step of -1 is the mark of "not known"; one late answer makes every later server fail;
  steps backwards are predicted wrong in 16 bits, and so are long ones after a missed answer when
  the ports wrapped around (`StepsShort`); `stun.h:172` shuffles one past the end of its array.
* `discoverymanager.cpp:313`: the services for IPv4 and IPv6 replace each other's list; a list queued
  before discovery was stopped is shown after it (`late`).
* `streamsession.cpp:1751`: audio is set up by a blocking call into the main thread, which may be in
  `chiaki_session_stop` waiting for the mutex the caller holds.  `qmlbackend.cpp:494`: a cancel after
  the session has gone crashes; so may a frame that is decoded while it goes (`qmlbackend.cpp:619`).
  The reconnect timer can ask for a second token before it has the first (`overlapped`).
* `controllermanager.cpp:402`: after the microphone button any release is taken for its own; a touchpad
  removed while its button is down leaves the button down (`stuck`).  `controller.c:33`: the next touch
  id is used though it may still be held (`wrapped`).
* `setsu.c:250`: a pad unplugged and plugged in again between two polls is not found again; the removal
  of one that is not listed lists it (`overlooked`).  Touches that were down, and the slot that was
  current, when a pad is opened are not known (`missed`).

## 7. What is not modelled

Ciphers and MACs (ideal), sockets and the wrappers of pthread and Win32 (external, modelled by what
they promise), formatting and parsing of messages, logging, the bitstream parser (its verdict is
chosen freely), codecs, orientation (floating point), settings and user interface, the Android,
Switch and command line clients, and the Steam Deck's adapter.  In the components that are modelled:

* the reorder queue's drop (its only caller never gets to it), the socket options of Takion, the
  content of protobuf messages, rumble, haptics and trigger events;
* of hole punching, the parsing of JSON, the bodies of HTTP requests and UPnP; of RUDP, the layout of
  its packets; of the client, whatever only formats or stores;
* motion, sticks, triggers and positions of input devices, which keep only their last values.

Failure of `malloc` is modelled only where the code has a path for it that changes state.  Threads
are sequentially consistent except for the data races that the models make explicit, in `push_seq`
and in the counter of RUDP.

## 8. Plan

All parts named in the inventory that keep state have their module, and every invariant that a run
checks is proved.  What is left:

1. The type invariants that are not theorems yet (`CtrlTypeOK`, `CongestionTypeOK` and the `TypeOK` of
   Session, StreamConnection and VideoReceiver): the invariants above have the types they need, not
   all of them.  `CongestionTypeOK` needs a further assumption, that the units counted between two
   reports fit a `uint64_t`.
2. What TLC shows of liveness has safety parts worth a theorem, such as when a wait of a thread has
   nothing to wait for.  `NoOversleep` of the feedback sender and of the stream connection and
   `SignalDue` of the key buffer are of this kind; the waits of the session, where the signal is
   modelled in one step with what it follows, would first need the two apart.
