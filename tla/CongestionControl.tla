-------------------------- MODULE CongestionControl --------------------------
(***************************************************************************)
(* Packet statistics (lib/src/packetstats.c) and the congestion control    *)
(* thread that reports them to the console (lib/src/congestioncontrol.c).  *)
(*                                                                         *)
(* The Takion thread counts: video frames as generations, under the        *)
(* mutex of the statistics, audio packets by sequence number, without it.  *)
(* The congestion control thread collects and resets the counters each     *)
(* time its wait for stop_cond times out, until it is told to stop.        *)
(*                                                                         *)
(* push_seq races with the collection; its outcomes are those of a load,   *)
(* a store and a comparison that other steps may come between.             *)
(***************************************************************************)
EXTENDS SeqNum

CONSTANTS Wide,      \* uint64_t: the numbers below Wide, a multiple of Modulus
          LossMax,   \* packet_loss_max, in parts of 100
          VideoFrames,    \* bound: generations counted
          FrameUnits,     \* bound: packets of a generation
          Packets    \* bound: audio packets counted

ASSUME CongestionAssumption ==
  /\ Wide \in Nat /\ Wide > Modulus /\ Wide % Modulus = 0
  /\ LossMax \in 0 .. 100
  /\ VideoFrames \in Nat /\ FrameUnits \in Nat /\ Packets \in Nat

VARIABLES
  gen,       \* gen_received and gen_lost
  seq_min, seq_max, seq_received,
  mutex,     \* the congestion control thread holds stats->mutex
  load,      \* push_seq: the seq_received it has read, -1 outside of push_seq
  newest,    \* push_seq: the sequence number it counts
  pred,      \* stop_cond.pred
  held,      \* the thread holds stop_cond.mutex
  tpc,       \* where the congestion control thread is
  got,       \* what chiaki_packet_stats_get has collected so far
  packet,    \* the last congestion packet sent
  spc,       \* where chiaki_congestion_control_stop is
  frames, gens, reported, packets, since   \* history, see below

stats == <<gen, seq_min, seq_max, seq_received>>
pushing == <<load, newest>>
thread == <<mutex, pred, held, tpc, got, packet>>
history == <<frames, gens, reported, packets, since>>
congestionVars == <<stats, pushing, thread, spc, history>>

Counts == [received : Nat, lost : Nat]
NoCounts == [received |-> 0, lost |-> 0]
Plus(a, b) == [received |-> a.received + b.received, lost |-> a.lost + b.lost]
Cap(n) == n % Wide

(* frames and packets count what was pushed, gens is the sum of all        *)
(* generations, reported the sum of all collected ones; since counts the   *)
(* calls of push_seq completed after the last reset.                       *)
CongestionInit ==
  /\ gen = NoCounts
  /\ seq_min = 0 /\ seq_max = 0 /\ seq_received = 0
  /\ mutex = FALSE /\ load = -1 /\ newest = 0
  /\ pred = FALSE /\ held = FALSE /\ tpc = "start"
  /\ got = [received |-> 0, lost |-> 0, diff |-> 0] /\ packet = NoCounts
  /\ spc = "running"
  /\ frames = 0 /\ gens = NoCounts /\ reported = NoCounts /\ packets = 0 /\ since = 0

-----------------------------------------------------------------------------
(* Mutant: the mutex is not taken.                                       *)
PushGenerationRaces(c) ==
  /\ frames < VideoFrames /\ load = -1
  /\ gen' = Plus(gen, c)
  /\ frames' = frames + 1
  /\ gens' = Plus(gens, c)
  /\ UNCHANGED <<seq_min, seq_max, seq_received, pushing, thread, spc, reported, packets, since>>

(* The Takion thread.  A frame of received and lost units is complete; the *)
(* counters are added to in one critical section.                          *)
PushGeneration(c) ==
  /\ frames < VideoFrames /\ load = -1
  /\ ~mutex
  /\ gen' = Plus(gen, c)
  /\ frames' = frames + 1
  /\ gens' = Plus(gens, c)
  /\ UNCHANGED <<seq_min, seq_max, seq_received, pushing, thread, spc, reported, packets, since>>

(* An audio packet: packets are lost and overtake each other, so that any  *)
(* number can come next.                                                   *)
PushSeqLoad(s) ==
  /\ packets < Packets /\ load = -1
  /\ load' = seq_received
  /\ newest' = s
  /\ packets' = packets + 1
  /\ UNCHANGED <<stats, thread, spc, frames, gens, reported, since>>

PushSeqStore ==
  /\ load # -1
  /\ seq_received' = load + 1
  /\ seq_max' = IF SeqGt(newest, seq_max) THEN newest ELSE seq_max
  /\ load' = -1 /\ newest' = 0
  /\ since' = since + 1
  /\ UNCHANGED <<gen, seq_min, thread, spc, frames, gens, reported, packets>>

-----------------------------------------------------------------------------
(* The congestion control thread: it holds stop_cond except while it       *)
(* sleeps in the timed wait.                                               *)
Start ==
  /\ tpc = "start" /\ ~held
  /\ tpc' = "check" /\ held' = TRUE
  /\ UNCHANGED <<stats, pushing, mutex, pred, got, packet, spc, history>>

(* The wait's test of the predicate: leave the loop, or sleep.             *)
Check ==
  /\ tpc = "check"
  /\ tpc' = IF pred THEN "done" ELSE "asleep"
  /\ held' = FALSE
  /\ UNCHANGED <<stats, pushing, mutex, pred, got, packet, spc, history>>

(* The interval is over; a timeout is reported whatever the predicate is.  *)
TimedOut ==
  /\ tpc = "asleep" /\ ~held
  /\ tpc' = "get" /\ held' = TRUE
  /\ UNCHANGED <<stats, pushing, mutex, pred, got, packet, spc, history>>

Woken ==
  /\ tpc = "woken" /\ ~held
  /\ tpc' = "check" /\ held' = TRUE
  /\ UNCHANGED <<stats, pushing, mutex, pred, got, packet, spc, history>>

Spurious ==
  /\ tpc = "asleep"
  /\ tpc' = "woken"
  /\ UNCHANGED <<stats, pushing, mutex, pred, held, got, packet, spc, history>>

GetGen ==
  /\ tpc = "get"
  /\ mutex' = TRUE
  /\ got' = [received |-> gen.received, lost |-> gen.lost, diff |-> 0]
  /\ tpc' = "diff"
  /\ UNCHANGED <<stats, pushing, pred, held, packet, spc, history>>

(* Both operands are promoted to int and the result is converted to        *)
(* uint64_t.                                                               *)
SeqDiff == (seq_max - seq_min) % Wide

GetDiff ==
  /\ tpc = "diff"
  /\ got' = [got EXCEPT !.diff = SeqDiff]
  /\ tpc' = "seq"
  /\ UNCHANGED <<stats, pushing, mutex, pred, held, packet, spc, history>>

GetSeq ==
  /\ tpc = "seq"
  /\ LET lost == IF seq_received > got.diff THEN got.diff ELSE got.diff - seq_received
     IN  got' = [got EXCEPT !.received = Cap(@ + seq_received), !.lost = Cap(@ + lost)]
  /\ tpc' = "reset"
  /\ UNCHANGED <<stats, pushing, mutex, pred, held, packet, spc, history>>

GetReset ==
  /\ tpc = "reset"
  /\ gen' = NoCounts
  /\ seq_min' = seq_max
  /\ seq_received' = 0
  /\ mutex' = FALSE
  /\ tpc' = "report"
  /\ reported' = Plus(reported, gen)
  /\ since' = 0
  /\ UNCHANGED <<seq_max, pushing, pred, held, got, packet, spc, frames, gens, packets>>

(* The loss is cut down to packet_loss_max and the packet sent, both       *)
(* numbers truncated to 16 bits.                                           *)
SendReport ==
  /\ tpc = "report"
  /\ LET total == Cap(got.received + got.lost)
         lost  == IF total > 0 /\ got.lost * 100 > LossMax * total
                  THEN (total * LossMax) \div 100 ELSE got.lost
         received == IF lost = got.lost THEN got.received ELSE total - lost
     IN  packet' = [received |-> received % Modulus, lost |-> lost % Modulus]
  /\ got' = [received |-> 0, lost |-> 0, diff |-> 0]
  /\ tpc' = "check"
  /\ UNCHANGED <<stats, pushing, mutex, pred, held, spc, history>>

-----------------------------------------------------------------------------
(* chiaki_congestion_control_stop: the predicate is set under the mutex,   *)
(* the signal sent after it was released, and the thread joined.           *)
StopSet ==
  /\ spc = "running" /\ ~held
  /\ pred' = TRUE
  /\ spc' = "signal"
  /\ UNCHANGED <<stats, pushing, mutex, held, tpc, got, packet, history>>

StopSignal ==
  /\ spc = "signal"
  /\ tpc' = IF tpc = "asleep" THEN "woken" ELSE tpc
  /\ spc' = "join"
  /\ UNCHANGED <<stats, pushing, mutex, pred, held, got, packet, history>>

StopJoin ==
  /\ spc = "join" /\ tpc = "done"
  /\ spc' = "joined"
  /\ UNCHANGED <<stats, pushing, thread, history>>

Takion ==
  \/ \E c \in [received : 0 .. FrameUnits, lost : 0 .. FrameUnits] : c.received + c.lost = FrameUnits /\ PushGeneration(c)
  \/ \E s \in SeqNums : PushSeqLoad(s)
  \/ PushSeqStore

Collect == GetGen \/ GetDiff \/ GetSeq \/ GetReset \/ SendReport
Thread == Start \/ Check \/ TimedOut \/ Woken \/ Collect
Stop == StopSet \/ StopSignal \/ StopJoin

CongestionNext == Takion \/ Thread \/ Spurious \/ Stop

(* The operating system runs the congestion control thread, its wait ends  *)
(* with the interval, and a stop that has taken the mutex goes on.         *)
CongestionSpec == CongestionInit /\ [][CongestionNext]_congestionVars
CongestionFairSpec ==
  /\ CongestionSpec
  /\ WF_congestionVars(Thread)
  /\ WF_congestionVars(StopSignal) /\ WF_congestionVars(StopJoin)

-----------------------------------------------------------------------------
Stages == {"start", "check", "asleep", "woken", "get", "diff", "seq", "reset", "report", "done"}

(* The state is well typed; the 16-bit numbers stay 16-bit numbers.        *)
CongestionTypeOK ==
  /\ gen \in Counts /\ gens \in Counts /\ reported \in Counts
  /\ seq_min \in SeqNums /\ seq_max \in SeqNums
  /\ seq_received \in 0 .. Packets /\ load \in -1 .. Packets /\ newest \in SeqNums
  /\ mutex \in BOOLEAN /\ pred \in BOOLEAN /\ held \in BOOLEAN
  /\ tpc \in Stages /\ spc \in {"running", "signal", "join", "joined"}
  /\ got \in [received : 0 .. (Wide - 1), lost : 0 .. (Wide - 1), diff : 0 .. (Wide - 1)]
  /\ packet \in [received : SeqNums, lost : SeqNums]
  /\ frames \in 0 .. VideoFrames /\ packets \in 0 .. Packets /\ since \in 0 .. Packets

(* No generation is lost or reported twice by chiaki_packet_stats_get: all *)
(* units pushed are either still counted or were in exactly one report,    *)
(* and what a collection under way has read is what it will reset.         *)
GenerationsConserved ==
  /\ gens = Plus(reported, gen)
  /\ tpc = "diff" => got.received = gen.received /\ got.lost = gen.lost

(* push_seq takes no mutex: a collection between its load and its store    *)
(* can leave packets counted that were already reported, but no packet is  *)
(* ever left out: seq_received, "total received packets since the last     *)
(* reset", is at least the number of calls completed since the reset.      *)
NeverUndercounts == load = -1 => seq_received >= since

(* What is reported to the console: every unit once, and no packet less    *)
(* than were received.                                                     *)
ReportsRight == GenerationsConserved /\ NeverUndercounts

(* What the comment in chiaki_packet_stats_get says of seq_diff: "overflow *)
(* on purpose if max < min", so that it is a distance of 16-bit numbers.   *)
DiffOverflows == got.diff \in SeqNums
=============================================================================
