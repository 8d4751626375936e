---------------------------- MODULE SendBufferAck ----------------------------
(***************************************************************************)
(* The loop of chiaki_takion_send_buffer_ack (lib/src/takionsendbuffer.c)  *)
(* that removes the acknowledged packets from the array in place: gaps are *)
(* collected and closed lazily, one memmove per gap.  One step is one      *)
(* iteration; the final shift is a step of its own.  A packet stands for   *)
(* its sequence number.                                                    *)
(***************************************************************************)
EXTENDS SeqNum, Sequences

CONSTANT N    \* packets_count when ack is called

ASSUME NAssumption == N \in Nat

VARIABLES seq,       \* the number acknowledged
          packets,   \* the array, from index 0
          i,         \* the loop index
          shift,     \* amount to shift back
          start,     \* shift_start; N + 1 for SIZE_MAX
          acked_seq_nums,
          count,     \* packets_count
          done,
          original,  \* history: the array at the call
          kept       \* history: the packets found not to be acknowledged

vars == <<seq, packets, i, shift, start, acked_seq_nums, count, done, original, kept>>

Index == 0 .. (N - 1)
Unset == N + 1

Init == /\ seq \in SeqNums
        /\ packets \in [Index -> SeqNums]
        /\ i = 0
        /\ shift = 0
        /\ start = Unset
        /\ acked_seq_nums = <<>>
        /\ count = N
        /\ done = FALSE
        /\ original = packets
        /\ kept = <<>>

IsAcked(p) == p = seq \/ SeqLt(p, seq)

(* memmove of n packets from index "from" to index "to".                   *)
Memmove(to, from, n) == [j \in Index |-> IF j \in to .. (to + n - 1) THEN packets[j - to + from]
                                                                     ELSE packets[j]]

Keep ==
  /\ i < N
  /\ ~IsAcked(packets[i])
  /\ kept' = Append(kept, original[i])
  /\ i' = i + 1
  /\ UNCHANGED <<seq, packets, shift, start, acked_seq_nums, count, done, original>>

(* Mutant: a new gap starts where the packet was, not where it will be.    *)
RemoveNoOffset ==
  /\ i < N
  /\ IsAcked(packets[i])
  /\ acked_seq_nums' = Append(acked_seq_nums, packets[i])
  /\ shift' = shift + 1
  /\ CASE start = Unset     -> start' = i /\ UNCHANGED packets
       [] start + shift = i -> UNCHANGED <<start, packets>>
       [] OTHER             -> /\ packets' = Memmove(start, start + shift, i - (start + shift))
                               /\ start' = i
  /\ i' = i + 1
  /\ UNCHANGED <<seq, count, done, original, kept>>

(* An acknowledged packet: the first gap, the same gap, or a new one.      *)
Remove ==
  /\ i < N
  /\ IsAcked(packets[i])
  /\ acked_seq_nums' = Append(acked_seq_nums, packets[i])
  /\ shift' = shift + 1
  /\ CASE start = Unset     -> start' = i /\ UNCHANGED packets
       [] start + shift = i -> UNCHANGED <<start, packets>>
       [] OTHER             -> /\ packets' = Memmove(start, start + shift, i - (start + shift))
                               /\ start' = i - shift
  /\ i' = i + 1
  /\ UNCHANGED <<seq, count, done, original, kept>>

(* The final shift and the new packets_count.                              *)
FinalShift ==
  /\ i = N
  /\ ~done
  /\ packets' = IF start # Unset /\ start + shift < N THEN Memmove(start, start + shift, N - (start + shift)) ELSE packets
  /\ count' = IF start # Unset THEN N - shift ELSE N
  /\ done' = TRUE
  /\ UNCHANGED <<seq, i, shift, start, acked_seq_nums, original, kept>>

Next == Keep \/ Remove \/ FinalShift
Spec == Init /\ [][Next]_vars
-----------------------------------------------------------------------------
(* The loop stays within the array, and the new packets_count with it.     *)
TypeOK == /\ seq \in SeqNums
          /\ packets \in [Index -> SeqNums]
          /\ original \in [Index -> SeqNums]
          /\ i \in 0 .. N
          /\ shift \in 0 .. i
          /\ start \in (0 .. N) \cup {Unset}
          /\ acked_seq_nums \in Seq(SeqNums)
          /\ kept \in Seq(SeqNums)
          /\ count \in 0 .. N
          /\ done \in BOOLEAN

(* When the loop is over the array starts with the packets not             *)
(* acknowledged, in their old order, and the slots behind them are as they *)
(* were: no packet is lost, doubled or moved past another.                 *)
Compacted == done => /\ count = Len(kept)
                     /\ \A j \in 0 .. (count - 1) : packets[j] = kept[j + 1]
                     /\ \A j \in count .. (N - 1) : packets[j] = original[j]
=============================================================================
