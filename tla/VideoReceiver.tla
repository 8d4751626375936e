---------------------------- MODULE VideoReceiver ----------------------------
(***************************************************************************)
(* The video receiver (lib/src/videoreceiver.c) and the frame processor    *)
(* that puts a frame together from its units (lib/src/frameprocessor.c).   *)
(*                                                                         *)
(* The console sends frames 1, 2, ... of Source data units followed by Fec *)
(* units of redundancy each; a packet carries the 16-bit index of its      *)
(* frame.  Units are lost, repeated, and arrive in any order, also after   *)
(* units of Lag newer frames.  Everything runs on the Takion thread: one   *)
(* packet is one step, and state the C functions change is the record vr   *)
(* that the operators named after them take and return.                    *)
(*                                                                         *)
(* Packets are well formed and memory is available.  The contents of a     *)
(* unit are the frame it belongs to; erasure decoding (jerasure) is ideal: *)
(* it succeeds when no more units are missing than there are redundant     *)
(* ones.  What the parser says of a slice, and whether the decoder takes a *)
(* frame, is chosen nondeterministically.  frames_lost, a number that only *)
(* the user interface shows, is left out.                                  *)
(***************************************************************************)
EXTENDS SeqNum, Sequences, FiniteSetsExt

CONSTANTS Source,   \* units_in_frame_total - units_in_frame_fec
          Fec,      \* units_in_frame_fec
          RefMax,   \* reference frames remembered, 16
          Switch,   \* the console changes to the second profile at this frame
          Last,     \* bound: frames sent
          Lag       \* bound: how many frames a packet may be late

ASSUME VideoAssumption ==
  /\ Source \in Nat \ {0} /\ Fec \in Nat
  /\ RefMax \in Nat \ {0} /\ RefMax <= Half
  /\ Switch \in Nat /\ Last \in Nat /\ Lag \in 0 .. (Half - 1)

VARIABLES sent,      \* the newest frame the console has sent
          profiles,  \* profiles_count
          vr         \* ChiakiVideoReceiver with its frame processor, and history

vars == <<sent, profiles, vr>>

Total == Source + Fec                        \* units_in_frame_total
FecExpected == IF Fec < 1 THEN 1 ELSE Fec    \* units_fec_expected
Units == 0 .. (Total - 1)
SourceUnits == 0 .. (Source - 1)
Index(n) == n % Modulus                      \* packet->frame_index
ProfileOf(n) == IF n < Switch THEN 0 ELSE 1  \* packet->adaptive_stream_index
NoFrame == 0                                 \* no true frame: they start at 1

(* cur, prev and complete are frame_index_cur, _prev and _prev_complete;   *)
(* unit, source, fec and expected the slots and counters of the frame      *)
(* processor; refs the reference frames, newest first.  History: at is the *)
(* true number of frame cur, decoded those of refs, pending the frames up  *)
(* to at neither decoded nor reported as corrupt, header the profile whose *)
(* header the decoder got last, sample the last frame the decoder got.     *)
Init ==
  /\ sent = 0
  /\ profiles = 0
  /\ vr = [cur |-> -1, prev |-> -1, complete |-> 0, profile |-> -1,
           unit |-> [i \in Units |-> NoFrame], source |-> 0, fec |-> 0, expected |-> 0,
           refs |-> << >>, generation |-> [received |-> 0, lost |-> 0],
           at |-> NoFrame, decoded |-> << >>, pending |-> {}, header |-> -1,
           sample |-> [frame |-> NoFrame, times |-> 0, profile |-> -1, parts |-> {}, ref |-> TRUE]]

-----------------------------------------------------------------------------
(* The frame processor.  A unit that is there already is dropped.          *)
PutUnit(v, n, i) ==
  IF v.unit[i] # NoFrame THEN v
  ELSE [v EXCEPT !.unit[i] = n,
                 !.source = IF i < Source THEN @ + 1 ELSE @,
                 !.fec = IF i < Source THEN @ ELSE @ + 1]

AllocFrame(v) ==
  [v EXCEPT !.unit = [i \in Units |-> NoFrame], !.source = 0, !.fec = 0, !.expected = Source]

FlushPossible(v) == v.source + v.fec >= v.expected

(* chiaki_frame_processor_report_packet_stats; before the first frame both *)
(* numbers are zero.                                                       *)
ReportPacketStats(v) ==
  LET expected == IF v.expected = 0 THEN 0 ELSE v.expected + FecExpected
  IN  [v EXCEPT !.generation = [received |-> v.source + v.fec, lost |-> expected - (v.source + v.fec)]]

Erasures(v) == (v.expected + FecExpected) - (v.source + v.fec)

(* chiaki_frame_processor_flush: the data units that are missing are       *)
(* restored when decoding succeeds.                                        *)
Restored(v) == v.source < v.expected /\ Erasures(v) <= FecExpected

(* Mutant: the sizes of restored units are not restored.                   *)
FlushUnrestored(v) == v

Flush(v) ==
  IF Restored(v) THEN [v EXCEPT !.unit = [i \in Units |-> IF i < Source THEN v.at ELSE @[i]]] ELSE v
FlushFails(v) == v.source < v.expected /\ ~Restored(v)

-----------------------------------------------------------------------------
(* stream_connection_send_corrupt_frame for the frames with the indices    *)
(* from start to end.                                                      *)
SendCorruptFrame(v, start, end) ==
  [v EXCEPT !.pending = {n \in @ : (Index(n) - start) % Modulus > (end - start) % Modulus}]

NextExpected(v) == SeqAdd(v.complete, 1)

HaveRef(v, index) == \E k \in 1 .. Len(v.refs) : v.refs[k] = index

(* The index of the frame that is r + 1 frames before the current one, and *)
(* the first such frame after r that the decoder has.                      *)
RefIndex(v, r) == (v.cur - r - 1) % Modulus
OtherRefs(v, r) == {i \in (r + 1) .. (RefMax - 1) : HaveRef(v, RefIndex(v, i))}

MissingRef(v, r) == r >= 0 /\ ~HaveRef(v, RefIndex(v, r))

(* What the parser and the decoder may say of a frame: the reference of a  *)
(* P slice (-1 for other slices), whether it could be replaced by another, *)
(* and whether the decoder took the frame.                                 *)
Outcomes(n) == [ref : {r \in -1 .. (RefMax - 1) : r = -1 \/ n - r - 1 > 0}, set : BOOLEAN, taken : BOOLEAN]

(* add_ref_frame: the newest RefMax frames are kept.                       *)
Push(s, x) == SubSeq(<<x>> \o s, 1, Min({RefMax, Len(s) + 1}))

(* The frame is handed to video_sample_cb, with reference r.               *)
Hand(v, r, taken) ==
  LET s == [frame   |-> v.at,
            times   |-> IF v.sample.frame = v.at THEN v.sample.times + 1 ELSE 1,
            profile |-> v.header,
            parts   |-> {v.unit[i] : i \in SourceUnits},
            ref     |-> r >= 0 => \E k \in 1 .. Len(v.decoded) : v.decoded[k] = v.at - r - 1]
  IN IF taken
     THEN [v EXCEPT !.sample = s, !.prev = v.cur, !.complete = v.cur,
                    !.refs = Push(@, v.cur), !.decoded = Push(@, v.at), !.pending = @ \ {v.at}]
     ELSE [v EXCEPT !.sample = s, !.prev = v.cur]

(* Mutant: the last frame is given up without a word.                      *)
FlushFrameSilent(v, o) ==
  IF FlushFails(v) THEN [v EXCEPT !.prev = v.cur, !.complete = v.cur] ELSE Hand(Flush(v), o.ref, o.taken)

(* chiaki_video_receiver_flush_frame                                       *)
FlushFrame(v, o) ==
  LET f == Flush(v)
      others == OtherRefs(f, o.ref)
  IN IF FlushFails(v)
     THEN [SendCorruptFrame(v, NextExpected(v), v.cur) EXCEPT !.prev = v.cur]
     ELSE IF ~MissingRef(f, o.ref)
     THEN Hand(f, o.ref, o.taken)
     ELSE IF others # {} /\ o.set
     THEN Hand(f, Min(others), o.taken)
     ELSE [f EXCEPT !.prev = v.cur]

-----------------------------------------------------------------------------
(* A packet of a newer frame: the last frame is flushed if it was not yet, *)
(* what is missing since the last complete frame is reported, and the new  *)
(* frame begins.                                                           *)
Report(v, n) ==
  LET w == [v EXCEPT !.pending = @ \cup ((v.at + 1) .. n)]
  IN IF SeqGt(Index(n), NextExpected(v)) /\ ~(Index(n) = 1 /\ v.cur < 0)
     THEN SendCorruptFrame(w, NextExpected(v), (Index(n) - 1) % Modulus) ELSE w

BeginFrame(v, n, o) ==
  LET a == ReportPacketStats(v)
      b == IF v.cur >= 0 /\ v.prev # v.cur THEN FlushFrame(a, o) ELSE a
  IN  AllocFrame([Report(b, n) EXCEPT !.cur = Index(n), !.at = n])

(* The frame under construction is flushed when it has enough units, or    *)
(* its last unit has come.                                                 *)
FlushDue(v, i) == v.cur # v.prev /\ (FlushPossible(v) \/ i = Total - 1)

SwitchProfile(v, n) ==
  IF v.profile = ProfileOf(n) THEN v
  ELSE [v EXCEPT !.profile = ProfileOf(n), !.header = ProfileOf(n)]

(* A packet of an old frame, and one of an unknown profile, are dropped.   *)
Old(n) == vr.cur >= 0 /\ SeqLt(Index(n), vr.cur)
Unknown(n) == vr.profile # ProfileOf(n) /\ ProfileOf(n) >= profiles
Newer(n) == vr.cur < 0 \/ SeqGt(Index(n), vr.cur)

(* chiaki_video_receiver_av_packet for unit i of frame n.                  *)
AvPacket(n, i) ==
  /\ n \in 1 .. sent /\ sent - n <= Lag
  /\ ~Old(n) /\ ~Unknown(n)
  /\ \E o \in Outcomes(vr.at), p \in Outcomes(n) :
       LET v == SwitchProfile(vr, n)
           w == PutUnit(IF Newer(n) THEN BeginFrame(v, n, o) ELSE v, n, i)
       IN  vr' = IF FlushDue(w, i) THEN FlushFrame(w, p) ELSE w
  /\ UNCHANGED <<sent, profiles>>

AvPacketDropped(n) ==
  /\ n \in 1 .. sent /\ sent - n <= Lag
  /\ Old(n) \/ Unknown(n)
  /\ UNCHANGED vars

(* chiaki_video_receiver_stream_info: the profiles are set once.           *)
StreamInfo ==
  /\ profiles = 0
  /\ profiles' = 2
  /\ UNCHANGED <<sent, vr>>

(* The console sends the next frame.  The assumptions on the network are   *)
(* in the guard: a frame is decoded at least every half of the indices,    *)
(* and no index comes back while a frame that had it is a reference.       *)
NewestDecoded == IF vr.decoded = << >> THEN 0 ELSE vr.decoded[1]
SendFrame ==
  /\ sent < Last
  /\ sent + 1 - NewestDecoded < Half
  /\ \A k \in 1 .. Len(vr.decoded) : sent + 1 - vr.decoded[k] < Modulus
  /\ sent' = sent + 1
  /\ UNCHANGED <<profiles, vr>>

Next == \/ SendFrame
        \/ StreamInfo
        \/ \E n \in 1 .. Last, i \in Units : AvPacket(n, i)
        \/ \E n \in 1 .. Last : AvPacketDropped(n)

Spec == Init /\ [][Next]_vars

-----------------------------------------------------------------------------
Frames == 0 .. Last
Indices == -1 .. (Modulus - 1)

(* Types; the counters of the frame processor stay within what the frame   *)
(* has, so that no generation is reported with a negative number lost.     *)
TypeOK ==
  /\ sent \in Frames /\ profiles \in {0, 2}
  /\ vr.cur \in Indices /\ vr.prev \in Indices /\ vr.complete \in SeqNums
  /\ vr.profile \in -1 .. 1 /\ vr.header \in -1 .. 1
  /\ vr.unit \in [Units -> Frames] /\ vr.expected \in {0, Source}
  /\ vr.source \in 0 .. Source /\ vr.fec \in 0 .. Fec
  /\ vr.generation.received \in 0 .. Total /\ vr.generation.lost \in 0 .. (Source + FecExpected)
  /\ vr.at \in Frames /\ vr.pending \subseteq Frames
  /\ Len(vr.refs) <= RefMax /\ Len(vr.decoded) = Len(vr.refs)

(* Nothing is lost silently: every frame before the current one was taken  *)
(* by the decoder or reported to the console as corrupt, whatever was      *)
(* missing, given up or refused, through the wrap-around of the indices.   *)
Covered == vr.pending \subseteq {vr.at}

(* The assertion of chiaki_frame_processor_fec, "should never happen by    *)
(* design, but too scary not to check": as long as the frame can still be  *)
(* flushed, the empty slots are exactly those the counters say.            *)
ErasuresCounted ==
  vr.cur # vr.prev => Cardinality({i \in Units : vr.unit[i] = NoFrame}) = Total - (vr.source + vr.fec)

(* A frame handed to the decoder is made of its own units, all of them.    *)
WholeFrames == vr.sample.parts \subseteq {vr.sample.frame}

(* The decoder got the header of the frame's profile last, although a      *)
(* packet of the next frame switches the profile before it flushes.        *)
RightHeader == vr.sample.frame # NoFrame => vr.sample.profile = ProfileOf(vr.sample.frame)

(* A frame handed to the decoder refers to one that the decoder has taken. *)
RefsDecoded == vr.sample.ref

(* What the decoder is fed: frames put together from what the counters say *)
(* there is, whole, under their own header, with their references.         *)
DecoderFed == ErasuresCounted /\ WholeFrames /\ RightHeader /\ RefsDecoded
=============================================================================
