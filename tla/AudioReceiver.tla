---------------------------- MODULE AudioReceiver ----------------------------
(***************************************************************************)
(* lib/src/audioreceiver.c: the frames of an audio packet on their way to  *)
(* the sink.  A packet has some frames of its own (source units) and       *)
(* repeats the ones before them (FEC units); packets are lost, repeated    *)
(* and overtaken.  Frames have their true number here; the code sees it    *)
(* modulo 2^16.                                                            *)
(*                                                                         *)
(* Packets that fail the checks on codec and sizes change nothing.  The    *)
(* console's stream is external.                                           *)
(***************************************************************************)
EXTENDS SeqNum

CONSTANTS
  AudioSource, AudioFec,   \* of every packet
  LastFrame                \* bound on the frames sent

(* Both counts have four bits in a packet, the numbers of frames sixteen.  *)
ASSUME AudioAssumption ==
  /\ AudioSource \in Nat \ {0} /\ AudioFec \in Nat /\ LastFrame \in Nat
  /\ AudioSource + AudioFec < Half

VARIABLES
  frame_index_prev, frame_index_startup,
  sent_frames,     \* external: the number of the newest packet's first frame
  played,          \* history: the newest frame given to the sink
  disorder,        \* history: a frame was given to the sink after a newer one, or twice
  recovered        \* history: a frame was taken from a FEC unit

audioVars == <<frame_index_prev, frame_index_startup, sent_frames, played, disorder, recovered>>

AudioInit ==
  /\ frame_index_prev = 0 /\ frame_index_startup = TRUE
  /\ sent_frames = 1 /\ played = 0 /\ disorder = FALSE /\ recovered = FALSE

(* The units of the packet whose first frame is n, numbered from 0.  The   *)
(* first packets repeat frames that there never were: these are skipped.   *)
AudioUnits == AudioSource + AudioFec

AudioUnit(n, i) ==
  IF i < AudioSource THEN [frame |-> n + i, fec |-> FALSE]
  ELSE [frame |-> n - AudioFec + (i - AudioSource), fec |-> TRUE]

SkipUnit(n, i, startup) ==
  startup /\ i >= AudioSource /\ (n % Modulus) + (i - AudioSource) < AudioFec + 1

(* Mutant: any other frame than the last one.                              *)
AudioFrameOther(r, u) ==
  IF u.frame % Modulus = r.prev THEN r
  ELSE [prev |-> u.frame % Modulus, played |-> u.frame,
        disorder |-> r.disorder \/ u.frame <= r.played, recovered |-> r.recovered \/ u.fec]

(* chiaki_audio_receiver_frame.                                            *)
AudioFrame(r, u) ==
  IF ~SeqGt(u.frame % Modulus, r.prev) THEN r
  ELSE [prev |-> u.frame % Modulus, played |-> u.frame,
        disorder |-> r.disorder \/ u.frame <= r.played, recovered |-> r.recovered \/ u.fec]

(* What the units of the packet do one after the other; handled[k] is the  *)
(* state after the first k units.                                          *)
HandleUnit(r, n, i, startup) == IF SkipUnit(n, i, startup) THEN r ELSE AudioFrame(r, AudioUnit(n, i))

Handled(first, n, startup) ==
  LET handled[k \in 0 .. AudioUnits] ==
        IF k = 0 THEN first ELSE HandleUnit(handled[k - 1], n, k - 1, startup)
  IN  handled

(* chiaki_audio_receiver_av_packet.                                        *)
AudioPacket(n) ==
  LET startup == frame_index_startup /\ n % Modulus <= Half
      first == [prev |-> frame_index_prev, played |-> played, disorder |-> disorder, recovered |-> recovered]
      r == Handled(first, n, startup)[AudioUnits]
  IN /\ frame_index_startup' = startup
     /\ frame_index_prev' = r.prev /\ played' = r.played
     /\ disorder' = r.disorder /\ recovered' = r.recovered
     /\ UNCHANGED sent_frames

(* The console sends on, as long as the sink is not half of the number     *)
(* space behind.                                                           *)
SendAudio ==
  /\ sent_frames + AudioSource <= LastFrame
  /\ sent_frames + 2 * AudioSource - 1 - played < Half
  /\ sent_frames' = sent_frames + AudioSource
  /\ UNCHANGED <<frame_index_prev, frame_index_startup, played, disorder, recovered>>

(* A packet arrives in time, late or again, but not half of the number     *)
(* space late.                                                             *)
AudioNext ==
  \/ SendAudio
  \/ \E n \in {k \in 1 .. sent_frames : (k - 1) % AudioSource = 0 /\ played - k + AudioFec < Half} : AudioPacket(n)

AudioSpec == AudioInit /\ [][AudioNext]_audioVars
-----------------------------------------------------------------------------
(* The sink gets its frames in order, each at most once, whatever is lost, *)
(* late or repeated, and also when the frame numbers wrap around.  It      *)
(* never gets one from a FEC unit: these come after the packet's own       *)
(* frames, which are newer, so that what was lost stays lost.              *)
AudioInOrder == ~disorder /\ ~recovered
=============================================================================
