---------------------------- MODULE MediaProofs ----------------------------
(***************************************************************************)
(* What holds of the receivers of the stream, of the packet statistics and *)
(* of the feedback that goes the other way, for every width of the numbers *)
(* and any number of frames and packets, keys and touches.                 *)
(***************************************************************************)
EXTENDS VideoReceiver, AudioReceiver, CongestionControl, FeedbackSender, SeqNumProofs,
        FiniteSetTheorems, SequenceTheorems, TLAPS

-----------------------------------------------------------------------------
(* Packet statistics: every unit is reported once.                         *)

(* The part of the state the properties speak of: a collection under way   *)
(* holds the mutex from its first read to the reset, so that no generation *)
(* is counted in between.                                                  *)
Generations ==
  /\ gen \in Counts /\ gens \in Counts /\ reported \in Counts
  /\ gens = Plus(reported, gen)
  /\ tpc \in {"diff", "seq", "reset"} => mutex
  /\ tpc = "diff" => got.received = gen.received /\ got.lost = gen.lost

(* What a push of the Takion thread has read is at least the number of     *)
(* calls completed since the reset: a reset under its feet makes it more,  *)
(* never less.                                                             *)
Calls ==
  /\ seq_received \in Nat /\ since \in Nat /\ load \in Nat \cup {-1}
  /\ seq_received >= since
  /\ load # -1 => load >= since

StatisticsInv == Generations /\ Calls

LEMMA PlusCounts ==
  ASSUME NEW a \in Counts, NEW b \in Counts, NEW c \in Counts
  PROVE  /\ Plus(a, b) \in Counts
         /\ Plus(Plus(a, b), c) = Plus(a, Plus(b, c))
         /\ Plus(a, NoCounts) = a
         /\ NoCounts \in Counts
<1>1. /\ a.received \in Nat /\ a.lost \in Nat /\ b.received \in Nat /\ b.lost \in Nat
      /\ c.received \in Nat /\ c.lost \in Nat
      /\ a = [received |-> a.received, lost |-> a.lost]
  BY DEF Counts
<1>2. Plus(a, b) \in Counts /\ NoCounts \in Counts
  BY <1>1 DEF Plus, Counts, NoCounts
<1>3. Plus(Plus(a, b), c) = Plus(a, Plus(b, c))
  BY <1>1 DEF Plus
<1>4. Plus(a, NoCounts) = a
  BY <1>1 DEF Plus, NoCounts
<1> QED BY <1>2, <1>3, <1>4

LEMMA StatisticsStart == CongestionInit => StatisticsInv
<1> SUFFICES ASSUME CongestionInit PROVE StatisticsInv
  OBVIOUS
<1>1. Generations
  BY DEF CongestionInit, Generations, Counts, NoCounts, Plus
<1>2. Calls
  BY DEF CongestionInit, Calls
<1> QED BY <1>1, <1>2 DEF StatisticsInv

LEMMA GenerationCounted ==
  ASSUME StatisticsInv, NEW c \in [received : 0 .. FrameUnits, lost : 0 .. FrameUnits], PushGeneration(c)
  PROVE  StatisticsInv'
<1>1. c \in Counts
  BY CongestionAssumption DEF Counts
<1>2. gen' = Plus(gen, c) /\ gens' = Plus(gens, c)
  BY DEF PushGeneration
<1>3. gens' = Plus(reported, gen')
  BY <1>1, <1>2, PlusCounts DEF StatisticsInv, Generations
<1>4. gen' \in Counts /\ gens' \in Counts
  BY <1>1, <1>2, PlusCounts DEF StatisticsInv, Generations
<1>5. tpc' \notin {"diff", "seq", "reset"}
  BY DEF StatisticsInv, Generations, PushGeneration, thread
<1>6. Generations'
  BY <1>3, <1>4, <1>5 DEF StatisticsInv, Generations, PushGeneration, thread
<1>7. Calls'
  BY DEF StatisticsInv, Calls, PushGeneration, pushing
<1> QED BY <1>6, <1>7 DEF StatisticsInv

LEMMA PacketCounted ==
  ASSUME StatisticsInv, (\E s \in SeqNums : PushSeqLoad(s)) \/ PushSeqStore
  PROVE  StatisticsInv'
<1>1. Generations'
  BY DEF StatisticsInv, Generations, PushSeqLoad, PushSeqStore, stats, thread
<1>2. Calls'
  BY DEF StatisticsInv, Calls, PushSeqLoad, PushSeqStore, stats, thread
<1> QED BY <1>1, <1>2 DEF StatisticsInv

(* The steps of the two threads that count nothing.                        *)
LEMMA NothingCounted ==
  ASSUME StatisticsInv,
         Start \/ Check \/ TimedOut \/ Woken \/ Spurious \/ GetDiff \/ GetSeq \/ SendReport \/ Stop
  PROVE  StatisticsInv'
<1>1. UNCHANGED <<gen, gens, reported, mutex, seq_received, since, load>>
  BY DEF Start, Check, TimedOut, Woken, Spurious, GetDiff, GetSeq, SendReport, Stop, StopSet,
         StopSignal, StopJoin, stats, pushing, thread, history
<1>2. \/ tpc' # "diff" /\ (tpc' \in {"seq", "reset"} => tpc \in {"diff", "seq", "reset"})
      \/ UNCHANGED <<tpc, got>>
  BY DEF Start, Check, TimedOut, Woken, Spurious, GetDiff, GetSeq, SendReport, Stop, StopSet,
         StopSignal, StopJoin, thread
<1>3. Generations'
  BY <1>1, <1>2 DEF StatisticsInv, Generations
<1>4. Calls'
  BY <1>1 DEF StatisticsInv, Calls
<1> QED BY <1>3, <1>4 DEF StatisticsInv

LEMMA Collected ==
  ASSUME StatisticsInv, GetGen \/ GetReset
  PROVE  StatisticsInv'
<1>1. CASE GetGen
  <2>1. Generations'
    BY <1>1 DEF StatisticsInv, Generations, GetGen, stats, history
  <2>2. Calls'
    BY <1>1 DEF StatisticsInv, Calls, GetGen, stats, history, pushing
  <2> QED BY <2>1, <2>2 DEF StatisticsInv
<1>2. CASE GetReset
  <2>1. gen' = NoCounts /\ reported' = Plus(reported, gen) /\ gens' = gens /\ tpc' = "report"
    BY <1>2 DEF GetReset
  <2>2. gen' \in Counts /\ reported' \in Counts /\ gens' = Plus(reported', gen')
    BY <2>1, PlusCounts DEF StatisticsInv, Generations
  <2>3. Generations'
    BY <2>1, <2>2 DEF StatisticsInv, Generations
  <2>4. Calls'
    BY <1>2 DEF StatisticsInv, Calls, GetReset, pushing
  <2> QED BY <2>3, <2>4 DEF StatisticsInv
<1> QED BY <1>1, <1>2

LEMMA StatisticsNext == StatisticsInv /\ [CongestionNext]_congestionVars => StatisticsInv'
<1> SUFFICES ASSUME StatisticsInv, [CongestionNext]_congestionVars PROVE StatisticsInv'
  OBVIOUS
<1>1. CASE Takion
  BY <1>1, GenerationCounted, PacketCounted DEF Takion
<1>2. CASE Thread
  BY <1>2, NothingCounted, Collected DEF Thread, Collect
<1>3. CASE Spurious \/ Stop
  BY <1>3, NothingCounted
<1>4. CASE UNCHANGED congestionVars
  BY <1>4 DEF congestionVars, stats, pushing, thread, history, StatisticsInv, Generations, Calls
<1> QED BY <1>1, <1>2, <1>3, <1>4 DEF CongestionNext

(* What is reported to the console: every unit of a video frame in exactly *)
(* one report, and no audio packet left out of the count, however the      *)
(* collection falls between the load and the store of push_seq, which      *)
(* takes no mutex.                                                         *)
THEOREM ReportsRightHolds == CongestionSpec => []ReportsRight
<1>1. StatisticsInv => ReportsRight
  BY DEF StatisticsInv, Generations, Calls, ReportsRight, GenerationsConserved, NeverUndercounts
<1> QED BY <1>1, StatisticsStart, StatisticsNext, PTL DEF CongestionSpec
-----------------------------------------------------------------------------
(* The audio receiver: the sink gets its frames in order.                  *)

AllStates == [prev : SeqNums, played : Int, disorder : BOOLEAN, recovered : BOOLEAN]

(* Nothing was out of order yet, and the receiver's 16-bit number is the   *)
(* one of the newest frame played.                                         *)
InStep(r) ==
  /\ r \in AllStates /\ r.played \in Nat /\ r.prev = r.played % Modulus
  /\ r.disorder = FALSE /\ r.recovered = FALSE

AudioInv ==
  /\ played \in Nat /\ sent_frames \in Nat \ {0}
  /\ frame_index_prev = played % Modulus
  /\ sent_frames - played < Half
  /\ disorder = FALSE /\ recovered = FALSE

LEMMA InRange ==
  ASSUME NEW a \in Int
  PROVE  a % Modulus \in SeqNums
<1>1. Modulus \in Nat \ {0}
  BY HalfAssumption DEF Modulus
<1> QED BY <1>1, IntDivMod DEF SeqNums

(* A frame within half of the numbers of the newest one is played exactly  *)
(* if it is newer.                                                         *)
LEMMA FramePlayed ==
  ASSUME NEW r, InStep(r), NEW f \in Int, NEW fec \in BOOLEAN,
         f - r.played < Half, r.played - f <= Half, fec => f <= r.played
  PROVE  /\ InStep(AudioFrame(r, [frame |-> f, fec |-> fec]))
         /\ AudioFrame(r, [frame |-> f, fec |-> fec]).played = IF f > r.played THEN f ELSE r.played
<1> DEFINE u == [frame |-> f, fec |-> fec]
<1>1. r.played \in Nat /\ r.disorder = FALSE /\ r.recovered = FALSE /\ r.prev = r.played % Modulus
  BY DEF InStep
<1>2. u.frame = f /\ u.fec = fec
  OBVIOUS
<1>3. CASE f > r.played
  <2>1. SeqGt(f % Modulus, r.prev)
    BY <1>1, <1>3, SeqGtWindow
  <2>2. fec = FALSE /\ ~(f <= r.played)
    BY <1>1, <1>3
  <2>3. AudioFrame(r, u) = [prev |-> f % Modulus, played |-> f, disorder |-> FALSE, recovered |-> FALSE]
    BY <1>1, <1>2, <2>1, <2>2 DEF AudioFrame
  <2>4. f \in Nat /\ f % Modulus \in SeqNums
    BY <1>1, <1>3, InRange
  <2> DEFINE s == [prev |-> f % Modulus, played |-> f, disorder |-> FALSE, recovered |-> FALSE]
  <2>5. s \in AllStates /\ s.played = f /\ s.prev = f % Modulus /\ s.disorder = FALSE /\ s.recovered = FALSE
    BY <2>4 DEF AllStates
  <2>6. AudioFrame(r, u) = s
    BY <2>3
  <2> HIDE DEF s
  <2> QED BY <2>4, <2>5, <2>6, <1>3 DEF InStep
<1>4. CASE f <= r.played
  <2>1. ~SeqGt(f % Modulus, r.prev)
    BY <1>1, <1>4, SeqGtWindow
  <2>2. AudioFrame(r, u) = r
    BY <1>2, <2>1 DEF AudioFrame
  <2> QED BY <2>2, <1>1, <1>4
<1> QED BY <1>1, <1>3, <1>4

(* The newest frame played after k units of the packet that begins with n: *)
(* its own frames come first, and no repeated one is newer than they are.  *)
After(p, n, k) ==
  LET own == IF k < AudioSource THEN k ELSE AudioSource
  IN  IF own > 0 /\ n + own - 1 > p THEN n + own - 1 ELSE p

LEMMA UnitPlayed ==
  ASSUME NEW r, InStep(r), NEW p \in Nat, NEW n \in Nat \ {0}, NEW k \in 1 .. AudioUnits, NEW startup,
         n - p < Half, p - n + AudioFec < Half, r.played = After(p, n, k - 1)
  PROVE  /\ InStep(HandleUnit(r, n, k - 1, startup))
         /\ HandleUnit(r, n, k - 1, startup).played = After(p, n, k)
<1> DEFINE u == AudioUnit(n, k - 1)
<1>1. AudioSource \in Nat /\ AudioSource > 0 /\ AudioFec \in Nat /\ AudioSource + AudioFec < Half
      /\ AudioUnits = AudioSource + AudioFec /\ Half \in Nat
  BY AudioAssumption, HalfAssumption DEF AudioUnits
<1>2. CASE k - 1 < AudioSource
  <2>1. HandleUnit(r, n, k - 1, startup) = AudioFrame(r, [frame |-> n + (k - 1), fec |-> FALSE])
    BY <1>1, <1>2 DEF HandleUnit, SkipUnit, AudioUnit
  <2>2. r.played = IF k - 1 > 0 /\ n + (k - 1) - 1 > p THEN n + (k - 1) - 1 ELSE p
    BY <1>1, <1>2 DEF After
  <2>3. After(p, n, k) = IF n + k - 1 > p THEN n + k - 1 ELSE p
    BY <1>1, <1>2 DEF After
  <2>4. n + (k - 1) - r.played < Half /\ r.played - (n + (k - 1)) <= Half
    BY <1>1, <1>2, <2>2
  <2> DEFINE f == n + (k - 1)
  <2>5. f \in Int /\ f - r.played < Half /\ r.played - f <= Half
    BY <1>1, <2>2, <2>4
  <2> HIDE DEF f
  <2>6. /\ InStep(AudioFrame(r, [frame |-> f, fec |-> FALSE]))
        /\ AudioFrame(r, [frame |-> f, fec |-> FALSE]).played = IF f > r.played THEN f ELSE r.played
    BY <2>5, FramePlayed
  <2>7. HandleUnit(r, n, k - 1, startup) = AudioFrame(r, [frame |-> f, fec |-> FALSE])
    BY <2>1 DEF f
  <2>8. (IF f > r.played THEN f ELSE r.played) = After(p, n, k)
    BY <2>2, <2>3, <1>1, <1>2 DEF f
  <2> QED BY <2>6, <2>7, <2>8
<1>3. CASE ~(k - 1 < AudioSource)
  <2> DEFINE f == n - AudioFec + (k - 1 - AudioSource)
  <2>1. f \in Int /\ f < n /\ f >= n - AudioFec
    BY <1>1, <1>3
  <2>2. r.played = IF n + AudioSource - 1 > p THEN n + AudioSource - 1 ELSE p
    BY <1>1, <1>3 DEF After
  <2>3. After(p, n, k) = r.played
    BY <1>1, <1>3, <2>2 DEF After
  <2>4. f - r.played < Half /\ r.played - f <= Half /\ f <= r.played
    BY <1>1, <2>1, <2>2
  <2>5. /\ InStep(AudioFrame(r, [frame |-> f, fec |-> TRUE]))
        /\ AudioFrame(r, [frame |-> f, fec |-> TRUE]).played = IF f > r.played THEN f ELSE r.played
    BY <2>1, <2>4, FramePlayed
  <2>6. AudioUnit(n, k - 1) = [frame |-> f, fec |-> TRUE]
    BY <1>1, <1>3 DEF AudioUnit
  <2>7. HandleUnit(r, n, k - 1, startup) = r \/ HandleUnit(r, n, k - 1, startup) = AudioFrame(r, [frame |-> f, fec |-> TRUE])
    BY <2>6 DEF HandleUnit
  <2>8. r.played \in Nat
    BY DEF InStep
  <2> HIDE DEF f
  <2> QED BY <2>1, <2>3, <2>4, <2>5, <2>7, <2>8
<1> QED BY <1>2, <1>3

(* A frame leads from a state of the receiver to another one.              *)
LEMMA HandleUnitTyped ==
  ASSUME NEW r \in AllStates, NEW n \in Nat \ {0}, NEW i \in Nat, NEW startup
  PROVE  HandleUnit(r, n, i, startup) \in AllStates
<1> DEFINE u == AudioUnit(n, i)
<1>1. u.frame \in Int /\ u.frame % Modulus \in SeqNums
  <2>1. u.frame \in Int
    BY AudioAssumption DEF AudioUnit
  <2> QED BY <2>1, InRange
<1>2. (r.disorder \/ u.frame <= r.played) \in BOOLEAN /\ (r.recovered \/ u.fec) \in BOOLEAN
  OBVIOUS
<1>3. AudioFrame(r, u) \in AllStates
  BY <1>1, <1>2 DEF AudioFrame, AllStates
<1> QED BY <1>3 DEF HandleUnit

(* The recursive function of Handled exists, and goes unit by unit.        *)
LEMMA HandledSteps ==
  ASSUME NEW first \in AllStates, NEW n \in Nat \ {0}, NEW startup
  PROVE  /\ Handled(first, n, startup)[0] = first
         /\ \A k \in 1 .. AudioUnits :
              Handled(first, n, startup)[k] = HandleUnit(Handled(first, n, startup)[k - 1], n, k - 1, startup)
<1> DEFINE F == [q \in AllStates \X (1 .. AudioUnits) |-> HandleUnit(q[1], n, q[2] - 1, startup)]
           Eq(g) == g = [k \in 0 .. AudioUnits |-> IF k = 0 THEN first ELSE HandleUnit(g[k - 1], n, k - 1, startup)]
<1>1. AudioUnits \in Nat
  BY AudioAssumption DEF AudioUnits
<1>2. F \in [AllStates \X (1 .. AudioUnits) -> AllStates]
  <2>1. ASSUME NEW q \in AllStates \X (1 .. AudioUnits) PROVE HandleUnit(q[1], n, q[2] - 1, startup) \in AllStates
    <3>1. q[1] \in AllStates /\ q[2] - 1 \in Nat
      BY <1>1
    <3> QED BY <3>1, HandleUnitTyped
  <2> QED BY <2>1
<1>3. \A r \in AllStates, k \in 1 .. AudioUnits : F[<<r, k>>] = HandleUnit(r, n, k - 1, startup)
  OBVIOUS
<1> HIDE DEF F
<1>4. PICK g \in [0 .. AudioUnits -> AllStates] : IsRecursive(g, AudioUnits, first, F)
  BY <1>1, <1>2, Recursion
<1>5. \A k \in 1 .. AudioUnits : g[k] = HandleUnit(g[k - 1], n, k - 1, startup)
  <2>1. ASSUME NEW k \in 1 .. AudioUnits PROVE g[k] = HandleUnit(g[k - 1], n, k - 1, startup)
    <3>1. k - 1 \in 0 .. AudioUnits
      BY <1>1
    <3>2. g[k - 1] \in AllStates
      BY <3>1
    <3> QED BY <3>2, <1>3, <1>4 DEF IsRecursive
  <2> QED BY <2>1
<1>6. Eq(g)
  <2> DEFINE h == [k \in 0 .. AudioUnits |-> IF k = 0 THEN first ELSE HandleUnit(g[k - 1], n, k - 1, startup)]
  <2>1. \A k \in 0 .. AudioUnits : g[k] = h[k]
    BY <1>1, <1>4, <1>5 DEF IsRecursive
  <2>2. DOMAIN g = 0 .. AudioUnits /\ g = [k \in 0 .. AudioUnits |-> g[k]]
    OBVIOUS
  <2> QED BY <2>1, <2>2
<1>7. Handled(first, n, startup) = CHOOSE h : Eq(h)
  BY DEF Handled
<1>8. Eq(Handled(first, n, startup))
  <2> HIDE DEF Eq
  <2> QED BY <1>6, <1>7
<1> QED BY <1>1, <1>8

(* Induction on the units of the packet.                                   *)
LEMMA PacketPlayed ==
  ASSUME NEW first, InStep(first), NEW p \in Nat, first.played = p, NEW n \in Nat \ {0}, NEW startup,
         n - p < Half, p - n + AudioFec < Half
  PROVE  /\ InStep(Handled(first, n, startup)[AudioUnits])
         /\ Handled(first, n, startup)[AudioUnits].played = After(p, n, AudioUnits)
<1> DEFINE h == Handled(first, n, startup)
           Right(k) == InStep(h[k]) /\ h[k].played = After(p, n, k)
           C == {k \in 0 .. AudioUnits : Right(k)}
<1>1. AudioUnits \in Nat /\ AudioSource \in Nat \ {0}
  BY AudioAssumption DEF AudioUnits
<1>2. first \in AllStates
  BY DEF InStep
<1>3. h[0] = first /\ \A k \in 1 .. AudioUnits : h[k] = HandleUnit(h[k - 1], n, k - 1, startup)
  BY <1>2, HandledSteps
<1> HIDE DEF h
<1>4. Right(0)
  BY <1>1, <1>3 DEF After
<1>5. ASSUME NEW k \in 1 .. AudioUnits, Right(k - 1) PROVE Right(k)
  BY <1>3, <1>5, UnitPlayed
<1> HIDE DEF Right
<1>6. 0 \in C /\ \A k \in 1 .. AudioUnits : k - 1 \in C => k \in C
  BY <1>1, <1>4, <1>5
<1> HIDE DEF C
<1>7. 0 .. AudioUnits \subseteq C
  BY <1>1, <1>6, Induction
<1>8. Right(AudioUnits)
  BY <1>1, <1>7 DEF C
<1> QED BY <1>8 DEF Right, h

LEMMA AudioStart == AudioInit => AudioInv
<1> SUFFICES ASSUME AudioInit PROVE AudioInv
  OBVIOUS
<1>1. Half \in Nat /\ Half > 1 /\ Modulus = 2 * Half
  BY AudioAssumption, HalfAssumption DEF Modulus
<1>2. 0 % Modulus = 0
  <2>1. 0 = Modulus * 0 + 0
    BY <1>1
  <2> QED BY <1>1, <2>1, IntModUnique
<1> QED BY <1>1, <1>2 DEF AudioInit, AudioInv

LEMMA PacketHandled ==
  ASSUME AudioInv, NEW n \in Nat \ {0}, n <= sent_frames, played - n + AudioFec < Half, AudioPacket(n)
  PROVE  AudioInv'
<1> DEFINE first == [prev |-> frame_index_prev, played |-> played, disorder |-> disorder, recovered |-> recovered]
           startup == frame_index_startup /\ n % Modulus <= Half
           r == Handled(first, n, startup)[AudioUnits]
<1>1. InStep(first) /\ first.played = played
  <2>1. played \in Nat /\ frame_index_prev = played % Modulus /\ disorder = FALSE /\ recovered = FALSE
    BY DEF AudioInv
  <2>2. frame_index_prev \in SeqNums
    BY <2>1, InRange
  <2>3. /\ first.prev = played % Modulus /\ first.played = played
        /\ first.disorder = FALSE /\ first.recovered = FALSE
    BY <2>1
  <2>4. first = [prev |-> frame_index_prev, played |-> played, disorder |-> FALSE, recovered |-> FALSE]
    BY <2>1, Zenon
  <2> HIDE DEF first
  <2>5. first \in AllStates
    BY ONLY <2>1, <2>2, <2>4 DEF AllStates
  <2> QED BY <2>1, <2>3, <2>5 DEF InStep
<1>2. played \in Nat /\ n - played < Half /\ sent_frames \in Nat
  BY HalfAssumption DEF AudioInv
<1>3. /\ frame_index_prev' = r.prev /\ played' = r.played
      /\ disorder' = r.disorder /\ recovered' = r.recovered /\ sent_frames' = sent_frames
  BY DEF AudioPacket
<1> HIDE DEF first, startup
<1>4. InStep(r) /\ r.played = After(played, n, AudioUnits)
  BY <1>1, <1>2, PacketPlayed
<1> HIDE DEF r
<1>5. After(played, n, AudioUnits) >= played
  BY <1>2, AudioAssumption DEF After, AudioUnits
<1>6. sent_frames - played < Half
  BY DEF AudioInv
<1> QED BY <1>2, <1>3, <1>4, <1>5, <1>6, HalfAssumption DEF InStep, AudioInv

LEMMA AudioStep == AudioInv /\ [AudioNext]_audioVars => AudioInv'
<1> SUFFICES ASSUME AudioInv, [AudioNext]_audioVars PROVE AudioInv'
  OBVIOUS
<1>1. CASE SendAudio
  BY <1>1, AudioAssumption, HalfAssumption DEF SendAudio, AudioInv
<1>2. CASE \E n \in {k \in 1 .. sent_frames : (k - 1) % AudioSource = 0 /\ played - k + AudioFec < Half} : AudioPacket(n)
  <2>1. PICK n \in 1 .. sent_frames : played - n + AudioFec < Half /\ AudioPacket(n)
    BY <1>2
  <2>2. n \in Nat \ {0} /\ n <= sent_frames
    BY DEF AudioInv
  <2> QED BY <2>1, <2>2, PacketHandled
<1>3. CASE UNCHANGED audioVars
  BY <1>3 DEF audioVars, AudioInv
<1> QED BY <1>1, <1>2, <1>3 DEF AudioNext

(* The sink gets its frames in order and each at most once, whatever is    *)
(* lost, late or repeated, for every number of units and every width of    *)
(* the frame numbers; and it gets none of the repeated ones.               *)
THEOREM AudioInOrderHolds == AudioSpec => []AudioInOrder
<1>1. AudioInv => AudioInOrder
  BY DEF AudioInv, AudioInOrder
<1> QED BY <1>1, AudioStart, AudioStep, PTL DEF AudioSpec
-----------------------------------------------------------------------------
(* The video receiver: indices, and the window of true numbers behind      *)
(* them.                                                                   *)

LEMMA Widths ==
  /\ Half \in Nat \ {0} /\ Modulus \in Nat \ {0} /\ Modulus = 2 * Half
  /\ Source \in Nat \ {0} /\ Fec \in Nat /\ Total = Source + Fec /\ FecExpected \in Nat \ {0}
  /\ FecExpected >= Fec /\ RefMax \in Nat \ {0} /\ RefMax <= Half /\ Lag \in Nat /\ Lag < Half
BY HalfAssumption, VideoAssumption DEF Modulus, Total, FecExpected

LEMMA ModPeriod ==
  ASSUME NEW x \in Int, NEW c \in Int
  PROVE  ((x % Modulus) + c) % Modulus = (x + c) % Modulus
<1>1. PICK q \in Int, r \in 0 .. (Modulus - 1) : x = Modulus * q + r /\ x % Modulus = r
  BY Widths, IntDivMod
<1>2. PICK p \in Int, s \in 0 .. (Modulus - 1) : r + c = Modulus * p + s /\ (r + c) % Modulus = s
  BY Widths, IntDivMod
<1>3. Modulus * q + Modulus * p = Modulus * (q + p) /\ q + p \in Int
  BY Widths
<1>4. x + c = Modulus * (q + p) + s
  BY <1>1, <1>2, <1>3, Widths
<1>5. (Modulus * (q + p) + s) % Modulus = s
  BY <1>3, Widths, IntModUnique
<1> QED BY <1>1, <1>2, <1>4, <1>5

LEMMA ModDistance ==
  ASSUME NEW x \in Int, NEW y \in Int, x - y \in 0 .. (Modulus - 1)
  PROVE  (Index(x) - Index(y)) % Modulus = x - y
<1>1. PICK q \in Int, r \in 0 .. (Modulus - 1) : y = Modulus * q + r /\ y % Modulus = r
  BY Widths, IntDivMod
<1>2. (Index(x) - Index(y)) % Modulus = (x - r) % Modulus
  <2>1. x + (-r) = x - r /\ x % Modulus \in Int /\ (x % Modulus) + (-r) = (x % Modulus) - r
    BY Widths
  <2> QED BY <1>1, <2>1, ModPeriod DEF Index
<1>3. x - r = Modulus * q + (x - y)
  BY <1>1, Widths
<1>4. (Modulus * q + (x - y)) % Modulus = x - y
  BY Widths, IntModUnique
<1> QED BY <1>2, <1>3, <1>4

(* Numbers with the same index that are less than Modulus apart are the    *)
(* same.                                                                   *)
LEMMA SameIndex ==
  ASSUME NEW x \in Int, NEW y \in Int, Index(x) = Index(y), x - y \in (1 - Modulus) .. (Modulus - 1)
  PROVE  x = y
<1>1. 0 % Modulus = 0
  <2>1. 0 = Modulus * 0 + 0
    BY Widths
  <2> QED BY <2>1, Widths, IntModUnique
<1>2. Index(x) \in Int /\ Index(x) - Index(y) = 0 /\ Index(y) - Index(x) = 0
  <2>1. Index(x) \in Int
    BY Widths DEF Index
  <2> QED BY <2>1
<1>3. CASE x >= y
  BY <1>1, <1>2, <1>3, ModDistance
<1>4. CASE x < y
  <2>1. y - x \in 0 .. (Modulus - 1)
    BY <1>4, Widths
  <2>2. (Index(y) - Index(x)) % Modulus = y - x
    BY <2>1, ModDistance
  <2> QED BY <2>2, <1>1, <1>2
<1> QED BY <1>3, <1>4

LEMMA IndexOrder ==
  ASSUME NEW x \in Int, NEW y \in Int, x - y < Half, y - x < Half
  PROVE  /\ SeqGt(Index(x), Index(y)) <=> x > y
         /\ SeqLt(Index(x), Index(y)) <=> x < y
         /\ Index(x) = Index(y) <=> x = y
<1>1. Index(x) \in SeqNums /\ Index(y) \in SeqNums
  BY InRange DEF Index
<1>2. ASSUME NEW a \in Int, NEW b \in Int, b - a < Half, a - b < Half
      PROVE  SeqGt(Index(b), Index(a)) <=> b > a
  <2>1. b > a => SeqGt(Index(b), Index(a))
    BY <1>2, SeqGtWindow DEF Index
  <2>2. b <= a => ~SeqGt(Index(b), Index(a))
    <3>1. a - b <= Half
      BY <1>2, HalfAssumption
    <3> QED BY <3>1, SeqGtWindow DEF Index
  <2> QED BY <2>1, <2>2
<1>3. (SeqGt(Index(x), Index(y)) <=> x > y) /\ (SeqGt(Index(y), Index(x)) <=> y > x)
  BY <1>2
<1>4. SeqLt(Index(x), Index(y)) <=> SeqGt(Index(y), Index(x))
  BY <1>1, SeqGtIsConverse
<1>5. Index(x) = Index(y) => x = y
  BY SameIndex, Widths
<1> QED BY <1>3, <1>4, <1>5

LEMMA NextIndex ==
  ASSUME NEW x \in Int
  PROVE  SeqAdd(Index(x), 1) = Index(x + 1) /\ (Index(x) - 1) % Modulus = Index(x - 1)
<1>1. Index(x) \in Int /\ Index(x) + (-1) = Index(x) - 1 /\ x + (-1) = x - 1
  BY Widths DEF Index
<1> QED BY <1>1, ModPeriod DEF Index, SeqAdd

(* The smallest number of a set, and the references that are kept.         *)
LEMMA MinIs ==
  ASSUME NEW T, T \subseteq Nat, T # {}
  PROVE  Min(T) \in T /\ \A x \in T : Min(T) <= x
<1>1. PICK m \in T : \A x \in T : m <= x
  BY Least
<1> QED BY <1>1 DEF Min

LEMMA PushIs ==
  ASSUME NEW s \in Seq(Int), NEW x \in Int
  PROVE  /\ Push(s, x) \in Seq(Int) /\ Push(s, x) # << >>
         /\ Len(Push(s, x)) = Min({RefMax, Len(s) + 1})
         /\ Push(s, x)[1] = x
         /\ \A k \in 2 .. Len(Push(s, x)) : Push(s, x)[k] = s[k - 1] /\ k - 1 \in 1 .. Len(s)
<1> DEFINE m == Min({RefMax, Len(s) + 1})
           t == <<x>> \o s
<1>1. m \in 1 .. (Len(s) + 1)
  <2>1. {RefMax, Len(s) + 1} \subseteq Nat \ {0}
    BY Widths
  <2>2. m \in {RefMax, Len(s) + 1} /\ m <= Len(s) + 1
    BY <2>1, MinIs
  <2> QED BY <2>1, <2>2
<1> HIDE DEF m
<1>2. /\ t \in Seq(Int) /\ Len(t) = Len(s) + 1 /\ t[1] = x
      /\ \A k \in 2 .. Len(t) : t[k] = s[k - 1]
  OBVIOUS
<1> HIDE DEF t
<1>3. /\ SubSeq(t, 1, m) \in Seq(Int) /\ Len(SubSeq(t, 1, m)) = m
      /\ \A k \in 1 .. m : SubSeq(t, 1, m)[k] = t[k]
  BY <1>1, <1>2
<1>4. Push(s, x) = SubSeq(t, 1, m)
  BY DEF Push, t, m
<1>5. Push(s, x)[1] = x /\ \A k \in 2 .. m : Push(s, x)[k] = s[k - 1] /\ k - 1 \in 1 .. Len(s)
  BY <1>1, <1>2, <1>3, <1>4
<1>6. Len(Push(s, x)) = m /\ m # 0
  BY <1>1, <1>3, <1>4
<1>7. Push(s, x) # << >>
  BY <1>6
<1> QED BY <1>3, <1>4, <1>5, <1>6, <1>7 DEF m
-----------------------------------------------------------------------------
(* The invariant of the video receiver, in parts.  top is the newest frame *)
(* sent, and v the receiver, also in the middle of a packet.               *)
Samples == [frame : Int, times : Int, profile : Int, parts : SUBSET Int, ref : BOOLEAN]

Receivers ==
  [cur : Int, prev : Int, complete : Int, profile : Int,
   unit : [Units -> Int], source : Int, fec : Int, expected : Int,
   refs : Seq(Int), generation : [received : Int, lost : Int],
   at : Int, decoded : Seq(Int), pending : SUBSET Int, header : Int, sample : Samples]

Newest(v) == IF v.decoded = << >> THEN 0 ELSE v.decoded[1]
Filled(v, S) == {i \in S : v.unit[i] # NoFrame}

(* The slots hold units of the frame under construction only, and as long  *)
(* as it can still be flushed, the counters count them.                    *)
Slots(v) ==
  /\ \A i \in Units : v.unit[i] \in {NoFrame, v.at}
  /\ v.cur # v.prev => /\ v.source = Cardinality(Filled(v, SourceUnits))
                       /\ v.fec = Cardinality(Filled(v, Units \ SourceUnits))

(* The indices in refs are those of the frames decoded, none of which is   *)
(* so old that its index could come again.                                 *)
References(v, top) ==
  /\ Len(v.refs) = Len(v.decoded)
  /\ \A k \in 1 .. Len(v.decoded) :
       v.refs[k] = Index(v.decoded[k]) /\ v.decoded[k] <= v.at /\ top - v.decoded[k] < Modulus

(* The indices are those of the current and of the newest decoded frame,   *)
(* and only the current frame is not accounted for.                        *)
Accounted(v, top) ==
  /\ top \in Nat /\ v.at \in 0 .. top
  /\ Newest(v) \in 0 .. v.at /\ top - Newest(v) < Half
  /\ v.complete = Index(Newest(v))
  /\ v.cur = IF v.at = 0 THEN -1 ELSE Index(v.at)
  /\ v.at = 0 => v.prev = -1
  /\ v.at # 0 => v.expected = Source
  /\ Newest(v) = v.at => v.prev = v.cur /\ v.pending = {}
  /\ v.pending \subseteq {v.at}

(* What the decoder was given last.                                        *)
Fed(v) ==
  /\ v.sample.parts \subseteq {v.sample.frame}
  /\ v.sample.frame # NoFrame => v.sample.profile = ProfileOf(v.sample.frame)
  /\ v.sample.ref = TRUE

Sound(v, top) ==
  v \in Receivers /\ Slots(v) /\ References(v, top) /\ Accounted(v, top) /\ Fed(v) /\ v.header = v.profile

(* Between packets, a frame that can be flushed still lacks units: more    *)
(* than redundancy makes up for.                                           *)
Lacking(v) == v.cur # v.prev => v.source + v.fec < Source

ReceiverInv == Sound(vr, sent) /\ Lacking(vr)

LEMMA ReceiverStart == Init => ReceiverInv
<1> SUFFICES ASSUME Init PROVE ReceiverInv
  OBVIOUS
<1>1. /\ sent = 0 /\ vr.cur = -1 /\ vr.prev = -1 /\ vr.complete = 0 /\ vr.profile = -1 /\ vr.header = -1
      /\ vr.unit = [i \in Units |-> NoFrame] /\ vr.at = 0 /\ vr.pending = {}
      /\ vr.refs = << >> /\ vr.decoded = << >>
      /\ vr.sample = [frame |-> NoFrame, times |-> 0, profile |-> -1, parts |-> {}, ref |-> TRUE]
  BY DEF Init, NoFrame
<1>2. vr \in Receivers
  <2>1. [i \in Units |-> NoFrame] \in [Units -> Int] /\ << >> \in Seq(Int)
    BY DEF NoFrame
  <2>2. [frame |-> NoFrame, times |-> 0, profile |-> -1, parts |-> {}, ref |-> TRUE] \in Samples
    BY DEF Samples, NoFrame
  <2> QED BY <2>1, <2>2 DEF Init, Receivers, NoFrame
<1>3. Index(0) = 0
  <2>1. 0 = Modulus * 0 + 0
    BY Widths
  <2> QED BY <2>1, Widths, IntModUnique DEF Index
<1>4. Slots(vr) /\ References(vr, sent) /\ Fed(vr) /\ Lacking(vr)
  BY <1>1 DEF Slots, References, Fed, Lacking, NoFrame
<1>5. Accounted(vr, sent)
  BY <1>1, <1>3, Widths DEF Accounted, Newest
<1> QED BY <1>1, <1>2, <1>4, <1>5 DEF ReceiverInv, Sound

(* A new profile changes nothing but the header.                           *)
LEMMA ProfileSwitched ==
  ASSUME NEW v, NEW top, Sound(v, top), NEW n \in Nat
  PROVE  LET s == SwitchProfile(v, n)
         IN  /\ Sound(s, top) /\ s.header = ProfileOf(n)
             /\ s.at = v.at /\ s.cur = v.cur /\ s.prev = v.prev
             /\ Lacking(v) => Lacking(s)
<1> DEFINE s == SwitchProfile(v, n)
<1>1. v \in Receivers /\ v.header = v.profile
  BY DEF Sound
<1>2. ProfileOf(n) \in Int
  BY DEF ProfileOf
<1>3. /\ s \in Receivers /\ s.header = ProfileOf(n) /\ s.profile = ProfileOf(n)
      /\ s.at = v.at /\ s.cur = v.cur /\ s.prev = v.prev /\ s.unit = v.unit /\ s.source = v.source
      /\ s.fec = v.fec /\ s.refs = v.refs /\ s.decoded = v.decoded /\ s.complete = v.complete
      /\ s.expected = v.expected /\ s.pending = v.pending /\ s.sample = v.sample
  BY <1>1, <1>2 DEF SwitchProfile, Receivers
<1> HIDE DEF s
<1>4. Slots(s) /\ References(s, top) /\ Fed(s) /\ (Lacking(v) => Lacking(s))
  BY <1>3 DEF Sound, Slots, References, Fed, Lacking, Filled
<1>5. Accounted(s, top)
  BY <1>3 DEF Sound, Accounted, Newest
<1> QED BY <1>3, <1>4, <1>5 DEF Sound, s
(* Of the frames from first to last, none is pending any more.             *)
LEMMA CorruptFrames ==
  ASSUME NEW v \in Receivers, NEW first \in Int, NEW last \in Int, last - first \in 0 .. (Modulus - 1)
  PROVE  LET w == SendCorruptFrame(v, Index(first), Index(last))
         IN  /\ w = [v EXCEPT !.pending = w.pending]
             /\ w.pending \subseteq v.pending
             /\ \A n \in w.pending : ~(first <= n /\ n <= last)
<1> DEFINE w == SendCorruptFrame(v, Index(first), Index(last))
           kept == {n \in v.pending : (Index(n) - Index(first)) % Modulus > (Index(last) - Index(first)) % Modulus}
<1>1. w = [v EXCEPT !.pending = kept]
  BY DEF SendCorruptFrame, Receivers
<1>2. w.pending = kept
  BY <1>1 DEF Receivers
<1>3. v.pending \subseteq Int
  BY DEF Receivers
<1>4. ASSUME NEW n \in kept, first <= n, n <= last PROVE FALSE
  <2>1. n \in Int /\ n - first \in 0 .. (Modulus - 1)
    BY <1>3, <1>4, Widths
  <2>2. (Index(n) - Index(first)) % Modulus = n - first /\ (Index(last) - Index(first)) % Modulus = last - first
    BY <2>1, ModDistance
  <2> QED BY <2>1, <2>2, <1>4
<1> QED BY <1>1, <1>2, <1>4

(* A frame that lacks units is given up when the next one begins: all that *)
(* changes is prev, and what is reported as corrupt.                       *)
Kept(b, v) ==
  /\ b \in Receivers /\ b.pending \subseteq v.pending
  /\ b.at = v.at /\ b.cur = v.cur /\ b.complete = v.complete /\ b.profile = v.profile
  /\ b.header = v.header /\ b.refs = v.refs /\ b.decoded = v.decoded /\ b.sample = v.sample

LEMMA GivenUp ==
  ASSUME NEW v, NEW top, Sound(v, top), Lacking(v), NEW o
  PROVE  LET a == ReportPacketStats(v)
         IN  Kept(IF v.cur >= 0 /\ v.prev # v.cur THEN FlushFrame(a, o) ELSE a, v)
<1> DEFINE a == ReportPacketStats(v)
           b == IF v.cur >= 0 /\ v.prev # v.cur THEN FlushFrame(a, o) ELSE a
<1>1. v \in Receivers
  BY DEF Sound
<1>2. /\ a \in Receivers /\ a.pending = v.pending
      /\ a.at = v.at /\ a.cur = v.cur /\ a.complete = v.complete /\ a.profile = v.profile
      /\ a.header = v.header /\ a.refs = v.refs /\ a.decoded = v.decoded /\ a.sample = v.sample
      /\ a.source = v.source /\ a.fec = v.fec /\ a.expected = v.expected
  <2> DEFINE units == IF v.expected = 0 THEN 0 ELSE v.expected + FecExpected
             g == [received |-> v.source + v.fec, lost |-> units - (v.source + v.fec)]
  <2>1. v.source \in Int /\ v.fec \in Int /\ v.expected \in Int
    BY <1>1 DEF Receivers
  <2>2. units \in Int
    BY <2>1, Widths
  <2> HIDE DEF units
  <2>3. g \in [received : Int, lost : Int]
    BY <2>1, <2>2
  <2>4. a = [v EXCEPT !.generation = g]
    BY DEF ReportPacketStats, units
  <2> HIDE DEF g, a
  <2> QED BY <1>1, <2>3, <2>4 DEF Receivers
<1> HIDE DEF a
<1>3. ASSUME ~(v.cur >= 0 /\ v.prev # v.cur) PROVE Kept(b, v)
  <2>1. b = a
    BY <1>3
  <2> HIDE DEF b
  <2> QED BY <1>2, <2>1 DEF Kept
<1>4. ASSUME v.cur >= 0, v.prev # v.cur PROVE Kept(b, v)
  <2>1. v.expected = Source /\ v.source + v.fec < Source /\ v.source \in Int /\ v.fec \in Int
    BY <1>1, <1>4 DEF Sound, Accounted, Lacking, Receivers
  <2>2. v.fec >= 0
    <3>1. v.fec = Cardinality(Filled(v, Units \ SourceUnits))
      BY <1>4 DEF Sound, Slots
    <3>2. IsFiniteSet(Units) /\ Filled(v, Units \ SourceUnits) \subseteq Units
      BY FS_Interval, Widths DEF Units, Filled
    <3>3. IsFiniteSet(Filled(v, Units \ SourceUnits))
      BY <3>2, FS_Subset
    <3> QED BY <3>1, <3>3, FS_CardinalityType
  <2>3. FlushFails(a)
    BY <1>2, <2>1, <2>2, Widths DEF FlushFails, Restored, Erasures
  <2> DEFINE c == SendCorruptFrame(a, NextExpected(a), a.cur)
  <2>4. b = [c EXCEPT !.prev = a.cur]
    BY <1>4, <2>3 DEF FlushFrame
  <2>5. /\ c \in Receivers /\ c.pending \subseteq a.pending
        /\ c.at = a.at /\ c.cur = a.cur /\ c.complete = a.complete /\ c.profile = a.profile
        /\ c.header = a.header /\ c.refs = a.refs /\ c.decoded = a.decoded /\ c.sample = a.sample
    BY <1>2 DEF SendCorruptFrame, Receivers
  <2> HIDE DEF c
  <2>6. a.cur \in Int
    BY <1>2 DEF Receivers
  <2>7. /\ b \in Receivers /\ b.pending = c.pending
        /\ b.at = c.at /\ b.cur = c.cur /\ b.complete = c.complete /\ b.profile = c.profile
        /\ b.header = c.header /\ b.refs = c.refs /\ b.decoded = c.decoded /\ b.sample = c.sample
    BY <2>4, <2>5, <2>6 DEF Receivers
  <2> HIDE DEF b
  <2> QED BY <1>2, <2>5, <2>7 DEF Kept
<1> QED BY <1>3, <1>4 DEF a
(* With the new frame all older ones are accounted for: what is missing    *)
(* since the last complete frame is reported, unless nothing is.           *)
LEMMA Reported ==
  ASSUME NEW v, NEW top, Sound(v, top), NEW b, Kept(b, v), NEW n \in Nat, v.at < n, n <= top
  PROVE  /\ Report(b, n) = [b EXCEPT !.pending = Report(b, n).pending]
         /\ Report(b, n).pending \subseteq {n}
<1> DEFINE d == Newest(v)
           w == [b EXCEPT !.pending = @ \cup ((b.at + 1) .. n)]
<1>1. /\ v.at \in Nat /\ d \in 0 .. v.at /\ top \in Nat /\ top - d < Half /\ v.complete = Index(d)
      /\ v.cur = (IF v.at = 0 THEN -1 ELSE Index(v.at))
      /\ d = v.at => v.pending = {}
      /\ v.pending \subseteq {v.at}
  BY DEF Sound, Accounted
<1> HIDE DEF d
<1>2. /\ w \in Receivers /\ w.pending = b.pending \cup ((v.at + 1) .. n) /\ w.cur = v.cur
      /\ w.complete = v.complete
  <2>1. b \in Receivers /\ b.at = v.at /\ b.pending \subseteq Int
    BY DEF Kept, Receivers
  <2>2. b.pending \cup ((b.at + 1) .. n) \in SUBSET Int
    BY <1>1, <2>1
  <2> QED BY <1>1, <2>1, <2>2 DEF Kept, Receivers
<1>3. \A k \in w.pending : k \in Int /\ d < k /\ k <= n
  BY <1>1, <1>2 DEF Kept
<1>4. NextExpected(b) = Index(d + 1)
  BY <1>1, NextIndex DEF NextExpected, Kept
<1>5. SeqGt(Index(n), NextExpected(b)) <=> n > d + 1
  BY <1>1, <1>4, IndexOrder, Widths
<1>6. ASSUME n > d + 1 PROVE ~(Index(n) = 1 /\ b.cur < 0)
  <2>1. SUFFICES ASSUME Index(n) = 1, b.cur < 0 PROVE FALSE
    OBVIOUS
  <2>2. v.at = 0
    <3>1. v.at # 0 => v.cur \in Nat
      BY <1>1, Widths DEF Index
    <3> QED BY <2>1, <3>1 DEF Kept
  <2>3. d = 0 /\ n < Half /\ n # 1
    BY <1>1, <1>6, <2>2, Widths
  <2>4. Index(n) = n
    <3>1. n = Modulus * 0 + n /\ n \in 0 .. (Modulus - 1)
      BY <2>3, Widths
    <3> QED BY <3>1, Widths, IntModUnique DEF Index
  <2> QED BY <2>1, <2>3, <2>4
<1>7. CASE n > d + 1
  <2> DEFINE c == SendCorruptFrame(w, Index(d + 1), Index(n - 1))
  <2>1. Report(b, n) = c
    BY <1>2, <1>4, <1>5, <1>6, <1>7, NextIndex DEF Report
  <2>2. /\ c = [w EXCEPT !.pending = c.pending]
        /\ c.pending \subseteq w.pending
        /\ \A k \in c.pending : ~(d + 1 <= k /\ k <= n - 1)
    <3>1. d + 1 \in Int /\ n - 1 \in Int /\ (n - 1) - (d + 1) \in 0 .. (Modulus - 1)
      BY <1>1, <1>7, Widths
    <3> QED BY <1>2, <3>1, CorruptFrames
  <2> HIDE DEF c
  <2>3. c.pending \subseteq {n}
    BY <1>1, <1>3, <2>2
  <2>4. c = [b EXCEPT !.pending = c.pending]
    BY <2>2 DEF Kept, Receivers
  <2> QED BY <2>1, <2>3, <2>4
<1>8. CASE n <= d + 1
  <2>1. d = v.at /\ n = v.at + 1
    BY <1>1, <1>8
  <2>2. Report(b, n) = w
    BY <1>1, <1>5, <1>8 DEF Report
  <2>3. w.pending \subseteq {n}
    BY <1>1, <1>2, <2>1 DEF Kept
  <2>4. w = [b EXCEPT !.pending = w.pending]
    BY DEF Kept, Receivers
  <2> HIDE DEF w
  <2> QED BY <2>2, <2>3, <2>4
<1> QED BY <1>1, <1>7, <1>8

LEMMA FrameBegun ==
  ASSUME NEW v, NEW top, Sound(v, top), Lacking(v), NEW n \in Nat, v.at < n, n <= top, NEW o
  PROVE  LET w == BeginFrame(v, n, o)
         IN  Sound(w, top) /\ w.at = n /\ w.header = v.header
<1> DEFINE a == ReportPacketStats(v)
           b == IF v.cur >= 0 /\ v.prev # v.cur THEN FlushFrame(a, o) ELSE a
           r == Report(b, n)
           w == BeginFrame(v, n, o)
<1>1. Kept(b, v)
  BY GivenUp
<1>2. w = AllocFrame([r EXCEPT !.cur = Index(n), !.at = n])
  BY DEF BeginFrame
<1> HIDE DEF b
<1>3. r = [b EXCEPT !.pending = r.pending] /\ r.pending \subseteq {n}
  BY <1>1, Reported
<1> HIDE DEF r, w
<1>4. /\ r \in Receivers /\ r.at = v.at /\ r.complete = v.complete /\ r.profile = v.profile
      /\ r.header = v.header /\ r.refs = v.refs /\ r.decoded = v.decoded /\ r.sample = v.sample
  <2> DEFINE S == r.pending
  <2>1. S \in SUBSET Int /\ b \in Receivers /\ r = [b EXCEPT !.pending = S]
    BY <1>1, <1>3 DEF Kept
  <2> HIDE DEF S
  <2>2. r \in Receivers
    BY <2>1 DEF Receivers
  <2>3. /\ r.at = b.at /\ r.complete = b.complete /\ r.profile = b.profile
        /\ r.header = b.header /\ r.refs = b.refs /\ r.decoded = b.decoded /\ r.sample = b.sample
    BY <2>1 DEF Receivers
  <2> QED BY <1>1, <2>2, <2>3 DEF Kept
<1>5. Index(n) \in Int /\ [i \in Units |-> NoFrame] \in [Units -> Int]
  BY Widths DEF Index, NoFrame
<1>6. /\ w \in Receivers /\ w.at = n /\ w.cur = Index(n) /\ w.complete = v.complete /\ w.profile = v.profile
      /\ w.header = v.header /\ w.refs = v.refs /\ w.decoded = v.decoded /\ w.sample = v.sample
      /\ w.unit = [i \in Units |-> NoFrame] /\ w.source = 0 /\ w.fec = 0 /\ w.expected = Source
      /\ w.pending = r.pending
  <2> DEFINE t == [r EXCEPT !.cur = Index(n), !.at = n]
  <2>1. /\ t \in Receivers /\ t.at = n /\ t.cur = Index(n) /\ t.complete = r.complete /\ t.profile = r.profile
        /\ t.header = r.header /\ t.refs = r.refs /\ t.decoded = r.decoded /\ t.sample = r.sample
        /\ t.pending = r.pending
    <3>1. r \in Receivers /\ n \in Int /\ Index(n) \in Int
      BY <1>4, <1>5
    <3>2. t \in Receivers
      BY <3>1 DEF Receivers
    <3> QED BY <3>1, <3>2 DEF Receivers
  <2>2. w = AllocFrame(t)
    BY <1>2
  <2> HIDE DEF t
  <2>3. /\ AllocFrame(t) \in Receivers /\ AllocFrame(t).at = t.at /\ AllocFrame(t).cur = t.cur
        /\ AllocFrame(t).complete = t.complete /\ AllocFrame(t).profile = t.profile
        /\ AllocFrame(t).header = t.header /\ AllocFrame(t).refs = t.refs
        /\ AllocFrame(t).decoded = t.decoded /\ AllocFrame(t).sample = t.sample
        /\ AllocFrame(t).pending = t.pending /\ AllocFrame(t).unit = [i \in Units |-> NoFrame]
        /\ AllocFrame(t).source = 0 /\ AllocFrame(t).fec = 0 /\ AllocFrame(t).expected = Source
    <3> DEFINE e == AllocFrame(t)
               empty == [i \in Units |-> NoFrame]
    <3>1. e = [t EXCEPT !.unit = empty, !.source = 0, !.fec = 0, !.expected = Source]
      BY DEF AllocFrame
    <3>2. empty \in [Units -> Int] /\ Source \in Int /\ 0 \in Int /\ t \in Receivers
      BY <1>5, <2>1, Widths
    <3> HIDE DEF e, empty
    <3>3. e \in Receivers
      BY <3>1, <3>2 DEF Receivers
    <3>4. /\ e.at = t.at /\ e.cur = t.cur /\ e.complete = t.complete /\ e.profile = t.profile
          /\ e.header = t.header /\ e.refs = t.refs /\ e.decoded = t.decoded /\ e.sample = t.sample
          /\ e.pending = t.pending
      BY <3>1, <3>2 DEF Receivers
    <3>5. e.unit = empty /\ e.source = 0 /\ e.fec = 0 /\ e.expected = Source
      BY <3>1, <3>2 DEF Receivers
    <3> QED BY <3>3, <3>4, <3>5 DEF e, empty
  <2> QED BY <1>4, <2>1, <2>2, <2>3
<1>7. Slots(w)
  <2>1. Filled(w, SourceUnits) = {} /\ Filled(w, Units \ SourceUnits) = {}
    BY <1>6, Widths DEF Filled, SourceUnits, Units
  <2> QED BY <1>6, <2>1, FS_EmptySet DEF Slots
<1>8. References(w, top)
  <2>1. References(v, top) /\ v.at \in Nat /\ v.decoded \in Seq(Int)
    BY DEF Sound, Accounted, Receivers
  <2>2. ASSUME NEW k \in 1 .. Len(v.decoded) PROVE v.decoded[k] <= n
    <3>1. v.decoded[k] <= v.at /\ v.decoded[k] \in Int
      BY <2>1 DEF References
    <3> QED BY <2>1, <3>1
  <2> QED BY <1>6, <2>1, <2>2 DEF References
<1>9. Accounted(w, top)
  <2>1. Newest(w) = Newest(v)
    BY <1>6 DEF Newest
  <2> QED BY <1>3, <1>6, <2>1 DEF Sound, Accounted
<1>10. Fed(w)
  BY <1>6 DEF Fed, Sound
<1> QED BY <1>6, <1>7, <1>8, <1>9, <1>10 DEF Sound, w
LEMMA SlotsFinite ==
  ASSUME NEW v
  PROVE  /\ IsFiniteSet(Filled(v, SourceUnits)) /\ IsFiniteSet(Filled(v, Units \ SourceUnits))
         /\ SourceUnits \subseteq Units
         /\ IsFiniteSet(Units) /\ Cardinality(Units) = Total
         /\ IsFiniteSet(SourceUnits) /\ Cardinality(SourceUnits) = Source
         /\ \A i \in Units : i \in SourceUnits <=> i < Source
<1>1. /\ IsFiniteSet(Units) /\ IsFiniteSet(SourceUnits) /\ SourceUnits \subseteq Units
      /\ \A i \in Units : i \in SourceUnits <=> i < Source
  BY FS_Interval, Widths DEF Units, SourceUnits
<1>2. Cardinality(0 .. (Total - 1)) = (Total - 1) - 0 + 1 /\ Cardinality(0 .. (Source - 1)) = (Source - 1) - 0 + 1
  BY FS_Interval, Widths
<1>3. Filled(v, SourceUnits) \subseteq Units /\ Filled(v, Units \ SourceUnits) \subseteq Units
  BY <1>1 DEF Filled
<1>4. IsFiniteSet(Filled(v, SourceUnits)) /\ IsFiniteSet(Filled(v, Units \ SourceUnits))
  BY <1>1, <1>3, FS_Subset
<1> QED BY <1>1, <1>2, <1>4, Widths DEF Units, SourceUnits

(* A slot that gets its unit is counted, as data or as redundancy.         *)
LEMMA UnitPut ==
  ASSUME NEW v, NEW top, Sound(v, top), v.at # 0, NEW i \in Units
  PROVE  LET u == PutUnit(v, v.at, i)
         IN  Sound(u, top) /\ u.at = v.at /\ u.header = v.header
<1> DEFINE u == PutUnit(v, v.at, i)
<1>1. CASE v.unit[i] # NoFrame
  BY <1>1 DEF PutUnit
<1>2. CASE v.unit[i] = NoFrame
  <2> DEFINE source == IF i < Source THEN v.source + 1 ELSE v.source
             fec    == IF i < Source THEN v.fec ELSE v.fec + 1
             unit   == [v.unit EXCEPT ![i] = v.at]
  <2>1. v \in Receivers /\ v.source \in Int /\ v.fec \in Int /\ v.at \in Int /\ v.unit \in [Units -> Int]
    BY DEF Sound, Receivers
  <2>2. u = [v EXCEPT !.unit = unit, !.source = source, !.fec = fec]
    BY <1>2, <2>1 DEF PutUnit, Receivers
  <2>3. source \in Int /\ fec \in Int /\ unit \in [Units -> Int]
    BY <2>1
  <2>4. unit[i] = v.at /\ \A j \in Units \ {i} : unit[j] = v.unit[j]
    BY <2>1
  <2>5. source = (IF i < Source THEN v.source + 1 ELSE v.source) /\ fec = (IF i < Source THEN v.fec ELSE v.fec + 1)
    OBVIOUS
  <2> HIDE DEF u, source, fec, unit
  <2>6. u \in Receivers
    BY <2>1, <2>2, <2>3 DEF Receivers
  <2>7. u.unit = unit /\ u.source = source /\ u.fec = fec
    BY <2>1, <2>2 DEF Receivers
  <2>8. /\ u.at = v.at /\ u.cur = v.cur /\ u.prev = v.prev /\ u.complete = v.complete /\ u.profile = v.profile
        /\ u.header = v.header /\ u.refs = v.refs /\ u.decoded = v.decoded /\ u.sample = v.sample
        /\ u.pending = v.pending /\ u.expected = v.expected
    BY <2>1, <2>2 DEF Receivers
  <2>9. Slots(u)
    <3>1. \A j \in Units : u.unit[j] \in {NoFrame, u.at}
      BY <2>4, <2>7, <2>8 DEF Sound, Slots
    <3>2. CASE v.cur # v.prev
      <4>1. v.source = Cardinality(Filled(v, SourceUnits)) /\ v.fec = Cardinality(Filled(v, Units \ SourceUnits))
        BY <3>2 DEF Sound, Slots
      <4>2. v.at # NoFrame
        BY DEF NoFrame
      <4>3. CASE i < Source
        <5>1. i \in SourceUnits /\ i \notin Filled(v, SourceUnits)
          BY <1>2, <4>3, SlotsFinite DEF Filled
        <5>2. Filled(u, SourceUnits) = Filled(v, SourceUnits) \cup {i}
          BY <2>4, <2>7, <4>2, <5>1, SlotsFinite DEF Filled
        <5>3. Filled(u, Units \ SourceUnits) = Filled(v, Units \ SourceUnits)
          BY <2>4, <2>7, <5>1 DEF Filled
        <5>4. Cardinality(Filled(u, SourceUnits)) = Cardinality(Filled(v, SourceUnits)) + 1
          BY <5>1, <5>2, SlotsFinite, FS_AddElement
        <5> QED BY <2>5, <2>7, <3>1, <4>1, <4>3, <5>3, <5>4 DEF Slots
      <4>4. CASE ~(i < Source)
        <5>1. i \in Units \ SourceUnits /\ i \notin Filled(v, Units \ SourceUnits)
          BY <1>2, <4>4, SlotsFinite DEF Filled
        <5>2. Filled(u, Units \ SourceUnits) = Filled(v, Units \ SourceUnits) \cup {i}
          BY <2>4, <2>7, <4>2, <5>1 DEF Filled
        <5>3. Filled(u, SourceUnits) = Filled(v, SourceUnits)
          BY <2>4, <2>7, <5>1, SlotsFinite DEF Filled
        <5>4. Cardinality(Filled(u, Units \ SourceUnits)) = Cardinality(Filled(v, Units \ SourceUnits)) + 1
          BY <5>1, <5>2, SlotsFinite, FS_AddElement
        <5> QED BY <2>5, <2>7, <3>1, <4>1, <4>4, <5>3, <5>4 DEF Slots
      <4> QED BY <4>3, <4>4
    <3>3. CASE v.cur = v.prev
      BY <2>8, <3>1, <3>3 DEF Slots
    <3> QED BY <3>2, <3>3
  <2>10. References(u, top) /\ Fed(u)
    BY <2>8 DEF Sound, References, Fed
  <2>11. Accounted(u, top)
    <3>1. Newest(u) = Newest(v)
      BY <2>8 DEF Newest
    <3> QED BY <2>8, <3>1 DEF Sound, Accounted
  <2> QED BY <2>6, <2>8, <2>9, <2>10, <2>11 DEF Sound, u
<1> QED BY <1>1, <1>2

(* The frame is put together from its own units: all the data units are    *)
(* there, or are restored.                                                 *)
LEMMA WholeFrame ==
  ASSUME NEW v, NEW top, Sound(v, top), v.cur # v.prev, v.at # 0, ~FlushFails(v)
  PROVE  /\ Flush(v) \in Receivers
         /\ Flush(v) = [v EXCEPT !.unit = Flush(v).unit]
         /\ \A i \in Units : Flush(v).unit[i] \in {NoFrame, v.at}
         /\ \A i \in SourceUnits : Flush(v).unit[i] = v.at
<1>1. v \in Receivers /\ v.unit \in [Units -> Int] /\ v.at \in Int /\ v.expected = Source /\ v.source \in Int
  BY DEF Sound, Receivers, Accounted
<1>2. \A i \in Units : v.unit[i] \in {NoFrame, v.at}
  BY DEF Sound, Slots
<1>3. CASE Restored(v)
  <2> DEFINE unit == [i \in Units |-> IF i < Source THEN v.at ELSE v.unit[i]]
             f == Flush(v)
  <2>1. f = [v EXCEPT !.unit = unit]
    BY <1>1, <1>3 DEF Flush, Receivers
  <2>2. unit \in [Units -> Int]
    BY <1>1
  <2>3. /\ \A i \in Units : unit[i] \in {NoFrame, v.at}
        /\ \A i \in SourceUnits : unit[i] = v.at
    BY <1>2, SlotsFinite
  <2> HIDE DEF unit, f
  <2>4. f \in Receivers /\ f.unit = unit
    BY <1>1, <2>1, <2>2 DEF Receivers
  <2> QED BY <2>1, <2>3, <2>4 DEF f
<1>4. CASE ~Restored(v)
  <2>1. Flush(v) = v
    BY <1>4 DEF Flush
  <2>2. v.source >= Source
    BY <1>1, <1>4, Widths DEF FlushFails
  <2>3. v.source = Cardinality(Filled(v, SourceUnits))
    BY DEF Sound, Slots
  <2>4. Filled(v, SourceUnits) = SourceUnits
    <3>1. Filled(v, SourceUnits) \subseteq SourceUnits
      BY DEF Filled
    <3>2. Cardinality(Filled(v, SourceUnits)) <= Cardinality(SourceUnits)
          /\ (Cardinality(Filled(v, SourceUnits)) = Cardinality(SourceUnits) => Filled(v, SourceUnits) = SourceUnits)
      BY <3>1, SlotsFinite, FS_Subset
    <3> QED BY <1>1, <2>2, <2>3, <3>2, SlotsFinite, Widths
  <2>5. \A i \in SourceUnits : v.unit[i] = v.at
    BY <1>2, <2>4, SlotsFinite DEF Filled
  <2>6. v = [v EXCEPT !.unit = v.unit]
    BY <1>1 DEF Receivers
  <2> QED BY <1>1, <1>2, <2>1, <2>5, <2>6
<1> QED BY <1>3, <1>4

(* An index among the references is that of a frame the decoder has: the   *)
(* one meant, since no other one with this index is remembered.            *)
LEMMA ReferenceDecoded ==
  ASSUME NEW v, NEW top, Sound(v, top), v.at # 0, NEW r \in 0 .. (RefMax - 1), HaveRef(v, RefIndex(v, r))
  PROVE  \E k \in 1 .. Len(v.decoded) : v.decoded[k] = v.at - r - 1
<1>1. /\ v.at \in Nat /\ top \in Nat /\ v.at <= top /\ v.cur = Index(v.at)
      /\ v.refs \in Seq(Int) /\ v.decoded \in Seq(Int) /\ References(v, top)
  BY DEF Sound, Accounted, Receivers
<1>2. r \in Nat /\ r + 1 <= RefMax /\ -(r + 1) \in Int
  BY Widths
<1>3. PICK k \in 1 .. Len(v.refs) : v.refs[k] = RefIndex(v, r)
  BY DEF HaveRef
<1>4. k \in 1 .. Len(v.decoded) /\ v.decoded[k] \in Int
  BY <1>1, <1>3 DEF References
<1>5. v.refs[k] = Index(v.decoded[k]) /\ v.decoded[k] <= v.at /\ top - v.decoded[k] < Modulus
  BY <1>1, <1>4 DEF References
<1>6. ASSUME NEW a \in Int PROVE (Index(a) - r - 1) % Modulus = Index(a - r - 1)
  <2> DEFINE c == 0 - r - 1
  <2>1. c \in Int /\ Index(a) \in Int /\ Index(a) + c = Index(a) - r - 1 /\ a + c = a - r - 1
    BY <1>2, Widths DEF Index
  <2> HIDE DEF c
  <2>2. ((a % Modulus) + c) % Modulus = (a + c) % Modulus
    BY <2>1, ModPeriod
  <2> QED BY <2>1, <2>2 DEF Index
<1>7. RefIndex(v, r) = Index(v.at - r - 1)
  <2>1. v.at \in Int
    BY <1>1
  <2>2. (Index(v.at) - r - 1) % Modulus = Index(v.at - r - 1)
    BY <2>1, <1>6
  <2> QED BY <1>1, <2>2 DEF RefIndex
<1>8. ASSUME NEW a \in Nat, NEW d \in Int, d <= a, a <= top, top - d < Modulus
      PROVE  a - r - 1 \in Int /\ d - (a - r - 1) \in (1 - Modulus) .. (Modulus - 1)
  BY <1>1, <1>2, <1>8, Widths
<1>9. v.at - r - 1 \in Int /\ v.decoded[k] - (v.at - r - 1) \in (1 - Modulus) .. (Modulus - 1)
  BY <1>1, <1>4, <1>5, <1>8
<1>10. v.decoded[k] = v.at - r - 1
  BY <1>3, <1>4, <1>5, <1>7, <1>9, SameIndex
<1> QED BY <1>4, <1>10

LEMMA FrameHanded ==
  ASSUME NEW v, NEW top, Sound(v, top), v.cur # v.prev, v.at # 0, v.header = ProfileOf(v.at),
         ~FlushFails(v), NEW r \in -1 .. (RefMax - 1), NEW taken \in BOOLEAN,
         r >= 0 => HaveRef(v, RefIndex(v, r))
  PROVE  LET h == Hand(Flush(v), r, taken)
         IN  Sound(h, top) /\ h.cur = h.prev
<1> DEFINE f == Flush(v)
           times == IF f.sample.frame = f.at THEN f.sample.times + 1 ELSE 1
           parts == {f.unit[i] : i \in SourceUnits}
           ref == r >= 0 => \E k \in 1 .. Len(f.decoded) : f.decoded[k] = f.at - r - 1
           s == [frame |-> f.at, times |-> times, profile |-> f.header, parts |-> parts, ref |-> ref]
           h == Hand(f, r, taken)
<1>1. /\ f \in Receivers /\ f = [v EXCEPT !.unit = f.unit]
      /\ \A i \in Units : f.unit[i] \in {NoFrame, v.at}
      /\ \A i \in SourceUnits : f.unit[i] = v.at
  BY WholeFrame
<1>2. h = IF taken
          THEN [f EXCEPT !.sample = s, !.prev = f.cur, !.complete = f.cur,
                         !.refs = Push(@, f.cur), !.decoded = Push(@, f.at), !.pending = @ \ {f.at}]
          ELSE [f EXCEPT !.sample = s, !.prev = f.cur]
  BY DEF Hand
<1> HIDE DEF f, h
<1>3. v \in Receivers
  BY DEF Sound
<1>4. /\ f.at = v.at /\ f.cur = v.cur /\ f.complete = v.complete /\ f.profile = v.profile
      /\ f.header = v.header /\ f.refs = v.refs /\ f.decoded = v.decoded /\ f.sample = v.sample
      /\ f.pending = v.pending /\ f.expected = v.expected
  BY <1>1, <1>3 DEF Receivers
<1>5. /\ v.cur \in Int /\ v.at \in Nat /\ v.at > 0 /\ v.at <= top /\ top \in Nat /\ v.header \in Int
      /\ v.cur = Index(v.at) /\ v.sample \in Samples /\ v.refs \in Seq(Int) /\ v.decoded \in Seq(Int)
  BY <1>3 DEF Sound, Accounted, Receivers
<1>6. times \in Int
  BY <1>4, <1>5 DEF Samples
<1>7. parts \subseteq {v.at}
  BY <1>1
<1>8. ref = TRUE
  <2>1. ASSUME r >= 0 PROVE \E k \in 1 .. Len(v.decoded) : v.decoded[k] = v.at - r - 1
    <3>1. r \in 0 .. (RefMax - 1)
      BY <2>1, Widths
    <3> QED BY <2>1, <3>1, ReferenceDecoded
  <2> QED BY <1>4, <2>1
<1> HIDE DEF times, parts, ref
<1>9. /\ s \in Samples /\ s.frame = v.at /\ s.parts = parts /\ s.profile = v.header /\ s.ref = TRUE
  <2>1. s = [frame |-> v.at, times |-> times, profile |-> v.header, parts |-> parts, ref |-> TRUE]
    BY <1>4, <1>8
  <2> HIDE DEF s
  <2> QED BY <1>5, <1>6, <1>7, <2>1 DEF Samples
<1> HIDE DEF s
<1>10. CASE ~taken
  <2>1. h = [f EXCEPT !.sample = s, !.prev = f.cur]
    BY <1>2, <1>10
  <2>2. /\ h \in Receivers /\ h.at = v.at /\ h.cur = v.cur /\ h.prev = v.cur /\ h.complete = v.complete
        /\ h.profile = v.profile /\ h.header = v.header /\ h.refs = v.refs /\ h.decoded = v.decoded
        /\ h.sample = s /\ h.pending = v.pending /\ h.expected = v.expected /\ h.unit = f.unit
    BY <1>1, <1>4, <1>5, <1>9, <2>1 DEF Receivers
  <2>3. Slots(h) /\ References(h, top)
    BY <1>1, <2>2 DEF Sound, Slots, References
  <2>4. Fed(h)
    BY <1>7, <1>9, <2>2 DEF Fed
  <2>5. Accounted(h, top)
    <3>1. Newest(h) = Newest(v)
      BY <2>2 DEF Newest
    <3>2. Newest(v) # v.at
      BY DEF Sound, Accounted
    <3> QED BY <1>5, <2>2, <3>1, <3>2 DEF Sound, Accounted
  <2> QED BY <2>2, <2>3, <2>4, <2>5 DEF Sound, h, f
<1>11. CASE taken
  <2> DEFINE refs == Push(v.refs, v.cur)
             decoded == Push(v.decoded, v.at)
  <2>1. h = [f EXCEPT !.sample = s, !.prev = v.cur, !.complete = v.cur,
                      !.refs = refs, !.decoded = decoded, !.pending = v.pending \ {v.at}]
    BY <1>1, <1>2, <1>4, <1>11 DEF Receivers
  <2>2. /\ refs \in Seq(Int) /\ decoded \in Seq(Int) /\ decoded # << >>
        /\ Len(refs) = Min({RefMax, Len(v.refs) + 1}) /\ Len(decoded) = Min({RefMax, Len(v.decoded) + 1})
        /\ refs[1] = v.cur /\ decoded[1] = v.at
        /\ \A k \in 2 .. Len(refs) : refs[k] = v.refs[k - 1] /\ k - 1 \in 1 .. Len(v.refs)
        /\ \A k \in 2 .. Len(decoded) : decoded[k] = v.decoded[k - 1] /\ k - 1 \in 1 .. Len(v.decoded)
    <3>1. v.cur \in Int /\ v.at \in Int /\ v.refs \in Seq(Int) /\ v.decoded \in Seq(Int)
      BY <1>5
    <3>2. \A q \in Seq(Int), x \in Int :
            /\ Push(q, x) \in Seq(Int) /\ Push(q, x) # << >>
            /\ Len(Push(q, x)) = Min({RefMax, Len(q) + 1})
            /\ Push(q, x)[1] = x
            /\ \A k \in 2 .. Len(Push(q, x)) : Push(q, x)[k] = q[k - 1] /\ k - 1 \in 1 .. Len(q)
      BY PushIs
    <3> QED BY <3>1, <3>2
  <2>3. v.pending \ {v.at} = {}
    BY DEF Sound, Accounted
  <2> HIDE DEF refs, decoded
  <2>4. h \in Receivers
    BY <1>1, <1>5, <1>9, <2>1, <2>2, <2>3 DEF Receivers
  <2>5. /\ h.at = v.at /\ h.cur = v.cur /\ h.prev = v.cur /\ h.complete = v.cur
        /\ h.profile = v.profile /\ h.header = v.header /\ h.refs = refs /\ h.decoded = decoded
        /\ h.sample = s /\ h.pending = {} /\ h.expected = v.expected /\ h.unit = f.unit
    BY <1>1, <1>4, <2>1, <2>3 DEF Receivers
  <2>6. Slots(h)
    BY <1>1, <2>5 DEF Slots
  <2>7. Fed(h)
    BY <1>7, <1>9, <2>5 DEF Fed
  <2>8. References(h, top)
    <3>1. References(v, top) /\ Len(refs) = Len(decoded)
      BY <2>2 DEF Sound, References
    <3>2. ASSUME NEW k \in 1 .. Len(decoded)
          PROVE  refs[k] = Index(decoded[k]) /\ decoded[k] <= v.at /\ top - decoded[k] < Modulus
      <4>1. CASE k = 1
        <5>1. top - v.at < Modulus
          <6>1. Newest(v) \in 0 .. v.at /\ top - Newest(v) < Half
            BY DEF Sound, Accounted
          <6> QED BY <1>5, <6>1, Widths
        <5> QED BY <1>5, <2>2, <4>1, <5>1
      <4>2. CASE k # 1
        <5>1. k \in 2 .. Len(decoded) /\ k \in 2 .. Len(refs)
          BY <3>1, <4>2
        <5> QED BY <2>2, <3>1, <5>1 DEF References
      <4> QED BY <4>1, <4>2
    <3> QED BY <2>5, <3>1, <3>2 DEF References
  <2>9. Accounted(h, top)
    <3>1. Newest(h) = v.at
      BY <2>2, <2>5 DEF Newest
    <3>2. top - v.at < Half
      <4>1. Newest(v) \in 0 .. v.at /\ top - Newest(v) < Half
        BY DEF Sound, Accounted
      <4> QED BY <1>5, <4>1, Widths
    <3> QED BY <1>5, <2>5, <3>1, <3>2 DEF Sound, Accounted
  <2> QED BY <2>4, <2>5, <2>6, <2>7, <2>8, <2>9 DEF Sound, h, f
<1> QED BY <1>10, <1>11
(* A frame that is flushed is given up, handed to the decoder, or dropped  *)
(* for want of its reference; in each case it is not flushed again.        *)
LEMMA FrameFlushed ==
  ASSUME NEW v, NEW top, Sound(v, top), v.cur # v.prev, v.at # 0, v.header = ProfileOf(v.at),
         NEW o \in [ref : -1 .. (RefMax - 1), set : BOOLEAN, taken : BOOLEAN]
  PROVE  LET h == FlushFrame(v, o)
         IN  Sound(h, top) /\ h.cur = h.prev
<1> DEFINE f == Flush(v)
           others == OtherRefs(f, o.ref)
           Flushed(h) == Sound(h, top) /\ h.cur = h.prev
<1>1. v \in Receivers /\ v.cur \in Int /\ Newest(v) # v.at
  BY DEF Sound, Accounted, Receivers
<1>2. o.ref \in -1 .. (RefMax - 1) /\ o.taken \in BOOLEAN
  OBVIOUS
(* Only prev changes, the slots and what is pending.                       *)
<1>3. ASSUME NEW h \in Receivers,
             h.at = v.at, h.cur = v.cur, h.prev = v.cur, h.complete = v.complete, h.profile = v.profile,
             h.header = v.header, h.refs = v.refs, h.decoded = v.decoded, h.sample = v.sample,
             h.expected = v.expected, h.pending \subseteq v.pending,
             \A i \in Units : h.unit[i] \in {NoFrame, v.at}
      PROVE  Flushed(h)
  <2>1. Slots(h) /\ References(h, top) /\ Fed(h)
    BY <1>3 DEF Sound, Slots, References, Fed
  <2>2. Newest(h) = Newest(v)
    BY <1>3 DEF Newest
  <2>3. Accounted(h, top)
    BY <1>1, <1>3, <2>2 DEF Sound, Accounted
  <2> QED BY <1>3, <2>1, <2>3 DEF Sound
<1>4. CASE FlushFails(v)
  <2> DEFINE c == SendCorruptFrame(v, NextExpected(v), v.cur)
             h == FlushFrame(v, o)
  <2>1. /\ c \in Receivers /\ c.pending \subseteq v.pending
        /\ c.at = v.at /\ c.cur = v.cur /\ c.complete = v.complete /\ c.profile = v.profile
        /\ c.header = v.header /\ c.refs = v.refs /\ c.decoded = v.decoded /\ c.sample = v.sample
        /\ c.expected = v.expected /\ c.unit = v.unit
    BY <1>1 DEF SendCorruptFrame, Receivers
  <2>2. h = [c EXCEPT !.prev = v.cur]
    BY <1>4 DEF FlushFrame
  <2> HIDE DEF c, h
  <2>3. /\ h \in Receivers /\ h.pending = c.pending /\ h.prev = v.cur
        /\ h.at = c.at /\ h.cur = c.cur /\ h.complete = c.complete /\ h.profile = c.profile
        /\ h.header = c.header /\ h.refs = c.refs /\ h.decoded = c.decoded /\ h.sample = c.sample
        /\ h.expected = c.expected /\ h.unit = c.unit
    BY <1>1, <2>1, <2>2 DEF Receivers
  <2>4. \A i \in Units : h.unit[i] \in {NoFrame, v.at}
    BY <2>1, <2>3 DEF Sound, Slots
  <2> HIDE DEF Flushed
  <2>5. Flushed(h)
    BY <1>3, <2>1, <2>3, <2>4
  <2> QED BY <2>5 DEF Flushed, h
<1>5. CASE ~FlushFails(v)
  <2>1. /\ f \in Receivers /\ f = [v EXCEPT !.unit = f.unit]
        /\ \A i \in Units : f.unit[i] \in {NoFrame, v.at}
    BY <1>5, WholeFrame
  <2> HIDE DEF f
  <2>2. /\ f.at = v.at /\ f.cur = v.cur /\ f.complete = v.complete /\ f.profile = v.profile
        /\ f.header = v.header /\ f.refs = v.refs /\ f.decoded = v.decoded /\ f.sample = v.sample
        /\ f.pending = v.pending /\ f.expected = v.expected
    BY <1>1, <2>1 DEF Receivers
  <2>3. ASSUME NEW r \in -1 .. (RefMax - 1), r >= 0 => HaveRef(f, RefIndex(f, r))
        PROVE  Flushed(Hand(f, r, o.taken))
    <3>1. r >= 0 => HaveRef(v, RefIndex(v, r))
      BY <2>2, <2>3 DEF HaveRef, RefIndex
    <3> QED BY <1>2, <1>5, <3>1, FrameHanded DEF f
  <2>4. CASE ~MissingRef(f, o.ref)
    <3>1. Flushed(Hand(f, o.ref, o.taken))
      BY <1>2, <2>3, <2>4 DEF MissingRef
    <3>2. FlushFrame(v, o) = Hand(f, o.ref, o.taken)
      BY <1>5, <2>4 DEF FlushFrame, f
    <3> QED BY <3>1, <3>2
  <2>5. CASE MissingRef(f, o.ref) /\ others # {} /\ o.set
    <3>1. o.ref \in Nat /\ others \subseteq Nat
      BY <1>2, <2>5, Widths DEF MissingRef, OtherRefs
    <3>2. Min(others) \in others
      BY <2>5, <3>1, MinIs
    <3>3. Min(others) \in -1 .. (RefMax - 1) /\ HaveRef(f, RefIndex(f, Min(others)))
      BY <3>1, <3>2, Widths DEF OtherRefs
    <3>4. Flushed(Hand(f, Min(others), o.taken))
      BY <2>3, <3>3
    <3>5. FlushFrame(v, o) = Hand(f, Min(others), o.taken)
      BY <1>5, <2>5 DEF FlushFrame, f
    <3> QED BY <3>4, <3>5
  <2>6. CASE MissingRef(f, o.ref) /\ ~(others # {} /\ o.set)
    <3> DEFINE h == FlushFrame(v, o)
    <3>1. h = [f EXCEPT !.prev = v.cur]
      BY <1>5, <2>6 DEF FlushFrame, f
    <3> HIDE DEF h
    <3>2. /\ h \in Receivers /\ h.pending = v.pending /\ h.prev = v.cur
          /\ h.at = v.at /\ h.cur = v.cur /\ h.complete = v.complete /\ h.profile = v.profile
          /\ h.header = v.header /\ h.refs = v.refs /\ h.decoded = v.decoded /\ h.sample = v.sample
          /\ h.expected = v.expected /\ h.unit = f.unit
      BY <1>1, <2>1, <2>2, <3>1 DEF Receivers
    <3> HIDE DEF Flushed
    <3>3. Flushed(h)
      BY <1>3, <2>1, <3>2
    <3> QED BY <3>3 DEF Flushed, h
  <2> QED BY <2>4, <2>5, <2>6
<1> QED BY <1>4, <1>5

(* What follows a unit: the frame is flushed as soon as it can be.         *)
LEMMA UnitReceived ==
  ASSUME NEW v, NEW top, Sound(v, top), v.at # 0, v.header = ProfileOf(v.at), NEW i \in Units,
         NEW o \in [ref : -1 .. (RefMax - 1), set : BOOLEAN, taken : BOOLEAN]
  PROVE  LET w == PutUnit(v, v.at, i)
             r == IF FlushDue(w, i) THEN FlushFrame(w, o) ELSE w
         IN  Sound(r, top) /\ Lacking(r)
<1> DEFINE w == PutUnit(v, v.at, i)
<1>1. Sound(w, top) /\ w.at = v.at /\ w.header = v.header
  BY UnitPut
<1> HIDE DEF w
<1>2. CASE FlushDue(w, i)
  <2>1. w.cur # w.prev
    BY <1>2 DEF FlushDue
  <2>2. Sound(FlushFrame(w, o), top) /\ FlushFrame(w, o).cur = FlushFrame(w, o).prev
    BY <1>1, <2>1, FrameFlushed
  <2> QED BY <1>2, <2>2 DEF Lacking, w
<1>3. CASE ~FlushDue(w, i)
  <2>1. w.cur # w.prev => w.source + w.fec < Source
    <3>1. w.expected = Source /\ w.source \in Int /\ w.fec \in Int
      BY <1>1 DEF Sound, Accounted, Receivers
    <3> QED BY <1>3, <3>1, Widths DEF FlushDue, FlushPossible
  <2> QED BY <1>1, <1>3, <2>1 DEF Lacking, w
<1> QED BY <1>2, <1>3

LEMMA PacketReceived ==
  ASSUME ReceiverInv, NEW n \in 1 .. Last, NEW i \in Units, AvPacket(n, i)
  PROVE  ReceiverInv'
<1>1. PICK o \in Outcomes(vr.at) : \E p \in Outcomes(n) :
        LET v == SwitchProfile(vr, n)
            w == PutUnit(IF Newer(n) THEN BeginFrame(v, n, o) ELSE v, n, i)
        IN  vr' = IF FlushDue(w, i) THEN FlushFrame(w, p) ELSE w
  BY DEF AvPacket
<1>2. PICK p \in Outcomes(n) :
        LET v == SwitchProfile(vr, n)
            w == PutUnit(IF Newer(n) THEN BeginFrame(v, n, o) ELSE v, n, i)
        IN  vr' = IF FlushDue(w, i) THEN FlushFrame(w, p) ELSE w
  BY <1>1
<1>3. p \in [ref : -1 .. (RefMax - 1), set : BOOLEAN, taken : BOOLEAN]
  BY DEF Outcomes
<1> DEFINE v == SwitchProfile(vr, n)
           b == IF Newer(n) THEN BeginFrame(v, n, o) ELSE v
<1>4. vr' = IF FlushDue(PutUnit(b, n, i), i) THEN FlushFrame(PutUnit(b, n, i), p) ELSE PutUnit(b, n, i)
  BY <1>2
<1>5. /\ n \in Nat /\ n > 0 /\ n <= sent /\ sent - n < Half /\ ~Old(n) /\ sent \in Nat /\ sent' = sent
  BY Widths DEF AvPacket, ReceiverInv, Sound, Accounted
<1>6. /\ Sound(v, sent) /\ Lacking(v) /\ v.header = ProfileOf(n)
      /\ v.at = vr.at /\ v.cur = vr.cur
  BY <1>5, ProfileSwitched DEF ReceiverInv
<1>7. /\ v.at \in Nat /\ v.at <= sent /\ sent - v.at < Half /\ v.cur = (IF v.at = 0 THEN -1 ELSE Index(v.at))
  BY <1>6, Widths DEF Sound, Accounted
<1> HIDE DEF v
<1>8. CASE v.at = 0
  <2>1. b = BeginFrame(v, n, o)
    BY <1>6, <1>7, <1>8 DEF Newer
  <2>2. Sound(b, sent) /\ b.at = n /\ b.header = ProfileOf(n)
    BY <1>5, <1>6, <1>8, <2>1, FrameBegun
  <2> HIDE DEF b
  <2> QED BY <1>3, <1>4, <1>5, <2>2, UnitReceived DEF ReceiverInv
<1>9. CASE v.at # 0
  <2>1. /\ SeqGt(Index(n), vr.cur) <=> n > v.at
        /\ SeqLt(Index(n), vr.cur) <=> n < v.at
        /\ vr.cur \in Nat
    <3>1. n - v.at < Half /\ v.at - n < Half
      BY <1>5, <1>7, Widths
    <3>2. Index(v.at) \in Nat
      BY <1>7, Widths DEF Index
    <3> QED BY <1>5, <1>6, <1>7, <1>9, <3>1, <3>2, IndexOrder
  <2>2. n >= v.at
    BY <1>5, <1>7, <2>1 DEF Old
  <2>3. CASE n > v.at
    <3>1. b = BeginFrame(v, n, o)
      BY <2>1, <2>3 DEF Newer
    <3>2. Sound(b, sent) /\ b.at = n /\ b.header = ProfileOf(n)
      BY <1>5, <1>6, <2>3, <3>1, FrameBegun
    <3> HIDE DEF b
    <3> QED BY <1>3, <1>4, <1>5, <3>2, UnitReceived DEF ReceiverInv
  <2>4. CASE n = v.at
    <3>1. ~Newer(n)
      BY <1>7, <2>1, <2>4 DEF Newer
    <3>2. b = v
      BY <3>1
    <3>3. Sound(b, sent) /\ b.at = n /\ b.header = ProfileOf(n)
      BY <1>6, <2>4, <3>2
    <3> HIDE DEF b
    <3> QED BY <1>3, <1>4, <1>5, <3>3, UnitReceived DEF ReceiverInv
  <2> QED BY <1>5, <1>7, <2>2, <2>3, <2>4
<1> QED BY <1>8, <1>9

LEMMA ReceiverNext == ReceiverInv /\ [Next]_vars => ReceiverInv'
<1> SUFFICES ASSUME ReceiverInv, [Next]_vars PROVE ReceiverInv'
  OBVIOUS
<1>1. CASE SendFrame
  <2>1. vr' = vr /\ sent' = sent + 1 /\ sent + 1 - Newest(vr) < Half
    BY <1>1 DEF SendFrame, NewestDecoded, Newest
  <2>2. \A k \in 1 .. Len(vr.decoded) : sent + 1 - vr.decoded[k] < Modulus
    BY <1>1 DEF SendFrame
  <2>3. References(vr, sent')
    <3>1. References(vr, sent)
      BY DEF ReceiverInv, Sound
    <3>2. ASSUME NEW k \in 1 .. Len(vr.decoded)
          PROVE  vr.refs[k] = Index(vr.decoded[k]) /\ vr.decoded[k] <= vr.at /\ sent' - vr.decoded[k] < Modulus
      <4>1. vr.refs[k] = Index(vr.decoded[k]) /\ vr.decoded[k] <= vr.at
        BY <3>1, Zenon DEF References
      <4>2. sent + 1 - vr.decoded[k] < Modulus
        BY <2>2, Zenon
      <4>3. sent \in Nat /\ sent' = sent + 1 /\ vr.decoded[k] \in Int
        BY <2>1 DEF ReceiverInv, Sound, Accounted, Receivers
      <4> QED BY <4>1, <4>2, <4>3, Widths
    <3>3. Len(vr.refs) = Len(vr.decoded)
      BY <3>1 DEF References
    <3> QED BY <3>2, <3>3 DEF References
  <2>4. Accounted(vr, sent')
    BY <2>1 DEF ReceiverInv, Sound, Accounted
  <2> QED BY <2>1, <2>3, <2>4 DEF ReceiverInv, Sound
<1>2. CASE \E n \in 1 .. Last, i \in Units : AvPacket(n, i)
  BY <1>2, PacketReceived
<1>3. CASE StreamInfo \/ (\E n \in 1 .. Last : AvPacketDropped(n)) \/ UNCHANGED vars
  <2>1. vr' = vr /\ sent' = sent
    BY <1>3 DEF StreamInfo, AvPacketDropped, vars
  <2> QED BY <2>1 DEF ReceiverInv
<1> QED BY <1>1, <1>2, <1>3 DEF Next

(* Nothing is lost silently: for every number of units, every width of the *)
(* indices and whatever is lost, late or refused, each frame before the    *)
(* current one was decoded or reported to the console.                     *)
THEOREM CoveredHolds == Spec => []Covered
<1>1. ReceiverInv => Covered
  BY DEF ReceiverInv, Sound, Accounted, Covered
<1> QED BY <1>1, ReceiverStart, ReceiverNext, PTL DEF Spec

(* What the decoder is fed are whole frames under their own header, whose  *)
(* references it has; and as long as a frame can be flushed, its counters  *)
(* count the slots, which is what an assertion of the code demands.        *)
THEOREM DecoderFedHolds == Spec => []DecoderFed
<1>1. ASSUME ReceiverInv PROVE DecoderFed
  <2>1. WholeFrames /\ RightHeader /\ RefsDecoded
    BY <1>1 DEF ReceiverInv, Sound, Fed, WholeFrames, RightHeader, RefsDecoded
  <2>2. ASSUME vr.cur # vr.prev
        PROVE  Cardinality({i \in Units : vr.unit[i] = NoFrame}) = Total - (vr.source + vr.fec)
    <3> DEFINE A == Filled(vr, SourceUnits)
               B == Filled(vr, Units \ SourceUnits)
               E == {i \in Units : vr.unit[i] = NoFrame}
    <3>1. vr.source = Cardinality(A) /\ vr.fec = Cardinality(B)
      BY <1>1, <2>2 DEF ReceiverInv, Sound, Slots
    <3>2. A \cap B = {} /\ A \cup B \subseteq Units /\ E = Units \ (A \cup B)
      BY SlotsFinite DEF Filled
    <3>3. IsFiniteSet(A) /\ IsFiniteSet(B) /\ IsFiniteSet(Units) /\ Cardinality(Units) = Total
      BY SlotsFinite
    <3> HIDE DEF A, B, E
    <3>4. /\ IsFiniteSet(A \cup B) /\ Cardinality(A \cup B) = Cardinality(A) + Cardinality(B)
      <4>1. Cardinality(A \cap B) = 0
        BY <3>2, FS_EmptySet
      <4>2. Cardinality(A) \in Nat /\ Cardinality(B) \in Nat
        BY <3>3, FS_CardinalityType
      <4>3. /\ IsFiniteSet(A \cup B)
            /\ Cardinality(A \cup B) = Cardinality(A) + Cardinality(B) - Cardinality(A \cap B)
        BY <3>3, FS_Union, Zenon
      <4> QED BY <4>1, <4>2, <4>3
    <3>5. Cardinality(Units \ (A \cup B)) = Cardinality(Units) - Cardinality(Units \cap (A \cup B))
      BY <3>3, FS_Difference
    <3>6. Units \cap (A \cup B) = A \cup B
      BY <3>2
    <3> QED BY <3>1, <3>2, <3>3, <3>4, <3>5, <3>6 DEF E
  <2> QED BY <2>1, <2>2 DEF DecoderFed, ErasuresCounted
<1> QED BY <1>1, ReceiverStart, ReceiverNext, PTL DEF Spec

-----------------------------------------------------------------------------
(* The feedback sender: the numbers of a set in their order are the      *)
(* numbers of the set, each of them once.                                *)

LEMMA InOrderIs ==
  ASSUME NEW S \in SUBSET Nat, IsFiniteSet(S)
  PROVE  /\ Cardinality(S) \in Nat
         /\ DOMAIN InOrder(S) = 1 .. Cardinality(S)
         /\ \A n \in 1 .. Cardinality(S) : InOrder(S)[n] \in S
         /\ \A x \in S : \E n \in 1 .. Cardinality(S) : InOrder(S)[n] = x
<1> DEFINE Upto(x) == {y \in S : y <= x}
           c == Cardinality(S)
           rank == [x \in S |-> Cardinality(Upto(x))]
<1>1. c \in Nat
  BY FS_CardinalityType
<1>2. ASSUME NEW x \in S PROVE IsFiniteSet(Upto(x)) /\ Cardinality(Upto(x)) \in 1 .. c
  <2>1. Upto(x) \in SUBSET S
    OBVIOUS
  <2>2. x \in Upto(x)
    OBVIOUS
  <2> HIDE DEF Upto
  <2>3. IsFiniteSet(Upto(x)) /\ Cardinality(Upto(x)) <= c
    BY <2>1, FS_Subset
  <2>4. Cardinality(Upto(x)) \in Nat /\ Cardinality(Upto(x)) # 0
    BY <2>2, <2>3, FS_CardinalityType, FS_EmptySet
  <2> QED BY <1>1, <2>3, <2>4
<1>3. ASSUME NEW x \in S, NEW y \in S, Cardinality(Upto(x)) = Cardinality(Upto(y)), x < y PROVE FALSE
  <2>1. Upto(x) \in SUBSET Upto(y)
    <3>1. x \in Nat /\ y \in Nat /\ x < y
      BY <1>3
    <3>2. \A z \in S : z <= x => z <= y
      BY <3>1
    <3> QED BY <3>2
  <2>2. y \in Upto(y) /\ y \notin Upto(x)
    BY <1>3
  <2> HIDE DEF Upto
  <2>3. Upto(y) = Upto(x)
    BY <1>2, <1>3, <2>1, FS_Subset
  <2> QED BY <2>2, <2>3
<1>4. ASSUME NEW x \in S, NEW y \in S, Cardinality(Upto(x)) = Cardinality(Upto(y)) PROVE x = y
  <2>1. x < y \/ y < x \/ x = y
    OBVIOUS
  <2> HIDE DEF Upto
  <2> QED BY <1>3, <1>4, <2>1
<1>5. rank \in Injection(S, 1 .. c)
  <2> HIDE DEF Upto
  <2>1. rank \in [S -> 1 .. c]
    BY <1>2
  <2>2. \A x, y \in S : rank[x] = rank[y] => x = y
    BY <1>4
  <2> QED BY <2>1, <2>2 DEF Injection, IsInjective
<1>6. IsFiniteSet(1 .. c) /\ Cardinality(1 .. c) = c
  BY <1>1, FS_Interval
<1>7. rank \in Surjection(S, 1 .. c)
  <2> HIDE DEF rank
  <2> QED BY <1>5, <1>6, FS_Injection
<1>8. \A n \in 1 .. c : \E x \in S : Cardinality(Upto(x)) = n
  <2> HIDE DEF Upto
  <2> QED BY <1>7 DEF Surjection
<1>9. ASSUME NEW n \in 1 .. c PROVE InOrder(S)[n] \in S /\ Cardinality(Upto(InOrder(S)[n])) = n
  <2>1. InOrder(S)[n] = CHOOSE x \in S : Cardinality(Upto(x)) = n
    BY DEF InOrder
  <2> HIDE DEF Upto
  <2> QED BY <1>8, <2>1
<1>10. ASSUME NEW x \in S PROVE \E n \in 1 .. c : InOrder(S)[n] = x
  <2> HIDE DEF Upto
  <2>1. Cardinality(Upto(x)) \in 1 .. c
    BY <1>2
  <2>2. InOrder(S)[Cardinality(Upto(x))] = x
    BY <1>4, <1>9, <2>1
  <2> QED BY <2>1, <2>2
<1>11. DOMAIN InOrder(S) = 1 .. c
  BY DEF InOrder
<1> QED BY <1>1, <1>9, <1>10, <1>11

(* The history: newest first, and a push puts one before those there are.*)

LEMMA Wrapped ==
  ASSUME NEW x \in 0 .. (2 * Size - 1)
  PROVE  x % Size = IF x < Size THEN x ELSE x - Size
<1>1. Size \in Nat \ {0}
  BY FeedbackAssumption
<1>2. CASE x < Size
  <2>1. x = Size * 0 + x /\ x \in 0 .. (Size - 1)
    BY <1>1, <1>2
  <2> QED BY <1>1, <1>2, <2>1, ModUnique
<1>3. CASE x >= Size
  <2>1. x = Size * 1 + (x - Size) /\ x - Size \in 0 .. (Size - 1) /\ 1 \in Nat
    BY <1>1, <1>3
  <2>2. (Size * 1 + (x - Size)) % Size = x - Size
    BY <1>1, <2>1, ModUnique
  <2> QED BY <1>1, <1>3, <2>1, <2>2
<1> QED BY <1>1, <1>2, <1>3

Told == Events \cup {Blank}
Histories == [events : [RingSlots -> Told], begin : RingSlots, len : 0 .. Size]

LEMMA Formatted ==
  ASSUME NEW h \in Histories, NEW e \in Told
  PROVE  LET g == HistoryPush(h, e)
         IN  /\ g \in Histories
             /\ g.len = (IF h.len < Size THEN h.len + 1 ELSE Size)
             /\ DOMAIN Format(g) = 1 .. g.len
             /\ Format(g) \in Seq(Told)
             /\ Format(g)[1] = e
             /\ \A i \in 2 .. g.len : Format(g)[i] = Format(h)[i - 1]
<1> DEFINE b == (h.begin + Size - 1) % Size
           g == HistoryPush(h, e)
<1>1. Size \in Nat \ {0} /\ h.begin \in 0 .. (Size - 1) /\ h.len \in 0 .. Size /\ h.events \in [RingSlots -> Told]
  BY FeedbackAssumption DEF Histories, RingSlots
<1>2. b = IF h.begin = 0 THEN Size - 1 ELSE h.begin - 1
  <2>1. h.begin + Size - 1 \in 0 .. (2 * Size - 1)
    BY <1>1
  <2> QED BY <1>1, <2>1, Wrapped
<1>3. b \in RingSlots
  BY <1>1, <1>2 DEF RingSlots
<1>4. /\ g.events = [h.events EXCEPT ![b] = e]
      /\ g.begin = b
      /\ g.len = (IF h.len < Size THEN h.len + 1 ELSE Size)
      /\ g = [events |-> g.events, begin |-> g.begin, len |-> g.len]
  BY <1>1 DEF HistoryPush
<1> HIDE DEF b, g
<1>5. g.len \in 1 .. Size
  BY <1>1, <1>4
<1>6. g \in Histories
  <2>1. g.events \in [RingSlots -> Told]
    BY <1>1, <1>3, <1>4
  <2>2. g.len \in 0 .. Size
    BY <1>1, <1>5
  <2> QED BY <1>3, <1>4, <2>1, <2>2 DEF Histories
<1>7. ASSUME NEW i \in 1 .. g.len PROVE Format(g)[i] = g.events[(b + i - 1) % Size] /\ Format(g)[i] \in Told
  <2>1. b + i - 1 \in 0 .. (2 * Size - 1)
    BY <1>1, <1>3, <1>5 DEF RingSlots
  <2>2. (b + i - 1) % Size \in RingSlots
    BY <1>1, <2>1, Wrapped DEF RingSlots
  <2>3. Format(g)[i] = g.events[(b + i - 1) % Size]
    BY <1>4 DEF Format
  <2>4. g.events \in [RingSlots -> Told]
    BY <1>6 DEF Histories
  <2> QED BY <2>2, <2>3, <2>4
<1>8. DOMAIN Format(g) = 1 .. g.len /\ Format(g) \in Seq(Told)
  <2>1. Format(g) = [i \in 1 .. g.len |-> g.events[(g.begin + i - 1) % Size]]
    BY DEF Format
  <2>2. DOMAIN Format(g) = 1 .. g.len
    BY <2>1
  <2>3. Format(g) \in [1 .. g.len -> Told]
    BY <1>7, <2>1, <2>2
  <2>4. g.len \in Nat
    BY <1>1, <1>5
  <2> QED BY <2>2, <2>3, <2>4
<1>9. Format(g)[1] = e
  <2>1. 1 \in 1 .. g.len /\ b + 1 - 1 = b /\ b \in 0 .. (2 * Size - 1) /\ b < Size
    BY <1>1, <1>3, <1>5 DEF RingSlots
  <2>2. b % Size = b
    BY <2>1, Wrapped
  <2>3. Format(g)[1] = g.events[b]
    BY <1>7, <2>1, <2>2
  <2> QED BY <1>1, <1>3, <1>4, <2>3
<1>10. ASSUME NEW i \in 2 .. g.len PROVE Format(g)[i] = Format(h)[i - 1]
  <2>1. i \in 1 .. g.len /\ i - 1 \in 1 .. h.len
    BY <1>1, <1>4, <1>5
  <2>2. b + i - 1 \in 0 .. (2 * Size - 1) /\ h.begin + (i - 1) - 1 \in 0 .. (2 * Size - 1)
    <3>1. g.len \in 1 .. Size /\ Size \in Nat /\ i \in 2 .. g.len
      BY <1>1, <1>5
    <3>2. i \in 2 .. Size
      BY <3>1
    <3>3. b \in 0 .. (Size - 1) /\ h.begin \in 0 .. (Size - 1)
      BY <1>1, <1>3 DEF RingSlots
    <3> DEFINE y == h.begin
    <3> HIDE DEF y
    <3>4. y \in 0 .. (Size - 1)
      BY <3>3 DEF y
    <3>5. b + i - 1 \in 0 .. (2 * Size - 1) /\ y + (i - 1) - 1 \in 0 .. (2 * Size - 1)
      BY <3>1, <3>2, <3>3, <3>4
    <3> QED BY <3>5 DEF y
  <2>3. (b + i - 1) % Size = (h.begin + (i - 1) - 1) % Size
    <3> DEFINE y == b + i - 1
               z == h.begin + (i - 1) - 1
    <3>1. /\ y = b + i - 1 /\ y \in 0 .. (2 * Size - 1)
          /\ z = h.begin + i - 2 /\ z \in 0 .. (2 * Size - 1) /\ i \in 2 .. Size
      BY <1>1, <1>5, <2>2
    <3> HIDE DEF y, z
    <3>2. y % Size = (IF y < Size THEN y ELSE y - Size) /\ z % Size = (IF z < Size THEN z ELSE z - Size)
      BY <3>1, Wrapped
    <3>3. y % Size = z % Size
      BY <1>1, <1>2, <3>1, <3>2
    <3> QED BY <3>3 DEF y, z
  <2>4. (b + i - 1) % Size # b /\ (b + i - 1) % Size \in RingSlots
    <3> DEFINE y == b + i - 1
    <3>1. i \in 2 .. Size /\ b \in 0 .. (Size - 1) /\ y = b + i - 1 /\ y \in 0 .. (2 * Size - 1)
      BY <1>1, <1>3, <1>5, <2>2 DEF RingSlots
    <3> HIDE DEF y
    <3>2. y % Size = IF y < Size THEN y ELSE y - Size
      BY <3>1, Wrapped
    <3>3. y % Size # b /\ y % Size \in 0 .. (Size - 1)
      BY <1>1, <3>1, <3>2
    <3> QED BY <3>1, <3>3 DEF RingSlots
  <2>5. Format(h)[i - 1] = h.events[(h.begin + (i - 1) - 1) % Size]
    BY <2>1 DEF Format
  <2>6. Format(g)[i] = g.events[(b + i - 1) % Size]
    BY <1>7, <2>1
  <2>7. g.events[(b + i - 1) % Size] = h.events[(b + i - 1) % Size]
    BY <1>1, <1>4, <2>4
  <2> QED BY <2>3, <2>5, <2>6, <2>7
<1> QED BY <1>4, <1>6, <1>8, <1>9, <1>10 DEF g

(* What an event is about, and what the console believes of it.          *)
Topics == [kind : {"key"}, what : Keys] \cup [kind : {"touch"}, what : Ids]
About(e, t) == e.kind = t.kind /\ e.what = t.what
Consoles == [stick : Sticks, keys : [Keys -> Levels], touches : SUBSET Ids]
Believed(c, t) ==
  IF t.kind = "key" THEN c.keys[t.what] ELSE IF t.what \in c.touches THEN 1 ELSE 0

LEMMA Applied ==
  ASSUME NEW c \in Consoles, NEW e \in Told
  PROVE  /\ Apply(c, e) \in Consoles
         /\ \A t \in Topics :
              Believed(Apply(c, e), t) = IF About(e, t) THEN e.value ELSE Believed(c, t)
<1>0. c = [stick |-> c.stick, keys |-> c.keys, touches |-> c.touches]
      /\ c.stick \in Sticks /\ c.keys \in [Keys -> Levels] /\ c.touches \in SUBSET Ids
  BY DEF Consoles
<1>1. CASE e = Blank
  <2>1. e.kind = "none"
    BY <1>1 DEF Blank, Event
  <2>2. Apply(c, e) = c
    BY <2>1 DEF Apply
  <2>3. \A t \in Topics : ~About(e, t)
    BY <2>1 DEF Topics, About
  <2> QED BY <2>2, <2>3
<1>2. ASSUME NEW k \in Keys, NEW l \in Levels, e = Event("key", k, l) PROVE
      /\ Apply(c, e) \in Consoles
      /\ \A t \in Topics : Believed(Apply(c, e), t) = IF About(e, t) THEN e.value ELSE Believed(c, t)
  <2>1. e.kind = "key" /\ e.what = k /\ e.value = l
    BY <1>2 DEF Event
  <2>2. Apply(c, e) = [stick |-> c.stick, keys |-> [c.keys EXCEPT ![k] = l], touches |-> c.touches]
    BY <1>0, <2>1 DEF Apply
  <2>3. [c.keys EXCEPT ![k] = l] \in [Keys -> Levels]
    BY <1>0
  <2>4. ASSUME NEW t \in Topics PROVE Believed(Apply(c, e), t) = IF About(e, t) THEN e.value ELSE Believed(c, t)
    <3>1. (t.kind = "key" /\ t.what \in Keys) \/ t.kind = "touch"
      BY DEF Topics
    <3> QED BY <1>0, <2>1, <2>2, <3>1 DEF Believed, About
  <2> QED BY <1>0, <2>2, <2>3, <2>4 DEF Consoles
<1>3. ASSUME NEW x \in Ids, NEW d \in 0 .. 1, e = Event("touch", x, d) PROVE
      /\ Apply(c, e) \in Consoles
      /\ \A t \in Topics : Believed(Apply(c, e), t) = IF About(e, t) THEN e.value ELSE Believed(c, t)
  <2> DEFINE now == IF d = 1 THEN c.touches \cup {x} ELSE c.touches \ {x}
  <2>1. e.kind = "touch" /\ e.what = x /\ e.value = d
    BY <1>3 DEF Event
  <2>2. Apply(c, e) = [stick |-> c.stick, keys |-> c.keys, touches |-> now]
    BY <1>0, <2>1 DEF Apply
  <2>3. now \in SUBSET Ids
    BY <1>0
  <2>4. ASSUME NEW t \in Topics PROVE Believed(Apply(c, e), t) = IF About(e, t) THEN e.value ELSE Believed(c, t)
    <3>1. t.kind = "key" \/ t.kind = "touch"
      BY DEF Topics
    <3> QED BY <1>0, <2>1, <2>2, <3>1 DEF Believed, About
  <2> HIDE DEF now
  <2> QED BY <1>0, <2>2, <2>3, <2>4 DEF Consoles
<1> QED BY <1>1, <1>2, <1>3 DEF Told, Events

(* The recursive function of Replayed exists, and goes event by event.   *)
LEMMA ReplayedSteps ==
  ASSUME NEW c \in Consoles, NEW es \in Seq(Told)
  PROVE  /\ Replayed(c, es)[0] = c
         /\ \A n \in 1 .. Len(es) :
              Replayed(c, es)[n] = Apply(Replayed(c, es)[n - 1], es[Len(es) - n + 1])
<1> DEFINE m == Len(es)
           F == [q \in Consoles \X (1 .. m) |-> Apply(q[1], es[m - q[2] + 1])]
           Eq(g) == g = [n \in 0 .. m |-> IF n = 0 THEN c ELSE Apply(g[n - 1], es[m - n + 1])]
<1>1. m \in Nat /\ \A i \in 1 .. m : es[i] \in Told
  OBVIOUS
<1> HIDE DEF m
<1>2. F \in [Consoles \X (1 .. m) -> Consoles]
  <2>1. ASSUME NEW q \in Consoles \X (1 .. m) PROVE Apply(q[1], es[m - q[2] + 1]) \in Consoles
    <3>1. q[1] \in Consoles /\ m - q[2] + 1 \in 1 .. m
      BY <1>1
    <3> QED BY <1>1, <3>1, Applied
  <2> QED BY <2>1
<1>3. \A r \in Consoles, n \in 1 .. m : F[<<r, n>>] = Apply(r, es[m - n + 1])
  OBVIOUS
<1> HIDE DEF F
<1>4. PICK g \in [0 .. m -> Consoles] : IsRecursive(g, m, c, F)
  BY <1>1, <1>2, Recursion
<1>5. \A n \in 1 .. m : g[n] = Apply(g[n - 1], es[m - n + 1])
  <2>1. ASSUME NEW n \in 1 .. m PROVE g[n] = Apply(g[n - 1], es[m - n + 1])
    <3>1. n - 1 \in 0 .. m
      BY <1>1
    <3>2. g[n - 1] \in Consoles
      BY <3>1
    <3> QED BY <3>2, <1>3, <1>4 DEF IsRecursive
  <2> QED BY <2>1
<1>6. Eq(g)
  <2> DEFINE h == [n \in 0 .. m |-> IF n = 0 THEN c ELSE Apply(g[n - 1], es[m - n + 1])]
  <2>1. \A n \in 0 .. m : g[n] = h[n]
    BY <1>1, <1>4, <1>5 DEF IsRecursive
  <2>2. DOMAIN g = 0 .. m /\ g = [n \in 0 .. m |-> g[n]]
    OBVIOUS
  <2> QED BY <2>1, <2>2
<1>7. Replayed(c, es) = CHOOSE h : Eq(h)
  BY DEF Replayed, m
<1>8. Eq(Replayed(c, es))
  <2> HIDE DEF Eq
  <2> QED BY <1>6, <1>7
<1> QED BY <1>1, <1>8 DEF m

(* By induction on the packet: of what it speaks of, the console believes*)
(* the newest event, and of all else what it believed before.            *)
NewestOf(es, from, t, i) == About(es[i], t) /\ \A j \in from .. (i - 1) : ~About(es[j], t)
Heard(c, r, es, from, t) ==
  \/ /\ \A i \in from .. Len(es) : ~About(es[i], t)
     /\ Believed(r, t) = Believed(c, t)
  \/ \E i \in from .. Len(es) : NewestOf(es, from, t, i) /\ Believed(r, t) = es[i].value

LEMMA ReplayIs ==
  ASSUME NEW c \in Consoles, NEW es \in Seq(Told)
  PROVE  /\ Replay(c, es) \in Consoles
         /\ \A t \in Topics : Heard(c, Replay(c, es), es, 1, t)
<1> DEFINE m == Len(es)
           r == Replayed(c, es)
           Fine(n) == r[n] \in Consoles /\ \A t \in Topics : Heard(c, r[n], es, m - n + 1, t)
           C == {n \in 0 .. m : Fine(n)}
<1>1. m \in Nat /\ \A i \in 1 .. m : es[i] \in Told
  OBVIOUS
<1>2. r[0] = c /\ \A n \in 1 .. m : r[n] = Apply(r[n - 1], es[m - n + 1])
  BY ReplayedSteps
<1> HIDE DEF r
<1>3. Fine(0)
  BY <1>1, <1>2 DEF Heard
<1>4. ASSUME NEW n \in 1 .. m, Fine(n - 1) PROVE Fine(n)
  <2> DEFINE i0 == m - n + 1
  <2>1. i0 \in 1 .. m /\ es[i0] \in Told /\ m - (n - 1) + 1 = i0 + 1 /\ r[n] = Apply(r[n - 1], es[i0])
    BY <1>1, <1>2
  <2>2. r[n - 1] \in Consoles /\ \A t \in Topics : Heard(c, r[n - 1], es, i0 + 1, t)
    BY <1>4, <2>1
  <2> HIDE DEF i0
  <2>3. r[n] \in Consoles
    BY <2>1, <2>2, Applied
  <2>4. ASSUME NEW t \in Topics PROVE Heard(c, r[n], es, i0, t)
    <3>1. Believed(r[n], t) = IF About(es[i0], t) THEN es[i0].value ELSE Believed(r[n - 1], t)
      BY <2>1, <2>2, Applied
    <3>2. CASE About(es[i0], t)
      <4>1. NewestOf(es, i0, t, i0)
        BY <2>1, <3>2 DEF NewestOf
      <4> QED BY <1>1, <2>1, <3>1, <3>2, <4>1 DEF Heard
    <3>3. CASE ~About(es[i0], t)
      <4>1. Believed(r[n], t) = Believed(r[n - 1], t)
        BY <3>1, <3>3
      <4>2. \A i \in i0 .. m : i = i0 \/ i \in (i0 + 1) .. m
        BY <1>1, <2>1
      <4>3. CASE \A i \in (i0 + 1) .. m : ~About(es[i], t)
        <5>1. Believed(r[n - 1], t) = Believed(c, t)
          <6>1. ~\E i \in (i0 + 1) .. m : NewestOf(es, i0 + 1, t, i)
            BY <4>3 DEF NewestOf
          <6> QED BY <2>2, <6>1 DEF Heard
        <5> QED BY <3>3, <4>1, <4>2, <4>3, <5>1 DEF Heard
      <4>4. CASE ~\A i \in (i0 + 1) .. m : ~About(es[i], t)
        <5>1. PICK i \in (i0 + 1) .. m : NewestOf(es, i0 + 1, t, i) /\ Believed(r[n - 1], t) = es[i].value
          BY <2>2, <4>4 DEF Heard
        <5>2. i \in i0 .. m /\ \A j \in i0 .. (i - 1) : j = i0 \/ j \in (i0 + 1) .. (i - 1)
          BY <1>1, <2>1, <5>1
        <5>3. NewestOf(es, i0, t, i)
          BY <3>3, <5>1, <5>2 DEF NewestOf
        <5> QED BY <4>1, <5>1, <5>2, <5>3 DEF Heard
      <4> QED BY <4>3, <4>4
    <3> QED BY <3>2, <3>3
  <2> QED BY <2>3, <2>4 DEF i0
<1> HIDE DEF Fine
<1>5. 0 \in C /\ \A n \in 1 .. m : n - 1 \in C => n \in C
  BY <1>1, <1>3, <1>4
<1> HIDE DEF C
<1>6. Fine(m)
  <2>1. 0 .. m \subseteq C
    BY <1>1, <1>5, Induction
  <2> QED BY <1>1, <2>1 DEF C
<1>7. Replay(c, es) = r[m] /\ m - m + 1 = 1
  BY <1>1 DEF Replay, r
<1> QED BY <1>6, <1>7 DEF Fine

(* The events of a round: of what they speak they say what the user does *)
(* now, and they speak of every key that has changed and of every touch  *)
(* that has ended.                                                       *)

Settled(s, t, v) ==
  IF t.kind = "key" THEN v = s.keys[t.what]
                    ELSE v = 1 => t.what \in {s.touch[i].id : i \in Touches}

Pending(t) == \E n \in 1 .. Len(todo) : About(todo[n], t)
Truthful(e) == \A t \in Topics : About(e, t) => Settled(state, t, e.value)

LEMMA ChangesTold ==
  ASSUME state \in States, prev \in States
  PROVE  /\ HistoryEvents \in Seq(Events)
         /\ \A n \in 1 .. Len(HistoryEvents) : Truthful(HistoryEvents[n])
         /\ \A t \in Topics : \A v :
              Settled(prev, t, v) =>
                \/ Settled(state, t, v)
                \/ \E n \in 1 .. Len(HistoryEvents) : About(HistoryEvents[n], t)
<1> DEFINE ks == InOrder(KeysChanged)
           is == InOrder(TouchesChanged)
           a == Cardinality(KeysChanged)
           b == Cardinality(TouchesChanged)
           A == [n \in DOMAIN ks |-> KeyEvent(ks[n])]
           B == [n \in DOMAIN is |-> TouchEvent(is[n])]
<1>1. KeysChanged \in SUBSET Nat /\ IsFiniteSet(KeysChanged) /\ KeysChanged \subseteq Keys
  <2>1. KeysChanged \in SUBSET Keys
    BY DEF KeysChanged
  <2> QED BY <2>1, FS_Subset, FeedbackAssumption
<1>2. TouchesChanged \in SUBSET Nat /\ IsFiniteSet(TouchesChanged) /\ TouchesChanged \subseteq Touches
  <2>1. TouchesChanged \in SUBSET Touches
    BY DEF TouchesChanged
  <2> QED BY <2>1, FS_Subset, FeedbackAssumption
<1>3. /\ a \in Nat /\ DOMAIN ks = 1 .. a
      /\ \A n \in 1 .. a : ks[n] \in KeysChanged
      /\ \A k \in KeysChanged : \E n \in 1 .. a : ks[n] = k
  BY <1>1, InOrderIs
<1>4. /\ b \in Nat /\ DOMAIN is = 1 .. b
      /\ \A n \in 1 .. b : is[n] \in TouchesChanged
      /\ \A i \in TouchesChanged : \E n \in 1 .. b : is[n] = i
  BY <1>2, InOrderIs
<1> HIDE DEF ks, is, a, b
<1>5. /\ state.keys \in [Keys -> Levels] /\ prev.keys \in [Keys -> Levels]
      /\ state.touch \in [Touches -> TouchStates] /\ prev.touch \in [Touches -> TouchStates]
  BY DEF States
<1>6. \A u \in TouchStates : u = Up \/ u.id \in Ids
  BY DEF TouchStates
<1>7. ASSUME NEW k \in KeysChanged PROVE KeyEvent(k) \in Events /\ Truthful(KeyEvent(k))
  <2>1. k \in Keys /\ state.keys[k] \in Levels
    BY <1>1, <1>5
  <2>2. KeyEvent(k) \in Events
    BY <2>1 DEF KeyEvent, Events
  <2>3. Truthful(KeyEvent(k))
    BY DEF Truthful, KeyEvent, Event, About, Settled, Topics
  <2> QED BY <2>2, <2>3
<1>8. ASSUME NEW i \in TouchesChanged PROVE TouchEvent(i) \in Events /\ Truthful(TouchEvent(i))
  <2>1. i \in Touches
    BY <1>2
  <2>2. CASE Ended(i)
    <3>1. TouchEvent(i) = Event("touch", prev.touch[i].id, 0) /\ prev.touch[i].id \in Ids
      BY <1>5, <1>6, <2>1, <2>2 DEF TouchEvent, Ended
    <3>2. TouchEvent(i) \in Events
      BY <3>1 DEF Events
    <3>3. Truthful(TouchEvent(i))
      BY <3>1 DEF Truthful, Event, About, Settled, Topics
    <3> QED BY <3>2, <3>3
  <2>3. CASE ~Ended(i)
    <3>1. TouchEvent(i) = Event("touch", state.touch[i].id, 1) /\ state.touch[i].id \in Ids
      BY <1>5, <1>6, <2>1, <2>3 DEF TouchEvent, TouchesChanged
    <3>2. TouchEvent(i) \in Events
      BY <3>1 DEF Events
    <3>3. Truthful(TouchEvent(i))
      BY <2>1, <3>1 DEF Truthful, Event, About, Settled, Topics
    <3> QED BY <3>2, <3>3
  <2> QED BY <2>2, <2>3
<1>9. /\ A \in Seq(Events) /\ Len(A) = a /\ \A n \in 1 .. a : A[n] = KeyEvent(ks[n])
      /\ B \in Seq(Events) /\ Len(B) = b /\ \A n \in 1 .. b : B[n] = TouchEvent(is[n])
  <2>1. \A n \in 1 .. a : A[n] = KeyEvent(ks[n])
    BY <1>3
  <2>2. \A n \in 1 .. b : B[n] = TouchEvent(is[n])
    BY <1>4
  <2>3. A \in [1 .. a -> Events]
    BY <1>3, <1>7
  <2>4. B \in [1 .. b -> Events]
    BY <1>4, <1>8
  <2> HIDE DEF A, B
  <2> QED BY <1>3, <1>4, <2>1, <2>2, <2>3, <2>4
<1>10. HistoryEvents = A \o B
  BY DEF HistoryEvents, ks, is
<1> HIDE DEF A, B
<1>11. /\ HistoryEvents \in Seq(Events) /\ Len(HistoryEvents) = a + b
       /\ \A n \in 1 .. a : HistoryEvents[n] = A[n]
       /\ \A n \in 1 .. b : HistoryEvents[a + n] = B[n]
       /\ \A n \in 1 .. (a + b) : n \in 1 .. a \/ (n - a \in 1 .. b /\ a + (n - a) = n)
  <2>1. Len(A \o B) = a + b /\ A \o B \in Seq(Events)
    BY <1>9
  <2>2. \A n \in 1 .. (a + b) : (A \o B)[n] = IF n <= a THEN A[n] ELSE B[n - a]
    BY <1>9
  <2>3. \A n \in 1 .. a : n \in 1 .. (a + b) /\ n <= a
    BY <1>3, <1>4
  <2>4. \A n \in 1 .. b : a + n \in 1 .. (a + b) /\ ~(a + n <= a) /\ (a + n) - a = n
    BY <1>3, <1>4
  <2>5. \A n \in 1 .. (a + b) : n \in 1 .. a \/ (n - a \in 1 .. b /\ a + (n - a) = n)
    BY <1>3, <1>4
  <2>6. \A n \in 1 .. b : (A \o B)[a + n] = B[n]
    BY <2>2, <2>4
  <2> QED BY <1>10, <2>1, <2>2, <2>3, <2>5, <2>6
<1>12. ASSUME NEW n \in 1 .. Len(HistoryEvents) PROVE Truthful(HistoryEvents[n])
  <2>1. CASE n \in 1 .. a
    BY <1>3, <1>7, <1>9, <1>11, <2>1
  <2>2. CASE n - a \in 1 .. b /\ a + (n - a) = n
    <3>1. HistoryEvents[n] = TouchEvent(is[n - a])
      BY <1>9, <1>11, <2>2
    <3> QED BY <1>4, <1>8, <2>2, <3>1
  <2> QED BY <1>11, <2>1, <2>2
<1>13. ASSUME NEW t \in Topics, NEW v, Settled(prev, t, v), ~Settled(state, t, v)
       PROVE  \E n \in 1 .. Len(HistoryEvents) : About(HistoryEvents[n], t)
  <2>1. CASE t.kind = "key"
    <3>1. t.what \in KeysChanged
      BY <1>13, <2>1 DEF Topics, Settled, KeysChanged
    <3>2. PICK n \in 1 .. a : ks[n] = t.what
      BY <1>3, <3>1
    <3>3. HistoryEvents[n] = KeyEvent(t.what) /\ n \in 1 .. Len(HistoryEvents)
      BY <1>3, <1>4, <1>9, <1>11, <3>2
    <3> QED BY <2>1, <3>3 DEF KeyEvent, Event, About
  <2>2. CASE t.kind = "touch"
    <3>1. v = 1 /\ t.what \in Ids /\ ~(t.what \in {state.touch[i].id : i \in Touches})
      BY <1>13, <2>2 DEF Topics, Settled
    <3>2. PICK i \in Touches : prev.touch[i].id = t.what
      BY <1>13, <2>2, <3>1 DEF Settled
    <3>3. prev.touch[i] # Up
      BY <3>1, <3>2, FeedbackAssumption DEF Up, None
    <3>4. Ended(i) /\ i \in TouchesChanged
      BY <3>1, <3>2, <3>3 DEF Ended, TouchesChanged
    <3>5. PICK n \in 1 .. b : is[n] = i
      BY <1>4, <3>4
    <3>6. HistoryEvents[a + n] = TouchEvent(i) /\ a + n \in 1 .. Len(HistoryEvents)
      BY <1>3, <1>4, <1>9, <1>11, <3>5
    <3>7. TouchEvent(i) = Event("touch", t.what, 0)
      BY <3>2, <3>4 DEF TouchEvent
    <3> QED BY <2>2, <3>6, <3>7 DEF Event, About
  <2> QED BY <2>1, <2>2 DEF Topics
<1> QED BY <1>11, <1>12, <1>13

-----------------------------------------------------------------------------
(* The invariant of the sender.                                          *)

SenderTyped ==
  /\ active \in BOOLEAN /\ changed \in BOOLEAN /\ should_stop \in BOOLEAN
  /\ session \in States /\ state \in States /\ prev \in States
  /\ history_buf \in Histories
  /\ pc \in {"none", "start", "test", "asleep", "woken", "expired", "send", "ended"}
  /\ todo \in Seq(Events)
  /\ user \in {"idle", "signal", "finiSignal", "join"}
  /\ console \in Consoles
  /\ lost \in RingSlots

(* A round is under way only while the thread sends; between rounds what *)
(* is to be sent is what has changed.                                    *)
Rounds ==
  /\ pc # "send" => todo = << >> /\ (changed \/ state = prev)
  /\ \A n \in 1 .. Len(todo) : Truthful(todo[n])

(* Of each key and touch: v is what the last round said, or an event that*)
(* will say otherwise is still to be sent.                               *)
Right(t, v) == IF pc = "send" THEN Settled(state, t, v) \/ Pending(t) ELSE Settled(prev, t, v)

(* The newest event of the history is right, and what the console believes*)
(* is right unless a packet it has missed spoke of it.                   *)
Known(t) ==
  /\ \A i \in 1 .. history_buf.len :
       NewestOf(Format(history_buf), 1, t, i) => Right(t, Format(history_buf)[i].value)
  /\ (\A i \in 1 .. lost : i <= history_buf.len => ~About(Format(history_buf)[i], t))
       => Right(t, Believed(console, t))

SenderInv == SenderTyped /\ Rounds /\ NoOversleep /\ \A t \in Topics : Known(t)

LEMMA SenderStart == FeedbackInit => SenderInv
<1> SUFFICES ASSUME FeedbackInit PROVE SenderInv
  OBVIOUS
<1>1. Size \in Nat \ {0} /\ 0 \in Levels /\ Idle \in Sticks
  BY FeedbackAssumption
<1>2. IdleState \in States
  <2>1. IdleState.keys \in [Keys -> Levels]
    BY <1>1 DEF IdleState
  <2>2. IdleState.touch \in [Touches -> TouchStates] /\ \A i \in Touches : IdleState.touch[i] = Up
    BY DEF IdleState, TouchStates
  <2>3. IdleState.stick \in Sticks /\ IdleState = [keys |-> IdleState.keys, stick |-> IdleState.stick, touch |-> IdleState.touch]
    BY <1>1 DEF IdleState
  <2> QED BY <2>1, <2>2, <2>3 DEF States
<1>3. history_buf \in Histories /\ history_buf.len = 0
  BY <1>1 DEF FeedbackInit, Histories, RingSlots, Told
<1>4. console \in Consoles /\ console.keys = IdleState.keys /\ console.touches = {}
  <2>1. IdleState.keys \in [Keys -> Levels]
    BY <1>1 DEF IdleState
  <2> QED BY <1>1, <2>1 DEF FeedbackInit, Consoles
<1>5. SenderTyped
  <2>1. todo \in Seq(Events)
    BY DEF FeedbackInit
  <2>2. state \in States /\ prev \in States /\ session \in States
    BY <1>2 DEF FeedbackInit
  <2>3. lost \in RingSlots
    BY <1>1 DEF FeedbackInit, RingSlots
  <2> QED BY <1>3, <1>4, <2>1, <2>2, <2>3 DEF FeedbackInit, SenderTyped
<1>6. Rounds /\ NoOversleep
  BY DEF FeedbackInit, Rounds, NoOversleep
<1>7. ASSUME NEW t \in Topics PROVE Known(t)
  <2>1. Settled(prev, t, Believed(console, t))
    BY <1>4 DEF FeedbackInit, Settled, Believed, Topics
  <2> QED BY <1>3, <2>1 DEF FeedbackInit, Known, Right
<1> QED BY <1>5, <1>6, <1>7 DEF SenderInv

(* A step that leaves alone what was sent, what is to be sent, and what  *)
(* the console believes of keys and touches.                             *)
LEMMA KnownKept ==
  ASSUME NEW t \in Topics, Known(t), UNCHANGED <<prev, history_buf, todo, lost, console>>,
         (pc # "send" /\ pc' # "send") \/ UNCHANGED <<state, pc>>
  PROVE  Known(t)'
<1>1. \A v : Right(t, v)' <=> Right(t, v)
  BY DEF Right, Settled, Pending, About
<1>2. Believed(console, t)' = Believed(console, t)
  BY DEF Believed
<1>3. UNCHANGED Format(history_buf)
  BY DEF Format
<1> QED BY <1>1, <1>2, <1>3 DEF Known, NewestOf, About

(* The same for a round that leaves the state alone.                     *)
LEMMA RoundsKept ==
  ASSUME Rounds, UNCHANGED <<todo, prev>>,
         \/ pc # "send" /\ pc' # "send" /\ (changed' \/ state' = prev)
         \/ UNCHANGED <<state, pc, changed>>
  PROVE  Rounds'
<1>1. CASE pc # "send"
  BY <1>1 DEF Rounds
<1>2. CASE pc = "send"
  BY <1>2 DEF Rounds, Truthful, Settled, About
<1> QED BY <1>1, <1>2

(* The sender at rest: the user, the end, and the thread but for its     *)
(* rounds.                                                               *)
LEMMA SenderIdle ==
  ASSUME SenderInv,
         \/ \E s \in States : SetControllerState(s)
         \/ FeedbackStart \/ Signal \/ Fini \/ FiniJoin
         \/ Lock \/ Sleep \/ FeedbackSpurious \/ Expire \/ FeedbackStop
  PROVE  SenderInv'
<1>0. SenderTyped /\ Rounds /\ NoOversleep /\ \A t \in Topics : Known(t)
  BY DEF SenderInv
<1>1. CASE \E s \in States : SetControllerState(s)
  <2>1. PICK s \in States : SetControllerState(s)
    BY <1>1
  <2>2. CASE active
    <3>1. Set(s) /\ pc \notin {"test", "send"} /\ UNCHANGED <<pc, prev, todo, active, should_stop, history_buf, console, lost>>
          /\ session' = s /\ user = "idle"
      BY <2>1, <2>2 DEF SetControllerState, Holds
    <3>2. state' = s /\ changed' = (changed \/ state # s) /\ user' \in {"signal", "idle"} /\ (state # s => user' = "signal")
      BY <3>1 DEF Set
    <3>3. changed' \in BOOLEAN
      BY <3>2, Zenon
    <3>4. SenderTyped'
      BY <1>0, <3>1, <3>2, <3>3 DEF SenderTyped
    <3>5. changed' \/ state' = prev
      BY <1>0, <3>1, <3>2, Zenon DEF Rounds
    <3>6. Rounds'
      BY <1>0, <3>1, <3>5, RoundsKept
    <3>7. NoOversleep'
      <4>1. CASE state = s
        <5>1. changed' => changed
          BY <3>2, <4>1, Zenon
        <5> QED BY <1>0, <3>1, <5>1 DEF NoOversleep
      <4>2. CASE state # s
        BY <3>2, <4>2 DEF NoOversleep
      <4> QED BY <4>1, <4>2
    <3>8. \A t \in Topics : Known(t)'
      BY <1>0, <3>1, KnownKept
    <3> QED BY <3>4, <3>6, <3>7, <3>8 DEF SenderInv
  <2>3. CASE ~active
    <3>1. UNCHANGED <<state, changed, user, pc, prev, todo, active, should_stop, history_buf, console, lost>> /\ session' = s
      BY <2>1, <2>3 DEF SetControllerState
    <3>2. SenderTyped' /\ NoOversleep'
      BY <1>0, <3>1 DEF SenderTyped, NoOversleep
    <3>3. Rounds'
      BY <1>0, <3>1, RoundsKept
    <3>4. \A t \in Topics : Known(t)'
      BY <1>0, <3>1, KnownKept
    <3> QED BY <3>2, <3>3, <3>4 DEF SenderInv
  <2> QED BY <2>2, <2>3
<1>2. CASE FeedbackStart
  <2>1. /\ pc = "none" /\ user = "idle" /\ active' = TRUE /\ pc' = "start"
        /\ UNCHANGED <<session, prev, should_stop, history_buf, todo, console, lost>>
        /\ state' = session /\ changed' = (changed \/ state # session) /\ user' \in {"signal", "idle"}
    BY <1>2 DEF FeedbackStart, Set
  <2>2. changed' \in BOOLEAN /\ (changed' \/ state' = prev)
    BY <1>0, <2>1, Zenon DEF Rounds
  <2>3. SenderTyped' /\ NoOversleep'
    BY <1>0, <2>1, <2>2 DEF SenderTyped, NoOversleep
  <2>4. Rounds'
    BY <1>0, <2>1, <2>2, RoundsKept
  <2>5. \A t \in Topics : Known(t)'
    BY <1>0, <2>1, KnownKept
  <2> QED BY <2>3, <2>4, <2>5 DEF SenderInv
<1>3. CASE Signal
  <2>1. /\ user' \in {"idle", "join"} /\ pc' = Wake /\ (pc' # "asleep")
        /\ UNCHANGED <<active, session, state, prev, changed, should_stop, history_buf, todo, console, lost>>
    BY <1>3 DEF Signal, Wake
  <2>2. \/ pc # "send" /\ pc' # "send" /\ pc' \in {"none", "start", "test", "asleep", "woken", "expired", "send", "ended"}
        \/ pc' = pc
    BY <1>0, <2>1 DEF Wake, SenderTyped
  <2>3. SenderTyped' /\ NoOversleep'
    BY <1>0, <2>1, <2>2 DEF SenderTyped, NoOversleep
  <2>4. Rounds'
    <3>1. pc # "send" => changed' \/ state' = prev
      BY <1>0, <2>1 DEF Rounds
    <3> QED BY <1>0, <2>1, <2>2, <3>1, RoundsKept
  <2>5. \A t \in Topics : Known(t)'
    BY <1>0, <2>1, <2>2, KnownKept
  <2> QED BY <2>3, <2>4, <2>5 DEF SenderInv
<1>4. CASE Fini
  <2>1. /\ pc \notin {"test", "send"} /\ active' = FALSE /\ should_stop' = TRUE /\ user' = "finiSignal"
        /\ UNCHANGED <<session, state, prev, changed, history_buf, pc, todo, console, lost>>
    BY <1>4 DEF Fini, Holds
  <2>2. SenderTyped' /\ NoOversleep'
    BY <1>0, <2>1 DEF SenderTyped, NoOversleep
  <2>3. Rounds'
    BY <1>0, <2>1, RoundsKept
  <2>4. \A t \in Topics : Known(t)'
    BY <1>0, <2>1, KnownKept
  <2> QED BY <2>2, <2>3, <2>4 DEF SenderInv
<1>5. CASE FiniJoin
  <2>1. /\ user' = "idle" /\ pc = "ended"
        /\ UNCHANGED <<active, session, state, prev, changed, should_stop, history_buf, pc, todo, console, lost>>
    BY <1>5 DEF FiniJoin
  <2>2. SenderTyped' /\ NoOversleep'
    BY <1>0, <2>1 DEF SenderTyped, NoOversleep
  <2>3. Rounds'
    BY <1>0, <2>1, RoundsKept
  <2>4. \A t \in Topics : Known(t)'
    BY <1>0, <2>1, KnownKept
  <2> QED BY <2>2, <2>3, <2>4 DEF SenderInv
<1>6. CASE Lock \/ Sleep \/ FeedbackSpurious \/ Expire \/ FeedbackStop
  <2>1. /\ UNCHANGED <<active, session, state, prev, changed, should_stop, history_buf, todo, user, console, lost>>
        /\ pc # "send" /\ pc' \in {"test", "asleep", "woken", "expired", "ended"}
        /\ pc' = "asleep" => ~should_stop /\ ~changed
    BY <1>6 DEF Lock, Sleep, FeedbackSpurious, Expire, FeedbackStop, Waited
  <2>2. SenderTyped' /\ NoOversleep'
    BY <1>0, <2>1 DEF SenderTyped, NoOversleep
  <2>3. Rounds'
    <3>1. changed' \/ state' = prev
      BY <1>0, <2>1 DEF Rounds
    <3> QED BY <1>0, <2>1, <3>1, RoundsKept
  <2>4. \A t \in Topics : Known(t)'
    BY <1>0, <2>1, KnownKept
  <2> QED BY <2>2, <2>3, <2>4 DEF SenderInv
<1> QED BY <1>1, <1>2, <1>3, <1>4, <1>5, <1>6

(* A round begins: what the last one said stands, or will be corrected.  *)
LEMMA RoundBegun ==
  ASSUME SenderInv, NEW arrives \in BOOLEAN, Round(arrives)
  PROVE  SenderInv'
<1>1. SenderTyped /\ Rounds /\ NoOversleep /\ \A t \in Topics : Known(t)
  BY DEF SenderInv
<1>2. /\ pc # "send" /\ pc' = "send" /\ changed' = FALSE
      /\ todo' = (IF SendHistory THEN HistoryEvents ELSE << >>)
      /\ UNCHANGED <<active, session, state, prev, should_stop, history_buf, user, lost>>
      /\ console' = console \/ console' = [console EXCEPT !.stick = state.stick]
  BY DEF Round, Waited
<1>3. state \in States /\ prev \in States /\ (changed \/ state = prev)
  BY <1>1, <1>2 DEF SenderTyped, Rounds
<1>4. todo' \in Seq(Events) /\ \A n \in 1 .. Len(todo') : Truthful(todo'[n])
  <2>1. << >> \in Seq(Events) /\ Len(<< >>) = 0
    OBVIOUS
  <2> QED BY <1>2, <1>3, <2>1, ChangesTold
<1>5. ASSUME NEW t \in Topics, NEW v, Settled(prev, t, v)
      PROVE  Settled(state, t, v) \/ \E n \in 1 .. Len(todo') : About(todo'[n], t)
  <2>1. CASE SendHistory
    BY <1>2, <1>3, <1>5, <2>1, ChangesTold
  <2>2. CASE ~SendHistory
    <3>1. state.keys = prev.keys /\ state.touch = prev.touch
      BY <1>3, <2>2 DEF SendHistory, EqualsHistory
    <3> QED BY <1>5, <3>1 DEF Settled
  <2> QED BY <2>1, <2>2
<1>6. console' \in Consoles /\ \A t \in Topics : Believed(console', t) = Believed(console, t)
  <2>1. console = [stick |-> console.stick, keys |-> console.keys, touches |-> console.touches]
        /\ console.stick \in Sticks /\ console.keys \in [Keys -> Levels] /\ console.touches \in SUBSET Ids
    BY <1>1 DEF SenderTyped, Consoles
  <2>2. state.stick \in Sticks
    BY <1>3 DEF States
  <2>3. console' = console \/ console' = [stick |-> state.stick, keys |-> console.keys, touches |-> console.touches]
    BY <1>2, <2>1
  <2> QED BY <2>1, <2>2, <2>3 DEF Consoles, Believed
<1>7. SenderTyped'
  BY <1>1, <1>2, <1>4, <1>6 DEF SenderTyped
<1>8. Rounds'
  BY <1>2, <1>4 DEF Rounds, Truthful, Settled
<1>9. NoOversleep'
  BY <1>2 DEF NoOversleep
<1>10. ASSUME NEW t \in Topics PROVE Known(t)'
  <2>1. \A v : Right(t, v) => Right(t, v)'
    <3>1. ASSUME NEW v, Right(t, v) PROVE Right(t, v)'
      <4>1. Settled(prev, t, v)
        BY <1>2, <3>1 DEF Right
      <4>2. Settled(state, t, v) \/ \E n \in 1 .. Len(todo') : About(todo'[n], t)
        BY <1>5, <4>1
      <4>3. Settled(state', t, v) \/ \E n \in 1 .. Len(todo') : About(todo'[n], t)
        BY <1>2, <4>2
      <4> QED BY <1>2, <4>3 DEF Right, Pending, Settled, About
    <3> QED BY <3>1
  <2>2. UNCHANGED Format(history_buf)
    BY <1>2 DEF Format
  <2>3. Believed(console, t)' = Believed(console, t)
    BY <1>6 DEF Believed
  <2>4. Known(t)
    BY <1>1
  <2> QED BY <1>2, <2>1, <2>2, <2>3, <2>4 DEF Known, NewestOf, About
<1> QED BY <1>7, <1>8, <1>9, <1>10 DEF SenderInv

(* A round ends: every event has been said.                              *)
LEMMA RoundEnded ==
  ASSUME SenderInv, RoundEnd
  PROVE  SenderInv'
<1>1. SenderTyped /\ Rounds /\ NoOversleep /\ \A t \in Topics : Known(t)
  BY DEF SenderInv
<1>2. /\ pc = "send" /\ todo = << >> /\ prev' = state /\ pc' = "test"
      /\ UNCHANGED <<active, session, state, changed, should_stop, history_buf, todo, user, console, lost>>
  BY DEF RoundEnd
<1>3. SenderTyped'
  BY <1>1, <1>2 DEF SenderTyped
<1>4. Rounds' /\ NoOversleep'
  BY <1>2 DEF Rounds, NoOversleep
<1>5. ASSUME NEW t \in Topics PROVE Known(t)'
  <2>1. \A v : Right(t, v)' <=> Right(t, v)
    BY <1>2 DEF Right, Settled, Pending
  <2>2. UNCHANGED Format(history_buf) /\ Believed(console, t)' = Believed(console, t)
    BY <1>2 DEF Format, Believed
  <2>3. Known(t)
    BY <1>1
  <2> QED BY <1>2, <2>1, <2>2, <2>3 DEF Known, NewestOf, About
<1> QED BY <1>3, <1>4, <1>5 DEF SenderInv

(* An event is sent, and arrives or not.                                 *)
LEMMA EventSent ==
  ASSUME SenderInv, NEW arrives \in BOOLEAN, SendEvent(arrives)
  PROVE  SenderInv'
<1> DEFINE e == Head(todo)
           F == Format(history_buf)
           G == Format(history_buf')
           len == history_buf'.len
<1>1. SenderTyped /\ Rounds /\ NoOversleep /\ \A t \in Topics : Known(t)
  BY DEF SenderInv
<1>2. /\ pc = "send" /\ todo # << >> /\ (arrives \/ lost < Size - 1)
      /\ history_buf' = HistoryPush(history_buf, e) /\ todo' = Tail(todo)
      /\ console' = (IF arrives THEN Replay(console, G) ELSE console)
      /\ lost' = (IF arrives THEN 0 ELSE lost + 1)
      /\ UNCHANGED <<active, session, state, prev, changed, should_stop, pc, user>>
  BY DEF SendEvent
<1>3. /\ e \in Events /\ e \in Told /\ todo' \in Seq(Events) /\ Truthful(e) /\ e = todo[1]
      /\ Len(todo) \in Nat \ {0} /\ Len(todo') = Len(todo) - 1
      /\ \A n \in 1 .. Len(todo') : todo'[n] = todo[n + 1] /\ n + 1 \in 1 .. Len(todo)
  <2>1. todo \in Seq(Events) /\ \A n \in 1 .. Len(todo) : Truthful(todo[n])
    BY <1>1 DEF SenderTyped, Rounds
  <2>2. e \in Events /\ e = todo[1] /\ Len(todo) \in Nat \ {0} /\ todo' \in Seq(Events) /\ Len(todo') = Len(todo) - 1
    BY <1>2, <2>1
  <2>3. \A n \in 1 .. Len(todo') : todo'[n] = todo[n + 1] /\ n + 1 \in 1 .. Len(todo)
    BY <1>2, <2>1, <2>2
  <2> HIDE DEF e
  <2> QED BY <2>1, <2>2, <2>3 DEF Told
<1>4. Size \in Nat \ {0} /\ lost \in 0 .. (Size - 1) /\ history_buf.len \in 0 .. Size
  BY <1>1, FeedbackAssumption DEF SenderTyped, RingSlots, Histories
<1>5. /\ history_buf' \in Histories
      /\ len = (IF history_buf.len < Size THEN history_buf.len + 1 ELSE Size)
      /\ DOMAIN G = 1 .. len /\ G \in Seq(Told) /\ G[1] = e
      /\ \A i \in 2 .. len : G[i] = F[i - 1]
  BY <1>1, <1>2, <1>3, Formatted DEF SenderTyped
<1> HIDE DEF e, F, G, len
<1>6. Len(G) = len /\ len \in 1 .. Size
  BY <1>4, <1>5
<1>7. /\ console \in Consoles /\ console' \in Consoles
      /\ arrives => \A t \in Topics : Heard(console, console', G, 1, t)
  BY <1>1, <1>2, <1>5, ReplayIs DEF SenderTyped
<1>8. SenderTyped'
  BY <1>1, <1>2, <1>3, <1>4, <1>5, <1>7 DEF SenderTyped, RingSlots
<1>9. Rounds'
  <2>1. \A n \in 1 .. Len(todo') : Truthful(todo'[n])
    BY <1>1, <1>3 DEF Rounds
  <2> QED BY <1>2, <2>1 DEF Rounds, Truthful, Settled
<1>10. NoOversleep'
  BY <1>1, <1>2 DEF NoOversleep
<1>11. ASSUME NEW t \in Topics PROVE Known(t)'
  <2>1. /\ \A i \in 1 .. history_buf.len : NewestOf(F, 1, t, i) => Right(t, F[i].value)
        /\ (\A i \in 1 .. lost : i <= history_buf.len => ~About(F[i], t)) => Right(t, Believed(console, t))
    BY <1>1 DEF Known, F
  <2> DEFINE Fine(v) == Settled(state', t, v) \/ \E m \in 1 .. Len(todo') : About(todo'[m], t)
  <2>2. ASSUME NEW v, Right(t, v), ~About(e, t) PROVE Fine(v)
    <3>1. CASE Settled(state, t, v)
      BY <1>2, <3>1
    <3>2. CASE Pending(t)
      <4>1. PICK n \in 1 .. Len(todo) : About(todo[n], t)
        BY <3>2 DEF Pending
      <4>2. n # 1
        BY <1>3, <2>2, <4>1
      <4>3. n - 1 \in 1 .. Len(todo') /\ todo'[n - 1] = todo[n]
        BY <1>3, <4>1, <4>2
      <4> QED BY <4>1, <4>3
    <3> QED BY <1>2, <2>2, <3>1, <3>2 DEF Right
  <2>3. About(e, t) => Fine(e.value)
    BY <1>2, <1>3 DEF Truthful
  <2> HIDE DEF Fine
  <2>4. ASSUME NEW i \in 1 .. len, NewestOf(G, 1, t, i) PROVE Fine(G[i].value)
    <3>1. CASE i = 1
      BY <1>5, <2>3, <2>4, <3>1 DEF NewestOf
    <3>2. CASE i # 1
      <4>1. i \in 2 .. len /\ i - 1 \in 1 .. history_buf.len /\ 1 \in 1 .. (i - 1)
        BY <1>4, <1>5, <1>6, <3>2
      <4>2. G[i] = F[i - 1] /\ ~About(e, t)
        BY <1>5, <2>4, <4>1 DEF NewestOf
      <4>3. ASSUME NEW j \in 1 .. ((i - 1) - 1) PROVE ~About(F[j], t)
        <5>1. j + 1 \in 2 .. len /\ j + 1 \in 1 .. (i - 1) /\ (j + 1) - 1 = j
          BY <1>6, <4>1
        <5>2. G[j + 1] = F[j]
          BY <1>5, <5>1
        <5> QED BY <2>4, <5>1, <5>2 DEF NewestOf
      <4>4. NewestOf(F, 1, t, i - 1)
        BY <2>4, <4>2, <4>3 DEF NewestOf
      <4>5. Right(t, F[i - 1].value)
        BY <2>1, <4>1, <4>4
      <4> QED BY <2>2, <4>2, <4>5
    <3> QED BY <3>1, <3>2
  <2>5. ASSUME \A i \in 1 .. (lost + 1) : i <= len => ~About(G[i], t), lost + 1 <= Size
        PROVE  Fine(Believed(console, t))
    <3>1. ~About(e, t)
      BY <1>4, <1>5, <1>6, <2>5
    <3>2. ASSUME NEW i \in 1 .. lost, i <= history_buf.len PROVE ~About(F[i], t)
      <4>1. i + 1 \in 2 .. len /\ i + 1 \in 1 .. (lost + 1) /\ (i + 1) - 1 = i /\ i + 1 <= len
        BY <1>4, <1>5, <1>6, <2>5, <3>2
      <4>2. G[i + 1] = F[i]
        BY <1>5, <4>1
      <4> QED BY <2>5, <4>1, <4>2
    <3>3. Right(t, Believed(console, t))
      BY <2>1, <3>2
    <3> QED BY <2>2, <3>1, <3>3
  <2>6. ASSUME \A i \in 1 .. lost' : i <= len => ~About(G[i], t)
        PROVE  Fine(Believed(console', t))
    <3>1. CASE ~arrives
      <4>1. lost' = lost + 1 /\ console' = console /\ lost + 1 <= Size
        BY <1>2, <1>4, <3>1
      <4> QED BY <2>5, <2>6, <4>1
    <3>2. CASE arrives
      <4>1. Heard(console, console', G, 1, t)
        BY <1>7, <3>2
      <4>2. CASE \E i \in 1 .. Len(G) : NewestOf(G, 1, t, i) /\ Believed(console', t) = G[i].value
        BY <1>6, <2>4, <4>2
      <4>3. CASE (\A i \in 1 .. Len(G) : ~About(G[i], t)) /\ Believed(console', t) = Believed(console, t)
        <5>1. \A i \in 1 .. (lost + 1) : i <= len => i \in 1 .. Len(G)
          BY <1>4, <1>6
        <5>2. lost + 1 <= Size
          BY <1>4
        <5> QED BY <2>5, <4>3, <5>1, <5>2
      <4> QED BY <4>1, <4>2, <4>3 DEF Heard
    <3> QED BY <3>1, <3>2
  <2>7. \A v : Fine(v) <=> Right(t, v)'
    BY <1>2 DEF Fine, Right, Pending, Settled, About
  <2>8. G = Format(history_buf)' /\ len = history_buf'.len
    BY DEF G, len, Format
  <2>9. Believed(console', t) = Believed(console, t)'
    BY DEF Believed
  <2>10. \A i \in 1 .. history_buf'.len : NewestOf(Format(history_buf)', 1, t, i) => Fine(Format(history_buf)'[i].value)
    BY <2>4, <2>8
  <2>11. (\A i \in 1 .. lost' : i <= history_buf'.len => ~About(Format(history_buf)'[i], t)) => Fine(Believed(console, t)')
    BY <2>6, <2>8, <2>9
  <2> HIDE DEF G, len, Fine
  <2> QED BY <1>2, <2>10, <2>11 DEF Known, NewestOf, About, Fine, Right, Pending, Settled
<1> QED BY <1>8, <1>9, <1>10, <1>11 DEF SenderInv

LEMMA SenderStep == SenderInv /\ [FeedbackNext]_feedbackVars => SenderInv'
<1> SUFFICES ASSUME SenderInv, [FeedbackNext]_feedbackVars PROVE SenderInv'
  OBVIOUS
<1>1. CASE FeedbackNext
  BY <1>1, SenderIdle, RoundBegun, EventSent, RoundEnded DEF FeedbackNext
<1>2. CASE UNCHANGED feedbackVars
  <2>1. SenderTyped /\ Rounds /\ NoOversleep /\ \A t \in Topics : Known(t)
    BY DEF SenderInv
  <2>2. UNCHANGED <<active, session, state, prev, changed, should_stop, history_buf, pc, todo, user, console, lost>>
    BY <1>2 DEF feedbackVars
  <2>3. SenderTyped' /\ NoOversleep'
    BY <2>1, <2>2 DEF SenderTyped, NoOversleep
  <2>4. Rounds'
    BY <2>1, <2>2, RoundsKept
  <2>5. \A t \in Topics : Known(t)'
    BY <2>1, <2>2, KnownKept
  <2> QED BY <2>3, <2>4, <2>5 DEF SenderInv
<1> QED BY <1>1, <1>2

(* InputArrives.                                                         *)
LEMMA SenderSafe == SenderInv => InputArrives
<1> SUFFICES ASSUME SenderInv PROVE InputArrives
  OBVIOUS
<1>1. SenderTyped /\ NoOversleep /\ \A t \in Topics : Known(t)
  BY DEF SenderInv
<1>2. ASSUME pc # "send", lost = 0
      PROVE  console.keys = prev.keys /\ console.touches \subseteq {prev.touch[i].id : i \in Touches}
  <2>1. \A t \in Topics : Settled(prev, t, Believed(console, t))
    BY <1>1, <1>2 DEF Known, Right
  <2>2. ASSUME NEW k \in Keys PROVE console.keys[k] = prev.keys[k]
    <3>1. [kind |-> "key", what |-> k] \in Topics
      BY DEF Topics
    <3> QED BY <2>1, <3>1 DEF Settled, Believed
  <2>3. console.keys \in [Keys -> Levels] /\ prev.keys \in [Keys -> Levels] /\ console.touches \subseteq Ids
    BY <1>1 DEF SenderTyped, Consoles, States
  <2>4. ASSUME NEW x \in console.touches PROVE x \in {prev.touch[i].id : i \in Touches}
    <3>1. [kind |-> "touch", what |-> x] \in Topics
      BY <2>3 DEF Topics
    <3> QED BY <2>1, <3>1 DEF Settled, Believed
  <2> QED BY <2>2, <2>3, <2>4
<1> QED BY <1>1, <1>2 DEF InputArrives, ConsoleCatchesUp

THEOREM InputArrivesHolds == FeedbackSpec => []InputArrives
<1>1. FeedbackSpec => []SenderInv
  BY SenderStart, SenderStep, PTL DEF FeedbackSpec
<1> QED BY <1>1, SenderSafe, PTL

(* Types; the history never exceeds its ring.                              *)
THEOREM FeedbackTypeCorrect == FeedbackSpec => []FeedbackTypeOK
<1>1. SenderInv => FeedbackTypeOK
  <2> SUFFICES ASSUME SenderTyped PROVE FeedbackTypeOK
    BY DEF SenderInv
  <2>1. history_buf.events \in [RingSlots -> Events \cup {Blank}] /\ history_buf.begin \in RingSlots
        /\ history_buf.len \in 0 .. Size
    BY DEF SenderTyped, Histories, Told
  <2>2. console.stick \in Sticks /\ console.keys \in [Keys -> Levels] /\ console.touches \subseteq Ids
    BY DEF SenderTyped, Consoles
  <2>3. \A i \in 1 .. Len(todo) : todo[i] \in Events
    BY DEF SenderTyped
  <2> QED BY <2>1, <2>2, <2>3 DEF SenderTyped, FeedbackTypeOK
<1>2. FeedbackSpec => []SenderInv
  BY SenderStart, SenderStep, PTL DEF FeedbackSpec
<1> QED BY <1>1, <1>2, PTL
=============================================================================
