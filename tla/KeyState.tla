------------------------------ MODULE KeyState ------------------------------
(***************************************************************************)
(* The key position of received packets (ChiakiKeyState of gkcrypt.c).     *)
(*                                                                         *)
(* The console counts the bytes of key stream it has used in 64 bits but   *)
(* puts only the low half into a packet.  The client completes it with the *)
(* last position whose MAC it has verified, and takes the packet only if   *)
(* the MAC for the completed position matches: MACs are keyed by position, *)
(* so a packet that is completed wrongly is thrown away.                   *)
(*                                                                         *)
(* The network loses, reorders, duplicates and damages packets.  KeyPositions *)
(* are bounded by MaxPos and one packet advances them by at most Step; a   *)
(* half of the code's 64 bits holds the numbers below Modulus.             *)
(***************************************************************************)
EXTENDS SeqNum

CONSTANTS MaxPos, Step

ASSUME PosAssumption == MaxPos \in Nat /\ MaxPos < Modulus * Modulus
ASSUME StepAssumption == Step \in Nat \ {0}

VARIABLES
  prev,       \* state->prev
  sent,       \* the position of the console's newest packet
  net         \* positions of the genuine packets that may still arrive

keyStateVars == <<prev, sent, net>>

KeyPositions == 0 .. MaxPos

Low(p) == p % Modulus
High(p) == p \div Modulus

(* Mutant: the upper half is never decreased.                            *)
CompletedUp(p, low) ==
  IF SeqGt(low, Low(p)) /\ low < Low(p)
  THEN (High(p) + 1) % Modulus
  ELSE High(p)

(* The upper half of the completed position: one more when low lies ahead  *)
(* of the previous position but is smaller, one less when it lies behind   *)
(* but is larger.  high is a uint32_t and wraps.                           *)
Completed(p, low) ==
  IF SeqGt(low, Low(p)) /\ low < Low(p)
  THEN (High(p) + 1) % Modulus
  ELSE IF SeqLt(low, Low(p)) /\ low > Low(p) /\ High(p) # 0
  THEN High(p) - 1
  ELSE High(p)

request_pos(p, low) == Modulus * Completed(p, low) + low

-----------------------------------------------------------------------------
(* Before there are keys the console uses no key stream: what it sends     *)
(* until then carries position 0, and leaves prev at 0.                    *)
KeyStateInit ==
  /\ prev = 0
  /\ sent = 0
  /\ net = {0}

(* The console sends a packet d bytes further on.  The assumption on the   *)
(* network is in the guard: a packet that can still arrive, and the last   *)
(* packet taken, are less than half of the low range behind the newest.    *)
Send(d) ==
  /\ sent + d \in KeyPositions
  /\ \A p \in net \cup {prev} : sent + d - p < Half
  /\ sent' = sent + d
  /\ net' = net \cup {sent + d}
  /\ UNCHANGED prev

Lose(p) ==
  /\ net' = net \ {p}
  /\ UNCHANGED <<prev, sent>>

(* A genuine packet arrives, for the only time or not.  Its position is    *)
(* asked for without committing it; the MAC matches if the position is the *)
(* one the console used, and only then it is committed.  The parser of the *)
(* message or of the audio/video packet then asks for it once more, and    *)
(* commits the answer.  A packet that is completed to another position is  *)
(* thrown away, as if it were lost.                                        *)
HandleMac(p) ==
  /\ request_pos(prev, Low(p)) = p
  /\ prev' = request_pos(p, Low(p))
  /\ net' \in {net, net \ {p}}
  /\ UNCHANGED sent

(* A packet that was damaged on its way: the low half it carries is any    *)
(* number and its MAC does not match.                                      *)
HandleMacMismatch(low) == UNCHANGED keyStateVars

KeyStateNext ==
  \/ \E d \in 1 .. Step : Send(d)
  \/ \E p \in net : Lose(p) \/ HandleMac(p)
  \/ \E low \in SeqNums : HandleMacMismatch(low)

KeyStateSpec == KeyStateInit /\ [][KeyStateNext]_keyStateVars

-----------------------------------------------------------------------------
(* The state is well typed: in particular the position committed by        *)
(* takion_handle_packet_mac is one the console can have reached.           *)
KeyStateTypeOK ==
  /\ prev \in 0 .. sent
  /\ sent \in KeyPositions
  /\ net \subseteq 0 .. sent

(* No genuine packet is rejected: whatever was lost, overtaken, repeated   *)
(* or damaged before, chiaki_key_state_request_pos completes the position  *)
(* of every packet that can still arrive to the one its MAC was made for,  *)
(* across each wrap-around of the low half and back.                       *)
NoneRejected == \A p \in net : request_pos(prev, Low(p)) = p

(* The bound on the lag that Send assumes, which makes the above inductive.*)
Near == \A p \in net \cup {prev} : sent - p < Half
=============================================================================
