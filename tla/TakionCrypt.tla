----------------------------- MODULE TakionCrypt -----------------------------
(***************************************************************************)
(* The key positions, MACs and key stream of the packets Takion sends      *)
(* (lib/src/takion.c with the MAC keys of lib/src/gkcrypt.c).              *)
(*                                                                         *)
(* Any thread sends: acknowledgements, data messages and congestion        *)
(* reports take a key position first and their MAC later; feedback and     *)
(* microphone packets take both, and are encrypted, under one lock.  The   *)
(* key of the MAC changes every Refresh bytes, and an older one is made    *)
(* again for a packet that comes late.  The MAC keys of received packets,  *)
(* which come in any order as well, are made by the same functions.        *)
(*                                                                         *)
(* Ciphers and hashes are external: a key is known by what it is derived   *)
(* from, a byte of the key stream by its position.                         *)
(***************************************************************************)
EXTENDS Naturals, Sequences

CONSTANTS
  Senders,     \* threads that send without encryption
  Sizes,       \* of what they send, and of payloads that are encrypted
  BlockSize,   \* CHIAKI_GKCRYPT_BLOCK_SIZE
  Refresh,     \* CHIAKI_GKCRYPT_GMAC_KEY_REFRESH_KEY_POS
  SizeMax,     \* SIZE_MAX: what key_pos_local can count to
  MaxSent      \* bound on the packets sent

ASSUME TakionCryptAssumption ==
  BlockSize \in Nat \ {0} /\ Refresh \in Nat \ {0} /\ Sizes \subseteq Nat \ {0} /\ SizeMax \in Nat /\ MaxSent \in Nat

VARIABLES
  gkcrypt_local,   \* is set
  key_pos_local,
  key_gmac,        \* key_gmac_index_current and key_gmac_current
  packet,          \* the key position each sender has taken
  packets_sent     \* history: position, MAC key and key stream of each packet

takionCryptVars == <<gkcrypt_local, key_pos_local, key_gmac, packet, packets_sent>>

(* gen_gmac_key, of the key base for index 0 and of that key for others.   *)
GmacBase == [from |-> "key_base", index |-> 0]
GmacKey(index) == [from |-> "key_gmac_base", index |-> index]
NoKey == [from |-> "none", index |-> 0]
NoPacket == [taken |-> FALSE]

TakionCryptInit ==
  /\ gkcrypt_local = FALSE /\ key_pos_local = 0
  /\ key_gmac = [index |-> 0, key |-> GmacBase]
  /\ packet = [t \in Senders |-> NoPacket]
  /\ packets_sent = <<>>

-----------------------------------------------------------------------------
(* chiaki_takion_set_crypt, by the Takion thread.                          *)
SetCrypt ==
  /\ ~gkcrypt_local /\ gkcrypt_local' = TRUE
  /\ UNCHANGED <<key_pos_local, key_gmac, packet, packets_sent>>

(* What chiaki_takion_crypt_advance_key_pos adds: the remainder of the     *)
(* size, not what is missing to a full block.  Without keys it stays at 0. *)
Advance(n) == n + (n % BlockSize)
Overflows(n) == gkcrypt_local /\ SizeMax - key_pos_local < Advance(n)
Advanced(n) == IF gkcrypt_local THEN key_pos_local + Advance(n) ELSE key_pos_local

(* The key of a position's MAC, in chiaki_gkcrypt_gmac: the first byte     *)
(* still belongs to the index before.                                      *)
KeyIndex(pos) == (IF pos > 0 THEN pos - 1 ELSE 0) \div Refresh

(* Mutant: index 0 is not special.                                         *)
TmpKeyDerived(index) == GmacKey(index)

(* gen_tmp_gmac_key and gen_new_gmac_key.                                  *)
TmpKey(index) == IF index # 0 THEN GmacKey(index) ELSE GmacBase
NewKey(index) == [index |-> index, key |-> GmacKey(index)]
GmacState(pos) == IF KeyIndex(pos) > key_gmac.index THEN NewKey(KeyIndex(pos)) ELSE key_gmac
GmacUsed(pos) == IF KeyIndex(pos) < key_gmac.index THEN TmpKey(KeyIndex(pos)) ELSE GmacState(pos).key

(* chiaki_gkcrypt_gen_key_stream: whole blocks, numbered from the first.   *)
KeyStream(pos, size) == [i \in 0 .. size - 1 |-> BlockSize * ((pos \div BlockSize) + (i \div BlockSize)) + (i % BlockSize)]

(* chiaki_gkcrypt_decrypt, also used to encrypt: the stream is cut to size *)
(* from full blocks.                                                       *)
Encrypted(pos, size) ==
  LET padding_pre == pos % BlockSize
      full_size == ((padding_pre + size + BlockSize - 1) \div BlockSize) * BlockSize
      key_stream == KeyStream(pos - padding_pre, full_size)
  IN {key_stream[padding_pre + i] : i \in 0 .. size - 1}

Sent(pos, size, key, bytes, raced) ==
  packets_sent' = Append(packets_sent, [pos |-> pos, size |-> size, key |-> key, bytes |-> bytes, raced |-> raced])

-----------------------------------------------------------------------------
(* The first half of chiaki_takion_send_message_data, _data_ack and        *)
(* _congestion; a message that would overflow is not sent.                 *)
TakeKeyPos(t, n) ==
  /\ ~packet[t].taken /\ ~Overflows(n) /\ Len(packets_sent) < MaxSent
  /\ packet' = [packet EXCEPT ![t] = [taken |-> TRUE, pos |-> IF gkcrypt_local THEN key_pos_local ELSE 0,
                                      size |-> n, keyed |-> gkcrypt_local]]
  /\ key_pos_local' = Advanced(n)
  /\ UNCHANGED <<gkcrypt_local, key_gmac, packets_sent>>

(* chiaki_takion_send with chiaki_takion_packet_mac: the MAC is made if    *)
(* there are keys by now.                                                  *)
SendPacket(t) ==
  /\ packet[t].taken
  /\ packet' = [packet EXCEPT ![t] = NoPacket]
  /\ LET p == packet[t] IN
     IF gkcrypt_local
     THEN key_gmac' = GmacState(p.pos) /\ Sent(p.pos, p.size, GmacUsed(p.pos), {}, ~p.keyed)
     ELSE UNCHANGED key_gmac /\ Sent(p.pos, p.size, NoKey, {}, FALSE)
  /\ UNCHANGED <<gkcrypt_local, key_pos_local>>

(* takion_send_feedback_packet and chiaki_takion_send_mic_packet, which    *)
(* are only called when there are keys: the payload is encrypted from the  *)
(* second block on.  When that fails the position is taken all the same.   *)
SendEncrypted(n, ok) ==
  /\ gkcrypt_local /\ Len(packets_sent) < MaxSent
  /\ ~Overflows(n + BlockSize)
  /\ key_pos_local' = Advanced(n + BlockSize)
  /\ LET pos == key_pos_local IN
     IF ok
     THEN /\ key_gmac' = GmacState(pos)
          /\ Sent(pos, n + BlockSize, GmacUsed(pos), Encrypted(pos + BlockSize, n), FALSE)
     ELSE UNCHANGED <<key_gmac, packets_sent>>
  /\ UNCHANGED <<gkcrypt_local, packet>>

TakionCryptNext ==
  \/ SetCrypt
  \/ \E t \in Senders : SendPacket(t) \/ \E n \in Sizes : TakeKeyPos(t, n)
  \/ \E n \in Sizes, ok \in BOOLEAN : SendEncrypted(n, ok)

TakionCryptSpec == TakionCryptInit /\ [][TakionCryptNext]_takionCryptVars
-----------------------------------------------------------------------------
(* A packet's MAC is made with the key of its own position, in whatever    *)
(* order the senders come by it.                                           *)
KeyOf(pos) == IF KeyIndex(pos) = 0 THEN GmacBase ELSE GmacKey(KeyIndex(pos))
Keyed == {i \in DOMAIN packets_sent : packets_sent[i].key # NoKey}
MacKeyRight == \A i \in Keyed : packets_sent[i].key = KeyOf(packets_sent[i].pos)

(* No two packets use the same key positions, and each is encrypted with   *)
(* those that are its own.  Unless the keys were set between a packet's    *)
(* two halves: such a packet has a MAC for position 0.                     *)
PositionsApart ==
  /\ \A i, j \in Keyed :
       i # j => LET a == packets_sent[i] b == packets_sent[j] IN
                a.raced \/ b.raced \/ a.pos + a.size <= b.pos \/ b.pos + b.size <= a.pos
  /\ \A i \in Keyed : LET a == packets_sent[i] IN
       /\ a.bytes \subseteq a.pos .. a.pos + a.size - 1
       /\ a.raced => a.pos = 0

SentUnderOwnKey == MacKeyRight /\ PositionsApart
=============================================================================
