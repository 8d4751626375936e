------------------------------- MODULE SeqNum -------------------------------
(***************************************************************************)
(* Serial number arithmetic (RFC 1982) of lib/include/chiaki/seqnum.h: the *)
(* comparison of two unsigned numbers of a fixed width that may have       *)
(* wrapped around.  Half is 2^(bits-1), the distance at which two numbers  *)
(* stop being comparable; the code instantiates bits = 16 and bits = 32.   *)
(***************************************************************************)
EXTENDS Integers

CONSTANT Half

ASSUME HalfAssumption == Half \in Nat \ {0}

Modulus == 2 * Half
SeqNums == 0 .. (Modulus - 1)

(* chiaki_seq_num_lt / _gt.  The subtraction is done in the wider signed   *)
(* type, so it does not wrap; at distance exactly Half both are false.     *)
SeqLt(a, b) == \/ a < b /\ b - a < Half
               \/ a > b /\ a - b > Half

SeqGt(a, b) == \/ a < b /\ b - a > Half
               \/ a > b /\ a - b < Half

SeqGe(a, b) == a = b \/ SeqGt(a, b)

(* The unsigned sum, truncated to the width of the sequence number.        *)
SeqAdd(a, b) == (a + b) % Modulus
=============================================================================
