---------------------------- MODULE SeqNumProofs ----------------------------
(***************************************************************************)
(* Lemmas about the remainder, about the serial number arithmetic of       *)
(* SeqNum, for every width, and about induction and recursion on numbers.  *)
(* The other proof modules cite them.                                      *)
(***************************************************************************)
EXTENDS SeqNum, WellFoundedInduction, TLAPS

(* Quotient and remainder of a natural number, as used by idx and SeqAdd.  *)
LEMMA DivMod ==
  ASSUME NEW m \in Nat \ {0}, NEW a \in Nat
  PROVE  /\ a \div m \in Nat
         /\ a % m \in 0 .. (m - 1)
         /\ a = m * (a \div m) + (a % m)
  OBVIOUS

(* The remainder is the only number below m that differs from a by a       *)
(* multiple of m.                                                          *)
LEMMA ModUnique ==
  ASSUME NEW m \in Nat \ {0}, NEW q \in Nat, NEW r \in 0 .. (m - 1)
  PROVE  (m * q + r) % m = r
<1> DEFINE a == m * q + r
           p == a \div m
           s == a % m
<1>1. a \in Nat /\ m * q \in Nat
  OBVIOUS
<1>2. p \in Nat /\ s \in 0 .. (m - 1) /\ a = m * p + s
  BY <1>1, DivMod
<1> HIDE DEF p, s
<1>3. CASE p = q
  BY <1>2, <1>3
<1>4. CASE p >= q + 1
  <2>1. PICK d \in Nat : p = q + 1 + d
    <3>1. p - q - 1 \in Nat
      BY <1>2, <1>4
    <3> QED BY <3>1, <1>2
  <2>2. m * p = m * q + m + m * d /\ m * d \in Nat
    BY <2>1
  <2> QED BY <1>2, <2>2, <1>1
<1>5. CASE q >= p + 1
  <2>1. PICK d \in Nat : q = p + 1 + d
    <3>1. q - p - 1 \in Nat
      BY <1>2, <1>5
    <3> QED BY <3>1, <1>2
  <2>2. m * q = m * p + m + m * d /\ m * d \in Nat /\ m * p \in Nat
    BY <2>1, <1>2
  <2> QED BY <1>2, <2>2, <1>1
<1> QED BY <1>2, <1>3, <1>4, <1>5

(* The quotient that goes with ModUnique.                                  *)
LEMMA DivUnique ==
  ASSUME NEW m \in Nat \ {0}, NEW q \in Nat, NEW r \in 0 .. (m - 1)
  PROVE  (m * q + r) \div m = q
<1> DEFINE a == m * q + r
           p == a \div m
<1>1. a \in Nat /\ a % m = r
  BY ModUnique
<1>2. p \in Nat /\ a = m * p + r
  BY <1>1, DivMod
<1> HIDE DEF p
<1>3. m * p = m * q
  BY <1>2
<1>4. CASE p >= q + 1
  <2>1. PICK d \in Nat : p = q + 1 + d
    <3>1. p - q - 1 \in Nat
      BY <1>2, <1>4
    <3> QED
      BY <3>1, <1>2
  <2>2. m * p = m * q + m + m * d /\ m * d \in Nat /\ m * q \in Nat
    BY <2>1
  <2> QED
    BY <1>3, <2>2
<1>5. CASE q >= p + 1
  <2>1. PICK d \in Nat : q = p + 1 + d
    <3>1. q - p - 1 \in Nat
      BY <1>2, <1>5
    <3> QED
      BY <3>1, <1>2
  <2>2. m * q = m * p + m + m * d /\ m * d \in Nat /\ m * p \in Nat
    BY <2>1, <1>2
  <2> QED
    BY <1>3, <2>2
<1>6. p = q
  BY <1>2, <1>4, <1>5
<1> QED
  BY <1>6 DEF p

(* Adding a multiple of m does not change the remainder.                   *)
LEMMA ModPlus ==
  ASSUME NEW m \in Nat \ {0}, NEW a \in Nat, NEW k \in Nat
  PROVE  (a + m * k) % m = a % m
<1>1. PICK q \in Nat, r \in 0 .. (m - 1) : a = m * q + r /\ a % m = r
  BY DivMod
<1>2. a + m * k = m * (q + k) + r
  BY <1>1
<1>3. q + k \in Nat
  BY <1>1
<1> QED BY <1>1, <1>2, <1>3, ModUnique

(* Numbers less than n apart have different remainders modulo n.           *)
LEMMA ModInjective ==
  ASSUME NEW n \in Nat \ {0}, NEW x \in Nat, NEW d \in 1 .. (n - 1)
  PROVE  (x + d) % n # x % n
<1>1. PICK q \in Nat, r \in 0 .. (n - 1) : x = n * q + r /\ x % n = r
  BY DivMod
<1>2. CASE r + d < n
  <2>1. x + d = n * q + (r + d) /\ r + d \in 0 .. (n - 1)
    BY <1>1, <1>2
  <2>2. (x + d) % n = r + d
    BY <2>1, ModUnique
  <2> QED BY <1>1, <2>2
<1>3. CASE r + d >= n
  <2>1. x + d = n * (q + 1) + (r + d - n) /\ r + d - n \in 0 .. (n - 1) /\ q + 1 \in Nat
    BY <1>1, <1>3
  <2>2. (x + d) % n = r + d - n
    BY <2>1, ModUnique
  <2> QED BY <1>1, <2>2
<1> QED BY <1>1, <1>2, <1>3

(* The truncated sum of a sequence number and an offset of at most the     *)
(* modulus wraps around at most once.                                      *)
LEMMA SeqAddWraps ==
  ASSUME NEW a \in SeqNums, NEW x \in 0 .. Modulus
  PROVE  /\ SeqAdd(a, x) \in SeqNums
         /\ SeqAdd(a, x) = IF a + x < Modulus THEN a + x ELSE a + x - Modulus
<1>1. Modulus \in Nat \ {0}
  BY HalfAssumption DEF Modulus
<1>2. CASE a + x < Modulus
  <2>1. a + x \in 0 .. (Modulus - 1)
    BY <1>1, <1>2 DEF SeqNums
  <2>2. Modulus * 0 + (a + x) = a + x
    BY <2>1, <1>1
  <2>3. (a + x) % Modulus = a + x
    BY <2>1, <2>2, <1>1, ModUnique
  <2> QED BY <2>1, <2>3, <1>2 DEF SeqAdd, SeqNums
<1>3. CASE ~(a + x < Modulus)
  <2>1. a + x - Modulus \in 0 .. (Modulus - 1)
    BY <1>1, <1>3 DEF SeqNums
  <2>2. Modulus * 1 + (a + x - Modulus) = a + x
    BY <2>1, <1>1 DEF SeqNums
  <2>3. (a + x) % Modulus = a + x - Modulus
    BY <2>1, <2>2, <1>1, ModUnique
  <2> QED BY <2>1, <2>3, <1>3 DEF SeqAdd, SeqNums
<1> QED BY <1>2, <1>3

(* Offsets add up.                                                         *)
LEMMA SeqAddAssoc ==
  ASSUME NEW a \in SeqNums, NEW x \in Nat, NEW y \in Nat, x + y <= Modulus
  PROVE  SeqAdd(SeqAdd(a, x), y) = SeqAdd(a, x + y)
<1>1. Modulus \in Nat \ {0}
  BY HalfAssumption DEF Modulus
<1>2. x \in 0 .. Modulus /\ y \in 0 .. Modulus /\ x + y \in 0 .. Modulus
  BY <1>1
<1>3. /\ SeqAdd(a, x) \in SeqNums
      /\ SeqAdd(a, x) = IF a + x < Modulus THEN a + x ELSE a + x - Modulus
  BY <1>2, SeqAddWraps
<1>4. SeqAdd(a, x + y) = IF a + (x + y) < Modulus THEN a + (x + y) ELSE a + (x + y) - Modulus
  BY <1>2, SeqAddWraps
<1> DEFINE b == SeqAdd(a, x)
<1>5. SeqAdd(b, y) = IF b + y < Modulus THEN b + y ELSE b + y - Modulus
  BY <1>2, <1>3, SeqAddWraps
<1>6. a \in 0 .. (Modulus - 1)
  BY DEF SeqNums
<1> HIDE DEF b
<1>7. b = IF a + x < Modulus THEN a + x ELSE a + x - Modulus
  BY <1>3 DEF b
<1>8. SeqAdd(b, y) = SeqAdd(a, x + y)
  BY <1>1, <1>2, <1>4, <1>5, <1>6, <1>7
<1> QED BY <1>8 DEF b

(* Every sequence number is at one offset below the modulus from another.  *)
LEMMA SeqOffset ==
  ASSUME NEW a \in SeqNums, NEW s \in SeqNums
  PROVE  \E o \in 0 .. (Modulus - 1) : s = SeqAdd(a, o)
<1>1. Modulus \in Nat \ {0}
  BY HalfAssumption DEF Modulus
<1>2. CASE s >= a
  <2>1. s - a \in 0 .. (Modulus - 1)
    BY <1>1, <1>2 DEF SeqNums
  <2>2. s = SeqAdd(a, s - a)
    BY <1>1, <1>2, <2>1, SeqAddWraps DEF SeqNums
  <2> QED BY <2>1, <2>2
<1>3. CASE s < a
  <2>1. s - a + Modulus \in 0 .. (Modulus - 1)
    BY <1>1, <1>3 DEF SeqNums
  <2>2. s = SeqAdd(a, s - a + Modulus)
    BY <1>1, <1>3, <2>1, SeqAddWraps DEF SeqNums
  <2> QED BY <2>1, <2>2
<1> QED BY <1>2, <1>3 DEF SeqNums

(* Different offsets below the modulus are different sequence numbers.     *)
LEMMA SeqAddInjective ==
  ASSUME NEW a \in SeqNums, NEW x \in 0 .. (Modulus - 1), NEW y \in 0 .. (Modulus - 1),
         SeqAdd(a, x) = SeqAdd(a, y)
  PROVE  x = y
<1>1. Modulus \in Nat \ {0}
  BY HalfAssumption DEF Modulus
<1>2. x \in 0 .. Modulus /\ y \in 0 .. Modulus
  BY <1>1
<1>3. SeqAdd(a, x) = IF a + x < Modulus THEN a + x ELSE a + x - Modulus
  BY <1>2, SeqAddWraps
<1>4. SeqAdd(a, y) = IF a + y < Modulus THEN a + y ELSE a + y - Modulus
  BY <1>2, SeqAddWraps
<1>5. a \in 0 .. (Modulus - 1)
  BY DEF SeqNums
<1>6. (IF a + x < Modulus THEN a + x ELSE a + x - Modulus)
        = (IF a + y < Modulus THEN a + y ELSE a + y - Modulus)
  BY <1>3, <1>4
<1> QED BY <1>1, <1>5, <1>6

(* Serial number comparison looks only at the distance of two offsets: it  *)
(* is the comparison of the offsets while they are less than Half apart.   *)
LEMMA SeqLtOffsets ==
  ASSUME NEW a \in SeqNums, NEW x \in 0 .. (Modulus - 1), NEW y \in 0 .. Modulus
  PROVE  SeqLt(SeqAdd(a, x), SeqAdd(a, y)) <=>
               \/ x < y /\ y - x < Half
               \/ x > y /\ x - y > Half
<1>1. Half \in Nat /\ Half > 0 /\ Modulus = 2 * Half
  BY HalfAssumption DEF Modulus
<1>2. x \in 0 .. Modulus
  BY <1>1
<1>3. SeqAdd(a, x) = IF a + x < Modulus THEN a + x ELSE a + x - Modulus
  BY <1>2, SeqAddWraps
<1>4. SeqAdd(a, y) = IF a + y < Modulus THEN a + y ELSE a + y - Modulus
  BY SeqAddWraps
<1>5. a \in 0 .. (2 * Half - 1)
  BY <1>1 DEF SeqNums
<1> QED BY <1>1, <1>3, <1>4, <1>5 DEF SeqLt

(* The two comparisons are each other's converse.                          *)
LEMMA SeqGtIsConverse ==
  ASSUME NEW a \in SeqNums, NEW b \in SeqNums
  PROVE  SeqGt(a, b) <=> SeqLt(b, a)
<1>1. Half \in Nat /\ Modulus \in Nat
  BY HalfAssumption DEF Modulus
<1> QED BY <1>1 DEF SeqGt, SeqLt, SeqNums

(* The same of integers.                                                   *)
LEMMA IntDivMod ==
  ASSUME NEW m \in Nat \ {0}, NEW a \in Int
  PROVE  \E q \in Int, r \in 0 .. (m - 1) : a = m * q + r /\ a % m = r
<1>1. a \div m \in Int /\ a % m \in 0 .. (m - 1) /\ a = m * (a \div m) + (a % m)
  OBVIOUS
<1> QED BY <1>1

(* IntDivMod names the only remainder.                                     *)
LEMMA IntModUnique ==
  ASSUME NEW m \in Nat \ {0}, NEW q \in Int, NEW r \in 0 .. (m - 1)
  PROVE  (m * q + r) % m = r
<1>1. m * q \in Int /\ m * q + r \in Int
  OBVIOUS
<1>2. PICK p \in Int, s \in 0 .. (m - 1) : m * q + r = m * p + s /\ (m * q + r) % m = s
  BY <1>1, IntDivMod
<1>3. m * p \in Int /\ m * q - m * p = m * (q - p) /\ m * (q - p) = s - r
  BY <1>1, <1>2
<1>4. CASE q - p >= 1
  <2>1. m * (q - p) >= m
    BY <1>4
  <2> QED BY <2>1, <1>3
<1>5. CASE q - p <= -1
  <2>1. m * (q - p) <= -m
    BY <1>5
  <2> QED BY <2>1, <1>3
<1>6. CASE q = p
  BY <1>6, <1>2, <1>1
<1> QED BY <1>4, <1>5, <1>6

(* Numbers that are less than Half apart compare as their true values do.  *)
LEMMA SeqGtWindow ==
  ASSUME NEW a \in Int, NEW b \in Int
  PROVE  /\ b > a /\ b - a < Half => SeqGt(b % Modulus, a % Modulus)
         /\ b <= a /\ a - b <= Half => ~SeqGt(b % Modulus, a % Modulus)
<1>1. Modulus \in Nat \ {0} /\ Half \in Nat /\ Half > 0 /\ Modulus = 2 * Half
  BY HalfAssumption DEF Modulus
<1>2. PICK q \in Int, r \in 0 .. (Modulus - 1) : a = Modulus * q + r /\ a % Modulus = r
  BY <1>1, IntDivMod
<1> DEFINE e == b - a
<1>3. e \in Int /\ Modulus * q \in Int /\ b = Modulus * q + (r + e)
  BY <1>1, <1>2
<1>4. Modulus * (q + 1) = Modulus * q + Modulus /\ Modulus * (q - 1) = Modulus * q - Modulus
  BY <1>1
<1>5. CASE r + e \in 0 .. (Modulus - 1)
  <2>1. b % Modulus = r + e
    BY <1>1, <1>3, <1>5, IntModUnique
  <2> QED BY <2>1, <1>1, <1>2, <1>5 DEF SeqGt
<1>6. CASE r + e \in Modulus .. (2 * Modulus - 1)
  <2>1. b = Modulus * (q + 1) + (r + e - Modulus) /\ r + e - Modulus \in 0 .. (Modulus - 1) /\ q + 1 \in Int
    BY <1>1, <1>3, <1>4, <1>6
  <2>2. b % Modulus = r + e - Modulus
    BY <1>1, <2>1, IntModUnique
  <2> QED BY <2>2, <1>1, <1>2, <1>6 DEF SeqGt
<1>7. CASE r + e \in -Modulus .. -1
  <2>1. b = Modulus * (q - 1) + (r + e + Modulus) /\ r + e + Modulus \in 0 .. (Modulus - 1) /\ q - 1 \in Int
    BY <1>1, <1>3, <1>4, <1>7
  <2>2. b % Modulus = r + e + Modulus
    BY <1>1, <2>1, IntModUnique
  <2> QED BY <2>2, <1>1, <1>2, <1>7 DEF SeqGt
<1>8. CASE r + e \notin -Modulus .. (2 * Modulus - 1)
  <2>1. e \notin -Modulus .. Modulus
    BY <1>1, <1>2, <1>3, <1>8
  <2> QED BY <2>1, <1>1, <1>3
<1> QED BY <1>1, <1>3, <1>5, <1>6, <1>7, <1>8

-----------------------------------------------------------------------------
(* Induction: every set of natural numbers that is not empty has a least   *)
(* element, so that a claim about all numbers is proved by refuting its    *)
(* least counterexample.                                                   *)
LEMMA LessIsWellFounded == IsWellFoundedOn({p \in Nat \X Nat : p[1] < p[2]}, Nat)
BY NatLessThanWellFounded DEF OpToRel

LEMMA Least ==
  ASSUME NEW T, T \subseteq Nat, T # {}
  PROVE  \E m \in T : \A k \in T : m <= k
<1> DEFINE R == {p \in Nat \X Nat : p[1] < p[2]}
<1>1. IsWellFoundedOn(R, Nat)
  BY LessIsWellFounded
<1> HIDE DEF R
<1>2. PICK x \in T : \A y \in T : ~ (<<y, x>> \in R)
  BY <1>1, WFMin
<1>3. ASSUME NEW y \in T PROVE x <= y
  <2>1. y \in Nat /\ x \in Nat
    OBVIOUS
  <2>2. y < x => <<y, x>> \in R
    BY <2>1 DEF R
  <2>3. ~(<<y, x>> \in R)
    BY <1>2
  <2> QED BY <2>1, <2>2, <2>3
<1> QED BY <1>3

(* A claim that holds of 0, and of m whenever it holds of m - 1, holds of  *)
(* all numbers up to n; the claim is given by the set C of those it holds  *)
(* of.                                                                     *)
LEMMA Induction ==
  ASSUME NEW n \in Nat, NEW C, 0 \in C, \A m \in 1 .. n : m - 1 \in C => m \in C
  PROVE  0 .. n \subseteq C
<1> DEFINE T == (0 .. n) \ C
<1>1. ASSUME T # {} PROVE FALSE
  <2>1. T \subseteq Nat
    OBVIOUS
  <2>2. PICK m \in T : \A k \in T : m <= k
    BY ONLY <1>1, <2>1, Least
  <2>3. m \in 1 .. n /\ m - 1 \in 0 .. n
    OBVIOUS
  <2>4. m - 1 \notin T
    BY <2>2, <2>3
  <2> QED BY <2>3, <2>4
<1> QED BY <1>1

(* A function of the numbers up to n can be defined by recursion: F says   *)
(* how its value follows from the one before it.                           *)
IsRecursive(g, n, base, F) == g[0] = base /\ \A k \in 1 .. n : g[k] = F[<<g[k - 1], k>>]

LEMMA Recursion ==
  ASSUME NEW S, NEW n \in Nat, NEW base \in S, NEW F \in [S \X (1 .. n) -> S]
  PROVE  \E g \in [0 .. n -> S] : IsRecursive(g, n, base, F)
<1> DEFINE Q(m) == \E g \in [0 .. m -> S] : g[0] = base /\ \A k \in 1 .. m : g[k] = F[<<g[k - 1], k>>]
           C == {m \in 0 .. n : Q(m)}
<1>1. Q(0)
  <2> DEFINE z == [i \in 0 .. 0 |-> base]
  <2>1. z \in [0 .. 0 -> S] /\ z[0] = base
    OBVIOUS
  <2>2. \A k \in 1 .. 0 : z[k] = F[<<z[k - 1], k>>]
    OBVIOUS
  <2> HIDE DEF z
  <2> QED BY <2>1, <2>2
<1>2. ASSUME NEW m \in 1 .. n, Q(m - 1) PROVE Q(m)
  <2>1. PICK g \in [0 .. (m - 1) -> S] : g[0] = base /\ \A k \in 1 .. (m - 1) : g[k] = F[<<g[k - 1], k>>]
    BY <1>2
  <2> DEFINE h == [i \in 0 .. m |-> IF i = m THEN F[<<g[m - 1], m>>] ELSE g[i]]
  <2>2. h \in [0 .. m -> S]
    OBVIOUS
  <2>3. h[0] = base
    BY <2>1
  <2>4. ASSUME NEW k \in 1 .. m PROVE h[k] = F[<<h[k - 1], k>>]
    <3>1. k - 1 \in 0 .. m /\ k \in 0 .. m /\ k - 1 # m
      OBVIOUS
    <3>2. CASE k = m
      BY <3>1, <3>2
    <3>3. CASE k # m
      BY <3>1, <3>3, <2>1
    <3> QED BY <3>2, <3>3
  <2> HIDE DEF h
  <2> QED BY <2>2, <2>3, <2>4
<1> HIDE DEF Q
<1>3. 0 \in C /\ \A m \in 1 .. n : m - 1 \in C => m \in C
  BY <1>1, <1>2
<1> HIDE DEF C
<1>4. 0 .. n \subseteq C
  BY <1>3, Induction
<1>5. Q(n)
  BY <1>4 DEF C
<1> QED BY <1>5 DEF Q, IsRecursive
=============================================================================
