------------------------------ MODULE KeyBuffer ------------------------------
(***************************************************************************)
(* The key stream buffer of lib/src/gkcrypt.c.  A thread generates the CTR *)
(* key stream ahead of its use into a ring of Chunks chunks; the threads   *)
(* that encrypt or decrypt copy from it what they need, or generate it     *)
(* themselves when it is not there.                                        *)
(*                                                                         *)
(* Positions count cipher blocks.  A cell of the ring holds the position   *)
(* of the key stream block stored in it, or Garbage while it is being      *)
(* written or was never written.  A thread's work under key_buf_mutex is   *)
(* one step; the chunk is generated, and the condition signalled, with the *)
(* mutex released.                                                         *)
(***************************************************************************)
EXTENDS Integers

CONSTANTS ChunkSize,  \* KEY_BUF_CHUNK_SIZE, in blocks
          Chunks,     \* key_buf_chunks
          Readers,    \* threads that call chiaki_gkcrypt_get_key_stream
          PosMax      \* bound: the key positions requested

ASSUME KeyBufferAssumption ==
  /\ ChunkSize \in Nat \ {0}
  /\ Chunks \in Nat \ {0, 1}
  /\ PosMax \in Nat

Size == ChunkSize * Chunks   \* key_buf_size
Cells == 0 .. (Size - 1)
Positions == 0 .. PosMax
Garbage == -1
Cell(x) == x % Size          \* where an offset lies in the ring

VARIABLES buf,        \* key_buf
          populated,  \* key_buf_populated
          min,        \* key_buf_key_pos_min
          start,      \* key_buf_start_offset
          last,       \* last_key_pos
          stop,       \* key_buf_thread_stop
          pc,         \* the generator: at its predicate, waiting, generating, done
          signal,     \* the readers about to signal key_buf_cond
          fini        \* how far chiaki_gkcrypt_fini has come

vars == <<buf, populated, min, start, last, stop, pc, signal, fini>>

(* chiaki_gkcrypt_init                                                     *)
Init == /\ buf = [c \in Cells |-> Garbage]
        /\ populated = 0
        /\ min = 0
        /\ start = 0
        /\ last = 0
        /\ stop = FALSE
        /\ pc = "test"
        /\ signal = {}
        /\ fini = "no"

(* gkcrypt_key_buf_should_generate, for a value of last_key_pos            *)
ShouldGenerate(l) == l > min + (populated \div 2)

(* Whether the n blocks at position p are all in the buffer.               *)
Hit(p, n) == p >= min /\ p + n < min + populated

(* Block k of the copy: up to the end of the ring in one memcpy, from its  *)
(* beginning in a second one.                                              *)
Copied(p, n, k) ==
  LET offset == Cell((p - min) + start)
      excess == IF offset + n > Size THEN (offset + n) - Size ELSE 0
  IN IF k < n - excess THEN buf[offset + k] ELSE buf[k - (n - excess)]

Wake == IF pc = "wait" THEN "test" ELSE pc

(* chiaki_gkcrypt_get_key_stream for n blocks at position p, up to the     *)
(* release of the mutex; what it copies is stated by ReadsRight.           *)
Get(r, p, n) ==
  /\ fini = "no"
  /\ r \notin signal
  /\ last' = IF p + n > last THEN p + n ELSE last
  /\ signal' = IF ShouldGenerate(last') THEN signal \cup {r} ELSE signal
  /\ UNCHANGED <<buf, populated, min, start, stop, pc, fini>>

GetSignal(r) ==
  /\ r \in signal
  /\ signal' = signal \ {r}
  /\ pc' = Wake
  /\ UNCHANGED <<buf, populated, min, start, last, stop, fini>>
-----------------------------------------------------------------------------
(* gkcrypt_thread_func: key_buf_mutex_pred holds on entering the wait or   *)
(* after waking up.                                                        *)
Pred == stop \/ populated < Size \/ ShouldGenerate(last)

Stop ==
  /\ pc = "test"
  /\ stop
  /\ pc' = "done"
  /\ UNCHANGED <<buf, populated, min, start, last, stop, signal, fini>>

Wait ==
  /\ pc = "test"
  /\ ~Pred
  /\ pc' = "wait"
  /\ UNCHANGED <<buf, populated, min, start, last, stop, signal, fini>>

(* What gkcrypt_generate_next_chunk does with the mutex held: the cells of *)
(* the chunk after the s + p blocks of the window are about to be written. *)
Generate(s, p) ==
  LET offset == Cell(s + p)
  IN /\ pc' = "generate"
     /\ buf' = [c \in Cells |-> IF c \in offset .. (offset + ChunkSize - 1) THEN Garbage ELSE buf[c]]

Beyond == last > min + populated

(* Mutant: the chunks in the buffer still count as populated.              *)
SkipKeeps ==
  /\ pc = "test"
  /\ ~stop /\ Pred
  /\ Beyond
  /\ min' = (last \div ChunkSize) * ChunkSize
  /\ start' = 0
  /\ populated' = IF populated < Size THEN populated ELSE 0
  /\ Generate(0, populated')
  /\ UNCHANGED <<last, stop, signal, fini>>

(* Mutant: the buffer is emptied but key_buf_key_pos_min stays.            *)
SkipStays ==
  /\ pc = "test"
  /\ ~stop /\ Pred
  /\ Beyond
  /\ start' = 0
  /\ populated' = 0
  /\ Generate(0, 0)
  /\ UNCHANGED <<min, last, stop, signal, fini>>

(* "skip ahead if the last key pos is already beyond our buffer"           *)
Skip ==
  /\ pc = "test"
  /\ ~stop /\ Pred
  /\ Beyond
  /\ min' = (last \div ChunkSize) * ChunkSize
  /\ start' = 0
  /\ populated' = 0
  /\ Generate(0, 0)
  /\ UNCHANGED <<last, stop, signal, fini>>

(* A full buffer loses its first chunk.                                    *)
Rotate ==
  /\ pc = "test"
  /\ ~stop /\ Pred
  /\ ~Beyond
  /\ populated = Size
  /\ start' = Cell(start + ChunkSize)
  /\ min' = min + ChunkSize
  /\ populated' = populated - ChunkSize
  /\ Generate(start', populated')
  /\ UNCHANGED <<last, stop, signal, fini>>

Extend ==
  /\ pc = "test"
  /\ ~stop /\ Pred
  /\ ~Beyond
  /\ populated # Size
  /\ Generate(start, populated)
  /\ UNCHANGED <<populated, min, start, last, stop, signal, fini>>

(* The chunk is complete and the mutex taken again.                        *)
Generated ==
  /\ pc = "generate"
  /\ LET offset == Cell(start + populated)
     IN buf' = [c \in Cells |-> IF c \in offset .. (offset + ChunkSize - 1)
                                THEN min + populated + (c - offset) ELSE buf[c]]
  /\ populated' = populated + ChunkSize
  /\ pc' = "test"
  /\ UNCHANGED <<min, start, last, stop, signal, fini>>

(* The cipher fails: the thread ends.                                      *)
Failed ==
  /\ pc = "generate"
  /\ pc' = "done"
  /\ UNCHANGED <<buf, populated, min, start, last, stop, signal, fini>>

Spurious ==
  /\ pc = "wait"
  /\ pc' = "test"
  /\ UNCHANGED <<buf, populated, min, start, last, stop, signal, fini>>
-----------------------------------------------------------------------------
(* chiaki_gkcrypt_fini, once the readers are done.                         *)
FiniFlag ==
  /\ fini = "no"
  /\ signal = {}
  /\ stop' = TRUE
  /\ fini' = "signal"
  /\ UNCHANGED <<buf, populated, min, start, last, pc, signal>>

FiniSignal ==
  /\ fini = "signal"
  /\ pc' = Wake
  /\ fini' = "join"
  /\ UNCHANGED <<buf, populated, min, start, last, stop, signal>>

FiniJoin ==
  /\ fini = "join"
  /\ pc = "done"
  /\ fini' = "freed"
  /\ UNCHANGED <<buf, populated, min, start, last, stop, pc, signal>>

Requests == {q \in Positions \X Positions : q[2] > 0 /\ q[1] + q[2] <= PosMax}
Generator == Stop \/ Wait \/ Skip \/ Rotate \/ Extend \/ Generated

Next == \/ \E r \in Readers, q \in Requests : Get(r, q[1], q[2])
        \/ \E r \in Readers : GetSignal(r)
        \/ Generator
        \/ Failed
        \/ Spurious
        \/ FiniFlag
        \/ FiniSignal \/ FiniJoin

(* The threads run; nothing forces requests, the end, or a failure.        *)
Fairness == /\ WF_vars(Generator)
            /\ \A r \in Readers : WF_vars(GetSignal(r))
            /\ WF_vars(FiniSignal \/ FiniJoin)

Spec == Init /\ [][Next]_vars
FairSpec == Spec /\ Fairness
-----------------------------------------------------------------------------
(* Types, and the assertion of gkcrypt_generate_next_chunk.                *)
TypeOK == /\ buf \in [Cells -> Nat \cup {Garbage}]
          /\ populated \in 0 .. Size
          /\ min \in Nat
          /\ start \in Cells
          /\ last \in Nat
          /\ stop \in BOOLEAN
          /\ pc \in {"test", "wait", "generate", "done"}
          /\ signal \subseteq Readers
          /\ fini \in {"no", "signal", "join", "freed"}
          /\ pc = "generate" => populated + ChunkSize <= Size

(* Whenever a reader may take the mutex, every request the buffer serves   *)
(* is served with the key stream of its own positions, across the end of   *)
(* the ring, while a chunk is being generated, and after rotating or       *)
(* skipping ahead.                                                         *)
ReadsRight == \A q \in Requests : Hit(q[1], q[2]) =>
                \A k \in 0 .. (q[2] - 1) : Copied(q[1], q[2], k) = q[1] + k

(* The buffer never runs ahead of its readers: the position after the last *)
(* request is never below the window, so a reader that goes on where it    *)
(* stopped never has to generate key stream that was already discarded.    *)
NeverAhead == min <= last

(* A generator that waits although there is something to do, to generate   *)
(* or to end, is about to be signalled: no signal is lost for coming after *)
(* the mutex was released, or before the wait.                             *)
SignalDue == pc = "wait" /\ Pred => signal # {} \/ fini = "signal"

(* A generator that is asked for more than the buffer holds catches up     *)
(* with the request: no wake-up is lost between the two threads.           *)
CatchesUp == Beyond ~> (~Beyond \/ pc = "done")

(* chiaki_gkcrypt_fini always gets its thread joined.                      *)
FiniJoins == stop ~> fini = "freed"

(* The generator thread does what it is woken for.                         *)
GeneratorAnswers == []SignalDue /\ CatchesUp /\ FiniJoins
=============================================================================
