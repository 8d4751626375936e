---------------------------- MODULE ReorderQueue ----------------------------
(***************************************************************************)
(* The reorder queue of lib/src/reorderqueue.c: a ring of Size entries     *)
(* holding the window [begin, begin + count) of sequence numbers.  An      *)
(* entry is addressed by its sequence number modulo Size; its "set" flag   *)
(* is only reset when the window grows over it, so outside the window a    *)
(* flag is stale.                                                          *)
(*                                                                         *)
(* Every element pushed is owned by exactly one party at a time: the       *)
(* queue, the consumer that pulled it, or the drop callback (which frees   *)
(* it).  fate and tag are history variables that record this.              *)
(*                                                                         *)
(* peek changes nothing.  The single-element drop is not here: its one     *)
(* caller, the MAC re-check of Takion, first passes peek a NULL seq_num,   *)
(* which peek writes to, and so never gets as far as dropping.             *)
(***************************************************************************)
EXTENDS SeqNum, FiniteSetsExt

CONSTANTS Size,     \* QUEUE_SIZE, 1 << size_exp
          Users,    \* the elements ever pushed (pointers)
          NoUser    \* content of an entry never written (calloc)

ASSUME SizeAssumption == /\ Size \in Nat \ {0, 1}
                         /\ \E k \in 2 .. Half : Half = k * Size
ASSUME UsersAssumption == NoUser \notin Users

VARIABLES begin,     \* queue->begin
          count,     \* queue->count
          set,       \* the slots whose entry->set is true
          user,      \* entry->user, per slot
          strategy,  \* queue->drop_strategy
          alive,     \* between init and fini
          fate,      \* history: who owns each element
          tag        \* history: the sequence number it was pushed with

vars == <<begin, count, set, user, strategy, alive, fate, tag>>

Slots == 0 .. (Size - 1)
Strategies == {"begin", "end"}
Fates == {"fresh", "queued", "pulled", "dropped"}

idx(s) == s % Size
(* The sequence number at an offset from begin, and the slot that holds it. *)
SeqAt(i) == SeqAdd(begin, i)
SlotAt(i) == idx(SeqAt(i))
End == SeqAt(count)

(* The elements in the window [begin, begin + n).                          *)
ElementsIn(n) == {user[SlotAt(i)] : i \in {j \in 0 .. (n - 1) : SlotAt(j) \in set}}

(* chiaki_reorder_queue_init                                               *)
Init == /\ begin \in SeqNums
        /\ count = 0
        /\ set = {}
        /\ user = [k \in Slots |-> NoUser]
        /\ strategy = "end"
        /\ alive = TRUE
        /\ fate = [u \in Users |-> "fresh"]
        /\ tag = [u \in Users |-> 0]

(* What drop_cb and pull do to the ownership of a set of elements.         *)
Become(S, what) == [u \in Users |-> IF u \in S THEN what ELSE fate[u]]

InWindowLe(s) == SeqGe(s, begin) /\ (s = End \/ SeqLt(s, End))  \* mutant: le for lt
InWindowGt(s) == SeqGt(s, begin) /\ SeqLt(s, End)                         \* mutant: gt for ge
InWindow(s) == SeqGe(s, begin) /\ SeqLt(s, End)

(* Push of a number inside the window: a duplicate is dropped.             *)
PushInside(s, u) ==
  /\ InWindow(s)
  /\ IF idx(s) \in set
     THEN /\ fate' = Become({u}, "dropped")
          /\ UNCHANGED <<set, user>>
     ELSE /\ fate' = Become({u}, "queued")
          /\ set' = set \cup {idx(s)}
          /\ user' = [user EXCEPT ![idx(s)] = u]
  /\ UNCHANGED <<begin, count>>

(* Push of a number below the window: it was delivered or dropped before.  *)
PushOld(s, u) ==
  /\ ~InWindow(s)
  /\ SeqLt(s, begin)
  /\ fate' = Become({u}, "dropped")
  /\ UNCHANGED <<begin, count, set, user>>

(* total_end once k elements have been dropped from the front.             *)
TotalEnd(k) == SeqAdd(End, Size - (count - k))
NoSpace(k, s) == SeqLt(TotalEnd(k), SeqAdd(s, 1))

(* Push beyond the end with strategy "end": a number that does not fit is  *)
(* dropped.                                                                *)
PushNoSpace(s, u) ==
  /\ ~InWindow(s)
  /\ ~SeqLt(s, begin)
  /\ NoSpace(0, s)
  /\ strategy = "end"
  /\ fate' = Become({u}, "dropped")
  /\ UNCHANGED <<begin, count, set, user>>

(* The drop loop of strategy "begin": the front goes until there is space  *)
(* or nothing is left.                                                     *)
FrontDrops(s) == Min({k \in 0 .. count : k = count \/ ~NoSpace(k, s)})

(* The loop that moves the end, from count c, past the number pushed.      *)
Grow(b, c, s) == Min({g \in 0 .. Size : ~SeqLt(SeqAdd(b, c + g), SeqAdd(s, 1))})
PassedNone(b, c, g) == {}  \* mutant: the loop forgets to reset entry->set
Passed(b, c, g) == {idx(SeqAdd(b, c + i)) : i \in 0 .. (g - 1)}

(* Push beyond the end otherwise: make space, move the end, clearing every *)
(* entry it passes over, and store the element.                            *)
PushBeyond(s, u) ==
  /\ ~InWindow(s)
  /\ ~SeqLt(s, begin)
  /\ NoSpace(0, s) => strategy = "begin"
  /\ LET d == IF NoSpace(0, s) THEN FrontDrops(s) ELSE 0
         b == IF NoSpace(0, s) /\ d = count THEN s ELSE SeqAt(d)
         c == count - d
         g == Grow(b, c, s)
     IN /\ begin' = b
        /\ count' = c + g
        /\ set' = (set \ Passed(b, c, g)) \cup {idx(s)}
        /\ user' = [user EXCEPT ![idx(s)] = u]
        /\ fate' = [Become(ElementsIn(d), "dropped") EXCEPT ![u] = "queued"]

(* chiaki_reorder_queue_push                                               *)
Push(s, u) ==
  /\ alive
  /\ fate[u] = "fresh"
  /\ tag' = [tag EXCEPT ![u] = s]
  /\ \/ PushInside(s, u)
     \/ PushOld(s, u)
     \/ PushNoSpace(s, u)
     \/ PushBeyond(s, u)
  /\ UNCHANGED <<strategy, alive>>

(* chiaki_reorder_queue_pull, when it returns true.                        *)
Pull ==
  /\ alive
  /\ count > 0
  /\ SlotAt(0) \in set
  /\ fate' = Become({user[SlotAt(0)]}, "pulled")
  /\ begin' = SeqAt(1)
  /\ count' = count - 1
  /\ UNCHANGED <<set, user, strategy, alive, tag>>

(* chiaki_reorder_queue_set_drop_strategy                                  *)
SetDropStrategy(s) ==
  /\ alive
  /\ strategy' = s
  /\ UNCHANGED <<begin, count, set, user, alive, fate, tag>>

(* chiaki_reorder_queue_fini                                               *)
Fini ==
  /\ alive
  /\ alive' = FALSE
  /\ fate' = Become(ElementsIn(count), "dropped")
  /\ UNCHANGED <<begin, count, set, user, strategy, tag>>

Next == \/ \E s \in SeqNums, u \in Users : Push(s, u)
        \/ Pull
        \/ \E s \in Strategies : SetDropStrategy(s)
        \/ Fini

Spec == Init /\ [][Next]_vars
-----------------------------------------------------------------------------
(* Types, and the assertion count <= QUEUE_SIZE of push and pull.          *)
TypeOK == /\ begin \in SeqNums
          /\ count \in 0 .. Size
          /\ set \subseteq Slots
          /\ user \in [Slots -> Users \cup {NoUser}]
          /\ strategy \in Strategies
          /\ alive \in BOOLEAN
          /\ fate \in [Users -> Fates]
          /\ tag \in [Users -> SeqNums]

(* No element is lost, duplicated or freed twice: while the queue lives,   *)
(* the elements it owns are those in the window; after fini it owns none.  *)
(* (The stale flags and pointers the ring keeps outside the window never   *)
(* come back.)                                                             *)
Ownership == {u \in Users : fate[u] = "queued"} = IF alive THEN ElementsIn(count) ELSE {}

(* The element stored for a sequence number of the window was pushed with  *)
(* that number, also after the numbers have wrapped around and after the   *)
(* ring has been relocated: pull never returns an element out of order.    *)
Labelled == alive => \A i \in 0 .. (count - 1) :
              SlotAt(i) \in set => /\ user[SlotAt(i)] \in Users
                                   /\ tag[user[SlotAt(i)]] = SeqAt(i)

(* Once an element has left the queue it never changes hands again: the    *)
(* callback frees it, so a later pull would return a dangling pointer.     *)
LeavesOnce == [][\A u \in Users : fate[u] \in {"pulled", "dropped"} => fate'[u] = fate[u]]_vars

(* The last entry of the window is always occupied, so a non-empty window  *)
(* always spans up to the newest element kept.                             *)
LastOccupied == alive /\ count > 0 => SlotAt(count - 1) \in set

(* The assertion in push after the two early exits, "=> ge(seq_num,        *)
(* queue->end) == 1", holds of every number but one: the number exactly    *)
(* half of the number space ahead of an empty window is neither before nor *)
(* behind it.                                                              *)
BeyondIsGe == \A s \in SeqNums : ~InWindow(s) /\ ~SeqLt(s, begin) =>
                SeqGe(s, End) \/ (count = 0 /\ s = SeqAdd(begin, Half))
=============================================================================
