---------------------------- MODULE BoundedQueue ----------------------------
(***************************************************************************)
(* BoundedQueue (src/common/bounded_queue.h): a ring of _cap slots of raw  *)
(* memory.  Pushing constructs an item in a slot, popping destroys it: an  *)
(* item left in a slot is a leak, one missing there a use of raw memory.   *)
(* _count, _start and _cap are uint32_t: their sums are taken modulo Word, *)
(* which is 2^32 in the code.                                              *)
(*                                                                         *)
(* The ring is not synchronised: its callers run one operation at a time.  *)
(***************************************************************************)
EXTENDS Naturals, Sequences

CONSTANTS
    Items,
    NoItem,               \* a slot of raw memory; nothing handed out
    Cap,                  \* _cap
    Word                  \* the number of values of uint32_t

ASSUME NoItemAssumption == NoItem \notin Items
ASSUME CapAssumption == Word \in Nat /\ Cap \in 1 .. (Word - 1)  \* max_capacity()

VARIABLES
    items,                \* _items: what every slot holds
    start,                \* _start
    count,                \* _count
    popped                \* what the last pop(T*) or pop_bottom(T*) copied

queueVars == <<items, start, count, popped>>

Slots == 0 .. (Cap - 1)

(* A uint32_t sum, and _mod of it by _cap. *)
Wrap(n) == n % Word

Mod(off) == Wrap(off) % Cap

QueueInit ==
    /\ items = [i \in Slots |-> NoItem]
    /\ start = 0 /\ count = 0
    /\ popped = NoItem

-----------------------------------------------------------------------------
(* A push refused by a full queue, or a pop by an empty one. *)
Refuse ==
    /\ count = Cap \/ count = 0
    /\ popped' = NoItem
    /\ UNCHANGED <<items, start, count>>

(* push(item), and push(), and elim_push of a queue that is not full. *)
Push(x) ==
    /\ count < Cap
    /\ items' = [items EXCEPT ![Mod(start + count)] = x]
    /\ count' = count + 1
    /\ popped' = NoItem
    /\ UNCHANGED start

(* Mutant of ElimPush: _start is not advanced. *)
ElimPush_stays(x) ==
    /\ count = Cap
    /\ items' = [items EXCEPT ![start] = x]
    /\ popped' = NoItem
    /\ UNCHANGED <<start, count>>

(* elim_push of a full queue. *)
ElimPush(x) ==
    /\ count = Cap
    /\ items' = [items EXCEPT ![start] = x]
    /\ start' = Mod(start + 1)
    /\ popped' = NoItem
    /\ UNCHANGED count

(* push_top. *)
PushTop(x) ==
    /\ count < Cap
    /\ start' = IF start # 0 THEN start - 1 ELSE Cap - 1
    /\ count' = count + 1
    /\ items' = [items EXCEPT ![start'] = x]
    /\ popped' = NoItem

(* pop(T* ), and pop() when it copies nothing out. *)
Pop ==
    /\ count # 0
    /\ count' = count - 1
    /\ popped' \in {items[start], NoItem}
    /\ items' = [items EXCEPT ![start] = NoItem]
    /\ start' = Mod(start + 1)

(* Mutant of Clear: the slots are walked from 0 instead of _start. *)
Clear_fromzero ==
    /\ items' = [i \in Slots |-> IF i < count THEN NoItem ELSE items[i]]
    /\ count' = 0 /\ start' = 0
    /\ popped' = NoItem

(* clear. *)
Clear ==
    /\ items' = [i \in Slots |->
                    IF i \in {Mod(start + k) : k \in 0 .. (count - 1)}
                    THEN NoItem ELSE items[i]]
    /\ count' = 0 /\ start' = 0
    /\ popped' = NoItem

(* pop_bottom: the slot is _start + _count - 1, not reduced by _cap.  What *)
(* lies behind the last slot is not the queue's: anything may be copied    *)
(* from it, and the item of the queue is not destroyed.                    *)
PopBottom ==
    LET at == Wrap(start + count - 1) IN
    /\ count # 0
    /\ count' = count - 1
    /\ \/ /\ at < Cap
          /\ popped' \in {items[at], NoItem}
          /\ items' = [items EXCEPT ![at] = NoItem]
       \/ /\ at >= Cap
          /\ popped' \in Items \cup {NoItem}
          /\ UNCHANGED items
    /\ UNCHANGED start

(* The operations ReducerSampler and Series call, and push_top. *)
QueueNext ==
    \/ \E x \in Items : Push(x) \/ ElimPush(x) \/ PushTop(x)
    \/ Pop \/ Clear \/ Refuse

QueueSpec == QueueInit /\ [][QueueNext]_queueVars

(* All operations. *)
FullQueueSpec == QueueInit /\ [][QueueNext \/ PopBottom]_queueVars

-----------------------------------------------------------------------------
(* top(index) and bottom(index): index is a size_t, but _mod takes the sum  *)
(* as a uint32_t.                                                          *)
Top(i) == items[Mod(start + i)]

Bottom(i) == items[Mod(Wrap(start + count) + Word - (i + 1))]

QueueTypeOK ==
    /\ items \in [Slots -> Items \cup {NoItem}]
    /\ start \in Slots
    /\ count \in 0 .. Cap
    /\ popped \in Items \cup {NoItem}

(* The items of the queue, from its top to its bottom. *)
Window == [k \in 1 .. count |-> items[(start + k - 1) % Cap]]

(* The slots that hold a constructed item are the count slots from _start  *)
(* on: no slot is read raw, none is leaked, whatever operations wrapped    *)
(* the window round the end of the memory; and top(index) and              *)
(* bottom(index) find its items counted from either side: "top(0) ==       *)
(* top(), top(size()-1) == bottom()".                                      *)
LiveSlots ==
    /\ {i \in Slots : items[i] # NoItem} = {(start + k) % Cap : k \in 0 .. (count - 1)}
    /\ \A i \in 0 .. (count - 1) :
          Top(i) = Window[i + 1] /\ Bottom(i) = Window[count - i]

(* The ring is a double-ended queue of at most _cap items. *)
D == INSTANCE Deque WITH queue <- Window, popped <- popped

ImplementsDeque == D!DequeSpec
=============================================================================
