------------------------------- MODULE Deque --------------------------------
(***************************************************************************)
(* What BoundedQueue promises in its comments (src/common/bounded_queue.h):*)
(* a sequence of at most Cap items between a top side, its head, and a     *)
(* bottom side, its tail.  popped is what the last call handed out.        *)
(***************************************************************************)
EXTENDS Naturals, Sequences, SequencesExt

CONSTANTS Items, NoItem, Cap

VARIABLES queue, popped

dequeVars == <<queue, popped>>

DequeInit == queue = << >> /\ popped = NoItem

Put(q) == queue' = q /\ popped' = NoItem

PushBottom(x) == Len(queue) < Cap /\ Put(Append(queue, x))

PushTop(x) == Len(queue) < Cap /\ Put(Cons(x, queue))

(* A full queue loses its topmost item. *)
PushOut(x) == Len(queue) = Cap /\ Put(Append(Tail(queue), x))

TakeTop ==
    /\ queue # << >>
    /\ queue' = Tail(queue)
    /\ popped' \in {Head(queue), NoItem}

TakeBottom ==
    /\ queue # << >>
    /\ queue' = Front(queue)
    /\ popped' \in {Last(queue), NoItem}

Empty == Put(<< >>)

(* A call that is refused, the queue being full or empty. *)
Refused == Put(queue)

DequeNext ==
    \/ \E x \in Items : PushBottom(x) \/ PushTop(x) \/ PushOut(x)
    \/ TakeTop \/ TakeBottom \/ Empty \/ Refused

DequeSpec == DequeInit /\ [][DequeNext]_dequeVars
=============================================================================
