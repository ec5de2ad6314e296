--------------------------- MODULE ReducerSampler ---------------------------
(***************************************************************************)
(* ReducerSampler (src/common/sampler.h): once a second the sampling       *)
(* thread takes a sample of a reducer into a bounded queue, which grows    *)
(* when a larger window has been asked for; get_value combines the samples *)
(* of the last window_size seconds.  The reducer is an Adder: op is +, the *)
(* inverse - when there is one.  The queue is the one of Deque, which      *)
(* BoundedQueue implements; its bottom is the newest sample.  Sampler::mtx_*)
(* is held through take_sample, set_window_size and get_value, so each is  *)
(* one step.                                                               *)
(***************************************************************************)
EXTENDS Integers, Sequences

CONSTANTS
    MaxWindow,            \* MAX_SECONDS_LIMIT
    MaxValue,             \* bound of the model on what is streamed in
    MaxTaken              \* bound of the model on the samples taken

ASSUME WindowAssumption == MaxWindow \in Nat \ {0} /\ MaxValue \in Nat \ {0}

VARIABLES
    invertible,           \* InvOp is not VoidOp, as the template is instantiated
    value,                \* the value of the reducer
    window_size,          \* _window_size
    q,                    \* _q, from top (oldest) to bottom (newest)
    capacity,             \* _q.capacity()
    added,                \* history: the sum streamed in since the last sample
    amounts,              \* history: that sum for every sample taken
    fresh                 \* history: samples taken since the window was widened

windowVars == <<invertible, value, window_size, q, capacity, added, amounts, fresh>>

Maximum(a, b) == IF a > b THEN a ELSE b
Minimum(a, b) == IF a < b THEN a ELSE b

(* The queue is grown before the sample, and holds its samples already. *)
Grown == IF window_size + 1 > capacity
         THEN Maximum(2 * capacity, window_size + 1)
         ELSE capacity

(* elim_push. *)
Pushed(queue, cap, x) ==
    IF Len(queue) < cap THEN Append(queue, x) ELSE Append(Tail(queue), x)

(* The constructor: a window of 1, and the first sample taken at once of a *)
(* reducer that may have been used before.                                 *)
WindowInit ==
    /\ invertible \in BOOLEAN
    /\ window_size = 1 /\ capacity = 2
    /\ \E v \in 0 .. 1 : /\ q = << v >>
                         /\ value = IF invertible THEN v ELSE 0
    /\ added = 0 /\ amounts = << 0 >> /\ fresh = 0

(* A thread streams n into the reducer. *)
Add(n) ==
    /\ value + n <= MaxValue
    /\ value' = value + n
    /\ added' = added + n
    /\ UNCHANGED <<invertible, window_size, q, capacity, amounts, fresh>>

(* Mutant of PushSample: the queue is never grown. *)
PushSample_nogrow ==
    /\ Len(amounts) < MaxTaken
    /\ q' = Pushed(q, capacity, value)
    /\ value' = IF invertible THEN value ELSE 0
    /\ amounts' = Append(amounts, added)
    /\ added' = 0
    /\ fresh' = fresh + 1
    /\ UNCHANGED <<invertible, window_size, capacity>>

(* Mutant of PushSample: the reducer is not reset. *)
PushSample_noreset ==
    /\ Len(amounts) < MaxTaken
    /\ capacity' = Grown
    /\ q' = Pushed(q, capacity', value)
    /\ amounts' = Append(amounts, added)
    /\ added' = 0
    /\ fresh' = fresh + 1
    /\ UNCHANGED <<invertible, value, window_size>>

(* take_sample.  Where malloc fails to give the larger queue its memory    *)
(* the call returns at once and changes nothing.                           *)
PushSample ==
    /\ Len(amounts) < MaxTaken
    /\ capacity' = Grown
    /\ q' = Pushed(q, capacity', value)
    /\ value' = IF invertible THEN value ELSE 0
    /\ amounts' = Append(amounts, added)
    /\ added' = 0
    /\ fresh' = fresh + 1
    /\ UNCHANGED <<invertible, window_size>>

(* set_window_size: the window can only go larger, up to MaxWindow. *)
SetWindowSize(w) ==
    /\ w \in 1 .. MaxWindow
    /\ w > window_size
    /\ window_size' = w
    /\ fresh' = 0
    /\ UNCHANGED <<invertible, value, q, capacity, added, amounts>>

WindowNext ==
    \/ \E n \in 1 .. MaxValue : Add(n)
    \/ PushSample
    \/ \E w \in 1 .. (MaxWindow + 1) : SetWindowSize(w)

WindowSpec == WindowInit /\ [][WindowNext]_windowVars

-----------------------------------------------------------------------------
(* bottom(index): the position in q, 0 standing for NULL. *)
BottomAt(i) == IF i < Len(q) THEN Len(q) - i ELSE 0

(* Where get_value and get_samples find their oldest sample. *)
OldestFor(w) == IF BottomAt(w) = 0 THEN 1 ELSE BottomAt(w)

Sum(seq) ==
    LET total[i \in 0 .. Len(seq)] == IF i = 0 THEN 0 ELSE total[i - 1] + seq[i]
    IN total[Len(seq)]

(* Mutant of GetValue: one sample more is taken in. *)
GetValue_onemore(w) ==
    IF invertible THEN q[Len(q)] - q[OldestFor(w + 1)]
                  ELSE Sum(SubSeq(q, OldestFor(w + 1) + 1, Len(q)))

(* get_value(w) of a queue with at least two samples: the difference of    *)
(* the newest and the oldest, or the sum of all but the oldest.            *)
GetValue(w) ==
    IF invertible THEN q[Len(q)] - q[OldestFor(w)]
                  ELSE Sum(SubSeq(q, OldestFor(w) + 1, Len(q)))

WindowTypeOK ==
    /\ invertible \in BOOLEAN
    /\ value \in 0 .. MaxValue /\ added \in 0 .. MaxValue
    /\ window_size \in 1 .. MaxWindow
    /\ capacity \in Nat
    /\ Len(q) \in 1 .. capacity
    /\ amounts \in Seq(Nat) /\ fresh \in Nat

Latest(seq, n) == SubSeq(seq, Len(seq) - n + 1, Len(seq))

(* Whatever was dropped from the queue and whenever it was grown, the value *)
(* of a window is what was streamed in over its seconds: the last w samples *)
(* taken, or as many as the queue can tell apart.                           *)
WindowIsExact ==
    Len(q) > 1 =>
        \A w \in 1 .. (MaxWindow + 1) :
            GetValue(w) = Sum(Latest(amounts, Minimum(w, Len(q) - 1)))

(* window_size seconds after a window has been widened its value covers    *)
(* the whole window.                                                       *)
WindowIsServed == fresh >= window_size => Len(q) > window_size
=============================================================================
