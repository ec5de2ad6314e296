----------------------------- MODULE SampleBag -----------------------------
(***************************************************************************)
(* What Reducer<Collected*, CombineCollected> promises its two users: the  *)
(* threads that stream samples into it with operator<<, and the grab       *)
(* thread that empties it with reset().  Samples are the pooled            *)
(* SampledContention objects; a list of them is abstracted to the set of   *)
(* its nodes.  An emptying is not atomic: it delivers every sample whose   *)
(* operator<< had returned when it began, and possibly later ones.         *)
(***************************************************************************)
CONSTANT Samples          \* the SampledContention objects

VARIABLES
    bag,                  \* samples accepted by operator<< and not delivered yet
    must,                 \* the samples the emptying under way has to deliver
    taking,               \* an emptying is under way
    out                   \* samples delivered to the caller of reset()

bagVars == <<bag, must, taking, out>>

BagInit == bag = {} /\ must = {} /\ taking = FALSE /\ out = {}

(* operator<<: a sample is in at most one list when it is streamed in. *)
Add(s) ==
    /\ s \notin bag \cup out
    /\ bag' = bag \cup {s}
    /\ UNCHANGED <<must, taking, out>>

(* reset() starts: whatever is in the bag now must be delivered. *)
TakeBegin ==
    /\ ~taking
    /\ taking' = TRUE
    /\ must' = bag
    /\ UNCHANGED <<bag, out>>

(* reset() returns the list S. *)
TakeEnd(S) ==
    /\ taking
    /\ must \subseteq S
    /\ S \subseteq bag
    /\ bag' = bag \ S
    /\ out' = out \cup S
    /\ must' = {}
    /\ taking' = FALSE

(* The caller of reset() unlinks one node of the list it was given. *)
Consume(s) ==
    /\ s \in out
    /\ out' = out \ {s}
    /\ UNCHANGED <<bag, must, taking>>

BagNext ==
    \/ TakeBegin
    \/ \E S \in SUBSET bag : TakeEnd(S)
    \/ \E s \in Samples : Add(s) \/ Consume(s)

BagSpec == BagInit /\ [][BagNext]_bagVars
=============================================================================
