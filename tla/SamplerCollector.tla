-------------------------- MODULE SamplerCollector --------------------------
(***************************************************************************)
(* The sampling thread (src/common/sampler.cpp, sampler.h).  A reducer     *)
(* that wants samples of itself creates a Sampler and schedules it: the    *)
(* sampler goes into SamplerCollector, which is a reducer of samplers and  *)
(* is taken here for the bag that Combiner implements.  Once a second the  *)
(* sampling thread takes new samplers over to a list of its own and walks  *)
(* the list: it takes a sample of each one in use, under its mtx_, and     *)
(* deletes those their owners have destroyed, which only unsets used_.     *)
(*                                                                         *)
(* A sampler is named by the reducer that owns it.                         *)
(***************************************************************************)
CONSTANTS
    Owners,               \* the reducers
    NoOwner               \* the walk is between two samplers

VARIABLES
    sampler,              \* of each owner: "none", "bag", "root" or "deleted"
    used,                 \* used_ of each sampler
    spc,                  \* where run is
    todo,                 \* samplers the walk has not come to yet
    cur,                  \* the one it is at
    stop                  \* stop_

samplerVars == <<sampler, used, spc, todo, cur, stop>>

SamplersInit ==
    /\ sampler = [o \in Owners |-> "none"]
    /\ used = [o \in Owners |-> FALSE]
    /\ spc = "sleep" /\ todo = {} /\ cur = NoOwner /\ stop = FALSE

(* mtx_ of a sampler is held by the sampling thread. *)
Locked(o) == spc = "take" /\ cur = o

-----------------------------------------------------------------------------
(* get_sampler: the sampler is created and scheduled. *)
GetSampler(o) ==
    /\ sampler[o] = "none"
    /\ ~stop
    /\ sampler' = [sampler EXCEPT ![o] = "bag"]
    /\ used' = [used EXCEPT ![o] = TRUE]
    /\ UNCHANGED <<spc, todo, cur, stop>>

(* Mutant of Destroy: used_ is unset without mtx_. *)
Destroy_unlocked(o) ==
    /\ used[o]
    /\ used' = [used EXCEPT ![o] = FALSE]
    /\ UNCHANGED <<sampler, spc, todo, cur, stop>>

(* destroy, called by ~Reducer: under mtx_. *)
Destroy(o) ==
    /\ used[o]
    /\ ~Locked(o)
    /\ used' = [used EXCEPT ![o] = FALSE]
    /\ UNCHANGED <<sampler, spc, todo, cur, stop>>

-----------------------------------------------------------------------------
(* Mutant of Reset: samplers that came in are not taken over. *)
Reset_dropped ==
    /\ spc = "sleep" /\ ~stop
    /\ sampler' = [o \in Owners |-> IF sampler[o] = "bag" THEN "none" ELSE sampler[o]]
    /\ todo' = {o \in Owners : sampler'[o] = "root"}
    /\ spc' = "walk"
    /\ UNCHANGED <<used, cur, stop>>

(* A round begins: reset(), and what it returns is spliced into root. *)
Reset ==
    /\ spc = "sleep" /\ ~stop
    /\ sampler' = [o \in Owners |-> IF sampler[o] = "bag" THEN "root" ELSE sampler[o]]
    /\ todo' = {o \in Owners : sampler'[o] = "root"}
    /\ spc' = "walk"
    /\ UNCHANGED <<used, cur, stop>>

(* The walk comes to a sampler in use, and keeps its mtx_... *)
WalkTake(o) ==
    /\ spc = "walk" /\ o \in todo
    /\ used[o]
    /\ spc' = "take" /\ cur' = o /\ todo' = todo \ {o}
    /\ UNCHANGED <<sampler, used, stop>>

(* ...while take_sample runs. *)
Taken ==
    /\ spc = "take"
    /\ spc' = "walk" /\ cur' = NoOwner
    /\ UNCHANGED <<sampler, used, todo, stop>>

(* The walk comes to a destroyed sampler, and unlocks it again... *)
WalkUnused(o) ==
    /\ spc = "walk" /\ o \in todo
    /\ ~used[o]
    /\ spc' = "delete" /\ cur' = o /\ todo' = todo \ {o}
    /\ UNCHANGED <<sampler, used, stop>>

(* ...and takes it out of the list and deletes it. *)
Delete ==
    /\ spc = "delete"
    /\ sampler' = [sampler EXCEPT ![cur] = "deleted"]
    /\ spc' = "walk" /\ cur' = NoOwner
    /\ UNCHANGED <<used, todo, stop>>

(* The walk is back at root: the next round is due after a sleep. *)
WalkEnd ==
    /\ spc = "walk" /\ todo = {}
    /\ spc' = "sleep"
    /\ UNCHANGED <<sampler, used, todo, cur, stop>>

(* Mutant of Finish: a thread told to stop takes a last round. *)
Finish_never ==
    /\ spc = "sleep" /\ stop
    /\ spc' = "walk" /\ todo' = {o \in Owners : sampler[o] = "root"}
    /\ UNCHANGED <<sampler, used, cur, stop>>

(* The head of the loop finds stop_ set: what is in root is left there. *)
Finish ==
    /\ spc = "sleep" /\ stop
    /\ spc' = "end"
    /\ UNCHANGED <<sampler, used, todo, cur, stop>>

(* ~SamplerCollector sets stop_ and joins the thread. *)
Stop ==
    /\ ~stop
    /\ stop' = TRUE
    /\ UNCHANGED <<sampler, used, spc, todo, cur>>

(* All that the sampling thread does but to take samples. *)
WalkStep ==
    \/ Reset \/ Delete \/ WalkEnd \/ Finish
    \/ \E o \in Owners : WalkTake(o) \/ WalkUnused(o)

SamplersNext ==
    \/ WalkStep \/ Taken \/ Stop
    \/ \E o \in Owners : GetSampler(o) \/ Destroy(o)

SamplersSpec == SamplersInit /\ [][SamplersNext]_samplerVars

-----------------------------------------------------------------------------
SamplersTypeOK ==
    /\ sampler \in [Owners -> {"none", "bag", "root", "deleted"}]
    /\ used \in [Owners -> BOOLEAN]
    /\ spc \in {"sleep", "walk", "take", "delete", "end"}
    /\ todo \subseteq {o \in Owners : sampler[o] = "root"}
    /\ cur \in Owners \cup {NoOwner}
    /\ spc \in {"take", "delete"} => cur \in Owners /\ sampler[cur] = "root"
    /\ stop \in BOOLEAN
=============================================================================
