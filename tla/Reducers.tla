------------------------------ MODULE Reducers ------------------------------
(***************************************************************************)
(* Reducers from their construction to their end (src/common/reducer.h):   *)
(* AgentGroup and SamplerCollector together.  A reducer is an              *)
(* AgentCombiner and, once it has been asked for one, a sampler; ~Reducer  *)
(* lets go of the sampler first, and then its combiner is destroyed.       *)
(* Between the two stand the threads that stream and end, and the sampling *)
(* thread, which walks the agents of the reducer under mtx_ of the sampler.*)
(***************************************************************************)
EXTENDS AgentGroup

VARIABLES sampler, used, spc, todo, cur, stop         \* of SamplerCollector

INSTANCE SamplerCollector WITH Owners <- Combiners, NoOwner <- NoCombiner

collectorVars == <<sampler, used, spc, todo, cur, stop>>
vars == <<agentVars, collectorVars>>

Init == AgentsInit /\ SamplersInit

-----------------------------------------------------------------------------
(* take_sample calls get_value() of the reducer, which changes nothing, or *)
(* reset() when the operator has no inverse.                               *)
Sampled(c) == ResetAll(c) \/ UNCHANGED agentVars

(* The sampler is created by the owner, whose constructor takes a sample   *)
(* of the reducer at once.                                                 *)
AskSampler(c) ==
    /\ life[c] = "live"
    /\ GetSampler(c)
    /\ Sampled(c)

(* ~Reducer begins: sampler_->destroy(), if there is a sampler... *)
LetGo(c) ==
    /\ life[c] = "closing"
    /\ Destroy(c)
    /\ UNCHANGED agentVars

(* Mutant of EndCombiner: the sampler is not waited for. *)
EndCombiner_sampled(c) ==
    /\ ClearAllAgents(c)
    /\ UNCHANGED collectorVars

(* ...and then ~AgentCombiner. *)
EndCombiner(c) ==
    /\ ~used[c]
    /\ ClearAllAgents(c)
    /\ UNCHANGED collectorVars

(* The turn of a reducer in the walk. *)
TakeSample == Taken /\ Sampled(cur)

(* The sampling thread. *)
Sampling ==
    \/ TakeSample
    \/ WalkStep /\ UNCHANGED agentVars

OwnerStep(c) ==
    \/ AskSampler(c) \/ LetGo(c) \/ EndCombiner(c)
    \/ (Construct(c) \/ Close(c) \/ DestroyAgent(c)) /\ UNCHANGED collectorVars

Next ==
    \/ Sampling
    \/ \E c \in Combiners : OwnerStep(c)
    \/ \E t \in Threads : ThreadStep(t) /\ UNCHANGED collectorVars
    \/ Stop /\ UNCHANGED agentVars

Spec == Init /\ [][Next]_vars

(* The kernel schedules the sampling thread, and usleep returns. *)
FairSpec == Spec /\ WF_vars(Sampling)

-----------------------------------------------------------------------------
TypeOK == AgentsTypeOK /\ SamplersTypeOK

(* take_sample walks the agents of a reducer that has not begun to clear   *)
(* them: destroy() in ~Reducer waits for mtx_, and no sample is begun after*)
(* it.  A sampler is deleted only when its owner has let go of it.         *)
SampledAlive ==
    /\ spc = "take" => life[cur] \in {"live", "closing"}
    /\ \A c \in Combiners :
          used[c] => life[c] \in {"live", "closing"}
                     /\ sampler[c] \in {"bag", "root"}

(* A destroyed sampler is deleted, or the sampling thread ends and leaves  *)
(* it: ~SamplerCollector, which joins the thread, does not wait for ever.  *)
Reclaimed ==
    \A c \in Combiners :
        (sampler[c] # "none" /\ ~used[c]) ~> (sampler[c] = "deleted" \/ spc = "end")
=============================================================================
