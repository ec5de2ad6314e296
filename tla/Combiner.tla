------------------------------ MODULE Combiner ------------------------------
(***************************************************************************)
(* The thread-local half of Reducer / AgentCombiner (src/common/combiner.h,*)
(* reducer.h): every thread owns an agent whose element it appends to; the *)
(* combiner links the agents it knows of and keeps the values of exited    *)
(* threads in global_result_.                                              *)
(*                                                                         *)
(* Two locks: mtx_ of the combiner, held through a whole walk over the     *)
(* agents, and one element.mtx_ per agent.  Every section under an         *)
(* element.mtx_ touches that element only and takes no further lock, so it *)
(* is one step.  mtx_ is held exactly while walk # "none"; the sections    *)
(* of Append and ThreadExit under it are one step and need it free.        *)
(***************************************************************************)
EXTENDS FiniteSets

CONSTANTS
    Threads,              \* threads that stream samples into the reducer
    Samples,              \* the SampledContention objects
    NoSample              \* no sample is being streamed in

ASSUME SampleAssumption == NoSample \notin Samples

VARIABLES
    registered,           \* registered[t]: agent->combiner # nullptr
    agents,               \* agents_: the threads whose agent is linked
    element,              \* element[t]: the list in agent t's element.value_
    global_result,        \* global_result_
    pc,                   \* where operator<< of thread t is
    arg,                  \* the sample thread t is streaming in
    walk,                 \* the walk that holds mtx_: reset, combine or none
    visited,              \* agents the walk has passed
    acc,                  \* tmp of reset_all_agents, ret of combine_agents
    must,                 \* history: what the walk found when it began
    out                   \* what resets returned and their caller still holds

vars == <<registered, agents, element, global_result, pc, arg,
          walk, visited, acc, must, out>>

Elements == UNION {element[t] : t \in Threads}

(* Every sample the reducer is responsible for. *)
Contents == global_result \cup Elements \cup (IF walk = "reset" THEN acc ELSE {})

InFlight == {arg[t] : t \in Threads} \ {NoSample}

Init ==
    /\ registered = [t \in Threads |-> FALSE]
    /\ agents = {}
    /\ element = [t \in Threads |-> {}]
    /\ global_result = {}
    /\ pc = [t \in Threads |-> "idle"]
    /\ arg = [t \in Threads |-> NoSample]
    /\ walk = "none" /\ visited = {} /\ acc = {} /\ must = {}
    /\ out = {}

-----------------------------------------------------------------------------
(* operator<<: get_or_create_tls_agent finds the thread's agent attached,  *)
(* or attaches it (agent->reset) and goes on to link it.                   *)
Submit(t, s) ==
    /\ pc[t] = "idle"
    /\ s \notin Contents \cup out \cup InFlight
    /\ arg' = [arg EXCEPT ![t] = s]
    /\ \/ /\ registered[t]
          /\ pc' = [pc EXCEPT ![t] = "modify"]
          /\ UNCHANGED <<registered, element>>
       \/ /\ ~registered[t]
          /\ registered' = [registered EXCEPT ![t] = TRUE]
          /\ element' = [element EXCEPT ![t] = {}]
          /\ pc' = [pc EXCEPT ![t] = "append"]
    /\ UNCHANGED <<agents, global_result, walk, visited, acc, must, out>>

(* Mutant of Append: the agent is not linked. *)
Append_unlinked(t) ==
    /\ pc[t] = "append"
    /\ walk = "none"
    /\ pc' = [pc EXCEPT ![t] = "modify"]
    /\ UNCHANGED <<registered, agents, element, global_result, arg, walk,
                   visited, acc, must, out>>

(* get_or_create_tls_agent: agents_.Append(agent) under mtx_. *)
Append(t) ==
    /\ pc[t] = "append"
    /\ walk = "none"
    /\ agents' = agents \cup {t}
    /\ pc' = [pc EXCEPT ![t] = "modify"]
    /\ UNCHANGED <<registered, element, global_result, arg, walk, visited,
                   acc, must, out>>

(* Mutant of Modify: the element is stored to instead of appended to. *)
Modify_store(t) ==
    /\ pc[t] = "modify"
    /\ element' = [element EXCEPT ![t] = {arg[t]}]
    /\ arg' = [arg EXCEPT ![t] = NoSample]
    /\ pc' = [pc EXCEPT ![t] = "idle"]
    /\ UNCHANGED <<registered, agents, global_result, walk, visited, acc,
                   must, out>>

(* agent->element.modify(op, value) under element.mtx_. *)
Modify(t) ==
    /\ pc[t] = "modify"
    /\ element' = [element EXCEPT ![t] = @ \cup {arg[t]}]
    /\ arg' = [arg EXCEPT ![t] = NoSample]
    /\ pc' = [pc EXCEPT ![t] = "idle"]
    /\ UNCHANGED <<registered, agents, global_result, walk, visited, acc,
                   must, out>>

(* ~Agent of an exiting thread: commit_and_erase under mtx_. *)
ThreadExit(t) ==
    /\ pc[t] = "idle"
    /\ registered[t]
    /\ walk = "none"
    /\ global_result' = global_result \cup element[t]
    /\ agents' = agents \ {t}
    /\ element' = [element EXCEPT ![t] = {}]
    /\ registered' = [registered EXCEPT ![t] = FALSE]
    /\ UNCHANGED <<pc, arg, walk, visited, acc, must, out>>

-----------------------------------------------------------------------------
(* reset_all_agents takes mtx_, and global_result_ with it. *)
ResetBegin ==
    /\ walk = "none"
    /\ walk' = "reset"
    /\ acc' = global_result
    /\ global_result' = {}
    /\ must' = Contents
    /\ UNCHANGED <<registered, agents, element, pc, arg, visited, out>>

(* combine_agents takes mtx_ and copies global_result_. *)
CombineBegin ==
    /\ walk = "none"
    /\ walk' = "combine"
    /\ acc' = global_result
    /\ must' = Contents
    /\ UNCHANGED <<registered, agents, element, global_result, pc, arg,
                   visited, out>>

(* Mutant of Visit: a reset loads an element it should exchange. *)
Visit_load(t) ==
    /\ walk # "none"
    /\ t \in agents \ visited
    /\ visited' = visited \cup {t}
    /\ acc' = acc \cup element[t]
    /\ UNCHANGED <<registered, agents, element, global_result, pc, arg, walk,
                   must, out>>

(* One turn of the loop over agents_: element.exchange or element.load.    *)
(* The agents are visited in some order: their order does not matter.      *)
Visit(t) ==
    /\ walk # "none"
    /\ t \in agents \ visited
    /\ visited' = visited \cup {t}
    /\ acc' = acc \cup element[t]
    /\ element' = IF walk = "reset" THEN [element EXCEPT ![t] = {}] ELSE element
    /\ UNCHANGED <<registered, agents, global_result, pc, arg, walk, must, out>>

(* The walk reaches agents_.end(), releases mtx_ and returns. *)
WalkEnd ==
    /\ walk # "none"
    /\ visited = agents
    /\ out' = IF walk = "reset" THEN out \cup acc ELSE out
    /\ walk' = "none" /\ visited' = {} /\ acc' = {} /\ must' = {}
    /\ UNCHANGED <<registered, agents, element, global_result, pc, arg>>

(* The caller of reset() unlinks a sample from the list it was given. *)
Consume(s) ==
    /\ s \in out
    /\ out' = out \ {s}
    /\ UNCHANGED <<registered, agents, element, global_result, pc, arg, walk,
                   visited, acc, must>>

Next ==
    \/ ResetBegin \/ CombineBegin \/ WalkEnd
    \/ \E t \in Threads : Append(t) \/ Modify(t) \/ ThreadExit(t) \/ Visit(t)
    \/ \E t \in Threads, s \in Samples : Submit(t, s)
    \/ \E s \in Samples : Consume(s)

Spec == Init /\ [][Next]_vars

-----------------------------------------------------------------------------
TypeOK ==
    /\ registered \in [Threads -> BOOLEAN]
    /\ agents \subseteq Threads
    /\ element \in [Threads -> SUBSET Samples]
    /\ global_result \subseteq Samples
    /\ pc \in [Threads -> {"idle", "append", "modify"}]
    /\ arg \in [Threads -> Samples \cup {NoSample}]
    /\ walk \in {"none", "reset", "combine"}
    /\ visited \subseteq agents
    /\ acc \subseteq Samples /\ must \subseteq Samples /\ out \subseteq Samples

(* A sample is linked into one list at a time: a node appended to a second *)
(* list, or delivered twice, would corrupt both circular lists.  At risk:  *)
(* commit_and_erase and exchange moving a list while it stays reachable.   *)
OneListPerSample ==
    /\ \A t \in Threads : element[t] \cap (global_result \cup out \cup InFlight) = {}
    /\ \A t, u \in Threads : t # u => element[t] \cap element[u] = {}
    /\ \A t, u \in Threads :
          t # u /\ arg[t] = arg[u] => arg[t] = NoSample
    /\ (global_result \cup InFlight) \cap out = {}
    /\ global_result \cap InFlight = {}
    /\ walk = "reset" => acc \cap (global_result \cup Elements \cup out \cup InFlight) = {}

(* A walk under mtx_ misses nothing that operator<< had finished storing   *)
(* when it began, though threads register, append and exit around it.      *)
WalkComplete ==
    walk # "none" /\ visited = agents => must \subseteq acc

(* The combiner is a bag of samples emptied by reset(): nothing is lost,   *)
(* invented or delivered twice, whatever threads come and go.              *)
Bag == INSTANCE SampleBag WITH
           bag <- Contents,
           must <- IF walk = "reset" THEN must ELSE {},
           taking <- (walk = "reset")

ImplementsBag == Bag!BagSpec
=============================================================================
