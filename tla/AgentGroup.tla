----------------------------- MODULE AgentGroup -----------------------------
(***************************************************************************)
(* The lives of combiners and of the agents threads keep for them          *)
(* (src/common/agent_group.h, combiner.h).  A combiner takes an id when it *)
(* is constructed and gives it back when it is destroyed; the next one may *)
(* get the same id, and with it the agents that every thread keeps under   *)
(* that id in its thread blocks.  A thread that ends destroys its blocks,  *)
(* and each agent commits its element to the combiner it names, whatever   *)
(* the owners of the combiners do meanwhile.                               *)
(*                                                                         *)
(* A section under a mutex is one step.  agent->combiner is read outside   *)
(* of any mutex, by get_or_create_tls_agent and by ~Agent.  The owner of a *)
(* combiner sees to it that no thread is in operator<< when it destroys    *)
(* the combiner; it cannot know when a thread ends.                        *)
(***************************************************************************)
EXTENDS Naturals, Sequences, SequencesExt, FiniteSets

CONSTANTS
    Threads,
    Combiners,            \* the AgentCombiner objects, each constructed once
    NoCombiner,           \* nullptr
    Values, NoValue,      \* what is streamed in, each of them once
    PerBlock,             \* ELEMENT_PER_BLOCK
    MaxKinds              \* bound of the model on agent_kinds_

ASSUME CombinersAssumption == NoCombiner \notin Combiners
ASSUME ValuesAssumption == NoValue \notin Values
ASSUME BlocksAssumption == PerBlock \in Nat \ {0} /\ MaxKinds \in Nat \ {0}

VARIABLES
    agent_kinds, free_ids,    \* the ids given out so far, and given back
    life,                 \* "new", "live", "closing", "cleared", "dead"
    id,                   \* id_ of each combiner
    agents,               \* agents_: the threads whose agent is linked
    global_result,        \* global_result_
    tls_blocks,           \* the thread blocks each thread has
    combiner, element,    \* of the agent of each thread under each id
    pc,                   \* where the call of each thread is
    arg, val,             \* the combiner and the value of that call
    undone,               \* agents of an ending thread not yet destroyed
    at,                   \* the one of them that is being destroyed
    streamed              \* history: the combiner that has each value

agentVars == <<agent_kinds, free_ids, life, id, agents, global_result,
               tls_blocks, combiner, element, pc, arg, val, undone, at, streamed>>
idVars == <<agent_kinds, free_ids, life, id>>

Ids == 0 .. (MaxKinds - 1)

BlockOf(i) == i \div PerBlock

AgentsInit ==
    /\ agent_kinds = 0 /\ free_ids = << >>
    /\ life = [c \in Combiners |-> "new"]
    /\ id = [c \in Combiners |-> 0]
    /\ agents = [c \in Combiners |-> {}]
    /\ global_result = [c \in Combiners |-> {}]
    /\ tls_blocks = [t \in Threads |-> {}]
    /\ combiner = [t \in Threads |-> [i \in Ids |-> NoCombiner]]
    /\ element = [t \in Threads |-> [i \in Ids |-> {}]]
    /\ pc = [t \in Threads |-> "idle"]
    /\ arg = [t \in Threads |-> NoCombiner]
    /\ val = [t \in Threads |-> NoValue]
    /\ undone = [t \in Threads |-> {}]
    /\ at = [t \in Threads |-> 0]
    /\ streamed = [v \in Values |-> NoCombiner]

-----------------------------------------------------------------------------
(* Mutant of Construct: the id is not taken out of free_ids_. *)
Construct_kept(c) ==
    /\ life[c] = "new"
    /\ life' = [life EXCEPT ![c] = "live"]
    /\ \/ /\ free_ids # << >>
          /\ id' = [id EXCEPT ![c] = Last(free_ids)]
          /\ UNCHANGED agent_kinds
       \/ /\ free_ids = << >>
          /\ agent_kinds < MaxKinds
          /\ id' = [id EXCEPT ![c] = agent_kinds]
          /\ agent_kinds' = agent_kinds + 1
    /\ UNCHANGED <<free_ids, agents, global_result, tls_blocks, combiner, element,
                   pc, arg, val, undone, at, streamed>>

(* The constructor: create_new_agent, under AgentGroup::mtx_. *)
Construct(c) ==
    /\ life[c] = "new"
    /\ life' = [life EXCEPT ![c] = "live"]
    /\ \/ /\ free_ids # << >>
          /\ id' = [id EXCEPT ![c] = Last(free_ids)]
          /\ free_ids' = Front(free_ids)
          /\ UNCHANGED agent_kinds
       \/ /\ free_ids = << >>
          /\ agent_kinds < MaxKinds
          /\ id' = [id EXCEPT ![c] = agent_kinds]
          /\ agent_kinds' = agent_kinds + 1
          /\ UNCHANGED free_ids
    /\ UNCHANGED <<agents, global_result, tls_blocks, combiner, element, pc, arg,
                   val, undone, at, streamed>>

InUse(c) == \E t \in Threads : pc[t] \in {"append", "modify"} /\ arg[t] = c

(* What c holds is given up, or taken: the values may be streamed again. *)
Forget(c) ==
    streamed' = [v \in Values |-> IF streamed[v] = c THEN NoCombiner ELSE streamed[v]]

(* ~AgentCombiner begins. *)
Close(c) ==
    /\ life[c] = "live"
    /\ ~InUse(c)
    /\ life' = [life EXCEPT ![c] = "closing"]
    /\ UNCHANGED <<agent_kinds, free_ids, id, agents, global_result, tls_blocks,
                   combiner, element, pc, arg, val, undone, at, streamed>>

(* Mutant of ClearAllAgents: the agents are unlinked and keep combiner. *)
ClearAllAgents_kept(c) ==
    /\ life[c] = "closing"
    /\ agents' = [agents EXCEPT ![c] = {}]
    /\ Forget(c)
    /\ life' = [life EXCEPT ![c] = "cleared"]
    /\ UNCHANGED <<agent_kinds, free_ids, id, global_result, tls_blocks, combiner,
                   element, pc, arg, val, undone, at>>

(* clear_all_agents: every linked agent is reset to no combiner, and its   *)
(* element to ElementTp(), which the next combiner resets once more.       *)
ClearAllAgents(c) ==
    /\ life[c] = "closing"
    /\ combiner' = [t \in Threads |->
                       IF t \in agents[c]
                       THEN [combiner[t] EXCEPT ![id[c]] = NoCombiner]
                       ELSE combiner[t]]
    /\ element' = [t \in Threads |->
                      IF t \in agents[c] THEN [element[t] EXCEPT ![id[c]] = {}]
                                         ELSE element[t]]
    /\ agents' = [agents EXCEPT ![c] = {}]
    /\ Forget(c)
    /\ life' = [life EXCEPT ![c] = "cleared"]
    /\ UNCHANGED <<agent_kinds, free_ids, id, global_result, tls_blocks, pc, arg,
                   val, undone, at>>

(* destroy_agent, and the combiner is gone. *)
DestroyAgent(c) ==
    /\ life[c] = "cleared"
    /\ free_ids' = Append(free_ids, id[c])
    /\ life' = [life EXCEPT ![c] = "dead"]
    /\ UNCHANGED <<agent_kinds, id, agents, global_result, tls_blocks, combiner,
                   element, pc, arg, val, undone, at, streamed>>

-----------------------------------------------------------------------------
(* operator<<: get_or_create_tls_agent creates the thread block if it is   *)
(* missing; the agent in it is used as it is if it names any combiner, and *)
(* is reset to this one otherwise.                                         *)
Stream(t, c, v) ==
    /\ pc[t] = "idle" /\ life[c] = "live"
    /\ streamed[v] = NoCombiner /\ v \notin {val[u] : u \in Threads}
    /\ arg' = [arg EXCEPT ![t] = c]
    /\ val' = [val EXCEPT ![t] = v]
    /\ tls_blocks' = [tls_blocks EXCEPT ![t] = @ \cup {BlockOf(id[c])}]
    /\ \/ /\ combiner[t][id[c]] # NoCombiner
          /\ pc' = [pc EXCEPT ![t] = "modify"]
          /\ UNCHANGED <<combiner, element>>
       \/ /\ combiner[t][id[c]] = NoCombiner
          /\ combiner' = [combiner EXCEPT ![t][id[c]] = c]
          /\ element' = [element EXCEPT ![t][id[c]] = {}]
          /\ pc' = [pc EXCEPT ![t] = "append"]
    /\ UNCHANGED <<idVars, agents, global_result, undone, at, streamed>>

(* agents_.Append(agent), under mtx_ of the combiner. *)
LinkAgent(t) ==
    /\ pc[t] = "append"
    /\ agents' = [agents EXCEPT ![arg[t]] = @ \cup {t}]
    /\ pc' = [pc EXCEPT ![t] = "modify"]
    /\ UNCHANGED <<idVars, global_result, tls_blocks, combiner, element, arg, val,
                   undone, at, streamed>>

(* element.modify, under its own mtx_. *)
Modify(t) ==
    /\ pc[t] = "modify"
    /\ element' = [element EXCEPT ![t][id[arg[t]]] = @ \cup {val[t]}]
    /\ streamed' = [streamed EXCEPT ![val[t]] = arg[t]]
    /\ val' = [val EXCEPT ![t] = NoValue]
    /\ arg' = [arg EXCEPT ![t] = NoCombiner]
    /\ pc' = [pc EXCEPT ![t] = "idle"]
    /\ UNCHANGED <<idVars, agents, global_result, tls_blocks, combiner, undone, at>>

(* reset_all_agents, which Combiner has step by step: what c holds is taken. *)
ResetAll(c) ==
    /\ global_result' = [global_result EXCEPT ![c] = {}]
    /\ element' = [t \in Threads |->
                      IF t \in agents[c] THEN [element[t] EXCEPT ![id[c]] = {}]
                                         ELSE element[t]]
    /\ Forget(c)
    /\ UNCHANGED <<idVars, agents, tls_blocks, combiner, pc, arg, val, undone, at>>

-----------------------------------------------------------------------------
(* destroy_tls_blocks, at the end of the thread: block by block. *)
ExitBegin(t) ==
    /\ pc[t] = "idle" /\ tls_blocks[t] # {}
    /\ undone' = [undone EXCEPT ![t] = {i \in Ids : BlockOf(i) \in tls_blocks[t]}]
    /\ pc' = [pc EXCEPT ![t] = "exit"]
    /\ UNCHANGED <<idVars, agents, global_result, tls_blocks, combiner, element,
                   arg, val, at, streamed>>

(* The agents of the block that is being deleted. *)
Dying(t) ==
    {i \in undone[t] : \A j \in undone[t] : BlockOf(i) <= BlockOf(j)}

(* The agent under i is destroyed, and the memory of its block is freed    *)
(* with the last of its agents.                                            *)
AgentGone(t, i) ==
    /\ undone' = [undone EXCEPT ![t] = @ \ {i}]
    /\ tls_blocks' = [tls_blocks EXCEPT ![t] = {BlockOf(j) : j \in undone'[t]}]
    /\ combiner' = [combiner EXCEPT ![t][i] = NoCombiner]
    /\ element' = [element EXCEPT ![t][i] = {}]
    /\ arg' = [arg EXCEPT ![t] = NoCombiner]
    /\ pc' = [pc EXCEPT ![t] = IF undone[t] = {i} THEN "idle" ELSE "exit"]

(* ~Agent reads combiner and finds none... *)
ExitUnused(t, i) ==
    /\ pc[t] = "exit" /\ i \in Dying(t)
    /\ combiner[t][i] = NoCombiner
    /\ AgentGone(t, i)
    /\ UNCHANGED <<idVars, agents, global_result, val, at, streamed>>

(* ...or one, to which it goes to commit. *)
ExitRead(t, i) ==
    /\ pc[t] = "exit" /\ i \in Dying(t)
    /\ combiner[t][i] # NoCombiner
    /\ arg' = [arg EXCEPT ![t] = combiner[t][i]]
    /\ at' = [at EXCEPT ![t] = i]
    /\ pc' = [pc EXCEPT ![t] = "commit"]
    /\ UNCHANGED <<idVars, agents, global_result, tls_blocks, combiner, element,
                   val, undone, streamed>>

(* Mutant of ExitCommit: the agent is not unlinked. *)
ExitCommit_linked(t) ==
    /\ pc[t] = "commit"
    /\ life[arg[t]] # "dead"
    /\ global_result' = [global_result EXCEPT ![arg[t]] = @ \cup element[t][at[t]]]
    /\ at' = [at EXCEPT ![t] = 0]
    /\ AgentGone(t, at[t])
    /\ UNCHANGED <<idVars, agents, val, streamed>>

(* Mutant of ExitCommit: the agent is unlinked, its element is dropped. *)
ExitCommit_dropped(t) ==
    /\ pc[t] = "commit"
    /\ life[arg[t]] # "dead"
    /\ agents' = [agents EXCEPT ![arg[t]] = @ \ {t}]
    /\ at' = [at EXCEPT ![t] = 0]
    /\ AgentGone(t, at[t])
    /\ UNCHANGED <<idVars, global_result, val, streamed>>

(* commit_and_erase, under mtx_ of the combiner that ~Agent has read.      *)
ExitCommit(t) ==
    /\ pc[t] = "commit"
    /\ life[arg[t]] # "dead"
    /\ global_result' = [global_result EXCEPT ![arg[t]] = @ \cup element[t][at[t]]]
    /\ agents' = [agents EXCEPT ![arg[t]] = @ \ {t}]
    /\ at' = [at EXCEPT ![t] = 0]
    /\ AgentGone(t, at[t])
    /\ UNCHANGED <<idVars, val, streamed>>

(* The combiner is dead by now: what its memory holds is undefined, and    *)
(* nothing is left of it in the model to change.                           *)
ExitTooLate(t) ==
    /\ pc[t] = "commit"
    /\ life[arg[t]] = "dead"
    /\ at' = [at EXCEPT ![t] = 0]
    /\ AgentGone(t, at[t])
    /\ UNCHANGED <<idVars, agents, global_result, val, streamed>>

(* What threads do, and what the owner of c does in ~AgentCombiner. *)
ThreadStep(t) ==
    \/ \E c \in Combiners, v \in Values : Stream(t, c, v)
    \/ LinkAgent(t) \/ Modify(t)
    \/ ExitBegin(t) \/ ExitCommit(t) \/ ExitTooLate(t)
    \/ \E i \in Ids : ExitUnused(t, i) \/ ExitRead(t, i)

AgentsNext ==
    \/ \E t \in Threads : ThreadStep(t)
    \/ \E c \in Combiners :
          \/ Construct(c) \/ Close(c) \/ ClearAllAgents(c) \/ DestroyAgent(c)
          \/ life[c] = "live" /\ ResetAll(c)

AgentsSpec == AgentsInit /\ [][AgentsNext]_agentVars

-----------------------------------------------------------------------------
Lives == {"new", "live", "closing", "cleared", "dead"}

AgentsTypeOK ==
    /\ agent_kinds \in 0 .. MaxKinds /\ free_ids \in Seq(Ids)
    /\ life \in [Combiners -> Lives]
    /\ id \in [Combiners -> Ids]
    /\ agents \in [Combiners -> SUBSET Threads]
    /\ global_result \in [Combiners -> SUBSET Values]
    /\ tls_blocks \in [Threads -> SUBSET {BlockOf(i) : i \in Ids}]
    /\ combiner \in [Threads -> [Ids -> Combiners \cup {NoCombiner}]]
    /\ element \in [Threads -> [Ids -> SUBSET Values]]
    /\ pc \in [Threads -> {"idle", "append", "modify", "exit", "commit"}]
    /\ arg \in [Threads -> Combiners \cup {NoCombiner}]
    /\ val \in [Threads -> Values \cup {NoValue}]
    /\ undone \in [Threads -> SUBSET Ids] /\ at \in [Threads -> Ids]
    /\ streamed \in [Values -> Combiners \cup {NoCombiner}]

HasId(c) == life[c] \in {"live", "closing", "cleared"}

(* No two combiners have one id at a time, and no id is both in use and    *)
(* free, though ids are given back by owners in any order.                 *)
IdsDistinct ==
    /\ \A c, d \in Combiners : HasId(c) /\ HasId(d) /\ id[c] = id[d] => c = d
    /\ \A c \in Combiners : HasId(c) => id[c] \notin ToSet(free_ids)
    /\ IsInjective(free_ids)

(* An agent names the combiner that has its id now, and is linked there or *)
(* about to be: it never names a combiner that has cleared its agents,     *)
(* whose id may be another's.  get_or_create_tls_agent relies on it when   *)
(* it takes an agent that names any combiner for one that names this.      *)
NamesItsCombiner ==
    \A t \in Threads, i \in Ids :
        LET c == combiner[t][i] IN
        c # NoCombiner =>
            /\ life[c] \in {"live", "closing"} /\ id[c] = i
            /\ t \in agents[c] \/ (pc[t] = "append" /\ arg[t] = c)

(* What is linked exists and names the list it is in: a walk over agents_  *)
(* touches no agent of a deleted block, whenever threads end.              *)
LinkedAgentsExist ==
    \A c \in Combiners : \A t \in agents[c] :
        /\ combiner[t][id[c]] = c
        /\ BlockOf(id[c]) \in tls_blocks[t]

(* A combiner holds what was streamed into it and not taken since, and     *)
(* nothing else: nothing of the combiner that had its id before, and       *)
(* everything of the threads that have ended.                              *)
HoldsItsOwn ==
    \A c \in Combiners :
        life[c] \in {"live", "closing"} =>
            {v \in Values : streamed[v] = c} =
                global_result[c] \cup UNION {element[t][id[c]] : t \in agents[c]}

(* "agent->combiner" read by ~Agent is the combiner's still when it        *)
(* commits.  A thread may end while the combiner is destroyed.             *)
ExitInTime ==
    \A t \in Threads : pc[t] = "commit" => life[arg[t]] # "dead"
=============================================================================
