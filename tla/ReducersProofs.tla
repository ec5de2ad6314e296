--------------------------- MODULE ReducersProofs ---------------------------
(***************************************************************************)
(* Proofs about reducers from their construction to their end, for any     *)
(* number of threads, combiners, values, and agents to a block.  Combiners,*)
(* their ids and the agents of threads come first: every step of           *)
(* AgentGroup keeps AgentsInv.  The composition follows, where the sampling*)
(* thread resets reducers that nobody has begun to destroy.  The last two  *)
(* parts are about what a sampler keeps of its reducer: a ring of samples, *)
(* for any capacity and width of its sums, and a window, for any bound on  *)
(* windows.                                                                *)
(***************************************************************************)
EXTENDS Reducers, BoundedQueue, ReducerSampler, SequenceTheorems,
        WellFoundedInduction, TLAPS

(* A combiner that can be asked for what it holds. *)
Open(c) == life[c] \in {"live", "closing"}

(* Ids in use, and free ones, have been given out before. *)
IdsBelow ==
    /\ \A c \in Combiners : HasId(c) => id[c] < agent_kinds
    /\ \A i \in ToSet(free_ids) : i < agent_kinds

(* A combiner that is not open links and holds nothing. *)
ClosedIsEmpty ==
    /\ \A c \in Combiners : ~Open(c) => agents[c] = {}
    /\ \A c \in Combiners : life[c] = "new" => global_result[c] = {}
    /\ \A v \in Values : streamed[v] # NoCombiner => Open(streamed[v])

(* operator<< is at work on an agent of a live combiner. *)
Streaming ==
    \A t \in Threads :
        pc[t] \in {"append", "modify"} =>
            /\ arg[t] \in Combiners /\ life[arg[t]] = "live"
            /\ val[t] \in Values
            /\ combiner[t][id[arg[t]]] = arg[t]
            /\ pc[t] = "append" =>
                   element[t][id[arg[t]]] = {} /\ t \notin agents[arg[t]]

(* A value is streamed once, and by one thread at a time. *)
ValuesOnce ==
    /\ \A t \in Threads : val[t] \in Values => streamed[val[t]] = NoCombiner
    /\ \A t, u \in Threads : t # u /\ val[t] = val[u] => val[t] = NoValue

(* The agent of a block that a thread does not have names no combiner. *)
BlocksExist ==
    \A t \in Threads, i \in Ids :
        combiner[t][i] # NoCombiner => BlockOf(i) \in tls_blocks[t]

(* What a thread that ends has left to destroy is all there is. *)
EndsAs(t) ==
    /\ pc[t] \in {"exit", "commit"} =>
          /\ tls_blocks[t] = {BlockOf(i) : i \in undone[t]}
          /\ \A i \in Ids \ undone[t] : combiner[t][i] = NoCombiner
    /\ pc[t] = "commit" =>
          /\ arg[t] \in Combiners /\ life[arg[t]] # "new"
          /\ id[arg[t]] = at[t] /\ at[t] \in undone[t]
          /\ combiner[t][at[t]] \in {arg[t], NoCombiner}
          /\ Open(arg[t]) => combiner[t][at[t]] = arg[t]

Ending == \A t \in Threads : EndsAs(t)

AgentsInv ==
    /\ AgentsTypeOK /\ IdsDistinct /\ IdsBelow
    /\ NamesItsCombiner /\ LinkedAgentsExist /\ HoldsItsOwn
    /\ ClosedIsEmpty /\ Streaming /\ ValuesOnce /\ BlocksExist /\ Ending

-----------------------------------------------------------------------------
(* free_ids_ as a stack: what is left of it, and what is put on it. *)
LEMMA FrontOf ==
    ASSUME NEW S, NEW s \in Seq(S), s # << >>
    PROVE  /\ Front(s) \in Seq(S) /\ Last(s) \in S /\ Last(s) \in ToSet(s)
           /\ ToSet(Front(s)) \subseteq ToSet(s)
           /\ IsInjective(s) => /\ IsInjective(Front(s))
                                /\ Last(s) \notin ToSet(Front(s))
<1>1. Len(s) \in Nat \ {0} /\ DOMAIN s = 1 .. Len(s)
  OBVIOUS
<1>2. /\ Front(s) = SubSeq(s, 1, Len(s) - 1) /\ Front(s) \in Seq(S)
      /\ DOMAIN Front(s) = 1 .. (Len(s) - 1)
      /\ \A i \in 1 .. (Len(s) - 1) : Front(s)[i] = s[i]
  BY <1>1 DEF Front
<1>3. Last(s) = s[Len(s)] /\ Last(s) \in S
  BY <1>1 DEF Last
<1> QED
  BY <1>1, <1>2, <1>3 DEF ToSet, IsInjective

LEMMA AppendOf ==
    ASSUME NEW S, NEW s \in Seq(S), NEW x \in S
    PROVE  /\ Append(s, x) \in Seq(S)
           /\ ToSet(Append(s, x)) = ToSet(s) \cup {x}
           /\ IsInjective(s) /\ x \notin ToSet(s) => IsInjective(Append(s, x))
<1>1. /\ Append(s, x) \in Seq(S) /\ Len(s) \in Nat
      /\ DOMAIN s = 1 .. Len(s)
      /\ DOMAIN Append(s, x) = 1 .. (Len(s) + 1)
      /\ \A i \in 1 .. Len(s) : Append(s, x)[i] = s[i]
      /\ Append(s, x)[Len(s) + 1] = x
  OBVIOUS
<1>2. \A i \in 1 .. (Len(s) + 1) : i \in 1 .. Len(s) \/ i = Len(s) + 1
  BY <1>1
<1> QED
  BY <1>1, <1>2 DEF ToSet, IsInjective

LEMMA InitAgents == AgentsInit => AgentsInv
<1> SUFFICES ASSUME AgentsInit PROVE AgentsInv
  OBVIOUS
<1> USE BlocksAssumption, CombinersAssumption, ValuesAssumption DEF AgentsInit
<1>1. AgentsTypeOK
  BY DEF AgentsTypeOK, Lives, Ids
<1>2. IdsDistinct /\ IdsBelow
  BY DEF IdsDistinct, IdsBelow, HasId, ToSet, IsInjective
<1>3. NamesItsCombiner /\ LinkedAgentsExist /\ BlocksExist
  BY DEF NamesItsCombiner, LinkedAgentsExist, BlocksExist
<1>4. HoldsItsOwn /\ ClosedIsEmpty
  BY DEF HoldsItsOwn, ClosedIsEmpty, Open
<1>5. Streaming /\ ValuesOnce /\ Ending
  BY DEF Streaming, ValuesOnce, Ending, EndsAs
<1> QED
  BY <1>1, <1>2, <1>3, <1>4, <1>5 DEF AgentsInv

-----------------------------------------------------------------------------
LEMMA ConstructKeeps ==
    ASSUME AgentsInv, NEW c \in Combiners, Construct(c)
    PROVE  AgentsInv'
<1> USE CombinersAssumption
<1>1. /\ UNCHANGED <<agents, global_result, tls_blocks, combiner, element, pc, arg,
                     val, undone, at, streamed>>
      /\ life[c] = "new" /\ life' = [life EXCEPT ![c] = "live"]
      /\ id \in [Combiners -> Ids] /\ life \in [Combiners -> Lives]
  BY DEF Construct, AgentsInv, AgentsTypeOK
<1>2. PICK i \in Ids :
          /\ id' = [id EXCEPT ![c] = i] /\ i < agent_kinds'
          /\ agent_kinds' \in 0 .. MaxKinds /\ agent_kinds <= agent_kinds'
          /\ free_ids' \in Seq(Ids)
          /\ ToSet(free_ids') \subseteq ToSet(free_ids) \ {i}
          /\ IsInjective(free_ids')
          /\ \A d \in Combiners : HasId(d) => id[d] # i
  <2>1. CASE free_ids # << >>
    <3>1. /\ id' = [id EXCEPT ![c] = Last(free_ids)]
          /\ free_ids' = Front(free_ids) /\ agent_kinds' = agent_kinds
      BY <2>1 DEF Construct
    <3>2. free_ids \in Seq(Ids) /\ IsInjective(free_ids)
          /\ agent_kinds \in 0 .. MaxKinds
      BY DEF AgentsInv, AgentsTypeOK, IdsDistinct
    <3>3. /\ Front(free_ids) \in Seq(Ids) /\ Last(free_ids) \in Ids
          /\ Last(free_ids) \in ToSet(free_ids)
          /\ ToSet(Front(free_ids)) \subseteq ToSet(free_ids)
          /\ IsInjective(Front(free_ids))
          /\ Last(free_ids) \notin ToSet(Front(free_ids))
      BY <2>1, <3>2, FrontOf
    <3>4. Last(free_ids) < agent_kinds
          /\ \A d \in Combiners : HasId(d) => id[d] # Last(free_ids)
      BY <3>3 DEF AgentsInv, IdsBelow, IdsDistinct
    <3>5. agent_kinds <= agent_kinds
      BY <3>2
    <3> QED
      BY <3>1, <3>2, <3>3, <3>4, <3>5
  <2>2. CASE free_ids = << >>
    <3>1. agent_kinds \in Ids /\ agent_kinds' = agent_kinds + 1
          /\ agent_kinds' \in 0 .. MaxKinds /\ id' = [id EXCEPT ![c] = agent_kinds]
          /\ free_ids' = free_ids
      BY <2>2, BlocksAssumption DEF Construct, AgentsInv, AgentsTypeOK, Ids
    <3>2. ToSet(free_ids) = {} /\ free_ids \in Seq(Ids) /\ IsInjective(free_ids)
      BY <2>2 DEF ToSet, AgentsInv, AgentsTypeOK, IdsDistinct
    <3>3. \A d \in Combiners : HasId(d) => id[d] # agent_kinds
      BY <1>1, <3>1 DEF AgentsInv, IdsBelow, Ids
    <3>4. agent_kinds < agent_kinds + 1 /\ agent_kinds <= agent_kinds + 1
      BY <3>1 DEF Ids
    <3> QED
      BY <3>1, <3>2, <3>3, <3>4
  <2> QED
    BY <2>1, <2>2
<1>3. /\ \A d \in Combiners \ {c} : id'[d] = id[d] /\ life'[d] = life[d]
      /\ id'[c] = i /\ life'[c] = "live"
  BY <1>1, <1>2
<1>4. AgentsTypeOK'
  BY <1>1, <1>2 DEF AgentsInv, AgentsTypeOK, Lives
<1>5. (IdsDistinct /\ IdsBelow)'
  <2>1. \A d \in Combiners \ {c} : HasId(d)' <=> HasId(d)
    BY <1>3 DEF HasId
  <2>2. IdsDistinct /\ IdsBelow /\ agent_kinds \in Nat
    BY DEF AgentsInv, AgentsTypeOK
  <2>3. IdsDistinct'
    BY <1>2, <1>3, <2>1, <2>2 DEF IdsDistinct
  <2>4. \A j \in Ids : j < agent_kinds => j < agent_kinds'
    BY <1>2, <2>2 DEF Ids
  <2>5. ASSUME NEW j \in ToSet(free_ids') PROVE j < agent_kinds'
    <3>1. j \in ToSet(free_ids) /\ j \in Ids
      BY <1>2 DEF ToSet
    <3> QED
      BY <2>2, <2>4, <3>1 DEF IdsBelow
  <2>6. IdsBelow'
    BY <1>1, <1>2, <1>3, <2>1, <2>2, <2>4, <2>5 DEF IdsBelow
  <2> QED
    BY <2>3, <2>6
<1>6. agents[c] = {} /\ global_result[c] = {} /\ \A v \in Values : streamed[v] # c
  BY <1>1 DEF AgentsInv, ClosedIsEmpty, Open
<1>7. (NamesItsCombiner /\ LinkedAgentsExist)'
  <2>1. \A t \in Threads, j \in Ids : combiner[t][j] # c
                                       /\ combiner[t][j] \in Combiners \cup {NoCombiner}
    BY <1>1 DEF AgentsInv, AgentsTypeOK, NamesItsCombiner
  <2>2. NamesItsCombiner'
    BY <1>1, <1>3, <2>1 DEF AgentsInv, NamesItsCombiner
  <2>3. LinkedAgentsExist'
    BY <1>1, <1>3, <1>6 DEF AgentsInv, LinkedAgentsExist
  <2> QED
    BY <2>2, <2>3
<1>8. HoldsItsOwn'
  BY <1>1, <1>3, <1>6 DEF AgentsInv, HoldsItsOwn
<1>9. (ClosedIsEmpty /\ Streaming /\ ValuesOnce /\ BlocksExist /\ Ending)'
  BY <1>1, <1>3, <1>6
  DEF AgentsInv, AgentsTypeOK, ClosedIsEmpty, Streaming, ValuesOnce, BlocksExist,
      Ending, EndsAs, Open
<1> QED
  BY <1>4, <1>5, <1>7, <1>8, <1>9 DEF AgentsInv

(* Ids are in order as long as none is given out or back. *)
LEMMA IdsKept ==
    ASSUME AgentsInv, UNCHANGED <<agent_kinds, free_ids, id>>,
           \A c \in Combiners : HasId(c)' => HasId(c)
    PROVE  (IdsDistinct /\ IdsBelow)'
BY DEF AgentsInv, IdsDistinct, IdsBelow

(* What others do does not disturb a thread that ends. *)
LEMMA EndingKept ==
    ASSUME AgentsInv, NEW t \in Threads, UNCHANGED <<life, id>>,
           pc'[t] = pc[t], arg'[t] = arg[t], at'[t] = at[t],
           tls_blocks'[t] = tls_blocks[t], undone'[t] = undone[t],
           \A i \in Ids : combiner'[t][i] = combiner[t][i]
    PROVE  EndsAs(t)'
<1>1. EndsAs(t) /\ at[t] \in Ids
  BY DEF AgentsInv, AgentsTypeOK, Ending
<1> QED
  BY <1>1 DEF EndsAs, Open

LEMMA CloseKeeps ==
    ASSUME AgentsInv, NEW c \in Combiners, Close(c)
    PROVE  AgentsInv'
<1> USE CombinersAssumption
<1>1. /\ UNCHANGED <<agent_kinds, free_ids, id, agents, global_result, tls_blocks,
                     combiner, element, pc, arg, val, undone, at, streamed>>
      /\ life[c] = "live" /\ life' = [life EXCEPT ![c] = "closing"]
      /\ life \in [Combiners -> Lives]
      /\ \A t \in Threads : pc[t] \in {"append", "modify"} => arg[t] # c
  BY DEF Close, InUse, AgentsInv, AgentsTypeOK
<1>2. \A d \in Combiners \ {c} : life'[d] = life[d]
  BY <1>1
<1>3. life'[c] = "closing"
  BY <1>1
<1>4. \A d \in Combiners : (Open(d)' <=> Open(d)) /\ (HasId(d)' <=> HasId(d))
  BY <1>1, <1>2, <1>3 DEF Open, HasId
<1>5. AgentsTypeOK'
  BY <1>1 DEF AgentsInv, AgentsTypeOK, Lives
<1>6. (IdsDistinct /\ IdsBelow)'
  BY <1>1, <1>4, IdsKept
<1>7. NamesItsCombiner'
  <2>1. \A t \in Threads, i \in Ids : combiner[t][i] \in Combiners \cup {NoCombiner}
    BY DEF AgentsInv, AgentsTypeOK
  <2> QED
    BY <1>1, <1>2, <1>3, <2>1 DEF AgentsInv, NamesItsCombiner
<1>8. LinkedAgentsExist' /\ BlocksExist' /\ ValuesOnce'
  BY <1>1 DEF AgentsInv, LinkedAgentsExist, BlocksExist, ValuesOnce
<1>9. HoldsItsOwn'
  BY <1>1, <1>4 DEF AgentsInv, HoldsItsOwn, Open
<1>10. ClosedIsEmpty'
  <2>1. \A v \in Values : streamed[v] \in Combiners \cup {NoCombiner}
    BY DEF AgentsInv, AgentsTypeOK
  <2> QED
    BY <1>1, <1>2, <1>3, <1>4, <2>1 DEF AgentsInv, ClosedIsEmpty
<1>11. Streaming'
  BY <1>1, <1>2 DEF AgentsInv, Streaming
<1>12. Ending'
  BY <1>1, <1>2, <1>3, <1>4 DEF AgentsInv, Ending, EndsAs
<1> QED
  BY <1>5, <1>6, <1>7, <1>8, <1>9, <1>10, <1>11, <1>12 DEF AgentsInv

LEMMA DestroyAgentKeeps ==
    ASSUME AgentsInv, NEW c \in Combiners, DestroyAgent(c)
    PROVE  AgentsInv'
<1> USE CombinersAssumption
<1>1. /\ UNCHANGED <<agent_kinds, id, agents, global_result, tls_blocks, combiner,
                     element, pc, arg, val, undone, at, streamed>>
      /\ life[c] = "cleared" /\ life' = [life EXCEPT ![c] = "dead"]
      /\ life \in [Combiners -> Lives] /\ id \in [Combiners -> Ids]
      /\ free_ids \in Seq(Ids) /\ free_ids' = Append(free_ids, id[c])
  BY DEF DestroyAgent, AgentsInv, AgentsTypeOK
<1>2. \A d \in Combiners \ {c} : life'[d] = life[d]
  BY <1>1
<1>3. life'[c] = "dead"
  BY <1>1
<1>4. /\ \A d \in Combiners : Open(d)' <=> Open(d)
      /\ \A d \in Combiners : HasId(d)' => HasId(d) /\ d # c
      /\ HasId(c)
  BY <1>1, <1>2, <1>3 DEF Open, HasId
<1>5. /\ free_ids' \in Seq(Ids) /\ ToSet(free_ids') = ToSet(free_ids) \cup {id[c]}
      /\ IsInjective(free_ids) /\ id[c] \notin ToSet(free_ids) =>
             IsInjective(free_ids')
  BY <1>1, AppendOf
<1>6. AgentsTypeOK'
  BY <1>1, <1>5 DEF AgentsInv, AgentsTypeOK, Lives
<1>7. IdsDistinct' /\ IdsBelow'
  BY <1>1, <1>4, <1>5 DEF AgentsInv, IdsDistinct, IdsBelow
<1>8. NamesItsCombiner'
  <2>1. \A t \in Threads, i \in Ids : combiner[t][i] \in Combiners \cup {NoCombiner}
    BY DEF AgentsInv, AgentsTypeOK
  <2> QED
    BY <1>1, <1>2, <2>1 DEF AgentsInv, NamesItsCombiner
<1>9. LinkedAgentsExist' /\ BlocksExist' /\ ValuesOnce'
  BY <1>1 DEF AgentsInv, LinkedAgentsExist, BlocksExist, ValuesOnce
<1>10. HoldsItsOwn'
  BY <1>1, <1>4 DEF AgentsInv, HoldsItsOwn, Open
<1>11. ClosedIsEmpty'
  <2>1. \A v \in Values : streamed[v] \in Combiners \cup {NoCombiner}
    BY DEF AgentsInv, AgentsTypeOK
  <2> QED
    BY <1>1, <1>2, <1>3, <1>4, <2>1 DEF AgentsInv, ClosedIsEmpty
<1>12. Streaming'
  BY <1>1, <1>2 DEF AgentsInv, Streaming
<1>13. Ending'
  BY <1>1, <1>2, <1>3, <1>4 DEF AgentsInv, Ending, EndsAs
<1> QED
  BY <1>6, <1>7, <1>8, <1>9, <1>10, <1>11, <1>12, <1>13 DEF AgentsInv

LEMMA ResetAllKeeps ==
    ASSUME AgentsInv, NEW c \in Combiners, Open(c), ResetAll(c)
    PROVE  AgentsInv'
<1> USE CombinersAssumption
<1>1. /\ UNCHANGED <<agent_kinds, free_ids, life, id, agents, tls_blocks, combiner,
                     pc, arg, val, undone, at>>
      /\ global_result' = [global_result EXCEPT ![c] = {}]
      /\ element' = [t \in Threads |->
                        IF t \in agents[c] THEN [element[t] EXCEPT ![id[c]] = {}]
                                           ELSE element[t]]
      /\ streamed' = [v \in Values |-> IF streamed[v] = c THEN NoCombiner
                                                          ELSE streamed[v]]
  BY DEF ResetAll, Forget, idVars
<1>2. /\ element \in [Threads -> [Ids -> SUBSET Values]] /\ id \in [Combiners -> Ids]
      /\ global_result \in [Combiners -> SUBSET Values]
      /\ streamed \in [Values -> Combiners \cup {NoCombiner}]
  BY DEF AgentsInv, AgentsTypeOK
<1>3. \A t \in Threads, i \in Ids :
         element'[t][i] = IF t \in agents[c] /\ i = id[c] THEN {} ELSE element[t][i]
  BY <1>1, <1>2
<1>4. AgentsTypeOK'
  <2>1. element' \in [Threads -> [Ids -> SUBSET Values]]
    BY <1>1, <1>2, Zenon
  <2>2. /\ global_result' \in [Combiners -> SUBSET Values]
        /\ streamed' \in [Values -> Combiners \cup {NoCombiner}]
    BY <1>1, <1>2
  <2> QED
    BY <1>1, <2>1, <2>2 DEF AgentsInv, AgentsTypeOK
<1>5. (IdsDistinct /\ IdsBelow)'
  BY <1>1, IdsKept DEF HasId
<1>6. (NamesItsCombiner /\ LinkedAgentsExist /\ BlocksExist /\ Ending)'
  BY <1>1
  DEF AgentsInv, NamesItsCombiner, LinkedAgentsExist, BlocksExist, Ending, EndsAs,
      Open
<1>7. HoldsItsOwn'
  <2> SUFFICES ASSUME NEW d \in Combiners, Open(d)'
               PROVE  {v \in Values : streamed'[v] = d} = global_result'[d] \cup
                          UNION {element'[t][id'[d]] : t \in agents'[d]}
    BY DEF HoldsItsOwn, Open
  <2>0. Open(d) /\ id'[d] = id[d] /\ agents'[d] = agents[d]
    BY <1>1 DEF Open
  <2>1. {v \in Values : streamed[v] = d} =
            global_result[d] \cup UNION {element[t][id[d]] : t \in agents[d]}
    BY <2>0 DEF AgentsInv, HoldsItsOwn, Open
  <2>2. agents[d] \subseteq Threads /\ id[d] \in Ids
    BY <1>2 DEF AgentsInv, AgentsTypeOK
  <2>3. CASE d = c
    <3>1. \A t \in agents[d] : element'[t][id[d]] = {}
      BY <1>3, <2>2, <2>3
    <3>2. global_result'[d] = {} /\ \A v \in Values : streamed'[v] # d
      BY <1>1, <1>2, <2>3
    <3> QED
      BY <2>0, <3>1, <3>2
  <2>4. CASE d # c
    <3>1. id[d] # id[c]
      BY <2>0, <2>4 DEF AgentsInv, IdsDistinct, HasId, Open
    <3>2. \A t \in agents[d] : element'[t][id[d]] = element[t][id[d]]
      BY <1>3, <2>2, <3>1
    <3>3. global_result'[d] = global_result[d]
          /\ \A v \in Values : streamed'[v] = d <=> streamed[v] = d
      BY <1>1, <1>2, <2>4
    <3> QED
      BY <2>0, <2>1, <3>2, <3>3
  <2> QED
    BY <2>3, <2>4
<1>8. ClosedIsEmpty'
  BY <1>1, <1>2 DEF AgentsInv, ClosedIsEmpty, Open
<1>9. Streaming'
  <2>1. \A t \in Threads : pc[t] \in {"append", "modify"} => id[arg[t]] \in Ids
    BY <1>2 DEF AgentsInv, Streaming
  <2> QED
    BY <1>1, <1>3, <2>1 DEF AgentsInv, Streaming
<1>10. ValuesOnce'
  BY <1>1, <1>2 DEF AgentsInv, ValuesOnce
<1> QED
  BY <1>4, <1>5, <1>6, <1>7, <1>8, <1>9, <1>10 DEF AgentsInv

LEMMA ClearAllAgentsKeeps ==
    ASSUME AgentsInv, NEW c \in Combiners, ClearAllAgents(c)
    PROVE  AgentsInv'
<1> USE CombinersAssumption
<1>1. /\ UNCHANGED <<agent_kinds, free_ids, id, global_result, tls_blocks, pc, arg,
                     val, undone, at>>
      /\ life[c] = "closing" /\ life' = [life EXCEPT ![c] = "cleared"]
      /\ agents' = [agents EXCEPT ![c] = {}]
      /\ combiner' = [t \in Threads |->
                         IF t \in agents[c]
                         THEN [combiner[t] EXCEPT ![id[c]] = NoCombiner]
                         ELSE combiner[t]]
      /\ element' = [t \in Threads |->
                        IF t \in agents[c] THEN [element[t] EXCEPT ![id[c]] = {}]
                                           ELSE element[t]]
      /\ streamed' = [v \in Values |-> IF streamed[v] = c THEN NoCombiner
                                                          ELSE streamed[v]]
  BY DEF ClearAllAgents, Forget
<1>2. /\ element \in [Threads -> [Ids -> SUBSET Values]] /\ id \in [Combiners -> Ids]
      /\ combiner \in [Threads -> [Ids -> Combiners \cup {NoCombiner}]]
      /\ agents \in [Combiners -> SUBSET Threads]
      /\ life \in [Combiners -> Lives]
      /\ streamed \in [Values -> Combiners \cup {NoCombiner}]
  BY DEF AgentsInv, AgentsTypeOK
<1>3. /\ \A t \in Threads, i \in Ids :
            element'[t][i] = IF t \in agents[c] /\ i = id[c] THEN {}
                                                             ELSE element[t][i]
      /\ \A t \in Threads, i \in Ids :
            combiner'[t][i] = IF t \in agents[c] /\ i = id[c] THEN NoCombiner
                                                              ELSE combiner[t][i]
  BY <1>1, <1>2
<1>4. /\ \A d \in Combiners \ {c} : life'[d] = life[d] /\ agents'[d] = agents[d]
      /\ life'[c] = "cleared" /\ agents'[c] = {}
  BY <1>1, <1>2
<1>5. /\ \A d \in Combiners : Open(d)' <=> Open(d) /\ d # c
      /\ \A d \in Combiners : HasId(d)' <=> HasId(d)
      /\ HasId(c)
  BY <1>1, <1>4 DEF Open, HasId
<1>6. ASSUME NEW t \in Threads, NEW i \in Ids, combiner'[t][i] # NoCombiner
      PROVE  /\ combiner'[t][i] = combiner[t][i]
             /\ combiner'[t][i] \in Combiners \ {c}
  <2>1. combiner'[t][i] = combiner[t][i] /\ ~(t \in agents[c] /\ i = id[c])
    BY <1>3, <1>6
  <2>2. ASSUME combiner[t][i] = c PROVE FALSE
    <3>1. id[c] = i /\ (t \in agents[c] \/ (pc[t] = "append" /\ arg[t] = c))
      BY <2>2 DEF AgentsInv, NamesItsCombiner
    <3>2. pc[t] = "append" /\ arg[t] = c
      BY <2>1, <3>1
    <3> QED
      BY <1>1, <3>2 DEF AgentsInv, Streaming
  <2> QED
    BY <1>2, <1>6, <2>1, <2>2
<1>7. AgentsTypeOK'
  <2>1. element' \in [Threads -> [Ids -> SUBSET Values]]
    BY <1>1, <1>2, Zenon
  <2>2. combiner' \in [Threads -> [Ids -> Combiners \cup {NoCombiner}]]
    BY <1>1, <1>2, Zenon
  <2>3. /\ streamed' \in [Values -> Combiners \cup {NoCombiner}]
        /\ agents' \in [Combiners -> SUBSET Threads]
        /\ life' \in [Combiners -> Lives]
    BY <1>1, <1>2 DEF Lives
  <2> QED
    BY <1>1, <2>1, <2>2, <2>3 DEF AgentsInv, AgentsTypeOK
<1>8. (IdsDistinct /\ IdsBelow)'
  BY <1>1, <1>5, IdsKept
<1>9. NamesItsCombiner'
  BY <1>1, <1>4, <1>6 DEF AgentsInv, NamesItsCombiner
<1>10. LinkedAgentsExist'
  <2> SUFFICES ASSUME NEW d \in Combiners, NEW t \in agents'[d]
               PROVE  combiner'[t][id[d]] = d /\ BlockOf(id[d]) \in tls_blocks[t]
    BY <1>1 DEF LinkedAgentsExist
  <2>1. d # c /\ t \in agents[d] /\ t \in Threads
    BY <1>2, <1>4
  <2>2. combiner[t][id[d]] = d /\ BlockOf(id[d]) \in tls_blocks[t] /\ id[d] \in Ids
    BY <1>2, <2>1 DEF AgentsInv, LinkedAgentsExist
  <2>3. ~(t \in agents[c] /\ id[d] = id[c])
    BY <2>1, <2>2 DEF AgentsInv, LinkedAgentsExist
  <2> QED
    BY <1>3, <2>1, <2>2, <2>3
<1>11. HoldsItsOwn'
  <2> SUFFICES ASSUME NEW d \in Combiners, Open(d)'
               PROVE  {v \in Values : streamed'[v] = d} = global_result'[d] \cup
                          UNION {element'[t][id'[d]] : t \in agents'[d]}
    BY DEF HoldsItsOwn, Open
  <2>1. /\ d # c /\ Open(d) /\ life[d] = life'[d] /\ agents'[d] = agents[d]
        /\ id'[d] = id[d] /\ global_result'[d] = global_result[d]
    BY <1>1, <1>4, <1>5
  <2>2. {v \in Values : streamed[v] = d} =
            global_result[d] \cup UNION {element[t][id[d]] : t \in agents[d]}
    BY <2>1 DEF AgentsInv, HoldsItsOwn, Open
  <2>3. agents[d] \subseteq Threads /\ id[d] \in Ids
    BY <1>2
  <2>4. id[d] # id[c]
    BY <1>5, <2>1 DEF AgentsInv, IdsDistinct, HasId, Open
  <2>5. \A t \in agents[d] : element'[t][id[d]] = element[t][id[d]]
    BY <1>3, <2>3, <2>4
  <2>6. \A v \in Values : streamed'[v] = d <=> streamed[v] = d
    BY <1>1, <1>2, <2>1
  <2> QED
    BY <2>1, <2>2, <2>5, <2>6
<1>12. ClosedIsEmpty'
  <2>1. \A d \in Combiners : ~Open(d)' => agents'[d] = {}
    BY <1>4, <1>5 DEF AgentsInv, ClosedIsEmpty
  <2>2. \A d \in Combiners : life'[d] = "new" => global_result'[d] = {}
    BY <1>1, <1>4 DEF AgentsInv, ClosedIsEmpty
  <2>3. ASSUME NEW v \in Values, streamed'[v] # NoCombiner PROVE Open(streamed[v])'
    <3>1. streamed'[v] = streamed[v] /\ streamed[v] \in Combiners \ {c}
      BY <1>1, <1>2, <2>3
    <3>2. Open(streamed[v]) 
      BY <2>3, <3>1 DEF AgentsInv, ClosedIsEmpty
    <3> QED
      BY <1>4, <3>1, <3>2 DEF Open
  <2> QED
    BY <2>1, <2>2, <2>3 DEF ClosedIsEmpty
<1>13. Streaming'
  <2> SUFFICES ASSUME NEW t \in Threads, pc[t] \in {"append", "modify"}
               PROVE  /\ arg[t] \in Combiners /\ life'[arg[t]] = "live"
                      /\ val[t] \in Values
                      /\ combiner'[t][id[arg[t]]] = arg[t]
                      /\ pc[t] = "append" =>
                             /\ element'[t][id[arg[t]]] = {}
                             /\ t \notin agents'[arg[t]]
    BY <1>1 DEF Streaming
  <2>1. /\ arg[t] \in Combiners /\ life[arg[t]] = "live" /\ val[t] \in Values
        /\ combiner[t][id[arg[t]]] = arg[t]
        /\ pc[t] = "append" =>
               element[t][id[arg[t]]] = {} /\ t \notin agents[arg[t]]
    BY DEF AgentsInv, Streaming
  <2>2. arg[t] # c /\ id[arg[t]] # id[c] /\ id[arg[t]] \in Ids
    BY <1>1, <1>2, <2>1 DEF AgentsInv, IdsDistinct, HasId
  <2> QED
    BY <1>3, <1>4, <2>1, <2>2
<1>14. ValuesOnce'
  BY <1>1, <1>2 DEF AgentsInv, ValuesOnce
<1>15. BlocksExist'
  BY <1>1, <1>6 DEF AgentsInv, BlocksExist
<1>16. Ending'
  <2>1. \A t \in Threads, i \in Ids :
           combiner[t][i] = NoCombiner => combiner'[t][i] = NoCombiner
    BY <1>3
  <2>2. ASSUME NEW t \in Threads, pc[t] = "commit", Open(arg[t])', arg[t] \in Combiners
        PROVE  combiner'[t][at[t]] = arg[t]
    <3>1. Open(arg[t]) /\ arg[t] # c
      BY <1>1, <1>4, <1>5, <2>2 DEF Open
    <3>2. combiner[t][at[t]] = arg[t] /\ id[arg[t]] = at[t] /\ at[t] \in Ids
      BY <1>2, <2>2, <3>1 DEF AgentsInv, Ending, EndsAs
    <3>3. id[arg[t]] # id[c]
      BY <1>5, <2>2, <3>1 DEF AgentsInv, IdsDistinct, HasId, Open
    <3> QED
      BY <1>3, <3>2, <3>3
  <2>3. \A d \in Combiners : life[d] # "new" => life'[d] # "new"
    BY <1>4
  <2> QED
    BY <1>1, <2>1, <2>2, <2>3 DEF AgentsInv, Ending, EndsAs
<1> QED
  BY <1>7, <1>8, <1>9, <1>10, <1>11, <1>12, <1>13, <1>14, <1>15, <1>16 DEF AgentsInv

-----------------------------------------------------------------------------
(* operator<< finds the agent attached, and to its own combiner at that,   *)
(* or attaches it with an empty element.                                   *)
LEMMA StreamKeeps ==
    ASSUME AgentsInv, NEW t \in Threads, NEW c \in Combiners, NEW v \in Values,
           Stream(t, c, v)
    PROVE  AgentsInv'
<1> USE CombinersAssumption, ValuesAssumption
<1>0. PICK i \in Ids : id[c] = i
  BY DEF AgentsInv, AgentsTypeOK
<1>1. /\ UNCHANGED <<agent_kinds, free_ids, life, id, agents, global_result,
                     undone, at, streamed>>
      /\ pc[t] = "idle" /\ life[c] = "live"
      /\ streamed[v] = NoCombiner /\ \A u \in Threads : val[u] # v
      /\ arg' = [arg EXCEPT ![t] = c] /\ val' = [val EXCEPT ![t] = v]
      /\ tls_blocks' = [tls_blocks EXCEPT ![t] = @ \cup {BlockOf(i)}]
  BY <1>0 DEF Stream, idVars
<1>2. /\ combiner \in [Threads -> [Ids -> Combiners \cup {NoCombiner}]]
      /\ element \in [Threads -> [Ids -> SUBSET Values]]
      /\ pc \in [Threads -> {"idle", "append", "modify", "exit", "commit"}]
      /\ arg \in [Threads -> Combiners \cup {NoCombiner}]
      /\ val \in [Threads -> Values \cup {NoValue}]
      /\ tls_blocks \in [Threads -> SUBSET {BlockOf(j) : j \in Ids}]
      /\ id \in [Combiners -> Ids] /\ agents \in [Combiners -> SUBSET Threads]
  BY DEF AgentsInv, AgentsTypeOK
<1>3. combiner[t][i] # NoCombiner => combiner[t][i] = c /\ t \in agents[c]
  <2> SUFFICES ASSUME combiner[t][i] # NoCombiner
               PROVE  combiner[t][i] = c /\ t \in agents[c]
    OBVIOUS
  <2>1. PICK d \in Combiners : combiner[t][i] = d
    BY <1>2
  <2>2. HasId(d) /\ id[d] = i /\ t \in agents[d]
    BY <1>1, <2>1 DEF AgentsInv, NamesItsCombiner, HasId
  <2> QED
    BY <1>0, <1>1, <2>1, <2>2 DEF AgentsInv, IdsDistinct, HasId
<1>4. /\ combiner'[t][i] = c
      /\ pc'[t] = IF combiner[t][i] = NoCombiner THEN "append" ELSE "modify"
      /\ element'[t][i] = IF combiner[t][i] = NoCombiner THEN {} ELSE element[t][i]
      /\ \A u \in Threads, j \in Ids : ~(u = t /\ j = i) =>
            combiner'[u][j] = combiner[u][j] /\ element'[u][j] = element[u][j]
      /\ \A u \in Threads \ {t} :
            /\ pc'[u] = pc[u] /\ arg'[u] = arg[u] /\ val'[u] = val[u]
            /\ tls_blocks'[u] = tls_blocks[u]
      /\ arg'[t] = c /\ val'[t] = v
      /\ tls_blocks'[t] = tls_blocks[t] \cup {BlockOf(i)}
  <2>1. CASE combiner[t][i] = NoCombiner
    BY <1>0, <1>1, <1>2, <2>1 DEF Stream
  <2>2. CASE combiner[t][i] # NoCombiner
    BY <1>0, <1>1, <1>2, <1>3, <2>2 DEF Stream
  <2> QED
    BY <2>1, <2>2
<1>5. AgentsTypeOK'
  <2>1. /\ combiner' \in [Threads -> [Ids -> Combiners \cup {NoCombiner}]]
        /\ element' \in [Threads -> [Ids -> SUBSET Values]]
        /\ pc' \in [Threads -> {"idle", "append", "modify", "exit", "commit"}]
    <3>1. CASE combiner[t][i] = NoCombiner
      <4>1. /\ combiner' = [combiner EXCEPT ![t][i] = c]
            /\ element' = [element EXCEPT ![t][i] = {}]
            /\ pc' = [pc EXCEPT ![t] = "append"]
        BY <1>0, <3>1 DEF Stream
      <4> QED
        BY <1>2, <4>1
    <3>2. CASE combiner[t][i] # NoCombiner
      BY <1>0, <1>2, <3>2 DEF Stream
    <3> QED
      BY <3>1, <3>2
  <2>2. /\ arg' \in [Threads -> Combiners \cup {NoCombiner}]
        /\ val' \in [Threads -> Values \cup {NoValue}]
        /\ tls_blocks' \in [Threads -> SUBSET {BlockOf(j) : j \in Ids}]
    BY <1>1, <1>2
  <2> QED
    BY <1>1, <2>1, <2>2 DEF AgentsInv, AgentsTypeOK
<1>6. (IdsDistinct /\ IdsBelow)'
  BY <1>1, IdsKept DEF HasId
<1>7. NamesItsCombiner'
  <2> SUFFICES ASSUME NEW u \in Threads, NEW j \in Ids,
                      NEW d, d = combiner'[u][j], d # NoCombiner
               PROVE  /\ life[d] \in {"live", "closing"} /\ id[d] = j
                      /\ u \in agents[d] \/ (pc'[u] = "append" /\ arg'[u] = d)
    BY <1>1 DEF NamesItsCombiner
  <2>1. CASE u = t /\ j = i
    BY <1>0, <1>1, <1>3, <1>4, <2>1
  <2>2. CASE ~(u = t /\ j = i)
    BY <1>1, <1>4, <2>2 DEF AgentsInv, NamesItsCombiner
  <2> QED
    BY <2>1, <2>2
<1>8. LinkedAgentsExist'
  <2> SUFFICES ASSUME NEW d \in Combiners, NEW u \in agents[d]
               PROVE  combiner'[u][id[d]] = d /\ BlockOf(id[d]) \in tls_blocks'[u]
    BY <1>1 DEF LinkedAgentsExist
  <2>1. combiner[u][id[d]] = d /\ BlockOf(id[d]) \in tls_blocks[u]
        /\ u \in Threads /\ id[d] \in Ids
    BY <1>2 DEF AgentsInv, LinkedAgentsExist
  <2> QED
    BY <1>3, <1>4, <2>1
<1>9. HoldsItsOwn'
  <2> SUFFICES ASSUME NEW d \in Combiners, Open(d)'
               PROVE  {w \in Values : streamed'[w] = d} = global_result'[d] \cup
                          UNION {element'[u][id'[d]] : u \in agents'[d]}
    BY DEF HoldsItsOwn, Open
  <2>1. /\ {w \in Values : streamed[w] = d} =
               global_result[d] \cup UNION {element[u][id[d]] : u \in agents[d]}
        /\ Open(d) /\ agents'[d] = agents[d] /\ id'[d] = id[d]
        /\ global_result'[d] = global_result[d] /\ streamed' = streamed
    BY <1>1 DEF AgentsInv, HoldsItsOwn, Open
  <2>2. ASSUME NEW u \in agents[d] PROVE element'[u][id[d]] = element[u][id[d]]
    <3>1. combiner[u][id[d]] = d /\ u \in Threads /\ id[d] \in Ids
      BY <1>2 DEF AgentsInv, LinkedAgentsExist
    <3>2. CASE u = t /\ id[d] = i
      BY <1>4, <3>1, <3>2
    <3>3. CASE ~(u = t /\ id[d] = i)
      BY <1>4, <3>1, <3>3
    <3> QED
      BY <3>2, <3>3
  <2> QED
    BY <2>1, <2>2
<1>10. ClosedIsEmpty'
  BY <1>1 DEF AgentsInv, ClosedIsEmpty, Open
<1>11. Streaming'
  <2> SUFFICES ASSUME NEW u \in Threads, pc'[u] \in {"append", "modify"}
               PROVE  /\ arg'[u] \in Combiners /\ life[arg'[u]] = "live"
                      /\ val'[u] \in Values
                      /\ combiner'[u][id[arg'[u]]] = arg'[u]
                      /\ pc'[u] = "append" =>
                             /\ element'[u][id[arg'[u]]] = {}
                             /\ u \notin agents[arg'[u]]
    BY <1>1 DEF Streaming
  <2>1. CASE u = t
    <3>1. combiner[t][i] = NoCombiner => t \notin agents[c]
      BY <1>0 DEF AgentsInv, LinkedAgentsExist
    <3> QED
      BY <1>0, <1>1, <1>4, <2>1, <3>1
  <2>2. CASE u # t
    <3>1. /\ arg[u] \in Combiners /\ life[arg[u]] = "live" /\ val[u] \in Values
          /\ combiner[u][id[arg[u]]] = arg[u] /\ id[arg[u]] \in Ids
          /\ pc[u] = "append" =>
                 element[u][id[arg[u]]] = {} /\ u \notin agents[arg[u]]
      BY <1>2, <1>4, <2>2 DEF AgentsInv, Streaming
    <3> QED
      BY <1>4, <2>2, <3>1
  <2> QED
    BY <2>1, <2>2
<1>12. ValuesOnce'
  BY <1>1, <1>2, <1>4 DEF AgentsInv, ValuesOnce
<1>13. BlocksExist'
  BY <1>4 DEF AgentsInv, BlocksExist
<1>14. Ending'
  <2>1. EndsAs(t)'
    BY <1>4 DEF EndsAs
  <2>2. ASSUME NEW u \in Threads \ {t} PROVE EndsAs(u)'
    BY <1>1, <1>4, EndingKept
  <2> QED
    BY <2>1, <2>2 DEF Ending
<1> QED
  BY <1>5, <1>6, <1>7, <1>8, <1>9, <1>10, <1>11, <1>12, <1>13, <1>14 DEF AgentsInv

LEMMA LinkAgentKeeps ==
    ASSUME AgentsInv, NEW t \in Threads, LinkAgent(t)
    PROVE  AgentsInv'
<1> USE CombinersAssumption, ValuesAssumption
<1>1. PICK c \in Combiners :
          /\ arg[t] = c /\ life[c] = "live" /\ combiner[t][id[c]] = c
          /\ element[t][id[c]] = {}
  BY DEF LinkAgent, AgentsInv, Streaming
<1>2. /\ UNCHANGED <<agent_kinds, free_ids, life, id, global_result, tls_blocks,
                     combiner, element, arg, val, undone, at, streamed>>
      /\ pc[t] = "append" /\ pc' = [pc EXCEPT ![t] = "modify"]
      /\ agents' = [agents EXCEPT ![c] = @ \cup {t}]
  BY <1>1 DEF LinkAgent, idVars
<1>3. /\ pc \in [Threads -> {"idle", "append", "modify", "exit", "commit"}]
      /\ id \in [Combiners -> Ids] /\ agents \in [Combiners -> SUBSET Threads]
  BY DEF AgentsInv, AgentsTypeOK
<1>4. /\ agents'[c] = agents[c] \cup {t}
      /\ \A d \in Combiners \ {c} : agents'[d] = agents[d]
      /\ pc'[t] = "modify"
      /\ \A u \in Threads \ {t} : pc'[u] = pc[u]
  BY <1>2, <1>3
<1>5. AgentsTypeOK'
  BY <1>2 DEF AgentsInv, AgentsTypeOK
<1>6. (IdsDistinct /\ IdsBelow)'
  BY <1>2, IdsKept DEF HasId
<1>7. NamesItsCombiner'
  <2> SUFFICES ASSUME NEW u \in Threads, NEW j \in Ids,
                      NEW d, d = combiner[u][j], d # NoCombiner
               PROVE  /\ life[d] \in {"live", "closing"} /\ id[d] = j
                      /\ u \in agents'[d] \/ (pc'[u] = "append" /\ arg[u] = d)
    BY <1>2 DEF NamesItsCombiner
  <2>1. /\ life[d] \in {"live", "closing"} /\ id[d] = j
        /\ u \in agents[d] \/ (pc[u] = "append" /\ arg[u] = d)
        /\ d \in Combiners
    BY DEF AgentsInv, AgentsTypeOK, NamesItsCombiner
  <2> QED
    BY <1>1, <1>4, <2>1
<1>8. LinkedAgentsExist'
  BY <1>1, <1>2, <1>3, <1>4 DEF AgentsInv, LinkedAgentsExist, BlocksExist
<1>9. HoldsItsOwn'
  <2> SUFFICES ASSUME NEW d \in Combiners, Open(d)'
               PROVE  {w \in Values : streamed'[w] = d} = global_result'[d] \cup
                          UNION {element'[u][id'[d]] : u \in agents'[d]}
    BY DEF HoldsItsOwn, Open
  <2>1. /\ {w \in Values : streamed[w] = d} =
               global_result[d] \cup UNION {element[u][id[d]] : u \in agents[d]}
        /\ element' = element /\ id' = id
        /\ global_result' = global_result /\ streamed' = streamed
    BY <1>2 DEF AgentsInv, HoldsItsOwn, Open
  <2>2. UNION {element[u][id[d]] : u \in agents'[d]} =
            UNION {element[u][id[d]] : u \in agents[d]}
    BY <1>1, <1>4
  <2> QED
    BY <2>1, <2>2
<1>10. ClosedIsEmpty'
  BY <1>1, <1>2, <1>4 DEF AgentsInv, ClosedIsEmpty, Open
<1>11. Streaming'
  <2> SUFFICES ASSUME NEW u \in Threads, pc'[u] \in {"append", "modify"}
               PROVE  /\ arg[u] \in Combiners /\ life[arg[u]] = "live"
                      /\ val[u] \in Values
                      /\ combiner[u][id[arg[u]]] = arg[u]
                      /\ pc'[u] = "append" =>
                             /\ element[u][id[arg[u]]] = {}
                             /\ u \notin agents'[arg[u]]
    BY <1>2 DEF Streaming
  <2>1. pc[u] \in {"append", "modify"} /\ (pc'[u] = "append" => pc[u] = "append" /\ u # t)
    BY <1>2, <1>4
  <2> QED
    BY <1>1, <1>4, <2>1 DEF AgentsInv, Streaming
<1>12. ValuesOnce' /\ BlocksExist'
  BY <1>2 DEF AgentsInv, ValuesOnce, BlocksExist
<1>13. Ending'
  <2>1. EndsAs(t)'
    BY <1>4 DEF EndsAs
  <2>2. ASSUME NEW u \in Threads \ {t} PROVE EndsAs(u)'
    BY <1>2, <1>4, EndingKept
  <2> QED
    BY <2>1, <2>2 DEF Ending
<1> QED
  BY <1>5, <1>6, <1>7, <1>8, <1>9, <1>10, <1>11, <1>12, <1>13 DEF AgentsInv

LEMMA ModifyKeeps ==
    ASSUME AgentsInv, NEW t \in Threads, Modify(t)
    PROVE  AgentsInv'
<1> USE CombinersAssumption, ValuesAssumption
<1>1. PICK c \in Combiners, v \in Values, i \in Ids :
          /\ arg[t] = c /\ val[t] = v /\ id[c] = i
          /\ life[c] = "live" /\ combiner[t][i] = c
  BY DEF Modify, AgentsInv, AgentsTypeOK, Streaming
<1>2. /\ UNCHANGED <<agent_kinds, free_ids, life, id, agents, global_result,
                     tls_blocks, combiner, undone, at>>
      /\ pc[t] = "modify" /\ pc' = [pc EXCEPT ![t] = "idle"]
      /\ element' = [element EXCEPT ![t][i] = @ \cup {v}]
      /\ streamed' = [streamed EXCEPT ![v] = c]
      /\ val' = [val EXCEPT ![t] = NoValue]
      /\ arg' = [arg EXCEPT ![t] = NoCombiner]
  BY <1>1 DEF Modify, idVars
<1>3. /\ pc \in [Threads -> {"idle", "append", "modify", "exit", "commit"}]
      /\ element \in [Threads -> [Ids -> SUBSET Values]]
      /\ arg \in [Threads -> Combiners \cup {NoCombiner}]
      /\ val \in [Threads -> Values \cup {NoValue}]
      /\ streamed \in [Values -> Combiners \cup {NoCombiner}]
      /\ id \in [Combiners -> Ids] /\ agents \in [Combiners -> SUBSET Threads]
  BY DEF AgentsInv, AgentsTypeOK
<1>4. /\ element'[t][i] = element[t][i] \cup {v}
      /\ \A u \in Threads, j \in Ids :
            ~(u = t /\ j = i) => element'[u][j] = element[u][j]
      /\ \A u \in Threads \ {t} :
            pc'[u] = pc[u] /\ arg'[u] = arg[u] /\ val'[u] = val[u]
      /\ pc'[t] = "idle" /\ val'[t] = NoValue /\ arg'[t] = NoCombiner
      /\ streamed'[v] = c /\ \A w \in Values \ {v} : streamed'[w] = streamed[w]
  BY <1>2, <1>3
<1>5. streamed[v] = NoCombiner /\ \A u \in Threads \ {t} : val[u] # v
  BY <1>1 DEF AgentsInv, ValuesOnce
<1>6. t \in agents[c]
  BY <1>1, <1>2 DEF AgentsInv, NamesItsCombiner
<1>7. AgentsTypeOK'
  <2>1. element' \in [Threads -> [Ids -> SUBSET Values]]
    BY <1>2, <1>3
  <2>2. /\ pc' \in [Threads -> {"idle", "append", "modify", "exit", "commit"}]
        /\ arg' \in [Threads -> Combiners \cup {NoCombiner}]
        /\ val' \in [Threads -> Values \cup {NoValue}]
        /\ streamed' \in [Values -> Combiners \cup {NoCombiner}]
    BY <1>2, <1>3
  <2> QED
    BY <1>2, <2>1, <2>2 DEF AgentsInv, AgentsTypeOK
<1>8. (IdsDistinct /\ IdsBelow)'
  BY <1>2, IdsKept DEF HasId
<1>9. NamesItsCombiner'
  BY <1>2, <1>4 DEF AgentsInv, NamesItsCombiner
<1>10. LinkedAgentsExist' /\ BlocksExist'
  BY <1>2 DEF AgentsInv, LinkedAgentsExist, BlocksExist
<1>11. HoldsItsOwn'
  <2> SUFFICES ASSUME NEW d \in Combiners, Open(d)'
               PROVE  {w \in Values : streamed'[w] = d} = global_result'[d] \cup
                          UNION {element'[u][id'[d]] : u \in agents'[d]}
    BY DEF HoldsItsOwn, Open
  <2>1. /\ {w \in Values : streamed[w] = d} =
               global_result[d] \cup UNION {element[u][id[d]] : u \in agents[d]}
        /\ agents' = agents /\ id' = id /\ global_result' = global_result
        /\ Open(d) /\ agents[d] \subseteq Threads /\ id[d] \in Ids
    BY <1>2, <1>3 DEF AgentsInv, HoldsItsOwn, Open
  <2>2. CASE d = c
    <3>1. element'[t][id[d]] = element[t][id[d]] \cup {v} /\ t \in agents[d]
      BY <1>1, <1>4, <1>6, <2>2
    <3>2. \A u \in agents[d] : u # t => element'[u][id[d]] = element[u][id[d]]
      BY <1>4, <2>1
    <3>3. \A w : (\E u \in agents[d] : w \in element'[u][id[d]]) <=>
                 w = v \/ \E u \in agents[d] : w \in element[u][id[d]]
      BY <3>1, <3>2
    <3>4. \A w \in Values : streamed'[w] = d <=> streamed[w] = d \/ w = v
      BY <1>4, <2>2
    <3>5. \A w : w \in Values /\ streamed[w] = d <=>
              w \in global_result[d] \/ \E u \in agents[d] : w \in element[u][id[d]]
      BY <2>1
    <3>6. \A w : w \in Values /\ streamed'[w] = d <=>
              w \in global_result[d] \/ \E u \in agents[d] : w \in element'[u][id[d]]
      BY <3>3, <3>4, <3>5
    <3>7. \A w : w \in Values /\ streamed'[w] = d <=>
              w \in global_result'[d]
                  \/ \E u \in agents'[d] : w \in element'[u][id'[d]]
      BY <2>1, <3>6
    <3> QED
      BY <3>7
  <2>3. CASE d # c
    <3>1. id[d] # i
      BY <1>1, <2>1, <2>3 DEF AgentsInv, IdsDistinct, HasId, Open
    <3>2. \A u \in agents[d] : element'[u][id[d]] = element[u][id[d]]
      BY <1>4, <2>1, <3>1
    <3>3. \A w \in Values : streamed'[w] = d <=> streamed[w] = d
      BY <1>4, <1>5, <2>3
    <3> QED
      BY <2>1, <3>2, <3>3
  <2> QED
    BY <2>2, <2>3
<1>12. ClosedIsEmpty'
  BY <1>1, <1>2, <1>4 DEF AgentsInv, ClosedIsEmpty, Open
<1>13. Streaming'
  <2> SUFFICES ASSUME NEW u \in Threads, pc'[u] \in {"append", "modify"}
               PROVE  /\ arg'[u] \in Combiners /\ life[arg'[u]] = "live"
                      /\ val'[u] \in Values
                      /\ combiner[u][id[arg'[u]]] = arg'[u]
                      /\ pc'[u] = "append" =>
                             /\ element'[u][id[arg'[u]]] = {}
                             /\ u \notin agents[arg'[u]]
    BY <1>2 DEF Streaming
  <2>1. u # t
    BY <1>4
  <2>2. /\ arg[u] \in Combiners /\ life[arg[u]] = "live" /\ val[u] \in Values
        /\ combiner[u][id[arg[u]]] = arg[u] /\ id[arg[u]] \in Ids
        /\ pc[u] = "append" =>
               element[u][id[arg[u]]] = {} /\ u \notin agents[arg[u]]
    BY <1>3, <1>4, <2>1 DEF AgentsInv, Streaming
  <2> QED
    BY <1>4, <2>1, <2>2
<1>14. ValuesOnce'
  <2>1. \A u \in Threads : val'[u] \in Values => u # t /\ val[u] = val'[u]
    BY <1>4
  <2>2. \A u \in Threads : val'[u] \in Values => streamed'[val'[u]] = NoCombiner
    BY <1>4, <1>5, <2>1 DEF AgentsInv, ValuesOnce
  <2>3. \A u, w \in Threads : u # w /\ val'[u] = val'[w] => val'[u] = NoValue
    BY <1>4 DEF AgentsInv, ValuesOnce
  <2> QED
    BY <2>2, <2>3 DEF ValuesOnce
<1>15. Ending'
  <2>1. EndsAs(t)'
    BY <1>4 DEF EndsAs
  <2>2. ASSUME NEW u \in Threads \ {t} PROVE EndsAs(u)'
    BY <1>2, <1>4, EndingKept
  <2> QED
    BY <2>1, <2>2 DEF Ending
<1> QED
  BY <1>7, <1>8, <1>9, <1>10, <1>11, <1>12, <1>13, <1>14, <1>15 DEF AgentsInv

-----------------------------------------------------------------------------
LEMMA ExitBeginKeeps ==
    ASSUME AgentsInv, NEW t \in Threads, ExitBegin(t)
    PROVE  AgentsInv'
<1>1. /\ UNCHANGED <<agent_kinds, free_ids, life, id, agents, global_result,
                     tls_blocks, combiner, element, arg, val, at, streamed>>
      /\ pc[t] = "idle" /\ pc' = [pc EXCEPT ![t] = "exit"]
      /\ undone' = [undone EXCEPT ![t] = {i \in Ids : BlockOf(i) \in tls_blocks[t]}]
  BY DEF ExitBegin, idVars
<1>2. /\ pc \in [Threads -> {"idle", "append", "modify", "exit", "commit"}]
      /\ undone \in [Threads -> SUBSET Ids]
      /\ tls_blocks \in [Threads -> SUBSET {BlockOf(i) : i \in Ids}]
  BY DEF AgentsInv, AgentsTypeOK
<1>3. /\ pc'[t] = "exit" /\ undone'[t] = {i \in Ids : BlockOf(i) \in tls_blocks[t]}
      /\ \A u \in Threads \ {t} : pc'[u] = pc[u] /\ undone'[u] = undone[u]
  BY <1>1, <1>2
<1>4. AgentsTypeOK'
  <2>1. undone' \in [Threads -> SUBSET Ids]
    BY <1>1, <1>2
  <2> QED
    BY <1>1, <2>1 DEF AgentsInv, AgentsTypeOK
<1>5. (IdsDistinct /\ IdsBelow)'
  BY <1>1, IdsKept DEF HasId
<1>6. NamesItsCombiner'
  BY <1>1, <1>3 DEF AgentsInv, NamesItsCombiner
<1>7. (LinkedAgentsExist /\ HoldsItsOwn /\ ClosedIsEmpty /\ ValuesOnce /\ BlocksExist)'
  BY <1>1 DEF AgentsInv, LinkedAgentsExist, HoldsItsOwn, ClosedIsEmpty, ValuesOnce,
              BlocksExist, Open
<1>8. Streaming'
  BY <1>1, <1>3 DEF AgentsInv, Streaming
<1>9. Ending'
  <2>1. tls_blocks[t] = {BlockOf(i) : i \in undone'[t]}
    BY <1>2, <1>3
  <2>2. \A i \in Ids \ undone'[t] : combiner[t][i] = NoCombiner
    BY <1>3 DEF AgentsInv, BlocksExist
  <2>3. EndsAs(t)'
    BY <1>1, <1>3, <2>1, <2>2 DEF EndsAs
  <2>4. ASSUME NEW u \in Threads \ {t} PROVE EndsAs(u)'
    BY <1>1, <1>3, EndingKept
  <2> QED
    BY <2>3, <2>4 DEF Ending
<1> QED
  BY <1>4, <1>5, <1>6, <1>7, <1>8, <1>9 DEF AgentsInv

(* An agent is destroyed: it has been taken out of the list it was in, and *)
(* its element has gone to the combiner it named.                          *)
LEMMA GoneKeeps ==
    ASSUME AgentsInv, NEW t \in Threads, NEW i \in undone[t],
           pc[t] \in {"exit", "commit"}, AgentGone(t, i),
           UNCHANGED <<idVars, val, streamed>>,
           at' \in [Threads -> Ids], \A u \in Threads \ {t} : at'[u] = at[u],
           agents' \in [Combiners -> SUBSET Threads],
           \A d \in Combiners :
               agents'[d] = IF d = combiner[t][i] THEN agents[d] \ {t} ELSE agents[d],
           global_result' \in [Combiners -> SUBSET Values],
           \A d \in Combiners : Open(d) =>
               global_result'[d] = IF d = combiner[t][i]
                                   THEN global_result[d] \cup element[t][i]
                                   ELSE global_result[d],
           \A d \in Combiners : life[d] = "new" => global_result'[d] = global_result[d]
    PROVE  AgentsInv'
<1> USE CombinersAssumption
<1>1. /\ combiner \in [Threads -> [Ids -> Combiners \cup {NoCombiner}]]
      /\ element \in [Threads -> [Ids -> SUBSET Values]]
      /\ pc \in [Threads -> {"idle", "append", "modify", "exit", "commit"}]
      /\ arg \in [Threads -> Combiners \cup {NoCombiner}]
      /\ undone \in [Threads -> SUBSET Ids]
      /\ tls_blocks \in [Threads -> SUBSET {BlockOf(j) : j \in Ids}]
      /\ id \in [Combiners -> Ids] /\ agents \in [Combiners -> SUBSET Threads]
      /\ i \in Ids
  BY DEF AgentsInv, AgentsTypeOK
<1>2. /\ combiner'[t][i] = NoCombiner /\ element'[t][i] = {}
      /\ \A u \in Threads, j \in Ids : ~(u = t /\ j = i) =>
            combiner'[u][j] = combiner[u][j] /\ element'[u][j] = element[u][j]
      /\ pc'[t] \in {"idle", "exit"} /\ arg'[t] = NoCombiner
      /\ undone'[t] = undone[t] \ {i}
      /\ tls_blocks'[t] = {BlockOf(j) : j \in undone'[t]}
      /\ \A u \in Threads \ {t} :
            /\ pc'[u] = pc[u] /\ arg'[u] = arg[u]
            /\ undone'[u] = undone[u] /\ tls_blocks'[u] = tls_blocks[u]
  BY <1>1 DEF AgentGone
<1>3. UNCHANGED <<agent_kinds, free_ids, life, id, val, streamed>>
  BY DEF idVars
<1>4. AgentsTypeOK'
  <2>1. /\ undone' \in [Threads -> SUBSET Ids]
        /\ arg' \in [Threads -> Combiners \cup {NoCombiner}]
        /\ pc' \in [Threads -> {"idle", "append", "modify", "exit", "commit"}]
    BY <1>1 DEF AgentGone
  <2>2. /\ combiner' \in [Threads -> [Ids -> Combiners \cup {NoCombiner}]]
        /\ element' \in [Threads -> [Ids -> SUBSET Values]]
    BY <1>1 DEF AgentGone
  <2>3. tls_blocks' \in [Threads -> SUBSET {BlockOf(j) : j \in Ids}]
    BY <1>1, <2>1 DEF AgentGone
  <2> QED
    BY <1>3, <2>1, <2>2, <2>3 DEF AgentsInv, AgentsTypeOK
<1>5. (IdsDistinct /\ IdsBelow)'
  BY <1>3, IdsKept DEF HasId
<1>6. \A j \in Ids : combiner'[t][j] # NoCombiner => j \in undone'[t]
  BY <1>2 DEF AgentsInv, Ending, EndsAs
<1>7. BlocksExist'
  BY <1>2, <1>6 DEF AgentsInv, BlocksExist
<1>8. ASSUME NEW d \in Combiners, NEW u \in agents'[d]
      PROVE  /\ u \in agents[d] /\ u \in Threads /\ ~(u = t /\ id[d] = i)
             /\ combiner[u][id[d]] = d /\ id[d] \in Ids
  <2>1. u \in agents[d] /\ u \in Threads /\ ~(u = t /\ d = combiner[t][i])
    BY <1>1, <1>8
  <2> QED
    BY <1>1, <2>1 DEF AgentsInv, LinkedAgentsExist
<1>9. NamesItsCombiner'
  <2> SUFFICES ASSUME NEW u \in Threads, NEW j \in Ids,
                      NEW d, d = combiner'[u][j], d # NoCombiner
               PROVE  /\ life[d] \in {"live", "closing"} /\ id[d] = j
                      /\ u \in agents'[d] \/ (pc'[u] = "append" /\ arg'[u] = d)
    BY <1>3 DEF NamesItsCombiner
  <2>1. ~(u = t /\ j = i) /\ combiner[u][j] = d /\ d \in Combiners
    BY <1>1, <1>2
  <2>2. /\ life[d] \in {"live", "closing"} /\ id[d] = j
        /\ u \in agents[d] \/ (pc[u] = "append" /\ arg[u] = d)
    BY <2>1 DEF AgentsInv, NamesItsCombiner
  <2>3. u = t => d # combiner[t][i]
    BY <1>1, <2>1, <2>2 DEF AgentsInv, NamesItsCombiner
  <2>4. CASE u = t
    BY <2>1, <2>2, <2>3, <2>4
  <2>5. CASE u # t
    <3>1. pc'[u] = pc[u] /\ arg'[u] = arg[u]
      BY <1>2, <2>5
    <3>2. u \in agents[d] => u \in agents'[d]
      BY <2>1, <2>5
    <3> QED
      BY <2>2, <3>1, <3>2
  <2> QED
    BY <2>4, <2>5
<1>10. LinkedAgentsExist'
  <2> SUFFICES ASSUME NEW d \in Combiners, NEW u \in agents'[d]
               PROVE  combiner'[u][id[d]] = d /\ BlockOf(id[d]) \in tls_blocks'[u]
    BY <1>3 DEF LinkedAgentsExist
  <2>1. combiner'[u][id[d]] = d
    BY <1>2, <1>8
  <2> QED
    BY <1>7, <1>8, <2>1 DEF BlocksExist, BlockOf
<1>11. HoldsItsOwn'
  <2> SUFFICES ASSUME NEW d \in Combiners, Open(d)'
               PROVE  {w \in Values : streamed'[w] = d} = global_result'[d] \cup
                          UNION {element'[u][id'[d]] : u \in agents'[d]}
    BY DEF HoldsItsOwn, Open
  <2>1. Open(d) /\ id' = id /\ streamed' = streamed
    BY <1>3 DEF Open
  <2>2. \A w : w \in Values /\ streamed[w] = d <=>
            w \in global_result[d] \/ \E u \in agents[d] : w \in element[u][id[d]]
    BY <2>1 DEF AgentsInv, HoldsItsOwn, Open
  <2>3. \A u \in agents'[d] : element'[u][id[d]] = element[u][id[d]]
    BY <1>2, <1>8
  <2>4. \A w : w \in Values /\ streamed[w] = d <=>
            w \in global_result'[d] \/ \E u \in agents'[d] : w \in element'[u][id[d]]
    <3>1. CASE d = combiner[t][i]
      <4>1. id[d] = i /\ t \in agents[d]
        BY <1>1, <3>1 DEF AgentsInv, NamesItsCombiner
      <4>2. agents'[d] = agents[d] \ {t}
            /\ global_result'[d] = global_result[d] \cup element[t][id[d]]
        BY <2>1, <3>1, <4>1
      <4>3. \A w : (\E u \in agents[d] : w \in element[u][id[d]]) <=>
                   \/ w \in element[t][id[d]]
                   \/ \E u \in agents'[d] : w \in element'[u][id[d]]
        BY <2>3, <4>1, <4>2
      <4> QED
        BY <2>2, <4>2, <4>3
    <3>2. CASE d # combiner[t][i]
      <4>1. agents'[d] = agents[d] /\ global_result'[d] = global_result[d]
        BY <2>1, <3>2
      <4> QED
        BY <2>2, <2>3, <4>1
    <3> QED
      BY <3>1, <3>2
  <2>5. \A w : w \in Values /\ streamed'[w] = d <=>
            w \in global_result'[d] \/ \E u \in agents'[d] : w \in element'[u][id'[d]]
    BY <2>1, <2>4
  <2> QED
    BY <2>5
<1>12. ClosedIsEmpty'
  BY <1>3 DEF AgentsInv, ClosedIsEmpty, Open
<1>13. Streaming'
  <2> SUFFICES ASSUME NEW u \in Threads, pc'[u] \in {"append", "modify"}
               PROVE  /\ arg'[u] \in Combiners /\ life[arg'[u]] = "live"
                      /\ val[u] \in Values
                      /\ combiner'[u][id[arg'[u]]] = arg'[u]
                      /\ pc'[u] = "append" =>
                             /\ element'[u][id[arg'[u]]] = {}
                             /\ u \notin agents'[arg'[u]]
    BY <1>3 DEF Streaming
  <2>1. u # t
    BY <1>2
  <2>2. /\ arg[u] \in Combiners /\ life[arg[u]] = "live" /\ val[u] \in Values
        /\ combiner[u][id[arg[u]]] = arg[u] /\ id[arg[u]] \in Ids
        /\ pc[u] = "append" =>
               element[u][id[arg[u]]] = {} /\ u \notin agents[arg[u]]
    BY <1>1, <1>2, <2>1 DEF AgentsInv, Streaming
  <2> QED
    BY <1>2, <2>1, <2>2
<1>14. ValuesOnce'
  BY <1>3 DEF AgentsInv, ValuesOnce
<1>15. Ending'
  <2>1. EndsAs(t)'
    BY <1>2, <1>6 DEF EndsAs
  <2>2. ASSUME NEW u \in Threads \ {t} PROVE EndsAs(u)'
    BY <1>2, <1>3, EndingKept
  <2> QED
    BY <2>1, <2>2 DEF Ending
<1> QED
  BY <1>4, <1>5, <1>7, <1>9, <1>10, <1>11, <1>12, <1>13, <1>14, <1>15 DEF AgentsInv

LEMMA ExitUnusedKeeps ==
    ASSUME AgentsInv, NEW t \in Threads, NEW i \in Ids, ExitUnused(t, i)
    PROVE  AgentsInv'
<1>1. /\ pc[t] = "exit" /\ i \in undone[t] /\ AgentGone(t, i)
      /\ combiner[t][i] \notin Combiners
      /\ UNCHANGED <<idVars, agents, global_result, val, at, streamed>>
  BY CombinersAssumption DEF ExitUnused, Dying
<1>2. /\ at \in [Threads -> Ids] /\ agents \in [Combiners -> SUBSET Threads]
      /\ global_result \in [Combiners -> SUBSET Values]
  BY DEF AgentsInv, AgentsTypeOK
<1> QED
  BY <1>1, <1>2, GoneKeeps

LEMMA ExitReadKeeps ==
    ASSUME AgentsInv, NEW t \in Threads, NEW i \in Ids, ExitRead(t, i)
    PROVE  AgentsInv'
<1> USE CombinersAssumption
<1>1. PICK c \in Combiners :
          /\ combiner[t][i] = c
          /\ arg' = [arg EXCEPT ![t] = c] /\ at' = [at EXCEPT ![t] = i]
  <2>1. combiner[t][i] \in Combiners
    BY DEF ExitRead, AgentsInv, AgentsTypeOK
  <2> QED
    BY <2>1 DEF ExitRead
<1>2. /\ UNCHANGED <<agent_kinds, free_ids, life, id, agents, global_result,
                     tls_blocks, combiner, element, val, undone, streamed>>
      /\ pc[t] = "exit" /\ pc' = [pc EXCEPT ![t] = "commit"] /\ i \in undone[t]
  BY DEF ExitRead, Dying, idVars
<1>3. /\ pc \in [Threads -> {"idle", "append", "modify", "exit", "commit"}]
      /\ arg \in [Threads -> Combiners \cup {NoCombiner}] /\ at \in [Threads -> Ids]
  BY DEF AgentsInv, AgentsTypeOK
<1>4. /\ pc'[t] = "commit" /\ arg'[t] = c /\ at'[t] = i
      /\ \A u \in Threads \ {t} : pc'[u] = pc[u] /\ arg'[u] = arg[u] /\ at'[u] = at[u]
  BY <1>1, <1>2, <1>3
<1>5. AgentsTypeOK'
  <2>1. /\ pc' \in [Threads -> {"idle", "append", "modify", "exit", "commit"}]
        /\ arg' \in [Threads -> Combiners \cup {NoCombiner}]
        /\ at' \in [Threads -> Ids]
    BY <1>1, <1>2, <1>3
  <2> QED
    BY <1>2, <2>1 DEF AgentsInv, AgentsTypeOK
<1>6. (IdsDistinct /\ IdsBelow)'
  BY <1>2, IdsKept DEF HasId
<1>7. NamesItsCombiner'
  BY <1>2, <1>4 DEF AgentsInv, NamesItsCombiner
<1>8. (LinkedAgentsExist /\ HoldsItsOwn /\ ClosedIsEmpty /\ ValuesOnce /\ BlocksExist)'
  BY <1>2 DEF AgentsInv, LinkedAgentsExist, HoldsItsOwn, ClosedIsEmpty, ValuesOnce,
              BlocksExist, Open
<1>9. Streaming'
  BY <1>2, <1>4 DEF AgentsInv, Streaming
<1>10. Ending'
  <2>1. life[c] # "new" /\ id[c] = i
    BY <1>1 DEF AgentsInv, AgentsTypeOK, NamesItsCombiner
  <2>2. /\ tls_blocks[t] = {BlockOf(j) : j \in undone[t]}
        /\ \A j \in Ids \ undone[t] : combiner[t][j] = NoCombiner
    BY <1>2 DEF AgentsInv, Ending, EndsAs
  <2>3. EndsAs(t)'
    BY <1>1, <1>2, <1>4, <2>1, <2>2 DEF EndsAs
  <2>4. ASSUME NEW u \in Threads \ {t} PROVE EndsAs(u)'
    BY <1>2, <1>4, EndingKept
  <2> QED
    BY <2>3, <2>4 DEF Ending
<1> QED
  BY <1>5, <1>6, <1>7, <1>8, <1>9, <1>10 DEF AgentsInv

(* What ~Agent has read is the combiner the agent still names, unless that *)
(* one has cleared its agents in the meantime, and is closed.              *)
LEMMA CommitsToItsOwn ==
    ASSUME AgentsInv, NEW t \in Threads, pc[t] = "commit"
    PROVE  /\ arg[t] \in Combiners /\ at[t] \in undone[t]
           /\ life[arg[t]] # "new"
           /\ \/ Open(arg[t]) /\ combiner[t][at[t]] = arg[t]
              \/ /\ ~Open(arg[t]) /\ agents[arg[t]] = {}
                 /\ combiner[t][at[t]] = NoCombiner
<1>1. /\ arg[t] \in Combiners /\ at[t] \in undone[t] /\ at[t] \in Ids
      /\ life[arg[t]] # "new"
      /\ combiner[t][at[t]] \in {arg[t], NoCombiner}
      /\ Open(arg[t]) => combiner[t][at[t]] = arg[t]
  BY DEF AgentsInv, AgentsTypeOK, Ending, EndsAs
<1>2. ~Open(arg[t]) => combiner[t][at[t]] # arg[t]
  BY <1>1, CombinersAssumption DEF AgentsInv, NamesItsCombiner, Open
<1> QED
  BY <1>1, <1>2 DEF AgentsInv, ClosedIsEmpty

LEMMA ExitCommitKeeps ==
    ASSUME AgentsInv, NEW t \in Threads, ExitCommit(t) \/ ExitTooLate(t)
    PROVE  AgentsInv'
<1> USE CombinersAssumption
<1>1. /\ pc[t] = "commit" /\ AgentGone(t, at[t])
      /\ UNCHANGED <<idVars, val, streamed>>
      /\ at' = [at EXCEPT ![t] = 0]
  BY DEF ExitCommit, ExitTooLate
<1>2. /\ at \in [Threads -> Ids] /\ agents \in [Combiners -> SUBSET Threads]
      /\ global_result \in [Combiners -> SUBSET Values]
      /\ element \in [Threads -> [Ids -> SUBSET Values]]
  BY DEF AgentsInv, AgentsTypeOK
<1>3. at' \in [Threads -> Ids] /\ \A u \in Threads \ {t} : at'[u] = at[u]
  BY <1>1, <1>2, BlocksAssumption DEF Ids
<1>4. PICK c \in Combiners, i \in undone[t] :
          /\ arg[t] = c /\ at[t] = i /\ life[c] # "new" /\ i \in Ids
          /\ \/ Open(c) /\ combiner[t][i] = c
             \/ ~Open(c) /\ agents[c] = {} /\ combiner[t][i] = NoCombiner
  BY <1>1, <1>2, CommitsToItsOwn
<1>5. CASE ExitCommit(t)
  <2>1. /\ global_result' = [global_result EXCEPT ![c] = @ \cup element[t][i]]
        /\ agents' = [agents EXCEPT ![c] = @ \ {t}]
    BY <1>4, <1>5 DEF ExitCommit
  <2>2. /\ agents' \in [Combiners -> SUBSET Threads]
        /\ global_result' \in [Combiners -> SUBSET Values]
    BY <1>2, <1>4, <2>1
  <2>3. \A d \in Combiners :
           agents'[d] = IF d = combiner[t][i] THEN agents[d] \ {t} ELSE agents[d]
    BY <1>2, <1>4, <2>1
  <2>4. \A d \in Combiners :
           Open(d) => global_result'[d] = IF d = combiner[t][i]
                                          THEN global_result[d] \cup element[t][i]
                                          ELSE global_result[d]
    BY <1>2, <1>4, <2>1
  <2>5. \A d \in Combiners :
           life[d] = "new" => global_result'[d] = global_result[d]
    BY <1>2, <1>4, <2>1
  <2> QED
    BY <1>1, <1>3, <1>4, <2>2, <2>3, <2>4, <2>5, GoneKeeps
<1>6. CASE ExitTooLate(t)
  <2>1. /\ UNCHANGED <<agents, global_result>>
        /\ combiner[t][i] = NoCombiner
    BY <1>4, <1>6 DEF ExitTooLate, Open
  <2> QED
    BY <1>1, <1>2, <1>3, <1>4, <2>1, GoneKeeps
<1> QED
  BY <1>5, <1>6

-----------------------------------------------------------------------------
(* A thread's step keeps the agents in order, and so does an owner's. *)
LEMMA ThreadKeeps ==
    ASSUME AgentsInv, NEW t \in Threads, ThreadStep(t)
    PROVE  AgentsInv'
BY StreamKeeps, LinkAgentKeeps, ModifyKeeps, ExitBeginKeeps, ExitUnusedKeeps,
   ExitReadKeeps, ExitCommitKeeps DEF ThreadStep

LEMMA OwnerKeeps ==
    ASSUME AgentsInv, NEW c \in Combiners,
           Construct(c) \/ Close(c) \/ ClearAllAgents(c) \/ DestroyAgent(c)
    PROVE  AgentsInv'
BY ConstructKeeps, CloseKeeps, ClearAllAgentsKeeps, DestroyAgentKeeps

LEMMA UnchangedKeeps == AgentsInv /\ UNCHANGED agentVars => AgentsInv'
<1> SUFFICES ASSUME AgentsInv, UNCHANGED agentVars PROVE AgentsInv'
  OBVIOUS
<1>1. UNCHANGED <<agent_kinds, free_ids, life, id, agents, global_result, tls_blocks,
                  combiner, element, pc, arg, val, undone, at, streamed>>
  BY DEF agentVars
<1>2. AgentsTypeOK' /\ (IdsDistinct /\ IdsBelow)'
  BY <1>1, IdsKept DEF AgentsInv, AgentsTypeOK, HasId
<1>3. (NamesItsCombiner /\ LinkedAgentsExist /\ HoldsItsOwn /\ ClosedIsEmpty)'
  BY <1>1 DEF AgentsInv, NamesItsCombiner, LinkedAgentsExist, HoldsItsOwn,
              ClosedIsEmpty, Open
<1>4. (Streaming /\ ValuesOnce /\ BlocksExist)'
  BY <1>1 DEF AgentsInv, Streaming, ValuesOnce, BlocksExist
<1>5. Ending'
  BY <1>1, EndingKept DEF Ending
<1> QED
  BY <1>2, <1>3, <1>4, <1>5 DEF AgentsInv

-----------------------------------------------------------------------------
(* The samplers of the reducers, and the thread that walks them.           *)

(* The walk has left behind the sampler it is at, which is in use if it is *)
(* sampled, and not if it is deleted.                                      *)
Turn ==
    /\ spc \in {"take", "delete"} => cur \in Combiners /\ cur \notin todo
    /\ spc = "take" => used[cur]
    /\ spc = "delete" => ~used[cur]

RInv == AgentsInv /\ SamplersTypeOK /\ SampledAlive /\ Turn

LEMMA InitReducers == Init => RInv
<1> SUFFICES ASSUME Init PROVE RInv
  OBVIOUS
<1> USE DEF Init, SamplersInit
<1>1. AgentsInv
  BY InitAgents
<1>2. used \in [Combiners -> BOOLEAN] /\ stop \in BOOLEAN
      /\ \A c \in Combiners : ~used[c]
  BY Zenon
<1>3. SamplersTypeOK
  BY <1>2 DEF SamplersTypeOK
<1>4. SampledAlive /\ Turn
  BY <1>2 DEF SampledAlive, Turn
<1> QED
  BY <1>1, <1>3, <1>4 DEF RInv

-----------------------------------------------------------------------------
(* destroy() and the walk keep the samplers in order. *)
LEMMA SamplersTyped ==
    ASSUME SamplersTypeOK, Turn, [SamplersNext]_collectorVars
    PROVE  SamplersTypeOK'
<1>1. CASE UNCHANGED collectorVars
  BY <1>1 DEF collectorVars, SamplersTypeOK
<1>2. ASSUME NEW c \in Combiners, GetSampler(c) \/ Destroy(c)
      PROVE  SamplersTypeOK'
  <2>1. used' \in [Combiners -> BOOLEAN] /\ stop' \in BOOLEAN
    BY <1>2, Zenon DEF GetSampler, Destroy, SamplersTypeOK
  <2>2. /\ sampler' \in [Combiners -> {"none", "bag", "root", "deleted"}]
        /\ UNCHANGED <<spc, todo, cur>>
        /\ \A d \in Combiners : sampler[d] = "root" => sampler'[d] = "root"
    BY <1>2 DEF GetSampler, Destroy, SamplersTypeOK
  <2>3. /\ spc \in {"sleep", "walk", "take", "delete", "end"}
        /\ todo \subseteq {d \in Combiners : sampler[d] = "root"}
        /\ cur \in Combiners \cup {NoCombiner}
        /\ spc \in {"take", "delete"} => cur \in Combiners /\ sampler[cur] = "root"
    BY DEF SamplersTypeOK
  <2> QED
    BY <2>1, <2>2, <2>3 DEF SamplersTypeOK
<1>3. CASE WalkStep \/ Taken \/ Stop
  <2>1. used' \in [Combiners -> BOOLEAN] /\ stop' \in BOOLEAN
    BY <1>3, Zenon
    DEF WalkStep, Taken, Stop, Reset, Delete, WalkEnd, Finish, WalkTake, WalkUnused,
        SamplersTypeOK
  <2>2. /\ sampler \in [Combiners -> {"none", "bag", "root", "deleted"}]
        /\ spc \in {"sleep", "walk", "take", "delete", "end"}
        /\ todo \subseteq {d \in Combiners : sampler[d] = "root"}
        /\ cur \in Combiners \cup {NoCombiner}
        /\ spc \in {"take", "delete"} => cur \in Combiners /\ sampler[cur] = "root"
    BY DEF SamplersTypeOK
  <2>3. CASE Reset
    BY <2>1, <2>2, <2>3 DEF Reset, SamplersTypeOK
  <2>4. CASE Taken \/ Stop \/ WalkEnd \/ Finish
    BY <2>1, <2>2, <2>4 DEF Taken, Stop, WalkEnd, Finish, SamplersTypeOK
  <2>5. ASSUME NEW c \in Combiners, WalkTake(c) \/ WalkUnused(c)
        PROVE  SamplersTypeOK'
    BY <2>1, <2>2, <2>5 DEF WalkTake, WalkUnused, SamplersTypeOK
  <2>6. CASE Delete
    BY <2>1, <2>2, <2>6 DEF Delete, Turn, SamplersTypeOK
  <2> QED
    BY <1>3, <2>3, <2>4, <2>5, <2>6 DEF WalkStep
<1> QED
  BY <1>1, <1>2, <1>3 DEF SamplersNext

LEMMA TurnKept ==
    ASSUME SamplersTypeOK, Turn, [SamplersNext]_collectorVars
    PROVE  Turn'
<1> USE DEF Turn
<1>1. CASE UNCHANGED collectorVars
  BY <1>1 DEF collectorVars
<1>2. ASSUME NEW c \in Combiners, GetSampler(c) \/ Destroy(c) PROVE Turn'
  BY <1>2 DEF GetSampler, Destroy, Locked, SamplersTypeOK
<1>3. CASE WalkStep \/ Taken \/ Stop
  BY <1>3 DEF WalkStep, Taken, Stop, Reset, Delete, WalkEnd, Finish, WalkTake,
              WalkUnused, SamplersTypeOK
<1> QED
  BY <1>1, <1>2, <1>3 DEF SamplersNext

(* A reducer whose sampler is in use has not cleared its agents. *)
UsedIsOpen == \A c \in Combiners : used[c] => Open(c) /\ sampler[c] \in {"bag", "root"}

LEMMA SampledIsOpen == Turn => (SampledAlive <=> UsedIsOpen)
BY DEF Turn, SampledAlive, UsedIsOpen, Open

-----------------------------------------------------------------------------
(* Every step of the program is one of the samplers, or leaves them alone. *)
LEMMA SamplersStep == [Next]_vars => [SamplersNext]_collectorVars
BY DEF Next, vars, collectorVars, SamplersNext, Sampling, TakeSample, OwnerStep,
       AskSampler, LetGo, EndCombiner

(* The agents are in order after every step: reset() is called for a       *)
(* reducer that is open.                                                   *)
LEMMA AgentsStep == RInv /\ [Next]_vars => AgentsInv'
<1> SUFFICES ASSUME RInv, [Next]_vars PROVE AgentsInv'
  OBVIOUS
<1>1. AgentsInv /\ Turn /\ SampledAlive
  BY DEF RInv
<1>2. ASSUME UNCHANGED agentVars PROVE AgentsInv'
  BY <1>1, <1>2, UnchangedKeeps
<1>3. ASSUME NEW c \in Combiners, Open(c), Sampled(c) PROVE AgentsInv'
  BY <1>1, <1>2, <1>3, ResetAllKeeps DEF Sampled
<1>4. CASE TakeSample
  <2>1. cur \in Combiners /\ Open(cur)
    BY <1>1, <1>4 DEF TakeSample, Taken, Turn, SampledAlive, Open
  <2> QED
    BY <1>3, <1>4, <2>1 DEF TakeSample
<1>5. ASSUME NEW c \in Combiners, AskSampler(c) PROVE AgentsInv'
  BY <1>3, <1>5 DEF AskSampler, Open
<1>6. ASSUME NEW c \in Combiners, OwnerStep(c) PROVE AgentsInv'
  BY <1>1, <1>2, <1>5, <1>6, OwnerKeeps DEF OwnerStep, LetGo, EndCombiner
<1>7. ASSUME NEW t \in Threads, ThreadStep(t) PROVE AgentsInv'
  BY <1>1, <1>7, ThreadKeeps
<1> QED
  BY <1>2, <1>4, <1>6, <1>7 DEF Next, Sampling, vars

(* An owner clears the agents of a reducer only when its sampler is not in *)
(* use any more; nobody else closes it.                                    *)
LEMMA OpenStep == RInv /\ [Next]_vars => UsedIsOpen'
<1> SUFFICES ASSUME RInv, [Next]_vars PROVE UsedIsOpen'
  OBVIOUS
<1>1. /\ UsedIsOpen
      /\ sampler \in [Combiners -> {"none", "bag", "root", "deleted"}]
      /\ life \in [Combiners -> Lives]
  BY SampledIsOpen DEF RInv, SamplersTypeOK, AgentsInv, AgentsTypeOK
<1>2. ASSUME NEW c \in Combiners,
             UNCHANGED <<used, sampler>>,
             \A d \in Combiners : Open(d) => Open(d)' \/ (d = c /\ ~used[c])
      PROVE  UsedIsOpen'
  BY <1>1, <1>2 DEF UsedIsOpen
<1>3. ASSUME NEW c \in Combiners, AskSampler(c) PROVE UsedIsOpen'
  <2>1. life' = life /\ life[c] = "live"
    BY <1>3 DEF AskSampler, Sampled, ResetAll, agentVars, idVars
  <2>2. \A d \in Combiners \ {c} : used'[d] = used[d] /\ sampler'[d] = sampler[d]
    BY <1>3 DEF AskSampler, GetSampler, RInv, SamplersTypeOK
  <2>3. sampler'[c] = "bag"
    BY <1>1, <1>3 DEF AskSampler, GetSampler
  <2> QED
    BY <1>1, <2>1, <2>2, <2>3 DEF UsedIsOpen, Open
<1>4. ASSUME NEW c \in Combiners, LetGo(c) PROVE UsedIsOpen'
  <2>1. life' = life /\ sampler' = sampler
    BY <1>4 DEF LetGo, Destroy, agentVars
  <2>2. \A d \in Combiners : used'[d] => used[d]
    BY <1>4 DEF LetGo, Destroy, RInv, SamplersTypeOK
  <2> QED
    BY <1>1, <2>1, <2>2 DEF UsedIsOpen, Open
<1>5. ASSUME NEW c \in Combiners,
             \/ EndCombiner(c)
             \/ (Construct(c) \/ Close(c) \/ DestroyAgent(c)) /\ UNCHANGED collectorVars
      PROVE  UsedIsOpen'
  <2>1. UNCHANGED <<used, sampler>>
    BY <1>5 DEF EndCombiner, collectorVars
  <2>2. \A d \in Combiners \ {c} : life'[d] = life[d]
    BY <1>1, <1>5 DEF EndCombiner, Construct, Close, ClearAllAgents, DestroyAgent
  <2>3. Open(c) => Open(c)' \/ ~used[c]
    BY <1>1, <1>5 DEF EndCombiner, Construct, Close, DestroyAgent, Open
  <2> QED
    BY <1>2, <2>1, <2>2, <2>3 DEF Open
<1>6. ASSUME NEW t \in Threads, ThreadStep(t), UNCHANGED collectorVars
      PROVE  UsedIsOpen'
  <2>1. life' = life /\ used' = used /\ sampler' = sampler
    BY <1>6
    DEF ThreadStep, Stream, LinkAgent, Modify, ExitBegin, ExitUnused, ExitRead,
        ExitCommit, ExitTooLate, idVars, collectorVars
  <2> QED
    BY <1>1, <2>1 DEF UsedIsOpen, Open
<1>7. CASE Sampling
  <2>1. life' = life /\ used' = used
    BY <1>7
    DEF Sampling, TakeSample, Taken, Sampled, ResetAll, WalkStep, Reset, Delete,
        WalkEnd, Finish, WalkTake, WalkUnused, agentVars, idVars
  <2>2. ASSUME NEW c \in Combiners, used[c] PROVE sampler'[c] \in {"bag", "root"}
    BY <1>1, <1>7, <2>2
    DEF RInv, Turn, Sampling, TakeSample, Taken, WalkStep, Reset, Delete, WalkEnd, Finish,
        WalkTake, WalkUnused, UsedIsOpen
  <2> QED
    BY <1>1, <2>1, <2>2 DEF UsedIsOpen, Open
<1>8. CASE UNCHANGED <<life, used, sampler>>
  BY <1>1, <1>8 DEF UsedIsOpen, Open
<1> QED
  BY <1>3, <1>4, <1>5, <1>6, <1>7, <1>8
  DEF Next, OwnerStep, Stop, vars, agentVars, collectorVars

LEMMA ReducersInductive == Spec => []RInv
<1>1. RInv /\ [Next]_vars => RInv'
  <2> SUFFICES ASSUME RInv, [Next]_vars PROVE RInv'
    OBVIOUS
  <2>1. AgentsInv' /\ UsedIsOpen'
    BY AgentsStep, OpenStep
  <2>2. SamplersTypeOK' /\ Turn'
    <3>1. SamplersTypeOK /\ Turn /\ [SamplersNext]_collectorVars
      BY SamplersStep DEF RInv
    <3> QED
      BY <3>1, SamplersTyped, TurnKept
  <2>3. SampledAlive'
    BY <2>1, <2>2 DEF Turn, SampledAlive, UsedIsOpen, Open
  <2> QED
    BY <2>1, <2>2, <2>3 DEF RInv
<1> QED
  BY <1>1, InitReducers, PTL DEF Spec

(* The sampling thread is a SamplerCollector whatever the reducers do. *)
THEOREM RunsTheSamplers == Spec => SamplersInit /\ [][SamplersNext]_collectorVars
<1>1. Init => SamplersInit
  BY DEF Init
<1> QED
  BY <1>1, SamplersStep, PTL DEF Spec

(* Ids are given out and back in any order and are nobody's twice. *)
THEOREM IdsAreDistinct == Spec => []IdsDistinct
<1>1. RInv => IdsDistinct
  BY DEF RInv, AgentsInv
<1> QED
  BY <1>1, ReducersInductive, PTL

(* get_or_create_tls_agent may take an agent that names a combiner for one *)
(* that names this one, though the id was another's before.                *)
THEOREM AgentsNameTheirs == Spec => []NamesItsCombiner
<1>1. RInv => NamesItsCombiner
  BY DEF RInv, AgentsInv
<1> QED
  BY <1>1, ReducersInductive, PTL

(* A walk over agents_ meets no agent of a thread that has destroyed it. *)
THEOREM WalksAreSafe == Spec => []LinkedAgentsExist
<1>1. RInv => LinkedAgentsExist
  BY DEF RInv, AgentsInv
<1> QED
  BY <1>1, ReducersInductive, PTL

(* A combiner holds what was streamed into it, of threads that have ended  *)
(* as well, and nothing of the one that had its id before.                 *)
THEOREM NothingIsMixed == Spec => []HoldsItsOwn
<1>1. RInv => HoldsItsOwn
  BY DEF RInv, AgentsInv
<1> QED
  BY <1>1, ReducersInductive, PTL

(* ~Reducer, which waits for mtx_ of its sampler, is never overtaken by    *)
(* take_sample, and only its own destroy() lets the sampler be deleted.    *)
THEOREM SampledWhileAlive == Spec => []SampledAlive
<1>1. RInv => SampledAlive
  BY DEF RInv
<1> QED
  BY <1>1, ReducersInductive, PTL

-----------------------------------------------------------------------------
(* The assumptions of BoundedQueue, and that a sum of two positions is not *)
(* wrapped: capacities up to half of the values of uint32_t.  Above that   *)
(* the ring is not a queue, and MCBoundedQueueWord shows how it fails.     *)
RingSizes ==
    NoItem \notin Items /\ Word \in Nat /\ Cap \in Nat \ {0} /\ Cap + Cap <= Word

LEMMA SizesHold == Cap + Cap <= Word => RingSizes
BY NoItemAssumption, CapAssumption DEF RingSizes

(* The k-th slot from slot s on, and how far slot i is behind s.           *)
SlotOf(s, k) == IF s + k < Cap THEN s + k ELSE (s + k) - Cap

OffsetOf(s, i) == IF i >= s THEN i - s ELSE (i + Cap) - s

(* The slots that hold an item are the n from s on. *)
LiveIn(it, s, n) ==
    \A i \in 0 .. (Cap - 1) : it[i] # NoItem <=> OffsetOf(s, i) < n

RingInv == QueueTypeOK /\ LiveIn(items, start, count)

(* A sum below twice the divisor is reduced by one subtraction at most. *)
LEMMA ModOfCap ==
    ASSUME NEW c \in Nat \ {0}, NEW n \in 0 .. (c + c - 1)
    PROVE  n % c = IF n < c THEN n ELSE n - c
OBVIOUS

(* _mod of a sum of two positions, in uint32_t. *)
LEMMA RingMod ==
    ASSUME RingSizes, NEW n \in 0 .. (Cap + Cap - 1)
    PROVE  /\ Mod(n) = IF n < Cap THEN n ELSE n - Cap
           /\ Wrap(n) = n
<1>1. n < Word /\ Word \in Nat \ {0} /\ n \in Nat
  BY DEF RingSizes
<1>2. n % Word = n
  BY <1>1, ModOfCap
<1>3. n % Cap = IF n < Cap THEN n ELSE n - Cap
  BY ModOfCap DEF RingSizes
<1> QED
  BY <1>2, <1>3 DEF Mod, Wrap

(* Slots and offsets are one-to-one. *)
LEMMA SlotFacts ==
    ASSUME RingSizes, NEW s \in 0 .. (Cap - 1)
    PROVE  /\ \A k \in 0 .. (Cap - 1) : /\ SlotOf(s, k) \in 0 .. (Cap - 1)
                                        /\ OffsetOf(s, SlotOf(s, k)) = k
           /\ \A i \in 0 .. (Cap - 1) : /\ OffsetOf(s, i) \in 0 .. (Cap - 1)
                                        /\ SlotOf(s, OffsetOf(s, i)) = i
           /\ SlotOf(s, Cap) = s
BY DEF RingSizes, SlotOf, OffsetOf

(* The window is the sequence of the items in those slots. *)
LEMMA WindowFacts ==
    ASSUME RingSizes, NEW s \in 0 .. (Cap - 1), NEW n \in 0 .. Cap,
           NEW it \in [0 .. (Cap - 1) -> Items \cup {NoItem}], LiveIn(it, s, n)
    PROVE  LET w == [k \in 1 .. n |-> it[(s + k - 1) % Cap]] IN
           /\ w \in Seq(Items) /\ Len(w) = n
           /\ \A k \in 1 .. n : w[k] = it[SlotOf(s, k - 1)]
<1> DEFINE w == [k \in 1 .. n |-> it[(s + k - 1) % Cap]]
<1>0. Cap \in Nat \ {0} /\ n \in Nat
  BY DEF RingSizes
<1>1. ASSUME NEW k \in 1 .. n
      PROVE  /\ (s + k - 1) % Cap = SlotOf(s, k - 1)
             /\ it[SlotOf(s, k - 1)] \in Items
  <2>1. s + k - 1 \in 0 .. (Cap + Cap - 1) /\ k - 1 \in 0 .. (Cap - 1) /\ k - 1 < n
    BY <1>0
  <2>2. (s + k - 1) % Cap = SlotOf(s, k - 1)
    BY <1>0, <2>1, ModOfCap DEF SlotOf
  <2>3. SlotOf(s, k - 1) \in 0 .. (Cap - 1) /\ OffsetOf(s, SlotOf(s, k - 1)) = k - 1
    BY <2>1, SlotFacts
  <2>4. it[SlotOf(s, k - 1)] # NoItem
    BY <2>1, <2>3 DEF LiveIn
  <2> QED
    BY <2>2, <2>3, <2>4
<1>2. w \in [1 .. n -> Items]
  BY <1>1
<1>3. w \in Seq(Items)
  BY <1>0, <1>2, SeqDef
<1>4. Len(w) = n
  <2>1. DOMAIN w = 1 .. n /\ DOMAIN w = 1 .. Len(w) /\ Len(w) \in Nat
    BY <1>3, LenProperties
  <2> HIDE DEF w
  <2> QED
    BY <1>0, <2>1
<1> QED
  BY <1>1, <1>3, <1>4

(* The constructor: all of the memory is raw. *)
LEMMA InitRing == RingSizes /\ QueueInit => RingInv
BY DEF RingSizes, QueueInit, RingInv, QueueTypeOK, Slots, LiveIn, OffsetOf

(* What the invariant says of the state, and of the sums the code reduces. *)
LEMMA RingFacts ==
    ASSUME RingSizes, RingInv
    PROVE  /\ Cap \in Nat \ {0} /\ NoItem \notin Items /\ Slots = 0 .. (Cap - 1)
           /\ start \in 0 .. (Cap - 1) /\ count \in 0 .. Cap
           /\ items \in [0 .. (Cap - 1) -> Items \cup {NoItem}]
           /\ popped \in Items \cup {NoItem}
           /\ LiveIn(items, start, count)
           /\ Mod(start + 1) = SlotOf(start, 1)
           /\ Mod(start + count) = SlotOf(start, count)
           /\ \A k \in 0 .. (count - 1) : Mod(start + k) = SlotOf(start, k)
<1>1. /\ Cap \in Nat \ {0} /\ NoItem \notin Items /\ Slots = 0 .. (Cap - 1)
      /\ start \in 0 .. (Cap - 1) /\ count \in 0 .. Cap
      /\ items \in [0 .. (Cap - 1) -> Items \cup {NoItem}]
      /\ popped \in Items \cup {NoItem}
      /\ LiveIn(items, start, count)
  BY DEF RingSizes, RingInv, QueueTypeOK, Slots
<1>2. ASSUME NEW k \in 0 .. Cap PROVE Mod(start + k) = SlotOf(start, k)
  <2>1. start + k \in 0 .. (Cap + Cap - 1)
    BY <1>1
  <2> QED
    BY <2>1, RingMod DEF SlotOf
<1>3. 1 \in 0 .. Cap /\ count \in 0 .. Cap /\ \A k \in 0 .. (count - 1) : k \in 0 .. Cap
  BY <1>1
<1> QED
  BY <1>1, <1>2, <1>3

(* Each operation keeps the live slots together, whichever way it wraps. *)
LEMMA RingStep == RingSizes /\ RingInv /\ [QueueNext]_queueVars => RingInv'
<1> SUFFICES ASSUME RingSizes, RingInv, [QueueNext]_queueVars PROVE RingInv'
  OBVIOUS
<1> DEFINE S == 0 .. (Cap - 1)
<1>0. /\ Cap \in Nat \ {0} /\ NoItem \notin Items /\ Slots = 0 .. (Cap - 1)
      /\ start \in 0 .. (Cap - 1) /\ count \in 0 .. Cap
      /\ items \in [0 .. (Cap - 1) -> Items \cup {NoItem}]
      /\ popped \in Items \cup {NoItem}
      /\ \A i \in S : items[i] # NoItem <=> OffsetOf(start, i) < count
  BY RingFacts DEF LiveIn
<1>1. /\ Mod(start + 1) = SlotOf(start, 1)
      /\ Mod(start + count) = SlotOf(start, count)
      /\ \A k \in 0 .. (count - 1) : Mod(start + k) = SlotOf(start, k)
  BY RingFacts
<1>2. ASSUME items' \in [S -> Items \cup {NoItem}], start' \in S, count' \in 0 .. Cap,
             popped' \in Items \cup {NoItem},
             \A i \in S : items'[i] # NoItem <=> OffsetOf(start', i) < count'
      PROVE  RingInv'
  BY <1>0, <1>2 DEF RingInv, LiveIn, QueueTypeOK, Slots
<1>3. ASSUME NEW x \in Items, Push(x) PROVE RingInv'
  <2>1. /\ count < Cap /\ count' = count + 1 /\ start' = start /\ popped' = NoItem
        /\ items' = [items EXCEPT ![SlotOf(start, count)] = x]
    BY <1>1, <1>3 DEF Push
  <2>2. SlotOf(start, count) \in S /\ OffsetOf(start, SlotOf(start, count)) = count
        /\ \A i \in S : OffsetOf(start, i) = count => i = SlotOf(start, count)
    BY <1>0, <2>1 DEF SlotOf, OffsetOf
  <2>3. \A i \in S : items'[i] # NoItem <=> OffsetOf(start', i) < count'
    <3> SUFFICES ASSUME NEW i \in S
                 PROVE  items'[i] # NoItem <=> OffsetOf(start, i) < count + 1
      BY <2>1
    <3>1. OffsetOf(start, i) \in Nat
      BY <1>0 DEF OffsetOf
    <3> QED
      BY <1>0, <2>1, <2>2, <3>1
  <2> QED
    BY <1>0, <1>2, <2>1, <2>2, <2>3
<1>4. ASSUME NEW x \in Items, ElimPush(x) PROVE RingInv'
  <2>1. /\ count = Cap /\ count' = Cap /\ start' = SlotOf(start, 1) /\ popped' = NoItem
        /\ items' = [items EXCEPT ![start] = x]
    BY <1>1, <1>4 DEF ElimPush
  <2>2. start' \in S
    BY <1>0, <2>1 DEF SlotOf
  <2>3. \A i \in S : OffsetOf(start, i) < Cap /\ OffsetOf(start', i) < Cap
    BY <1>0, <2>1, <2>2 DEF OffsetOf
  <2>4. \A i \in S : items'[i] # NoItem
    BY <1>0, <2>1, <2>3
  <2> QED
    BY <1>0, <1>2, <2>1, <2>2, <2>3, <2>4
<1>5. ASSUME NEW x \in Items, PushTop(x) PROVE RingInv'
  <2>1. /\ count < Cap /\ count' = count + 1 /\ popped' = NoItem
        /\ start' = IF start # 0 THEN start - 1 ELSE Cap - 1
        /\ items' = [items EXCEPT ![start'] = x]
    BY <1>5 DEF PushTop
  <2>2. start' \in S
    BY <1>0, <2>1
  <2>3. /\ OffsetOf(start', start') = 0
        /\ \A i \in S : i # start' =>
              OffsetOf(start', i) = OffsetOf(start, i) + 1 /\ OffsetOf(start, i) \in Nat
    BY <1>0, <2>1, <2>2 DEF OffsetOf
  <2>4. \A i \in S : items'[i] # NoItem <=> OffsetOf(start', i) < count'
    BY <1>0, <2>1, <2>2, <2>3
  <2> QED
    BY <1>0, <1>2, <2>1, <2>2, <2>4
<1>6. CASE Pop
  <2>1. /\ count # 0 /\ count' = count - 1 /\ start' = SlotOf(start, 1)
        /\ popped' \in {items[start], NoItem}
        /\ items' = [items EXCEPT ![start] = NoItem]
    BY <1>1, <1>6 DEF Pop
  <2>2. start' \in S
    BY <1>0, <2>1 DEF SlotOf
  <2>3. /\ OffsetOf(start', start) = Cap - 1
        /\ \A i \in S : i # start =>
              OffsetOf(start, i) = OffsetOf(start', i) + 1 /\ OffsetOf(start', i) \in Nat
    BY <1>0, <2>1, <2>2 DEF OffsetOf, SlotOf
  <2>4. \A i \in S : items'[i] # NoItem <=> OffsetOf(start', i) < count'
    BY <1>0, <2>1, <2>2, <2>3
  <2> QED
    BY <1>0, <1>2, <2>1, <2>2, <2>4
<1>7. CASE Clear
  <2> DEFINE L == {SlotOf(start, k) : k \in 0 .. (count - 1)}
  <2>1. L = {Mod(start + k) : k \in 0 .. (count - 1)}
    BY <1>1
  <2>2. items' = [i \in S |-> IF i \in L THEN NoItem ELSE items[i]]
    BY <1>0, <1>7, <2>1 DEF Clear
  <2>3. \A i \in S : i \notin L => items[i] = NoItem
    <3> SUFFICES ASSUME NEW i \in S, OffsetOf(start, i) < count PROVE i \in L
      BY <1>0
    <3>1. OffsetOf(start, i) \in S /\ i = SlotOf(start, OffsetOf(start, i))
      BY <1>0, SlotFacts
    <3> QED
      BY <1>0, <3>1
  <2>4. \A i \in S : items'[i] = NoItem
    BY <2>2, <2>3
  <2>5. start' = 0 /\ count' = 0 /\ popped' = NoItem
    BY <1>7 DEF Clear
  <2>6. \A i \in S : ~(OffsetOf(start', i) < count')
    BY <1>0, <2>5 DEF OffsetOf
  <2>7. items' \in [S -> Items \cup {NoItem}]
    BY <1>0, <2>2
  <2> QED
    BY <1>0, <1>2, <2>4, <2>5, <2>6, <2>7
<1>8. CASE Refuse
  BY <1>0, <1>2, <1>8 DEF Refuse
<1>9. CASE UNCHANGED queueVars
  BY <1>0, <1>2, <1>9 DEF queueVars
<1> QED
  BY <1>3, <1>4, <1>5, <1>6, <1>7, <1>8, <1>9 DEF QueueNext

(* top() and bottom() find the items of the window from either side. *)
LEMMA RingLive == RingSizes /\ RingInv => LiveSlots
<1> SUFFICES ASSUME RingSizes, RingInv PROVE LiveSlots
  OBVIOUS
<1> DEFINE S == 0 .. (Cap - 1)
<1>0. /\ Cap \in Nat \ {0} /\ Slots = S /\ start \in S /\ count \in 0 .. Cap
      /\ items \in [S -> Items \cup {NoItem}] /\ LiveIn(items, start, count)
      /\ Word \in Nat /\ Cap + Cap <= Word
  BY RingFacts DEF RingSizes
<1>1. \A k \in 0 .. (Cap + Cap - 1) : k % Cap = IF k < Cap THEN k ELSE k - Cap
  BY <1>0, ModOfCap
<1>2. {i \in S : items[i] # NoItem} = {(start + k) % Cap : k \in 0 .. (count - 1)}
  <2>1. ASSUME NEW k \in 0 .. (count - 1)
        PROVE  (start + k) % Cap \in S /\ items[(start + k) % Cap] # NoItem
    <3>1. start + k \in 0 .. (Cap + Cap - 1) /\ k \in 0 .. (Cap - 1)
      BY <1>0
    <3>2. (start + k) % Cap = SlotOf(start, k)
      BY <1>1, <3>1 DEF SlotOf
    <3>3. SlotOf(start, k) \in S /\ OffsetOf(start, SlotOf(start, k)) = k
      BY <1>0, <3>1, SlotFacts
    <3> QED
      BY <1>0, <3>2, <3>3 DEF LiveIn
  <2>2. ASSUME NEW i \in S, items[i] # NoItem
        PROVE  \E k \in 0 .. (count - 1) : i = (start + k) % Cap
    <3>1. OffsetOf(start, i) \in S /\ i = SlotOf(start, OffsetOf(start, i))
      BY <1>0, SlotFacts
    <3>2. OffsetOf(start, i) < count
      BY <1>0, <2>2 DEF LiveIn
    <3>3. PICK k \in 0 .. (count - 1) : k \in S /\ i = SlotOf(start, k)
      BY <1>0, <3>1, <3>2
    <3>4. start + k \in 0 .. (Cap + Cap - 1)
      BY <1>0, <3>3
    <3>5. (start + k) % Cap = SlotOf(start, k)
      BY <1>1, <3>4 DEF SlotOf
    <3> QED
      BY <3>3, <3>5
  <2> QED
    BY <2>1, <2>2
<1>3. ASSUME NEW i \in 0 .. (count - 1)
      PROVE  Top(i) = Window[i + 1] /\ Bottom(i) = Window[count - i]
  <2>1. /\ start + i \in 0 .. (Cap + Cap - 1)
        /\ i + 1 \in 1 .. count /\ count - i \in 1 .. count
        /\ start + count \in 0 .. (Cap + Cap - 1)
        /\ start + count - (i + 1) \in 0 .. (Cap + Cap - 1)
    BY <1>0
  <2>2. Top(i) = Window[i + 1]
    <3>1. Window[i + 1] = items[(start + (i + 1) - 1) % Cap]
      BY <2>1 DEF Window
    <3>2. start + (i + 1) - 1 = start + i
      BY <1>0
    <3>3. Mod(start + i) = (start + i) % Cap
      BY <1>1, <2>1, RingMod
    <3> QED
      BY <3>1, <3>2, <3>3 DEF Top
  <2>3. Bottom(i) = Window[count - i]
    <3> DEFINE m == start + count - (i + 1)
               n == Wrap(start + count) + Word - (i + 1)
    <3>1. Window[count - i] = items[(start + (count - i) - 1) % Cap]
      BY <2>1 DEF Window
    <3>2. start + (count - i) - 1 = m
      BY <1>0
    <3>3. n = m + Word /\ m \in Nat /\ m < Word /\ n \in Word .. (Word + Word - 1)
      <4>1. Wrap(start + count) = start + count
        BY <2>1, RingMod
      <4> QED
        BY <1>0, <2>1, <4>1
    <3>4. n % Word = m
      <4>1. n \in 0 .. (Word + Word - 1) /\ ~(n < Word) /\ Word \in Nat \ {0}
        BY <1>0, <3>3
      <4> HIDE DEF n
      <4>2. n % Word = n - Word
        BY <4>1, ModOfCap
      <4> QED
        BY <1>0, <3>3, <4>2
    <3>5. Mod(n) = m % Cap
      BY <3>4 DEF Mod, Wrap
    <3> QED
      BY <3>1, <3>2, <3>5 DEF Bottom
  <2> QED
    BY <2>2, <2>3
<1> QED
  BY <1>0, <1>2, <1>3 DEF LiveSlots

(* The window of the next state, and each operation as one of Deque. *)
LEMMA RingRefines ==
    RingSizes /\ RingInv /\ [QueueNext]_queueVars
        => [D!DequeNext]_(D!dequeVars)
<1> SUFFICES ASSUME RingSizes, RingInv, [QueueNext]_queueVars
             PROVE  [D!DequeNext]_(D!dequeVars)
  OBVIOUS
<1> DEFINE S == 0 .. (Cap - 1)
           w == Window
           n == count
<1>0. /\ Cap \in Nat \ {0} /\ start \in S /\ n \in 0 .. Cap
      /\ items \in [S -> Items \cup {NoItem}] /\ LiveIn(items, start, n)
      /\ Mod(start + 1) = SlotOf(start, 1)
      /\ Mod(start + n) = SlotOf(start, n)
  BY RingFacts
<1>1. w \in Seq(Items) /\ Len(w) = n /\ \A k \in 1 .. n : w[k] = items[SlotOf(start, k - 1)]
  BY <1>0, WindowFacts DEF Window
<1>2. /\ start' \in S /\ count' \in 0 .. Cap
      /\ w' \in Seq(Items) /\ Len(w') = count'
      /\ \A k \in 1 .. count' : w'[k] = items'[SlotOf(start', k - 1)]
  <2>1. RingInv'
    BY RingStep
  <2>2. /\ start' \in S /\ count' \in 0 .. Cap
        /\ items' \in [S -> Items \cup {NoItem}] /\ LiveIn(items', start', count')
    BY <2>1 DEF RingInv, LiveIn, QueueTypeOK, Slots
  <2> QED
    BY <2>2, WindowFacts DEF Window
<1>3. ASSUME NEW v \in Seq(Items), Len(v) = count', \A k \in 1 .. count' : w'[k] = v[k]
      PROVE  w' = v
  BY <1>2, <1>3, SeqEqual
<1> HIDE DEF w
<1>4. ASSUME NEW x \in Items, Push(x) PROVE D!PushBottom(x)
  <2>1. /\ n < Cap /\ count' = n + 1 /\ start' = start /\ popped' = NoItem
        /\ items' = [items EXCEPT ![SlotOf(start, n)] = x]
    BY <1>0, <1>4 DEF Push
  <2>2. /\ Append(w, x) \in Seq(Items) /\ Len(Append(w, x)) = n + 1
        /\ \A k \in 1 .. n : Append(w, x)[k] = w[k]
        /\ Append(w, x)[n + 1] = x
    BY <1>1, AppendProperties
  <2>3. ASSUME NEW k \in 1 .. n PROVE w'[k] = w[k]
    <3>1. /\ SlotOf(start, k - 1) # SlotOf(start, n) /\ k \in 1 .. count'
          /\ SlotOf(start, k - 1) \in S
      BY <1>0, <2>1 DEF SlotOf
    <3> QED
      BY <1>0, <1>1, <1>2, <2>1, <3>1
  <2>4. w'[n + 1] = x
    <3>1. SlotOf(start, n) \in S /\ n + 1 \in 1 .. count' /\ (n + 1) - 1 = n
      BY <1>0, <2>1 DEF SlotOf
    <3> QED
      BY <1>0, <1>2, <2>1, <3>1
  <2>5. ASSUME NEW k \in 1 .. count' PROVE w'[k] = Append(w, x)[k]
    <3>1. CASE k = n + 1
      BY <2>2, <2>4, <3>1
    <3>2. CASE k # n + 1
      <4>1. k \in 1 .. n
        BY <1>0, <2>1, <3>2
      <4> QED
        BY <2>2, <2>3, <4>1
    <3> QED
      BY <3>1, <3>2
  <2>6. w' = Append(w, x)
    BY <1>3, <2>1, <2>2, <2>5
  <2> QED
    BY <1>1, <2>1, <2>6 DEF D!PushBottom, D!Put, w
<1>5. ASSUME NEW x \in Items, PushTop(x) PROVE D!PushTop(x)
  <2>1. /\ n < Cap /\ count' = n + 1 /\ popped' = NoItem
        /\ start' = IF start # 0 THEN start - 1 ELSE Cap - 1
        /\ items' = [items EXCEPT ![start'] = x]
    BY <1>5 DEF PushTop
  <2>2. /\ <<x>> \in Seq(Items) /\ Len(<<x>>) = 1 /\ <<x>>[1] = x
    OBVIOUS
  <2>3. /\ Cons(x, w) \in Seq(Items) /\ Len(Cons(x, w)) = n + 1
        /\ \A k \in 1 .. n + 1 : Cons(x, w)[k] = IF k <= 1 THEN x ELSE w[k - 1]
    <3>1. /\ <<x>> \o w \in Seq(Items) /\ Len(<<x>> \o w) = 1 + n
          /\ \A k \in 1 .. 1 + n : (<<x>> \o w)[k] =
                 IF k <= 1 THEN <<x>>[k] ELSE w[k - 1]
      BY <1>1, <2>2, ConcatProperties
    <3> QED
      BY <1>0, <2>2, <3>1 DEF Cons
  <2>4. ASSUME NEW k \in 2 .. n + 1 PROVE w'[k] = w[k - 1]
    <3>1. /\ SlotOf(start', k - 1) = SlotOf(start, (k - 1) - 1)
          /\ SlotOf(start', k - 1) # start' /\ SlotOf(start', k - 1) \in S
          /\ k \in 1 .. count' /\ k - 1 \in 1 .. n
      BY <1>0, <2>1 DEF SlotOf
    <3> QED
      BY <1>0, <1>1, <1>2, <2>1, <3>1
  <2>5. w'[1] = x
    <3>1. SlotOf(start', 1 - 1) = start' /\ 1 \in 1 .. count'
      BY <1>0, <1>2, <2>1 DEF SlotOf
    <3> QED
      BY <1>0, <1>2, <2>1, <3>1
  <2>6. ASSUME NEW k \in 1 .. count' PROVE w'[k] = Cons(x, w)[k]
    <3>1. CASE k = 1
      BY <1>0, <2>1, <2>3, <2>5, <3>1
    <3>2. CASE k # 1
      <4>1. k \in 2 .. n + 1 /\ ~(k <= 1) /\ k \in 1 .. n + 1
        BY <1>0, <2>1, <3>2
      <4> QED
        BY <2>3, <2>4, <4>1
    <3> QED
      BY <3>1, <3>2
  <2>7. w' = Cons(x, w)
    BY <1>3, <2>1, <2>3, <2>6
  <2> QED
    BY <1>1, <2>1, <2>7 DEF D!PushTop, D!Put, w, D!Cons, Cons
<1>6. ASSUME NEW x \in Items, ElimPush(x) PROVE D!PushOut(x)
  <2>1. /\ n = Cap /\ count' = n /\ start' = SlotOf(start, 1) /\ popped' = NoItem
        /\ items' = [items EXCEPT ![start] = x]
    BY <1>0, <1>6 DEF ElimPush
  <2>2. /\ w # << >> /\ Tail(w) \in Seq(Items) /\ Len(Tail(w)) = n - 1
        /\ \A k \in 1 .. n - 1 : Tail(w)[k] = w[k + 1]
    <3>1. w # << >>
      BY <1>0, <1>1, <2>1, EmptySeq
    <3> QED
      BY <1>1, <3>1, HeadTailProperties
  <2>3. /\ Append(Tail(w), x) \in Seq(Items) /\ Len(Append(Tail(w), x)) = n
        /\ \A k \in 1 .. n - 1 : Append(Tail(w), x)[k] = Tail(w)[k]
        /\ Append(Tail(w), x)[n] = x
    <3>1. /\ Append(Tail(w), x) \in Seq(Items)
          /\ Len(Append(Tail(w), x)) = (n - 1) + 1
          /\ \A k \in 1 .. n - 1 : Append(Tail(w), x)[k] = Tail(w)[k]
          /\ Append(Tail(w), x)[(n - 1) + 1] = x
      BY <2>2, AppendProperties
    <3>2. (n - 1) + 1 = n
      BY <1>0
    <3> QED
      BY <3>1, <3>2
  <2>4. ASSUME NEW k \in 1 .. n - 1 PROVE w'[k] = w[k + 1]
    <3>1. /\ SlotOf(start', k - 1) = SlotOf(start, (k + 1) - 1)
          /\ SlotOf(start', k - 1) # start /\ SlotOf(start', k - 1) \in S
          /\ k \in 1 .. count' /\ k + 1 \in 1 .. n
      BY <1>0, <2>1 DEF SlotOf
    <3> QED
      BY <1>0, <1>1, <1>2, <2>1, <3>1
  <2>5. w'[n] = x
    <3>1. SlotOf(start', n - 1) = start /\ n \in 1 .. count'
      BY <1>0, <1>2, <2>1 DEF SlotOf
    <3> QED
      BY <1>0, <1>2, <2>1, <3>1
  <2>6. ASSUME NEW k \in 1 .. count' PROVE w'[k] = Append(Tail(w), x)[k]
    <3>1. CASE k = n
      BY <2>3, <2>5, <3>1
    <3>2. CASE k # n
      <4>1. k \in 1 .. n - 1
        BY <1>0, <2>1, <3>2
      <4> QED
        BY <2>2, <2>3, <2>4, <4>1
    <3> QED
      BY <3>1, <3>2
  <2>7. w' = Append(Tail(w), x)
    BY <1>3, <2>1, <2>3, <2>6
  <2> QED
    BY <1>1, <2>1, <2>7 DEF D!PushOut, D!Put, w
<1>7. CASE Pop
  <2>1. /\ n # 0 /\ count' = n - 1 /\ start' = SlotOf(start, 1)
        /\ popped' \in {items[start], NoItem}
        /\ items' = [items EXCEPT ![start] = NoItem]
    BY <1>0, <1>7 DEF Pop
  <2>2. /\ w # << >> /\ Tail(w) \in Seq(Items) /\ Len(Tail(w)) = n - 1
        /\ \A k \in 1 .. n - 1 : Tail(w)[k] = w[k + 1]
    <3>1. w # << >>
      BY <1>0, <1>1, <2>1, EmptySeq
    <3> QED
      BY <1>1, <3>1, HeadTailProperties
  <2>3. ASSUME NEW k \in 1 .. count' PROVE w'[k] = Tail(w)[k]
    <3>1. /\ SlotOf(start', k - 1) = SlotOf(start, (k + 1) - 1)
          /\ SlotOf(start', k - 1) # start /\ SlotOf(start', k - 1) \in S
          /\ k \in 1 .. n - 1 /\ k + 1 \in 1 .. n
      BY <1>0, <2>1 DEF SlotOf
    <3> QED
      BY <1>0, <1>1, <1>2, <2>1, <2>2, <3>1
  <2>4. w' = Tail(w)
    BY <1>3, <2>1, <2>2, <2>3
  <2>5. Head(w) = items[start]
    <3>1. SlotOf(start, 1 - 1) = start /\ 1 \in 1 .. n
      BY <1>0, <2>1 DEF SlotOf
    <3>2. Head(w) = w[1]
      BY <1>1, <2>2
    <3> QED
      BY <1>1, <3>1, <3>2
  <2>6. D!TakeTop
    BY <2>1, <2>2, <2>4, <2>5 DEF D!TakeTop, w
  <2> QED
    BY <2>6 DEF D!DequeNext
<1>8. CASE Clear
  <2>1. count' = 0 /\ popped' = NoItem
    BY <1>8 DEF Clear
  <2>2. w' = << >>
    BY <1>2, <2>1, EmptySeq
  <2> QED
    BY <2>1, <2>2 DEF D!DequeNext, D!Empty, D!Put, w
<1>9. CASE Refuse
  <2>1. w' = w /\ popped' = NoItem
    BY <1>9 DEF Refuse, Window, w
  <2> QED
    BY <2>1 DEF D!DequeNext, D!Refused, D!Put, w
<1>10. CASE UNCHANGED queueVars
  BY <1>10 DEF queueVars, Window, D!dequeVars
<1> QED
  BY <1>4, <1>5, <1>6, <1>7, <1>8, <1>9, <1>10 DEF QueueNext, D!DequeNext

(* After any sequence of push, elim_push, push_top, pop and clear the      *)
(* constructed items are in the count slots from _start on, wherever these *)
(* wrap, so that none is read raw and none is leaked; and top(i) and       *)
(* bottom(i) find the items counted from either side.                      *)
THEOREM RingSlotsLive ==
    ASSUME Cap + Cap <= Word
    PROVE  QueueSpec => []LiveSlots
<1>0. RingSizes
  BY SizesHold
<1>1. QueueInit => RingInv
  BY <1>0, InitRing
<1>2. RingInv /\ [QueueNext]_queueVars => RingInv'
  BY <1>0, RingStep
<1>3. RingInv => LiveSlots
  BY <1>0, RingLive
<1> QED
  BY <1>1, <1>2, <1>3, PTL DEF QueueSpec

(* Seen through its window the ring is a double-ended queue: each of those *)
(* operations does to the sequence of its items what its comment in        *)
(* bounded_queue.h says, elim_push of a full queue dropping the top.       *)
THEOREM RingIsADeque ==
    ASSUME Cap + Cap <= Word
    PROVE  QueueSpec => ImplementsDeque
<1>0. RingSizes
  BY SizesHold
<1>1. QueueInit => RingInv
  BY <1>0, InitRing
<1>2. RingInv /\ [QueueNext]_queueVars => RingInv'
  BY <1>0, RingStep
<1>3. QueueInit => D!DequeInit
  <2> SUFFICES ASSUME QueueInit PROVE D!DequeInit
    OBVIOUS
  <2>1. count = 0 /\ popped = NoItem
    BY DEF QueueInit
  <2>2. Window = << >>
    BY <2>1 DEF Window
  <2> QED
    BY <2>1, <2>2 DEF D!DequeInit
<1>4. RingInv /\ [QueueNext]_queueVars => [D!DequeNext]_(D!dequeVars)
  BY <1>0, RingRefines
<1> QED
  BY <1>1, <1>2, <1>3, <1>4, PTL
  DEF QueueSpec, ImplementsDeque, D!DequeSpec

-----------------------------------------------------------------------------
(* The queue is longer than the window, or every second since the window   *)
(* was widened has made it one longer.                                     *)
WindowInv ==
    /\ value \in 0 .. MaxValue /\ q \in Seq(Int) /\ fresh \in Nat
    /\ capacity \in Nat /\ Len(q) \in 1 .. capacity
    /\ window_size \in 1 .. MaxWindow
    /\ fresh < Len(q) \/ window_size < Len(q)

(* The constructor takes the first sample. *)
LEMMA InitWindow == WindowInit => WindowInv
<1> SUFFICES ASSUME WindowInit PROVE WindowInv
  OBVIOUS
<1>1. PICK v \in 0 .. 1 : q = <<v>> /\ value = IF invertible THEN v ELSE 0
  BY DEF WindowInit
<1>2. value \in {v, 0}
  BY <1>1
<1>3. <<v>> \in Seq(Int) /\ Len(<<v>>) = 1
  BY <1>1
<1> QED
  BY <1>1, <1>2, <1>3, WindowAssumption DEF WindowInit, WindowInv

(* take_sample: the queue is one longer, or full and longer than the       *)
(* window.                                                                 *)
LEMMA SampleTaken ==
    ASSUME WindowInv, PushSample
    PROVE  /\ q' \in Seq(Int) /\ capacity' \in Nat
           /\ Len(q') \in 1 .. capacity' /\ window_size < capacity'
           /\ Len(q') = Len(q) + 1 \/ Len(q') = capacity'
<1>1. /\ q \in Seq(Int) /\ Len(q) \in 1 .. capacity /\ capacity \in Nat
      /\ window_size \in Nat /\ value \in Int
  BY WindowAssumption DEF WindowInv
<1>2. capacity' = Grown /\ q' = Pushed(q, capacity', value)
  BY DEF PushSample
<1>3. capacity' \in Nat /\ capacity <= capacity' /\ window_size < capacity'
  BY <1>1, <1>2 DEF Grown, Maximum
<1>4. /\ Append(q, value) \in Seq(Int) /\ Len(Append(q, value)) = Len(q) + 1
  BY <1>1, AppendProperties
<1>5. Tail(q) \in Seq(Int) /\ Len(Tail(q)) = Len(q) - 1
  <2>1. q # << >>
    BY <1>1, EmptySeq
  <2> QED
    BY <1>1, <2>1, HeadTailProperties
<1>6. /\ Append(Tail(q), value) \in Seq(Int)
      /\ Len(Append(Tail(q), value)) = (Len(q) - 1) + 1
  BY <1>1, <1>5, AppendProperties
<1>7. CASE Len(q) < capacity'
  <2>1. q' = Append(q, value)
    BY <1>2, <1>7 DEF Pushed
  <2> QED
    BY <1>1, <1>3, <1>4, <1>7, <2>1
<1>8. CASE ~(Len(q) < capacity')
  <2>1. q' = Append(Tail(q), value)
    BY <1>2, <1>8 DEF Pushed
  <2>2. Len(q) = capacity' /\ (Len(q) - 1) + 1 = Len(q)
    BY <1>1, <1>3, <1>8
  <2>3. q' \in Seq(Int) /\ Len(q') = Len(q)
    BY <1>6, <2>1, <2>2
  <2> QED
    BY <1>1, <1>3, <2>2, <2>3
<1> QED
  BY <1>7, <1>8

(* Widening the window starts the count of seconds anew. *)
LEMMA WindowStep == WindowInv /\ [WindowNext]_windowVars => WindowInv'
<1> SUFFICES ASSUME WindowInv, [WindowNext]_windowVars PROVE WindowInv'
  OBVIOUS
<1>1. ASSUME NEW n \in 1 .. MaxValue, Add(n) PROVE WindowInv'
  BY <1>1, WindowAssumption DEF Add, WindowInv
<1>2. CASE PushSample
  <2>1. value' \in 0 .. MaxValue
    <3>1. value' \in {value, 0}
      BY <1>2 DEF PushSample
    <3> QED
      BY <3>1, WindowAssumption DEF WindowInv
  <2>2. fresh' = fresh + 1 /\ window_size' = window_size
    BY <1>2 DEF PushSample
  <2> QED
    BY <1>2, <2>1, <2>2, SampleTaken DEF WindowInv
<1>3. ASSUME NEW w \in 1 .. MaxWindow + 1, SetWindowSize(w) PROVE WindowInv'
  BY <1>3, WindowAssumption DEF SetWindowSize, WindowInv
<1>4. CASE UNCHANGED windowVars
  BY <1>4 DEF windowVars, WindowInv
<1> QED
  BY <1>1, <1>2, <1>3, <1>4 DEF WindowNext

(* window_size seconds after set_window_size has widened it, the queue     *)
(* holds the samples get_value needs for the whole window: take_sample     *)
(* grows the queue in time, and elim_push drops none of them.              *)
THEOREM WindowsAreServed == WindowSpec => []WindowIsServed
<1>1. WindowInit => WindowInv
  BY InitWindow
<1>2. WindowInv /\ [WindowNext]_windowVars => WindowInv'
  BY WindowStep
<1>3. WindowInv => WindowIsServed
  BY DEF WindowInv, WindowIsServed
<1> QED
  BY <1>1, <1>2, <1>3, PTL DEF WindowSpec

-----------------------------------------------------------------------------
(* Induction over the natural numbers by the least counterexample. *)
LEMMA LeastNat ==
    ASSUME NEW T, T \subseteq Nat, T # {}
    PROVE  \E m \in T : \A k \in T : m <= k
<1>1. PICK m \in T : \A k \in T : <<k, m>> \notin OpToRel(<, Nat)
  BY NatLessThanWellFounded, WFMin
<1>2. \A k \in T : ~(k < m)
  BY <1>1 DEF OpToRel
<1> QED
  BY <1>2

(* A function that grows by the items of a sequence is its running total. *)
LEMMA SumOf ==
    ASSUME NEW s \in Seq(Int), NEW g \in [0 .. Len(s) -> Int],
           g[0] = 0, \A i \in 1 .. Len(s) : g[i] = g[i - 1] + s[i]
    PROVE  Sum(s) = g[Len(s)]
<1> DEFINE total == CHOOSE f : f = [i \in 0 .. Len(s) |->
                                       IF i = 0 THEN 0 ELSE f[i - 1] + s[i]]
<1>1. Sum(s) = total[Len(s)]
  BY DEF Sum
<1>2. Len(s) \in Nat
  OBVIOUS
<1>3. g = [i \in 0 .. Len(s) |-> IF i = 0 THEN 0 ELSE g[i - 1] + s[i]]
  BY <1>2
<1>4. total = [i \in 0 .. Len(s) |-> IF i = 0 THEN 0 ELSE total[i - 1] + s[i]]
  BY <1>3
<1> HIDE DEF total
<1>5. total[0] = 0 /\ \A i \in 1 .. Len(s) : total[i] = total[i - 1] + s[i]
  BY <1>2, <1>4
<1> DEFINE T == {i \in 0 .. Len(s) : total[i] # g[i]}
<1>6. T = {}
  <2>1. SUFFICES ASSUME T # {} PROVE FALSE
    OBVIOUS
  <2>2. PICK m \in T : \A k \in T : m <= k
    <3>1. T \subseteq Nat
      BY <1>2
    <3> QED
      BY <2>1, <3>1, LeastNat
  <2>3. m \in 1 .. Len(s)
    BY <1>2, <1>5, <2>2
  <2>4. m - 1 \in 0 .. Len(s) /\ m - 1 \notin T
    BY <1>2, <2>2, <2>3
  <2>5. total[m - 1] = g[m - 1]
    BY <2>4
  <2> QED
    BY <1>5, <2>2, <2>3, <2>5
<1> QED
  BY <1>1, <1>2, <1>6

(* What was streamed in since the last sample is what the reducer holds,   *)
(* or has gained; and in the queue, from its second sample on, every       *)
(* sample is what was streamed in before it, or the gain over the sample   *)
(* before.  Of the oldest sample that is not known: the reducer was in use *)
(* before the sampler.                                                     *)
SamplesAreAmounts ==
    /\ invertible \in BOOLEAN
    /\ added \in Int /\ amounts \in Seq(Int)
    /\ Len(q) <= Len(amounts)
    /\ ~invertible =>
          /\ value = added
          /\ \A i \in 2 .. Len(q) : q[i] = amounts[Len(amounts) - Len(q) + i]
    /\ invertible =>
          /\ value = q[Len(q)] + added
          /\ \A i \in 2 .. Len(q) :
                q[i] = q[i - 1] + amounts[Len(amounts) - Len(q) + i]

LEMMA InitSamples == WindowInit => SamplesAreAmounts
<1> SUFFICES ASSUME WindowInit PROVE SamplesAreAmounts
  OBVIOUS
<1>1. PICK v \in 0 .. 1 : q = <<v>> /\ value = IF invertible THEN v ELSE 0
  BY DEF WindowInit
<1>2. Len(<<v>>) = 1 /\ <<v>>[1] = v /\ <<0>> \in Seq(Int) /\ Len(<<0>>) = 1
  BY <1>1
<1>3. invertible \in BOOLEAN /\ added = 0 /\ amounts = <<0>>
  BY DEF WindowInit
<1>4. 2 .. Len(q) = {}
  BY <1>1, <1>2
<1>5. CASE invertible
  <2>1. value = v
    BY <1>1, <1>5
  <2> QED
    BY <1>1, <1>2, <1>3, <1>4, <1>5, <2>1 DEF SamplesAreAmounts
<1>6. CASE ~invertible
  <2>1. value = 0
    BY <1>1, <1>6
  <2> QED
    BY <1>1, <1>2, <1>3, <1>4, <1>6, <2>1 DEF SamplesAreAmounts
<1> QED
  BY <1>3, <1>5, <1>6

(* What elim_push leaves in the queue: the new sample behind the newest of *)
(* those there were.                                                       *)
LEMMA SampleIsNewest ==
    ASSUME WindowInv, PushSample
    PROVE  /\ Len(q') \in 1 .. Len(q) + 1
           /\ q'[Len(q')] = value
           /\ \A i \in 1 .. Len(q') - 1 : q'[i] = q[Len(q) + 1 - Len(q') + i]
<1>1. /\ q \in Seq(Int) /\ Len(q) \in Nat /\ Len(q) >= 1 /\ value \in Int
  BY WindowAssumption DEF WindowInv
<1>2. q' = Append(q, value) \/ q' = Append(Tail(q), value)
  BY DEF PushSample, Pushed
<1>3. CASE q' = Append(q, value)
  <2>1. /\ Len(q') = Len(q) + 1 /\ q'[Len(q) + 1] = value
        /\ \A i \in 1 .. Len(q) : q'[i] = q[i]
    BY <1>1, <1>3, AppendProperties
  <2> QED
    BY <1>1, <2>1
<1>4. CASE q' = Append(Tail(q), value)
  <2>1. q # << >>
    BY <1>1, EmptySeq
  <2>2. /\ Tail(q) \in Seq(Int) /\ Len(Tail(q)) = Len(q) - 1
        /\ \A i \in 1 .. Len(Tail(q)) : Tail(q)[i] = q[i + 1]
    BY <1>1, <2>1, HeadTailProperties
  <2>3. /\ Len(q') = Len(Tail(q)) + 1 /\ q'[Len(Tail(q)) + 1] = value
        /\ \A i \in 1 .. Len(Tail(q)) : q'[i] = Tail(q)[i]
    BY <1>1, <1>4, <2>2, AppendProperties
  <2>4. Len(q') = Len(q)
    BY <1>1, <2>2, <2>3
  <2> QED
    BY <1>1, <2>2, <2>3, <2>4
<1> QED
  BY <1>2, <1>3, <1>4

LEMMA SamplesStep ==
    WindowInv /\ SamplesAreAmounts /\ [WindowNext]_windowVars => SamplesAreAmounts'
<1> SUFFICES ASSUME WindowInv, SamplesAreAmounts, [WindowNext]_windowVars
             PROVE  SamplesAreAmounts'
  OBVIOUS
<1>0. /\ q \in Seq(Int) /\ Len(q) \in Nat /\ Len(q) >= 1 /\ value \in Int
      /\ Len(amounts) \in Nat /\ q[Len(q)] \in Int
  BY WindowAssumption DEF WindowInv, SamplesAreAmounts
<1>1. ASSUME NEW n \in 1 .. MaxValue, Add(n) PROVE SamplesAreAmounts'
  <2>1. /\ value' = value + n /\ added' = added + n
        /\ UNCHANGED <<invertible, q, amounts>>
    BY <1>1 DEF Add
  <2>2. added \in Int /\ n \in Int
    BY DEF SamplesAreAmounts
  <2>3. CASE invertible
    <3>0. value = q[Len(q)] + added
      BY <2>3 DEF SamplesAreAmounts
    <3>1. value' = q'[Len(q')] + added' /\ added' \in Int
      BY <1>0, <2>1, <2>2, <3>0
    <3> QED
      BY <2>1, <2>3, <3>1 DEF SamplesAreAmounts
  <2>4. CASE ~invertible
    <3>1. value' = added' /\ added' \in Int
      BY <1>0, <2>1, <2>2, <2>4 DEF SamplesAreAmounts
    <3> QED
      BY <2>1, <2>4, <3>1 DEF SamplesAreAmounts
  <2> QED
    BY <2>3, <2>4
<1>2. CASE PushSample
  <2>1. /\ Len(q') \in 1 .. Len(q) + 1
        /\ q'[Len(q')] = value
        /\ \A i \in 1 .. Len(q') - 1 : q'[i] = q[Len(q) + 1 - Len(q') + i]
    BY <1>2, SampleIsNewest
  <2>2. /\ amounts \in Seq(Int) /\ added \in Int /\ invertible \in BOOLEAN
        /\ Len(q) <= Len(amounts)
    BY DEF SamplesAreAmounts
  <2>3. /\ amounts' \in Seq(Int) /\ Len(amounts') = Len(amounts) + 1
        /\ amounts'[Len(amounts) + 1] = added
        /\ \A i \in 1 .. Len(amounts) : amounts'[i] = amounts[i]
    BY <1>2, <2>2, AppendProperties DEF PushSample
  <2>4. added' = 0 /\ invertible' = invertible
    BY <1>2 DEF PushSample
  <2>5. Len(q') <= Len(amounts') /\ Len(q') \in Nat
    BY <1>0, <2>1, <2>2, <2>3
  <2> DEFINE from(i) == Len(q) + 1 - Len(q') + i
  <2>6. ASSUME NEW i \in 2 .. Len(q') - 1
        PROVE  /\ from(i) \in 2 .. Len(q) /\ q'[i] = q[from(i)]
               /\ q'[i - 1] = q[from(i) - 1]
               /\ Len(amounts') - Len(q') + i = Len(amounts) - Len(q) + from(i)
               /\ amounts'[Len(amounts') - Len(q') + i]
                     = amounts[Len(amounts) - Len(q) + from(i)]
    <3>1. /\ i \in 1 .. Len(q') - 1 /\ i - 1 \in 1 .. Len(q') - 1
          /\ from(i) \in 2 .. Len(q) /\ from(i - 1) = from(i) - 1
          /\ Len(amounts') - Len(q') + i = Len(amounts) - Len(q) + from(i)
          /\ Len(amounts) - Len(q) + from(i) \in 1 .. Len(amounts)
      <4>1. /\ Len(q') \in Nat /\ Len(q') <= Len(q) + 1 /\ i \in Int /\ 2 <= i
            /\ i <= Len(q') - 1
        BY <2>1, <2>5, <1>0
      <4>2. /\ Len(q) \in Int /\ Len(amounts) \in Int /\ Len(q) <= Len(amounts)
            /\ Len(amounts') = Len(amounts) + 1
        BY <1>0, <2>2, <2>3
      <4>3. i \in 1 .. Len(q') - 1 /\ i - 1 \in 1 .. Len(q') - 1
        BY <4>1
      <4>4. from(i) \in 2 .. Len(q) /\ from(i - 1) = from(i) - 1
        BY <4>1, <4>2
      <4>5. /\ Len(amounts') - Len(q') + i = Len(amounts) - Len(q) + from(i)
            /\ Len(amounts) - Len(q) + from(i) \in 1 .. Len(amounts)
        BY <4>1, <4>2
      <4> QED
        BY <4>3, <4>4, <4>5
    <3> HIDE DEF from
    <3>2. q'[i] = q[from(i)] /\ q'[i - 1] = q[from(i - 1)]
      BY <2>1, <3>1 DEF from
    <3> QED
      BY <2>3, <3>1, <3>2
  <2>7. amounts'[Len(amounts') - Len(q') + Len(q')] = added
    BY <2>3, <2>5, <1>0
  <2> HIDE DEF from
  <2>8. CASE ~invertible
    <3>1. value = added /\ \A i \in 2 .. Len(q) : q[i] = amounts[Len(amounts) - Len(q) + i]
      BY <2>8 DEF SamplesAreAmounts
    <3>2. value' = 0
      BY <1>2, <2>8 DEF PushSample
    <3>3. ASSUME NEW i \in 2 .. Len(q')
          PROVE  q'[i] = amounts'[Len(amounts') - Len(q') + i]
      <4>1. CASE i = Len(q')
        BY <2>1, <2>7, <3>1, <4>1
      <4>2. CASE i # Len(q')
        <5>1. i \in 2 .. Len(q') - 1
          BY <2>5, <4>2
        <5> QED
          BY <2>6, <3>1, <5>1
      <4> QED
        BY <4>1, <4>2
    <3> QED
      BY <2>2, <2>3, <2>4, <2>5, <2>8, <3>2, <3>3 DEF SamplesAreAmounts
  <2>9. CASE invertible
    <3>1. /\ value = q[Len(q)] + added
          /\ \A i \in 2 .. Len(q) :
                q[i] = q[i - 1] + amounts[Len(amounts) - Len(q) + i]
      BY <2>9 DEF SamplesAreAmounts
    <3>2. value' = value
      BY <1>2, <2>9 DEF PushSample
    <3>3. ASSUME NEW i \in 2 .. Len(q')
          PROVE  q'[i] = q'[i - 1] + amounts'[Len(amounts') - Len(q') + i]
      <4>1. CASE i = Len(q')
        <5>1. i - 1 \in 1 .. Len(q') - 1 /\ Len(q) + 1 - Len(q') + (i - 1) = Len(q)
          BY <1>0, <2>5, <4>1
        <5>2. q'[i - 1] = q[Len(q)]
          BY <2>1, <5>1
        <5> QED
          BY <2>1, <2>7, <3>1, <4>1, <5>2
      <4>2. CASE i # Len(q')
        <5>1. i \in 2 .. Len(q') - 1
          BY <2>5, <4>2
        <5>2. /\ from(i) \in 2 .. Len(q) /\ q'[i] = q[from(i)]
              /\ q'[i - 1] = q[from(i) - 1]
              /\ amounts'[Len(amounts') - Len(q') + i]
                    = amounts[Len(amounts) - Len(q) + from(i)]
          BY <2>6, <5>1
        <5>3. q[from(i)] = q[from(i) - 1] + amounts[Len(amounts) - Len(q) + from(i)]
          BY <3>1, <5>2
        <5> QED
          BY <5>2, <5>3
      <4> QED
        BY <4>1, <4>2
    <3>4. value' = q'[Len(q')] + added'
      BY <1>0, <2>1, <2>4, <3>2
    <3> QED
      BY <2>2, <2>3, <2>4, <2>5, <2>9, <3>3, <3>4 DEF SamplesAreAmounts
  <2> QED
    BY <2>2, <2>8, <2>9
<1>3. ASSUME NEW w \in 1 .. MaxWindow + 1, SetWindowSize(w) PROVE SamplesAreAmounts'
  BY <1>3 DEF SetWindowSize, SamplesAreAmounts
<1>4. CASE UNCHANGED windowVars
  BY <1>4 DEF windowVars, SamplesAreAmounts
<1> QED
  BY <1>1, <1>2, <1>3, <1>4 DEF WindowNext

(* get_value of w seconds looks behind the newest samples, as many as w or *)
(* as there are but for one.                                               *)
LEMMA OldestIsBehind ==
    ASSUME NEW w \in Nat, w >= 1, Len(q) \in Nat, Len(q) > 1
    PROVE  /\ Minimum(w, Len(q) - 1) \in 1 .. Len(q) - 1
           /\ OldestFor(w) = Len(q) - Minimum(w, Len(q) - 1)
<1>1. CASE w < Len(q)
  <2>1. BottomAt(w) = Len(q) - w /\ BottomAt(w) # 0
    BY <1>1 DEF BottomAt
  <2>2. OldestFor(w) = Len(q) - w
    BY <2>1 DEF OldestFor
  <2>3. Minimum(w, Len(q) - 1) = w
    BY <1>1 DEF Minimum
  <2> QED
    BY <1>1, <2>2, <2>3
<1>2. CASE ~(w < Len(q))
  <2>1. OldestFor(w) = 1
    BY <1>2 DEF OldestFor, BottomAt
  <2>2. Minimum(w, Len(q) - 1) = Len(q) - 1
    BY <1>2 DEF Minimum
  <2> QED
    BY <2>1, <2>2
<1> QED
  BY <1>1, <1>2

(* The sum of the samples, or the difference of two of them, is the sum of *)
(* what was streamed in between.                                           *)
LEMMA ValueOfWindow ==
    ASSUME q \in Seq(Int), Len(q) > 1, SamplesAreAmounts, NEW w \in Nat, w >= 1
    PROVE  GetValue(w) = Sum(Latest(amounts, Minimum(w, Len(q) - 1)))
<1> DEFINE n == Minimum(w, Len(q) - 1)
           o == Len(q) - n
           s == Latest(amounts, n)
<1>0. /\ Len(q) \in Nat /\ Len(amounts) \in Nat /\ Len(q) <= Len(amounts)
      /\ amounts \in Seq(Int) /\ invertible \in BOOLEAN
  BY DEF SamplesAreAmounts
<1>1. n \in 1 .. Len(q) - 1 /\ OldestFor(w) = o
  BY <1>0, OldestIsBehind
<1> HIDE DEF n
<1>2. /\ s \in Seq(Int) /\ Len(s) = n
      /\ \A i \in 1 .. n : s[i] = amounts[Len(amounts) - n + i]
  <2>1. /\ Len(amounts) - n + 1 \in 1 .. Len(amounts) + 1
        /\ Len(amounts) \in (Len(amounts) - n + 1) - 1 .. Len(amounts)
        /\ Len(amounts) - (Len(amounts) - n + 1) + 1 = n
    BY <1>0, <1>1
  <2>2. /\ SubSeq(amounts, Len(amounts) - n + 1, Len(amounts)) \in Seq(Int)
        /\ Len(SubSeq(amounts, Len(amounts) - n + 1, Len(amounts))) = n
        /\ \A i \in 1 .. n :
              SubSeq(amounts, Len(amounts) - n + 1, Len(amounts))[i]
                 = amounts[(Len(amounts) - n + 1) + i - 1]
    BY <1>0, <2>1, SubSeqProperties
  <2>3. \A i \in 1 .. n : (Len(amounts) - n + 1) + i - 1 = Len(amounts) - n + i
    BY <1>0, <1>1
  <2> QED
    BY <2>2, <2>3 DEF Latest
<1> HIDE DEF s
<1>3. \A i \in 1 .. n : /\ o + i \in 2 .. Len(q)
                        /\ o + i - 1 = o + (i - 1)
                        /\ Len(amounts) - Len(q) + (o + i) = Len(amounts) - n + i
  BY <1>0, <1>1
<1>4. CASE ~invertible
  <2> DEFINE r == SubSeq(q, o + 1, Len(q))
  <2>1. r \in Seq(Int) /\ Len(r) = n /\ \A i \in 1 .. n : r[i] = q[o + i]
    <3>1. /\ o + 1 \in 1 .. Len(q) + 1 /\ Len(q) \in (o + 1) - 1 .. Len(q)
          /\ Len(q) - (o + 1) + 1 = n
      BY <1>0, <1>1
    <3>2. /\ r \in Seq(Int) /\ Len(r) = n
          /\ \A i \in 1 .. n : r[i] = q[(o + 1) + i - 1]
      BY <3>1, SubSeqProperties
    <3>3. \A i \in 1 .. n : (o + 1) + i - 1 = o + i
      BY <1>0, <1>1
    <3> QED
      BY <3>2, <3>3
  <2> HIDE DEF r
  <2>2. \A i \in 2 .. Len(q) : q[i] = amounts[Len(amounts) - Len(q) + i]
    BY <1>4 DEF SamplesAreAmounts
  <2>3. \A i \in 1 .. n : r[i] = s[i]
    BY <1>2, <1>3, <2>1, <2>2
  <2>4. r = s
    BY <1>2, <2>1, <2>3, SeqEqual
  <2>5. GetValue(w) = Sum(r)
    BY <1>1, <1>4 DEF GetValue, r
  <2> QED
    BY <2>4, <2>5 DEF s, n
<1>5. CASE invertible
  <2> DEFINE g == [i \in 0 .. n |-> q[o + i] - q[o]]
  <2>1. \A i \in 0 .. n : o + i \in 1 .. Len(q)
    BY <1>0, <1>1
  <2>2. \A i \in 0 .. n : q[o + i] \in Int
    BY <2>1
  <2>3. g \in [0 .. n -> Int] /\ \A i \in 0 .. n : g[i] = q[o + i] - q[o]
    <3>1. o + 0 = o /\ 0 \in 0 .. n
      BY <1>0, <1>1
    <3>2. q[o] \in Int
      BY <2>2, <3>1
    <3> QED
      BY <2>2, <3>2
  <2> HIDE DEF g
  <2>4. g[0] = 0
    <3>1. o + 0 = o /\ 0 \in 0 .. n
      BY <1>0, <1>1
    <3> QED
      BY <2>2, <2>3, <3>1
  <2>5. ASSUME NEW i \in 1 .. n PROVE g[i] = g[i - 1] + s[i]
    <3>1. i \in 0 .. n /\ i - 1 \in 0 .. n /\ o \in 1 .. Len(q)
      BY <1>0, <1>1
    <3>2. q[o + i] = q[o + (i - 1)] + amounts[Len(amounts) - Len(q) + (o + i)]
      <4> DEFINE k == o + i
      <4>1. \A j \in 2 .. Len(q) : q[j] = q[j - 1] + amounts[Len(amounts) - Len(q) + j]
        BY <1>5 DEF SamplesAreAmounts
      <4>2. k \in 2 .. Len(q) /\ k - 1 = o + (i - 1)
        <5>1. /\ o \in Int /\ i \in Int /\ 1 <= o /\ 1 <= i
              /\ o + i <= Len(q)
          BY <1>0, <1>1
        <5> QED
          BY <1>0, <5>1
      <4> HIDE DEF k
      <4>3. q[k] = q[k - 1] + amounts[Len(amounts) - Len(q) + k]
        BY <4>1, <4>2
      <4> QED
        BY <4>2, <4>3 DEF k
    <3>3. q[o + i] = q[o + (i - 1)] + s[i]
      BY <1>2, <1>3, <3>2
    <3>4. s[i] \in Int /\ q[o] \in Int /\ q[o + (i - 1)] \in Int
      BY <1>2, <2>2, <3>1
    <3>5. g[i] = q[o + i] - q[o] /\ g[i - 1] = q[o + (i - 1)] - q[o]
      BY <2>3, <3>1
    <3> QED
      BY <3>3, <3>4, <3>5
  <2>6. Sum(s) = g[n]
    BY <1>2, <2>3, <2>4, <2>5, SumOf
  <2>7. n \in 0 .. n /\ o + n = Len(q)
    BY <1>0, <1>1
  <2>8. GetValue(w) = q[Len(q)] - q[o]
    BY <1>1, <1>5 DEF GetValue
  <2> QED
    BY <2>3, <2>6, <2>7, <2>8 DEF s, n
<1> QED
  BY <1>0, <1>4, <1>5

(* What get_value says of a window is what was streamed in over its        *)
(* seconds, although take_sample drops samples and moves them to a larger  *)
(* queue: the samples of the queue stay those of consecutive seconds.      *)
THEOREM WindowsAreExact == WindowSpec => []WindowIsExact
<1>1. WindowInit => WindowInv /\ SamplesAreAmounts
  BY InitWindow, InitSamples
<1>2. WindowInv /\ SamplesAreAmounts /\ [WindowNext]_windowVars
         => (WindowInv /\ SamplesAreAmounts)'
  BY WindowStep, SamplesStep
<1>3. WindowInv /\ SamplesAreAmounts => WindowIsExact
  <2> SUFFICES ASSUME WindowInv, SamplesAreAmounts, Len(q) > 1,
                      NEW w \in 1 .. MaxWindow + 1
               PROVE  GetValue(w) = Sum(Latest(amounts, Minimum(w, Len(q) - 1)))
    BY DEF WindowIsExact
  <2>1. q \in Seq(Int) /\ w \in Nat /\ w >= 1
    BY WindowAssumption DEF WindowInv
  <2> QED
    BY <2>1, ValueOfWindow
<1> QED
  BY <1>1, <1>2, <1>3, PTL DEF WindowSpec
=============================================================================
