---------------------------- MODULE ReducerLocks ----------------------------
(***************************************************************************)
(* The reducer of samples with its mutexes, and the hook under them.       *)
(* Combiner takes every section under a mutex as one step; here mtx_ and   *)
(* every element.mtx_ are locked and unlocked, and the calls are the       *)
(* program's own: application threads stream in samples from               *)
(* submit_contention, whose mutexes are not sampled (tls_inside_lock), and *)
(* the grab thread calls reset(), whose mutexes are.  When the grab thread *)
(* has waited for one of them, its unlock calls submit_contention          *)
(* (src/contention.cpp) in the middle of reset_all_agents.  So does the    *)
(* unlock in commit_and_erase of a thread that ends, between ~Agent's call *)
(* of commit_and_erase and the agent's end.                                *)
(***************************************************************************)
EXTENDS FiniteSets

CONSTANTS
    Threads,              \* all threads, the grab thread among them
    Grab,                 \* the grab thread
    Samples, NoSample,
    NoThread              \* a mutex that is free

ASSUME GrabAssumption == Grab \in Threads /\ NoThread \notin Threads
ASSUME SampleAssumption == NoSample \notin Samples

VARIABLES
    registered, agents, element, global_result, pc, arg,    \* as in Combiner
    walk, visited, acc, must, out,                           \* as in Combiner
    mtx,                  \* who holds mtx_ of the combiner
    emtx,                 \* emtx[t]: who holds element.mtx_ of agent t
    gpc,                  \* where reset_all_agents of the grab thread is
    cur,                  \* the agent the walk is at
    sampled,              \* mutexes the grab thread waited for and samples
    owes,                 \* ending threads that sample their wait for mtx_
    lost                  \* history: samples no list has any more

combinerVars == <<registered, agents, element, global_result, pc, arg,
                  walk, visited, acc, must, out>>
grabVars == <<gpc, cur, sampled>>
exitVars == <<owes, lost>>
vars == <<combinerVars, mtx, emtx, grabVars, exitVars>>

(* commit_and_erase has moved the list and unlinked the agent, which still *)
(* names the combiner, and whose element still points into the list.       *)
Dying(t) == pc[t] = "exitsample"

(* The agents and elements that are the combiner's. *)
Attached == [t \in Threads |-> registered[t] /\ ~Dying(t)]
Owned == [t \in Threads |-> IF Dying(t) THEN {} ELSE element[t]]

Contents == global_result \cup (UNION {Owned[t] : t \in Threads})
                \cup (IF walk = "reset" THEN acc ELSE {})

InFlight == {arg[t] : t \in Threads} \ {NoSample}

(* get_object returns a sample that is nowhere. *)
Fresh(s) == s \notin Contents \cup out \cup InFlight \cup lost

Init ==
    /\ registered = [t \in Threads |-> FALSE]
    /\ agents = {}
    /\ element = [t \in Threads |-> {}]
    /\ global_result = {}
    /\ pc = [t \in Threads |-> "idle"]
    /\ arg = [t \in Threads |-> NoSample]
    /\ walk = "none" /\ visited = {} /\ acc = {} /\ must = {}
    /\ out = {}
    /\ mtx = NoThread
    /\ emtx = [t \in Threads |-> NoThread]
    /\ gpc = "idle" /\ cur = Grab /\ sampled = {}
    /\ owes = {} /\ lost = {}

-----------------------------------------------------------------------------
(* The threads that may call submit_contention: the grab thread only from  *)
(* an unlock it samples.                                                   *)
MaySubmit(t) == pc[t] = "idle" /\ (t = Grab => gpc = "sample")

(* Mutant of Begin: an attached agent is linked again. *)
Begin_relink(t, s) ==
    /\ MaySubmit(t)
    /\ Fresh(s)
    /\ arg' = [arg EXCEPT ![t] = s]
    /\ registered' = [registered EXCEPT ![t] = TRUE]
    /\ pc' = [pc EXCEPT ![t] = "alock"]
    /\ UNCHANGED <<element, agents, global_result, walk, visited, acc, must, out,
                   mtx, emtx, grabVars, exitVars>>

(* operator<< : get_or_create_tls_agent. *)
Begin(t, s) ==
    /\ MaySubmit(t)
    /\ Fresh(s)
    /\ arg' = [arg EXCEPT ![t] = s]
    /\ \/ /\ registered[t]
          /\ pc' = [pc EXCEPT ![t] = "elock"]
          /\ UNCHANGED <<registered, element>>
       \/ /\ ~registered[t]
          /\ registered' = [registered EXCEPT ![t] = TRUE]
          /\ element' = [element EXCEPT ![t] = {}]
          /\ pc' = [pc EXCEPT ![t] = "alock"]
    /\ UNCHANGED <<agents, global_result, walk, visited, acc, must, out,
                   mtx, emtx, grabVars, exitVars>>

(* Mutant of AppendLock: mtx_ is not taken. *)
AppendLock_skipped(t) ==
    /\ pc[t] = "alock"
    /\ pc' = [pc EXCEPT ![t] = "append"]
    /\ UNCHANGED <<registered, agents, element, global_result, arg, walk,
                   visited, acc, must, out, mtx, emtx, grabVars, exitVars>>

AppendLock(t) ==
    /\ pc[t] = "alock"
    /\ mtx = NoThread
    /\ mtx' = t
    /\ pc' = [pc EXCEPT ![t] = "append"]
    /\ UNCHANGED <<registered, agents, element, global_result, arg, walk,
                   visited, acc, must, out, emtx, grabVars, exitVars>>

(* agents_.Append(agent), and mtx_ is unlocked. *)
AppendDo(t) ==
    /\ pc[t] = "append"
    /\ agents' = agents \cup {t}
    /\ mtx' = NoThread
    /\ pc' = [pc EXCEPT ![t] = "elock"]
    /\ UNCHANGED <<registered, element, global_result, arg, walk, visited, acc,
                   must, out, emtx, grabVars, exitVars>>

ModifyLock(t) ==
    /\ pc[t] = "elock"
    /\ emtx[t] = NoThread
    /\ emtx' = [emtx EXCEPT ![t] = t]
    /\ pc' = [pc EXCEPT ![t] = "modify"]
    /\ UNCHANGED <<registered, agents, element, global_result, arg, walk,
                   visited, acc, must, out, mtx, grabVars, exitVars>>

(* submit_contention of the grab thread returns into reset_all_agents, or  *)
(* behind it.                                                              *)
Resume == gpc' = IF walk = "none" THEN "idle" ELSE "walk"

(* element.modify(op, value). *)
ModifyDo(t) ==
    /\ pc[t] = "modify"
    /\ element' = [element EXCEPT ![t] = @ \cup {arg[t]}]
    /\ arg' = [arg EXCEPT ![t] = NoSample]
    /\ emtx' = [emtx EXCEPT ![t] = NoThread]
    /\ pc' = [pc EXCEPT ![t] = "idle"]
    /\ \/ t = Grab /\ Resume
       \/ t # Grab /\ UNCHANGED gpc
    /\ UNCHANGED <<registered, agents, global_result, walk, visited, acc, must,
                   out, mtx, cur, sampled, exitVars>>

(* ~Agent of an exiting thread: commit_and_erase finds mtx_ free... *)
ExitLock(t) ==
    /\ t # Grab
    /\ pc[t] = "idle" /\ registered[t]
    /\ mtx = NoThread
    /\ mtx' = t
    /\ pc' = [pc EXCEPT ![t] = "exit"]
    /\ UNCHANGED <<registered, agents, element, global_result, arg, walk,
                   visited, acc, must, out, emtx, grabVars, exitVars>>

(* ...or locked, and samples the wait or not. *)
ExitContended(t) ==
    /\ t # Grab
    /\ pc[t] = "idle" /\ registered[t]
    /\ mtx # NoThread
    /\ pc' = [pc EXCEPT ![t] = "exitwait"]
    /\ owes' \in {owes, owes \cup {t}}
    /\ UNCHANGED <<registered, agents, element, global_result, arg, walk,
                   visited, acc, must, out, mtx, emtx, grabVars, lost>>

ExitAcquire(t) ==
    /\ pc[t] = "exitwait"
    /\ mtx = NoThread
    /\ mtx' = t
    /\ pc' = [pc EXCEPT ![t] = "exit"]
    /\ UNCHANGED <<registered, agents, element, global_result, arg, walk,
                   visited, acc, must, out, emtx, grabVars, exitVars>>

AgentGone(t) ==
    /\ element' = [element EXCEPT ![t] = {}]
    /\ registered' = [registered EXCEPT ![t] = FALSE]
    /\ pc' = [pc EXCEPT ![t] = "idle"]

(* The element is loaded, which no other thread may have locked now, and   *)
(* not reset; the agent is unlinked and mtx_ unlocked.  If the thread has  *)
(* sampled its wait, the unlock calls submit_contention.                   *)
ExitDo(t) ==
    /\ pc[t] = "exit"
    /\ emtx[t] = NoThread
    /\ global_result' = global_result \cup element[t]
    /\ agents' = agents \ {t}
    /\ mtx' = NoThread
    /\ \/ t \notin owes /\ AgentGone(t)
       \/ /\ t \in owes
          /\ pc' = [pc EXCEPT ![t] = "exitsample"]
          /\ UNCHANGED <<registered, element>>
    /\ UNCHANGED <<arg, walk, visited, acc, must, out, emtx, grabVars, exitVars>>

(* Collected::submit finds that sample late... *)
ExitLate(t) ==
    /\ Dying(t)
    /\ AgentGone(t)
    /\ owes' = owes \ {t}
    /\ UNCHANGED <<agents, global_result, arg, walk, visited, acc, must, out, mtx,
                   emtx, grabVars, lost>>

(* ...or stores it: the agent is taken for attached, and the sample goes   *)
(* in front of the node n that the element points to, into whatever list n *)
(* is in by now and without its mutex.  It goes into the element alone,    *)
(* which is destroyed next, if that was empty, and is lost as well if n    *)
(* has been freed.                                                         *)
StoreAt(t, s, n) ==
    /\ Dying(t)
    /\ Fresh(s)
    /\ LET Join(S) == IF n \in S THEN S \cup {s} ELSE S IN
       /\ global_result' = Join(global_result)
       /\ acc' = Join(acc)
       /\ out' = Join(out)
       /\ element' = [u \in Threads |-> IF u = t THEN {} ELSE
                         IF Dying(u) THEN element[u] ELSE Join(element[u])]
       /\ lost' = IF n \in Contents \cup out THEN lost ELSE lost \cup {s}
    /\ registered' = [registered EXCEPT ![t] = FALSE]
    /\ pc' = [pc EXCEPT ![t] = "idle"]
    /\ owes' = owes \ {t}
    /\ UNCHANGED <<agents, arg, walk, visited, must, mtx, emtx, grabVars>>

ExitStore(t, s) ==
    \E n \in IF element[t] = {} THEN {s} ELSE element[t] : StoreAt(t, s, n)

-----------------------------------------------------------------------------
(* The grab thread has mtx_: global_result_ is taken. *)
TakeGlobal ==
    /\ mtx' = Grab
    /\ walk' = "reset"
    /\ acc' = global_result
    /\ global_result' = {}
    /\ must' = Contents
    /\ gpc' = "walk"
    /\ UNCHANGED <<registered, agents, element, pc, arg, visited, out, emtx,
                   cur, exitVars>>

(* reset_all_agents finds mtx_ free... *)
ResetLock ==
    /\ gpc = "idle"
    /\ mtx = NoThread
    /\ TakeGlobal
    /\ UNCHANGED sampled

(* ...or locked, and samples the wait or not (is_collectable). *)
ResetContended ==
    /\ gpc = "idle"
    /\ mtx # NoThread
    /\ gpc' = "wait"
    /\ sampled' \in {sampled, sampled \cup {"mtx"}}
    /\ UNCHANGED <<combinerVars, mtx, emtx, cur, exitVars>>

ResetAcquire ==
    /\ gpc = "wait"
    /\ mtx = NoThread
    /\ TakeGlobal
    /\ UNCHANGED sampled

(* exchange finds element.mtx_ of the next agent free... *)
VisitLock(t) ==
    /\ gpc = "walk"
    /\ t \in agents \ visited
    /\ emtx[t] = NoThread
    /\ emtx' = [emtx EXCEPT ![t] = Grab]
    /\ cur' = t
    /\ gpc' = "exchange"
    /\ UNCHANGED <<combinerVars, mtx, sampled, exitVars>>

(* ...or locked. *)
VisitContended(t) ==
    /\ gpc = "walk"
    /\ t \in agents \ visited
    /\ emtx[t] # NoThread
    /\ cur' = t
    /\ gpc' = "ewait"
    /\ sampled' \in {sampled, sampled \cup {"element"}}
    /\ UNCHANGED <<combinerVars, mtx, emtx, exitVars>>

VisitAcquire ==
    /\ gpc = "ewait"
    /\ emtx[cur] = NoThread
    /\ emtx' = [emtx EXCEPT ![cur] = Grab]
    /\ gpc' = "exchange"
    /\ UNCHANGED <<combinerVars, mtx, cur, sampled, exitVars>>

(* Mutant of VisitDo: the element is read but not reset. *)
VisitDo_load ==
    /\ gpc = "exchange"
    /\ acc' = acc \cup element[cur]
    /\ visited' = visited \cup {cur}
    /\ emtx' = [emtx EXCEPT ![cur] = NoThread]
    /\ gpc' = IF "element" \in sampled THEN "sample" ELSE "walk"
    /\ sampled' = sampled \ {"element"}
    /\ UNCHANGED <<registered, agents, element, global_result, pc, arg, walk,
                   must, out, mtx, cur,
                   exitVars>>

(* The exchange, and the unlock, which calls submit_contention when the    *)
(* grab thread has sampled its wait for this mutex.                        *)
VisitDo ==
    /\ gpc = "exchange"
    /\ acc' = acc \cup element[cur]
    /\ element' = [element EXCEPT ![cur] = {}]
    /\ visited' = visited \cup {cur}
    /\ emtx' = [emtx EXCEPT ![cur] = NoThread]
    /\ gpc' = IF "element" \in sampled THEN "sample" ELSE "walk"
    /\ sampled' = sampled \ {"element"}
    /\ UNCHANGED <<registered, agents, global_result, pc, arg, walk, must, out,
                   mtx, cur, exitVars>>

(* The walk is over: mtx_ is unlocked, with the same consequence. *)
ResetEnd ==
    /\ gpc = "walk"
    /\ visited = agents
    /\ out' = out \cup acc
    /\ walk' = "none" /\ visited' = {} /\ acc' = {} /\ must' = {}
    /\ mtx' = NoThread
    /\ gpc' = IF "mtx" \in sampled THEN "sample" ELSE "idle"
    /\ sampled' = {}
    /\ UNCHANGED <<registered, agents, element, global_result, pc, arg, emtx, cur,
                   exitVars>>

(* Collected::submit finds the sample late and destroys it. *)
SampleLate ==
    /\ gpc = "sample"
    /\ pc[Grab] = "idle"
    /\ Resume
    /\ UNCHANGED <<combinerVars, mtx, emtx, cur, sampled, exitVars>>

(* The grab thread is done with a sample of the list. *)
Consume(s) ==
    /\ s \in out
    /\ out' = out \ {s}
    /\ UNCHANGED <<registered, agents, element, global_result, pc, arg, walk,
                   visited, acc, must, mtx, emtx, grabVars, exitVars>>

Next ==
    \/ \E t \in Threads, s \in Samples : Begin(t, s) \/ ExitStore(t, s)
    \/ \E t \in Threads :
          \/ AppendLock(t) \/ AppendDo(t) \/ ModifyLock(t) \/ ModifyDo(t)
          \/ ExitLock(t) \/ ExitContended(t) \/ ExitAcquire(t) \/ ExitDo(t)
          \/ ExitLate(t) \/ VisitLock(t) \/ VisitContended(t)
    \/ ResetLock \/ ResetContended \/ ResetAcquire
    \/ VisitAcquire \/ VisitDo \/ ResetEnd \/ SampleLate
    \/ \E s \in Samples : Consume(s)

Spec == Init /\ [][Next]_vars

-----------------------------------------------------------------------------
TypeOK ==
    /\ registered \in [Threads -> BOOLEAN]
    /\ visited \subseteq agents /\ agents \subseteq Threads
    /\ element \in [Threads -> SUBSET Samples]
    /\ \A S \in {global_result, acc, must, out, lost} : S \subseteq Samples
    /\ pc \in [Threads -> {"idle", "alock", "append", "elock", "modify",
                          "exitwait", "exit", "exitsample"}]
    /\ arg \in [Threads -> Samples \cup {NoSample}]
    /\ walk \in {"none", "reset"}
    /\ mtx \in Threads \cup {NoThread}
    /\ emtx \in [Threads -> Threads \cup {NoThread}]
    /\ gpc \in {"idle", "wait", "walk", "ewait", "exchange", "sample"}
    /\ cur \in Threads
    /\ sampled \subseteq {"mtx", "element"}
    /\ owes \subseteq {t \in Threads : pc[t] \in {"exitwait", "exit", "exitsample"}}

(* The sections under mtx_ and under each element.mtx_ exclude each other: *)
(* the holder the mutex names is the one thread inside.                    *)
Excluded ==
    /\ \A t \in Threads : pc[t] \in {"append", "exit"} => mtx = t
    /\ walk # "none" => mtx = Grab
    /\ \A t \in Threads : pc[t] = "modify" => emtx[t] = t
    /\ gpc = "exchange" => emtx[cur] = Grab

WaitsForItself(t) ==
    \/ pc[t] \in {"alock", "exitwait"} /\ mtx = t
    \/ pc[t] = "elock" /\ emtx[t] = t

(* A thread waits for a mutex it holds in one case only: the grab thread   *)
(* samples an element.mtx_ inside of reset_all_agents before its agent has *)
(* ever been linked, and comes back for mtx_.  The locks of every other    *)
(* thread, and the grab thread's once it is linked, are safe to sample.    *)
SelfDeadlockOnlyUnlinked ==
    \A t \in Threads :
        WaitsForItself(t) => t = Grab /\ walk = "reset" /\ Grab \notin agents

(* "the code that collects contention may call pthread_mutex_lock and      *)
(* deadlock, so it is not sampled" (contention.cpp:116): no thread waits   *)
(* for a mutex it holds.                                                   *)
NoSelfDeadlock == \A t \in Threads : ~WaitsForItself(t)

(* With its mutexes, nested submissions and all, the reducer takes only    *)
(* the steps of Combiner: each section is the one step Combiner has.  The  *)
(* submission of a thread that ends is the only step which is not.         *)
CombinerPc ==
    [t \in Threads |-> CASE pc[t] \in {"alock", "append"} -> "append"
                         [] pc[t] \in {"elock", "modify"} -> "modify"
                         [] OTHER -> "idle"]

C == INSTANCE Combiner WITH
         pc <- CombinerPc, registered <- Attached, element <- Owned

StepsOfCombiner ==
    [][C!Next \/ \E t \in Threads, s \in Samples : ExitStore(t, s)]_(C!vars)

(* The reducer keeps what is submitted to it until reset returns it. *)
NothingLost == lost = {}
=============================================================================
