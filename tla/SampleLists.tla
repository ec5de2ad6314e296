---------------------------- MODULE SampleLists -----------------------------
(***************************************************************************)
(* The lists of samples as they are in memory: circular lists of LinkNodes *)
(* (src/common/linked_list.h) that CombineCollected (src/collector.cpp)    *)
(* splices.  The other modules take a list as the set of its nodes; here   *)
(* every step of ReducerLocks does what the code does to the pointers, and *)
(* the grab thread takes the list that reset() returns apart, in order.    *)
(***************************************************************************)
EXTENDS ReducerLocks, Naturals

CONSTANT Root             \* tmp_root of Collector::grab_thread

ASSUME RootAssumption == Root \notin Samples \cup {NoSample}
ASSUME FiniteAssumption == IsFiniteSet(Samples)  \* the pool has so many

VARIABLES
    next, previous,       \* next_ and previous_ of every node
    value,                \* value[t]: element.value_ of agent t, or nullptr
    global,               \* global_result_
    tmp                   \* tmp of reset_all_agents

nodeVars == <<next, previous>>
headVars == <<value, global, tmp>>
listVars == <<nodeVars, headVars>>

Nodes == Samples \cup {Root}

nullptr == NoSample

ListsInit ==
    /\ Init
    /\ next = [n \in Nodes |-> n] /\ previous = [n \in Nodes |-> n]
    /\ value = [t \in Threads |-> nullptr]
    /\ global = nullptr /\ tmp = nullptr

-----------------------------------------------------------------------------
(* Mutant of Splice: the last node of the list of e is not linked to n. *)
Splice_open(n, e) ==
    /\ next' = [next EXCEPT ![previous[n]] = e]
    /\ previous' = [previous EXCEPT ![n] = previous[e], ![e] = previous[n]]

(* insert_before_as_list: the list of n goes in front of e, which makes    *)
(* one circle of two.                                                      *)
Splice(n, e) ==
    /\ next' = [next EXCEPT ![previous[n]] = e, ![previous[e]] = n]
    /\ previous' = [previous EXCEPT ![n] = previous[e], ![e] = previous[n]]

(* remove_from_list. *)
Unlink(n) ==
    /\ next' = [next EXCEPT ![previous[n]] = next[n], ![n] = n]
    /\ previous' = [previous EXCEPT ![next[n]] = previous[n], ![n] = n]

(* CombineCollected: s1 is what its reference is set to, and the lists of  *)
(* s1 and s2 become one.                                                   *)
Combined(s1, s2) == IF s1 = nullptr THEN s2 ELSE s1

CombineNodes(s1, s2) ==
    \/ s1 # nullptr /\ s2 # nullptr /\ Splice(s1, s2)
    \/ nullptr \in {s1, s2} /\ UNCHANGED nodeVars

(* get_object constructs a sample once: one that comes back from the pool  *)
(* has the pointers it was returned with.  A new agent has no list.        *)
BeginNode(t, s) ==
    /\ Begin(t, s)
    /\ value' = IF registered[t] THEN value ELSE [value EXCEPT ![t] = nullptr]
    /\ UNCHANGED <<nodeVars, global, tmp>>

(* op(value_, sample). *)
ModifyList(t) ==
    /\ ModifyDo(t)
    /\ CombineNodes(value[t], arg[t])
    /\ value' = [value EXCEPT ![t] = Combined(value[t], arg[t])]
    /\ UNCHANGED <<global, tmp>>

(* op_(global_result_, local): the element keeps its pointer until the     *)
(* agent is gone.                                                          *)
CommitList(t) ==
    /\ ExitDo(t)
    /\ CombineNodes(global, value[t])
    /\ global' = Combined(global, value[t])
    /\ value' = IF t \in owes THEN value ELSE [value EXCEPT ![t] = nullptr]
    /\ UNCHANGED tmp

LateNode(t) ==
    /\ ExitLate(t)
    /\ value' = [value EXCEPT ![t] = nullptr]
    /\ UNCHANGED <<nodeVars, global, tmp>>

(* The sample of an ending thread goes in front of what its element points *)
(* to, wherever that is now.                                               *)
StoreNode(t, s) ==
    /\ StoreAt(t, s, Combined(value[t], s))
    /\ CombineNodes(value[t], s)
    /\ value' = [value EXCEPT ![t] = nullptr]
    /\ UNCHANGED <<global, tmp>>

-----------------------------------------------------------------------------
(* reset_all_agents is called when the last list has been taken apart. *)
TakeList ==
    /\ next[Root] = Root
    /\ ResetLock \/ ResetAcquire
    /\ tmp' = global /\ global' = nullptr
    /\ UNCHANGED <<nodeVars, value>>

(* element.exchange(&prev, nullptr) and op_(tmp, prev). *)
VisitList ==
    /\ VisitDo
    /\ CombineNodes(tmp, value[cur])
    /\ tmp' = Combined(tmp, value[cur])
    /\ value' = [value EXCEPT ![cur] = nullptr]
    /\ UNCHANGED global

(* reset() returns tmp, and grab_thread puts the list in front of          *)
(* tmp_root.                                                               *)
ReturnList ==
    /\ ResetEnd
    /\ \/ tmp # nullptr /\ Splice(tmp, Root)
       \/ tmp = nullptr /\ UNCHANGED nodeVars
    /\ tmp' = nullptr
    /\ UNCHANGED <<value, global>>

(* The loop of grab_thread: the first node is unlinked, until the list is  *)
(* at its end.                                                             *)
TakeApart ==
    /\ gpc = "idle" /\ walk = "none"
    /\ next[Root] # Root
    /\ Consume(next[Root])
    /\ Unlink(next[Root])
    /\ UNCHANGED headVars

LockStep ==
    /\ \/ \E t \in Threads :
            \/ AppendLock(t) \/ AppendDo(t) \/ ModifyLock(t) \/ ExitLock(t)
            \/ ExitContended(t) \/ ExitAcquire(t) \/ VisitLock(t) \/ VisitContended(t)
       \/ next[Root] = Root /\ ResetContended
       \/ VisitAcquire \/ SampleLate
    /\ UNCHANGED listVars

ListsNext ==
    \/ \E t \in Threads, s \in Samples : BeginNode(t, s) \/ StoreNode(t, s)
    \/ \E t \in Threads : ModifyList(t) \/ CommitList(t) \/ LateNode(t)
    \/ TakeList \/ VisitList \/ ReturnList \/ TakeApart
    \/ LockStep

ListsSpec == ListsInit /\ [][ListsNext]_<<vars, listVars>>

-----------------------------------------------------------------------------
(* The nodes a walk from n comes by, as many steps as there are nodes. *)
Circle(n) ==
    LET at[k \in 0 .. Cardinality(Nodes)] == IF k = 0 THEN n ELSE next[at[k - 1]]
    IN {at[k] : k \in 0 .. Cardinality(Nodes)}

ListOf(p) == IF p = nullptr THEN {} ELSE Circle(p)

(* Walking from a head comes by the samples of that list, all of them and  *)
(* no others, and back, while threads splice and leave: a splice of two    *)
(* nodes of one circle would cut it in two, a list still pointed to by an  *)
(* agent that has given it away would be spliced twice, and a sample that  *)
(* comes back from the pool linked would bring along another list.         *)
CirclesAreTheLists ==
    lost = {} =>
        /\ \A n \in Nodes : previous[next[n]] = n /\ next[previous[n]] = n
        /\ \A t \in Threads : ~Dying(t) => ListOf(value[t]) = element[t]
        /\ ListOf(global) = global_result
        /\ ListOf(tmp) = IF walk = "reset" THEN acc ELSE {}
        /\ Circle(Root) = out \cup {Root}
        /\ \A s \in Samples : Fresh(s) \/ s \in InFlight => Circle(s) = {s}
=============================================================================
