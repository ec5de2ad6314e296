------------------------- MODULE ReducerLocksProofs -------------------------
(***************************************************************************)
(* Proofs about the locks of the reducer, for any number of threads and    *)
(* samples: the sections under a mutex exclude each other, a thread waits  *)
(* for itself in one case only, and every step is one of Combiner, but for *)
(* the sample that a thread submits while it ends.  Then about its lists   *)
(* as they are in memory: every sample has one place at a time, therefore  *)
(* a splice is of two circles, and the lists stay the circles they should  *)
(* be.                                                                     *)
(***************************************************************************)
EXTENDS SampleLists, FiniteSetTheorems, WellFoundedInduction, TLAPS

(* Who holds a mutex is inside of the section it protects. *)
HoldersInside ==
    /\ \A t \in Threads :
          mtx = t => pc[t] \in {"append", "exit"} \/ (t = Grab /\ walk # "none")
    /\ \A t, u \in Threads :
          emtx[t] = u => \/ u = t /\ pc[t] = "modify"
                         \/ u = Grab /\ gpc = "exchange" /\ cur = t

(* The grab thread submits a sample only from an unlock it samples, and    *)
(* locks mtx_ for itself then only when it is not inside of a walk.        *)
GrabNested ==
    /\ pc[Grab] # "idle" => gpc = "sample"
    /\ pc[Grab] \notin {"exitwait", "exit", "exitsample"}
    /\ pc[Grab] = "append" => walk = "none"
    /\ gpc \in {"idle", "wait"} => walk = "none"
    /\ walk = "none" => visited = {}
    /\ gpc \in {"walk", "ewait", "exchange"} => walk = "reset"
    /\ gpc \in {"ewait", "exchange"} => cur \in agents \ visited

(* An agent that is attached is linked, but while it is coming or going. *)
LinkedWhenAttached ==
    \A t \in Threads :
        /\ pc[t] \in {"alock", "append", "exitsample"} => t \notin agents
        /\ pc[t] \in {"elock", "modify", "exitwait", "exit"} => t \in agents
        /\ pc[t] = "idle" /\ registered[t] => t \in agents
        /\ t \in agents \/ pc[t] # "idle" => registered[t]

Arguments == \A t \in Threads : pc[t] \in {"alock", "append", "elock", "modify"}
                                    => arg[t] \in Samples

LInv ==
    TypeOK /\ Excluded /\ HoldersInside /\ GrabNested /\ LinkedWhenAttached /\ Arguments

LEMMA InitLInv == Init => LInv
BY GrabAssumption
DEF Init, LInv, TypeOK, Excluded, HoldersInside, GrabNested, LinkedWhenAttached,
    Arguments

-----------------------------------------------------------------------------
(* The types of the variables are kept by every step. *)
LEMMA NextTypes == LInv /\ [Next]_vars => TypeOK'
<1> SUFFICES ASSUME LInv, [Next]_vars PROVE TypeOK'
  OBVIOUS
<1> USE GrabAssumption, SampleAssumption DEF LInv, TypeOK
<1>1. ASSUME NEW t \in Threads, NEW s \in Samples, Begin(t, s) PROVE TypeOK'
  BY <1>1 DEF Begin, MaySubmit, Fresh, grabVars, exitVars
<1>2. ASSUME NEW t \in Threads, AppendLock(t) PROVE TypeOK'
  BY <1>2 DEF AppendLock, grabVars, exitVars
<1>3. ASSUME NEW t \in Threads, AppendDo(t) PROVE TypeOK'
  BY <1>3 DEF AppendDo, grabVars, exitVars
<1>4. ASSUME NEW t \in Threads, ModifyLock(t) PROVE TypeOK'
  BY <1>4 DEF ModifyLock, grabVars, exitVars
<1>5. ASSUME NEW t \in Threads, ModifyDo(t) PROVE TypeOK'
  BY <1>5 DEF Arguments, ModifyDo, Resume, exitVars
<1>6. ASSUME NEW t \in Threads, ExitLock(t) PROVE TypeOK'
  BY <1>6 DEF ExitLock, grabVars, exitVars
<1>7. ASSUME NEW t \in Threads, ExitContended(t) PROVE TypeOK'
  BY <1>7 DEF ExitContended, grabVars
<1>8. ASSUME NEW t \in Threads, ExitAcquire(t) PROVE TypeOK'
  BY <1>8 DEF ExitAcquire, grabVars, exitVars
<1>9. ASSUME NEW t \in Threads, ExitDo(t) PROVE TypeOK'
  <2>1. walk = "none" /\ visited = {}
    BY <1>9 DEF Excluded, GrabNested, ExitDo
  <2>2. /\ registered' \in [Threads -> BOOLEAN]
        /\ element' \in [Threads -> SUBSET Samples]
        /\ global_result' \subseteq Samples /\ agents' \subseteq Threads
        /\ pc' \in [Threads -> {"idle", "alock", "append", "elock", "modify",
                               "exitwait", "exit", "exitsample"}]
        /\ owes' \subseteq {u \in Threads :
                              pc'[u] \in {"exitwait", "exit", "exitsample"}}
    <3>1. CASE t \in owes
      BY <1>9, <3>1 DEF ExitDo, exitVars
    <3>2. CASE t \notin owes
      BY <1>9, <3>2 DEF ExitDo, AgentGone, exitVars
    <3> QED
      BY <3>1, <3>2
  <2> QED
    BY <1>9, <2>1, <2>2 DEF ExitDo, grabVars, exitVars
<1>10. ASSUME NEW t \in Threads, ExitLate(t) PROVE TypeOK'
  BY <1>10 DEF ExitLate, AgentGone, Dying, grabVars
<1>11. ASSUME NEW t \in Threads, NEW s \in Samples, ExitStore(t, s) PROVE TypeOK'
  BY <1>11 DEF ExitStore, StoreAt, Dying, grabVars
<1>12. ASSUME NEW t \in Threads, VisitLock(t) PROVE TypeOK'
  BY <1>12 DEF VisitLock, combinerVars, exitVars
<1>13. ASSUME NEW t \in Threads, VisitContended(t) PROVE TypeOK'
  BY <1>13 DEF VisitContended, combinerVars, exitVars
<1>14. CASE ResetLock \/ ResetAcquire
  <2>1. Contents \subseteq Samples
    <3>1. \A t \in Threads : Owned[t] \subseteq Samples
      BY DEF Owned
    <3>2. UNION {Owned[t] : t \in Threads} \subseteq Samples
      BY <3>1
    <3>3. global_result \subseteq Samples /\ acc \subseteq Samples
      OBVIOUS
    <3>4. (IF walk = "reset" THEN acc ELSE {}) \subseteq Samples
      BY <3>3
    <3> QED
      BY <3>2, <3>3, <3>4 DEF Contents
  <2>2. /\ UNCHANGED <<registered, agents, element, pc, arg, visited, out,
                     emtx, cur,
                       sampled, owes, lost>>
        /\ global_result' = {} /\ acc' = global_result /\ must' = Contents
        /\ mtx' = Grab /\ walk' = "reset" /\ gpc' = "walk"
    BY <1>14 DEF ResetLock, ResetAcquire, TakeGlobal, exitVars
  <2>3. \A S \in {global_result', acc', must', out', lost'} : S \subseteq Samples
    BY <2>1, <2>2
  <2> QED
    BY <2>2, <2>3
<1>15. CASE ResetContended
  BY <1>15 DEF ResetContended, combinerVars, exitVars
<1>16. CASE VisitAcquire
  BY <1>16 DEF VisitAcquire, combinerVars, exitVars
<1>17. CASE VisitDo
  BY <1>17 DEF GrabNested, VisitDo, exitVars
<1>18. CASE ResetEnd
  BY <1>18 DEF ResetEnd, exitVars
<1>19. CASE SampleLate
  BY <1>19 DEF SampleLate, Resume, combinerVars, exitVars
<1>20. ASSUME NEW s \in Samples, Consume(s) PROVE TypeOK'
  BY <1>20 DEF Consume, grabVars, exitVars
<1>21. CASE UNCHANGED vars
  BY <1>21 DEF vars, combinerVars, grabVars, exitVars
<1> QED
  BY <1>1, <1>2, <1>3, <1>4, <1>5, <1>6, <1>7, <1>8, <1>9, <1>10, <1>11, <1>12,
     <1>13, <1>14, <1>15, <1>16, <1>17, <1>18, <1>19, <1>20, <1>21 DEF Next

LEMMA NextExcluded == LInv /\ [Next]_vars => (Excluded /\ HoldersInside)'
<1> SUFFICES ASSUME LInv, [Next]_vars PROVE (Excluded /\ HoldersInside)'
  OBVIOUS
<1> USE GrabAssumption DEF LInv, TypeOK, Excluded, HoldersInside, GrabNested
<1>1. ASSUME NEW t \in Threads, NEW s \in Samples, Begin(t, s)
       PROVE  (Excluded /\ HoldersInside)'
  BY <1>1 DEF Begin, MaySubmit, Fresh, grabVars, exitVars
<1>2. ASSUME NEW t \in Threads, AppendLock(t) PROVE (Excluded /\ HoldersInside)'
  BY <1>2 DEF AppendLock, grabVars, exitVars
<1>3. ASSUME NEW t \in Threads, AppendDo(t) PROVE (Excluded /\ HoldersInside)'
  BY <1>3 DEF AppendDo, grabVars, exitVars
<1>4. ASSUME NEW t \in Threads, ModifyLock(t) PROVE (Excluded /\ HoldersInside)'
  BY <1>4 DEF ModifyLock, grabVars, exitVars
<1>5. ASSUME NEW t \in Threads, ModifyDo(t) PROVE (Excluded /\ HoldersInside)'
  BY <1>5 DEF ModifyDo, Resume, exitVars
<1>6. ASSUME NEW t \in Threads, ExitLock(t) PROVE (Excluded /\ HoldersInside)'
  BY <1>6 DEF ExitLock, grabVars, exitVars
<1>7. ASSUME NEW t \in Threads, ExitContended(t) PROVE (Excluded /\ HoldersInside)'
  BY <1>7 DEF ExitContended, grabVars
<1>8. ASSUME NEW t \in Threads, ExitAcquire(t) PROVE (Excluded /\ HoldersInside)'
  BY <1>8 DEF ExitAcquire, grabVars, exitVars
<1>9. ASSUME NEW t \in Threads, ExitDo(t) PROVE (Excluded /\ HoldersInside)'
  BY <1>9 DEF ExitDo, AgentGone, grabVars, exitVars
<1>10. ASSUME NEW t \in Threads, ExitLate(t) PROVE (Excluded /\ HoldersInside)'
  BY <1>10 DEF ExitLate, AgentGone, Dying, grabVars
<1>11. ASSUME NEW t \in Threads, NEW s \in Samples, ExitStore(t, s)
       PROVE  (Excluded /\ HoldersInside)'
  BY <1>11 DEF ExitStore, StoreAt, Dying, grabVars
<1>12. ASSUME NEW t \in Threads, VisitLock(t) PROVE (Excluded /\ HoldersInside)'
  BY <1>12 DEF VisitLock, combinerVars, exitVars
<1>13. ASSUME NEW t \in Threads, VisitContended(t)
       PROVE  (Excluded /\ HoldersInside)'
  BY <1>13 DEF VisitContended, combinerVars, exitVars
<1>14. CASE ResetLock \/ ResetAcquire
  BY <1>14 DEF ResetLock, ResetAcquire, TakeGlobal, exitVars
<1>15. CASE ResetContended
  BY <1>15 DEF ResetContended, combinerVars, exitVars
<1>16. CASE VisitAcquire
  BY <1>16 DEF VisitAcquire, combinerVars, exitVars
<1>17. CASE VisitDo
  BY <1>17 DEF VisitDo, exitVars
<1>18. CASE ResetEnd
  BY <1>18 DEF ResetEnd, exitVars
<1>19. CASE SampleLate
  BY <1>19 DEF SampleLate, Resume, combinerVars, exitVars
<1>20. ASSUME NEW s \in Samples, Consume(s) PROVE (Excluded /\ HoldersInside)'
  BY <1>20 DEF Consume, grabVars, exitVars
<1>21. CASE UNCHANGED vars
  BY <1>21 DEF vars, combinerVars, grabVars, exitVars
<1> QED
  BY <1>1, <1>2, <1>3, <1>4, <1>5, <1>6, <1>7, <1>8, <1>9, <1>10, <1>11, <1>12,
     <1>13, <1>14, <1>15, <1>16, <1>17, <1>18, <1>19, <1>20, <1>21 DEF Next

LEMMA NextNested == LInv /\ [Next]_vars => GrabNested'
<1> SUFFICES ASSUME LInv, [Next]_vars PROVE GrabNested'
  OBVIOUS
<1> USE GrabAssumption DEF LInv, TypeOK, Excluded, GrabNested, LinkedWhenAttached
<1>1. ASSUME NEW t \in Threads, NEW s \in Samples, Begin(t, s) PROVE GrabNested'
  BY <1>1 DEF Begin, MaySubmit, Fresh, grabVars, exitVars
<1>2. ASSUME NEW t \in Threads, AppendLock(t) PROVE GrabNested'
  BY <1>2 DEF AppendLock, grabVars, exitVars
<1>3. ASSUME NEW t \in Threads, AppendDo(t) PROVE GrabNested'
  BY <1>3 DEF AppendDo, grabVars, exitVars
<1>4. ASSUME NEW t \in Threads, ModifyLock(t) PROVE GrabNested'
  BY <1>4 DEF ModifyLock, grabVars, exitVars
<1>5. ASSUME NEW t \in Threads, ModifyDo(t) PROVE GrabNested'
  BY <1>5 DEF ModifyDo, Resume, exitVars
<1>6. ASSUME NEW t \in Threads, ExitLock(t) PROVE GrabNested'
  BY <1>6 DEF ExitLock, grabVars, exitVars
<1>7. ASSUME NEW t \in Threads, ExitContended(t) PROVE GrabNested'
  BY <1>7 DEF ExitContended, grabVars
<1>8. ASSUME NEW t \in Threads, ExitAcquire(t) PROVE GrabNested'
  BY <1>8 DEF ExitAcquire, grabVars, exitVars
<1>9. ASSUME NEW t \in Threads, ExitDo(t) PROVE GrabNested'
  BY <1>9 DEF ExitDo, AgentGone, grabVars, exitVars
<1>10. ASSUME NEW t \in Threads, ExitLate(t) PROVE GrabNested'
  BY <1>10 DEF ExitLate, AgentGone, Dying, grabVars
<1>11. ASSUME NEW t \in Threads, NEW s \in Samples, ExitStore(t, s)
       PROVE  GrabNested'
  BY <1>11 DEF ExitStore, StoreAt, Dying, grabVars
<1>12. ASSUME NEW t \in Threads, VisitLock(t) PROVE GrabNested'
  BY <1>12 DEF VisitLock, combinerVars, exitVars
<1>13. ASSUME NEW t \in Threads, VisitContended(t) PROVE GrabNested'
  BY <1>13 DEF VisitContended, combinerVars, exitVars
<1>14. CASE ResetLock \/ ResetAcquire
  BY <1>14 DEF ResetLock, ResetAcquire, TakeGlobal, exitVars
<1>15. CASE ResetContended
  BY <1>15 DEF ResetContended, combinerVars, exitVars
<1>16. CASE VisitAcquire
  BY <1>16 DEF VisitAcquire, combinerVars, exitVars
<1>17. CASE VisitDo
  BY <1>17 DEF VisitDo, exitVars
<1>18. CASE ResetEnd
  BY <1>18 DEF ResetEnd, exitVars
<1>19. CASE SampleLate
  BY <1>19 DEF SampleLate, Resume, combinerVars, exitVars
<1>20. ASSUME NEW s \in Samples, Consume(s) PROVE GrabNested'
  BY <1>20 DEF Consume, grabVars, exitVars
<1>21. CASE UNCHANGED vars
  BY <1>21 DEF vars, combinerVars, grabVars, exitVars
<1> QED
  BY <1>1, <1>2, <1>3, <1>4, <1>5, <1>6, <1>7, <1>8, <1>9, <1>10, <1>11, <1>12,
     <1>13, <1>14, <1>15, <1>16, <1>17, <1>18, <1>19, <1>20, <1>21 DEF Next

LEMMA NextLinked == LInv /\ [Next]_vars => (LinkedWhenAttached /\ Arguments)'
<1> SUFFICES ASSUME LInv, [Next]_vars PROVE (LinkedWhenAttached /\ Arguments)'
  OBVIOUS
<1> USE GrabAssumption DEF LInv, TypeOK, LinkedWhenAttached, Arguments
<1>1. ASSUME NEW t \in Threads, NEW s \in Samples, Begin(t, s)
       PROVE  (LinkedWhenAttached /\ Arguments)'
  BY <1>1 DEF Begin, MaySubmit, Fresh, grabVars, exitVars
<1>2. ASSUME NEW t \in Threads, AppendLock(t)
       PROVE  (LinkedWhenAttached /\ Arguments)'
  BY <1>2 DEF AppendLock, grabVars, exitVars
<1>3. ASSUME NEW t \in Threads, AppendDo(t) PROVE (LinkedWhenAttached /\ Arguments)'
  BY <1>3 DEF AppendDo, grabVars, exitVars
<1>4. ASSUME NEW t \in Threads, ModifyLock(t)
       PROVE  (LinkedWhenAttached /\ Arguments)'
  BY <1>4 DEF ModifyLock, grabVars, exitVars
<1>5. ASSUME NEW t \in Threads, ModifyDo(t) PROVE (LinkedWhenAttached /\ Arguments)'
  BY <1>5 DEF ModifyDo, Resume, exitVars
<1>6. ASSUME NEW t \in Threads, ExitLock(t) PROVE (LinkedWhenAttached /\ Arguments)'
  BY <1>6 DEF ExitLock, grabVars, exitVars
<1>7. ASSUME NEW t \in Threads, ExitContended(t)
       PROVE  (LinkedWhenAttached /\ Arguments)'
  BY <1>7 DEF ExitContended, grabVars
<1>8. ASSUME NEW t \in Threads, ExitAcquire(t)
       PROVE  (LinkedWhenAttached /\ Arguments)'
  BY <1>8 DEF ExitAcquire, grabVars, exitVars
<1>9. ASSUME NEW t \in Threads, ExitDo(t) PROVE (LinkedWhenAttached /\ Arguments)'
  BY <1>9 DEF ExitDo, AgentGone, grabVars, exitVars
<1>10. ASSUME NEW t \in Threads, ExitLate(t)
       PROVE  (LinkedWhenAttached /\ Arguments)'
  BY <1>10 DEF ExitLate, AgentGone, Dying, grabVars
<1>11. ASSUME NEW t \in Threads, NEW s \in Samples, ExitStore(t, s)
       PROVE  (LinkedWhenAttached /\ Arguments)'
  BY <1>11 DEF ExitStore, StoreAt, Dying, grabVars
<1>12. ASSUME NEW t \in Threads, VisitLock(t)
       PROVE  (LinkedWhenAttached /\ Arguments)'
  BY <1>12 DEF VisitLock, combinerVars, exitVars
<1>13. ASSUME NEW t \in Threads, VisitContended(t)
       PROVE  (LinkedWhenAttached /\ Arguments)'
  BY <1>13 DEF VisitContended, combinerVars, exitVars
<1>14. CASE ResetLock \/ ResetAcquire
  BY <1>14 DEF ResetLock, ResetAcquire, TakeGlobal, exitVars
<1>15. CASE ResetContended
  BY <1>15 DEF ResetContended, combinerVars, exitVars
<1>16. CASE VisitAcquire
  BY <1>16 DEF VisitAcquire, combinerVars, exitVars
<1>17. CASE VisitDo
  BY <1>17 DEF VisitDo, exitVars
<1>18. CASE ResetEnd
  BY <1>18 DEF ResetEnd, exitVars
<1>19. CASE SampleLate
  BY <1>19 DEF SampleLate, Resume, combinerVars, exitVars
<1>20. ASSUME NEW s \in Samples, Consume(s) PROVE (LinkedWhenAttached /\ Arguments)'
  BY <1>20 DEF Consume, grabVars, exitVars
<1>21. CASE UNCHANGED vars
  BY <1>21 DEF vars, combinerVars, grabVars, exitVars
<1> QED
  BY <1>1, <1>2, <1>3, <1>4, <1>5, <1>6, <1>7, <1>8, <1>9, <1>10, <1>11, <1>12,
     <1>13, <1>14, <1>15, <1>16, <1>17, <1>18, <1>19, <1>20, <1>21 DEF Next

LEMMA NextLInv == LInv /\ [Next]_vars => LInv'
BY NextTypes, NextExcluded, NextNested, NextLinked DEF LInv

LEMMA Inductive == Spec => []LInv
BY NextLInv, InitLInv, PTL DEF Spec

(* mtx_ and every element.mtx_ protect what they are held for, through     *)
(* nested submissions and the ends of threads.                             *)
THEOREM MutualExclusion == Spec => []Excluded
<1>1. LInv => Excluded
  BY DEF LInv
<1> QED
  BY <1>1, Inductive, PTL

(* A thread waits for a mutex of its own only if the grab thread samples   *)
(* an element.mtx_ inside of reset_all_agents before its agent is linked.  *)
THEOREM OneSelfDeadlock == Spec => []SelfDeadlockOnlyUnlinked
<1>1. LInv => SelfDeadlockOnlyUnlinked
  <2> SUFFICES ASSUME LInv, NEW t \in Threads, WaitsForItself(t)
               PROVE  t = Grab /\ walk = "reset" /\ Grab \notin agents
    BY DEF SelfDeadlockOnlyUnlinked
  <2>1. CASE pc[t] \in {"alock", "exitwait"} /\ mtx = t
    <3>1. t = Grab /\ walk # "none"
      BY <2>1 DEF LInv, HoldersInside
    <3> QED
      BY <2>1, <3>1 DEF LInv, TypeOK, GrabNested, LinkedWhenAttached
  <2>2. CASE pc[t] = "elock" /\ emtx[t] = t
    BY <2>2 DEF LInv, HoldersInside, GrabNested
  <2> QED
    BY <2>1, <2>2 DEF WaitsForItself
<1> QED
  BY <1>1, Inductive, PTL

(* The mutex that t is about to lock is held by u.  commit_and_erase locks *)
(* element.mtx_ too, in load(); ReducerLocks has that in the guard of      *)
(* ExitDo.                                                                 *)
WaitsFor(t, u) ==
    \/ pc[t] \in {"alock", "exitwait"} /\ mtx = u
    \/ pc[t] \in {"elock", "exit"} /\ emtx[t] = u
    \/ t = Grab /\ gpc = "wait" /\ mtx = u
    \/ t = Grab /\ gpc = "ewait" /\ emtx[cur] = u

(* Who holds a mutex waits itself only at an element.mtx_ of the walk. *)
LEMMA HoldersWait ==
    ASSUME LInv, ~WaitsForItself(Grab),
           NEW t \in Threads, NEW u \in Threads, NEW v \in Threads,
           WaitsFor(t, u), WaitsFor(u, v)
    PROVE  gpc = "ewait" /\ (u = Grab \/ (t = Grab /\ pc[u] = "modify"))
<1>1. \/ pc[u] \in {"append", "exit"}
      \/ u = Grab /\ (walk # "none" \/ gpc = "exchange")
      \/ t = Grab /\ gpc = "ewait" /\ pc[u] = "modify"
  BY DEF WaitsFor, LInv, HoldersInside, TypeOK
<1>2. pc[u] # "append"
  BY DEF WaitsFor, LInv, GrabNested
<1>3. pc[u] # "exit"
  <2> SUFFICES ASSUME pc[u] = "exit" PROVE FALSE
    OBVIOUS
  <2>1. mtx = u /\ u # Grab
    BY DEF LInv, Excluded, GrabNested
  <2>2. v = Grab /\ gpc = "exchange"
    BY <2>1 DEF WaitsFor, LInv, HoldersInside
  <2> QED
    BY <2>1, <2>2 DEF LInv, Excluded, GrabNested
<1>4. CASE u = Grab /\ (walk # "none" \/ gpc = "exchange")
  <2>1. mtx = Grab /\ gpc # "wait"
    BY <1>4 DEF LInv, Excluded, GrabNested
  <2>2. pc[Grab] # "alock"
    BY <2>1 DEF WaitsForItself
  <2>3. pc[Grab] = "elock" => emtx[Grab] # v
    BY GrabAssumption DEF LInv, HoldersInside, GrabNested
  <2>4. pc[Grab] \notin {"exit", "exitwait"}
    BY DEF LInv, GrabNested
  <2> QED
    BY <1>4, <2>1, <2>2, <2>3, <2>4 DEF WaitsFor
<1> QED
  BY <1>1, <1>2, <1>3, <1>4

(* Unless the grab thread waits for itself, who waits in the reducer waits *)
(* for a thread that goes on, or for the grab thread in reset_all_agents   *)
(* that waits for one which does.  No order of the locks and no number of  *)
(* threads makes a circle of waits.                                        *)
WaitsEnd ==
    ~WaitsForItself(Grab) =>
        \A t, u, v, w \in Threads :
            ~(WaitsFor(t, u) /\ WaitsFor(u, v) /\ WaitsFor(v, w))

(* Streaming, the walk of reset and the ends of threads do not deadlock in *)
(* mtx_ and the mutexes of the elements, but for the one self-deadlock.    *)
THEOREM WaitsAlwaysEnd == Spec => []WaitsEnd
<1>1. LInv => WaitsEnd
  <2> SUFFICES ASSUME LInv, ~WaitsForItself(Grab),
                      NEW t \in Threads, NEW u \in Threads,
                      NEW v \in Threads, NEW w \in Threads,
                      WaitsFor(t, u), WaitsFor(u, v), WaitsFor(v, w)
               PROVE  FALSE
    BY DEF WaitsEnd
  <2>1. u # Grab \/ v # Grab \/ gpc # "ewait"
    BY DEF WaitsFor, LInv, TypeOK, HoldersInside, GrabNested
  <2>2. gpc = "ewait" /\ (u = Grab \/ (t = Grab /\ pc[u] = "modify"))
    BY HoldersWait
  <2>3. gpc = "ewait" /\ (v = Grab \/ (u = Grab /\ pc[v] = "modify"))
    BY HoldersWait
  <2>4. pc[Grab] = "modify" => gpc = "sample"
    BY DEF LInv, GrabNested
  <2>5. CASE u = Grab /\ gpc = "ewait" /\ pc[v] = "modify"
    BY <2>4, <2>5 DEF WaitsFor
  <2>6. CASE v = Grab /\ gpc = "ewait" /\ t = Grab /\ pc[u] = "modify"
    BY <2>4, <2>6 DEF WaitsFor
  <2> QED
    BY <2>1, <2>2, <2>3, <2>5, <2>6
<1> QED
  BY <1>1, Inductive, PTL

-----------------------------------------------------------------------------
(* The steps of the reducer with its mutexes are the steps of Combiner,    *)
(* seen without the agents of ending threads.                              *)

LEMMA SeenPc == ASSUME LInv, NEW t \in Threads
                PROVE  /\ pc[t] = "idle" => CombinerPc[t] = "idle"
                       /\ pc[t] = "append" => CombinerPc[t] = "append"
                       /\ pc[t] = "modify" => CombinerPc[t] = "modify"
                       /\ ~Dying(t) => Attached[t] = registered[t] /\ Owned[t] = element[t]
  BY DEF LInv, TypeOK, CombinerPc, Attached, Owned

LEMMA SeenContents == C!Contents = Contents /\ C!InFlight = InFlight
  BY DEF C!Contents, C!Elements, Contents, C!InFlight, InFlight

LEMMA BeginSubmits == ASSUME LInv, NEW t \in Threads, NEW s \in Samples, Begin(t, s)
                      PROVE  C!Submit(t, s)
<1>1. pc[t] = "idle" /\ ~Dying(t) /\ s \notin C!Contents \cup out \cup C!InFlight
  BY SeenContents DEF Begin, MaySubmit, Fresh, Dying
<1>2. /\ CombinerPc[t] = "idle"
      /\ Attached[t] = registered[t]
      /\ Owned[t] = element[t]
  BY <1>1, SeenPc
<1>3. CASE registered[t]
  <2>1. /\ pc' = [pc EXCEPT ![t] = "elock"]
        /\ UNCHANGED <<registered, element>>
    BY <1>3 DEF Begin
  <2>2. CombinerPc' = [CombinerPc EXCEPT ![t] = "modify"]
    BY <2>1 DEF LInv, TypeOK, CombinerPc
  <2>3. Attached' = Attached /\ Owned' = Owned
    BY <1>1, <2>1 DEF LInv, TypeOK, Attached, Owned, Dying
  <2> QED
    BY <1>1, <1>2, <1>3, <2>2, <2>3 DEF C!Submit, Begin
<1>4. CASE ~registered[t]
  <2>1. /\ pc' = [pc EXCEPT ![t] = "alock"]
        /\ registered' = [registered EXCEPT ![t] = TRUE]
        /\ element' = [element EXCEPT ![t] = {}]
    BY <1>4 DEF Begin
  <2>2. CombinerPc' = [CombinerPc EXCEPT ![t] = "append"]
    BY <2>1 DEF LInv, TypeOK, CombinerPc
  <2>3. Attached' = [Attached EXCEPT ![t] = TRUE]
    BY <1>1, <2>1 DEF LInv, TypeOK, Attached, Dying
  <2>4. Owned' = [Owned EXCEPT ![t] = {}]
    BY <1>1, <2>1 DEF LInv, TypeOK, Owned, Dying
  <2> QED
    BY <1>1, <1>2, <1>4, <2>2, <2>3, <2>4 DEF C!Submit, Begin
<1> QED
  BY <1>3, <1>4

LEMMA AppendAppends == ASSUME LInv, NEW t \in Threads, AppendDo(t)
                       PROVE  C!Append(t)
<1>1. pc[t] = "append" /\ mtx = t /\ CombinerPc[t] = "append"
  BY SeenPc DEF AppendDo, LInv, Excluded
<1>2. walk = "none"
  BY <1>1 DEF LInv, TypeOK, Excluded, GrabNested, AppendDo
<1>3. CombinerPc' = [CombinerPc EXCEPT ![t] = "modify"]
  BY <1>1 DEF LInv, TypeOK, CombinerPc, AppendDo
<1>4. Attached' = Attached /\ Owned' = Owned
  BY <1>1 DEF LInv, TypeOK, Attached, Owned, Dying, AppendDo
<1> QED
  BY <1>1, <1>2, <1>3, <1>4 DEF C!Append, AppendDo

LEMMA ModifyModifies == ASSUME LInv, NEW t \in Threads, ModifyDo(t)
                        PROVE  C!Modify(t)
<1>1. pc[t] = "modify" /\ ~Dying(t)
  BY DEF ModifyDo, Dying
<1>2. CombinerPc[t] = "modify" /\ Owned[t] = element[t]
  BY <1>1, SeenPc
<1>3. CombinerPc' = [CombinerPc EXCEPT ![t] = "idle"]
  BY <1>1 DEF LInv, TypeOK, CombinerPc, ModifyDo
<1>4. Attached' = Attached
  BY <1>1 DEF LInv, TypeOK, Attached, Dying, ModifyDo
<1>5. Owned' = [Owned EXCEPT ![t] = Owned[t] \cup {arg[t]}]
  BY <1>1 DEF LInv, TypeOK, Owned, Dying, ModifyDo
<1> QED
  BY <1>2, <1>3, <1>4, <1>5 DEF C!Modify, ModifyDo

LEMMA ExitExits == ASSUME LInv, NEW t \in Threads, ExitDo(t)
                   PROVE  C!ThreadExit(t)
<1>1. pc[t] = "exit" /\ mtx = t /\ ~Dying(t)
  BY DEF ExitDo, LInv, Excluded, Dying
<1>2. t # Grab /\ walk = "none"
  BY <1>1 DEF LInv, TypeOK, Excluded, GrabNested, LinkedWhenAttached
<1>3. CombinerPc[t] = "idle" /\ Attached[t] /\ Owned[t] = element[t]
  BY <1>1 DEF LInv, TypeOK, CombinerPc, Attached, Owned, LinkedWhenAttached, Dying
<1>4. /\ pc \in [Threads -> {"idle", "alock", "append", "elock", "modify",
                            "exitwait", "exit", "exitsample"}]
      /\ registered \in [Threads -> BOOLEAN]
      /\ element \in [Threads -> SUBSET Samples]
  BY DEF LInv, TypeOK
<1>5. \/ /\ registered' = registered /\ element' = element
         /\ pc' = [pc EXCEPT ![t] = "exitsample"]
      \/ /\ registered' = [registered EXCEPT ![t] = FALSE]
         /\ element' = [element EXCEPT ![t] = {}]
         /\ pc' = [pc EXCEPT ![t] = "idle"]
  BY DEF ExitDo, AgentGone
<1>6. /\ CombinerPc' = CombinerPc
      /\ Attached' = [Attached EXCEPT ![t] = FALSE]
      /\ Owned' = [Owned EXCEPT ![t] = {}]
  <2>1. CASE pc' = [pc EXCEPT ![t] = "exitsample"] /\ registered' = registered
             /\ element' = element
    <3>1. CombinerPc' = CombinerPc
      BY <1>1, <1>4, <2>1 DEF CombinerPc
    <3>2. \A u \in Threads : Dying(u)' <=> u = t \/ Dying(u)
      BY <1>1, <1>4, <2>1 DEF Dying
    <3>3. Attached' = [Attached EXCEPT ![t] = FALSE]
      BY <1>4, <2>1, <3>2 DEF Attached
    <3>4. Owned' = [Owned EXCEPT ![t] = {}]
      BY <1>4, <2>1, <3>2 DEF Owned
    <3> QED
      BY <3>1, <3>3, <3>4
  <2>2. CASE /\ pc' = [pc EXCEPT ![t] = "idle"]
             /\ registered' = [registered EXCEPT ![t] = FALSE]
             /\ element' = [element EXCEPT ![t] = {}]
    <3>1. CombinerPc' = CombinerPc
      BY <1>1, <1>4, <2>2 DEF CombinerPc
    <3>2. \A u \in Threads : Dying(u)' <=> Dying(u)
      BY <1>1, <1>4, <2>2 DEF Dying
    <3>3. Attached' = [Attached EXCEPT ![t] = FALSE]
      BY <1>4, <2>2, <3>2 DEF Attached
    <3>4. Owned' = [Owned EXCEPT ![t] = {}]
      BY <1>1, <1>4, <2>2, <3>2 DEF Owned
    <3> QED
      BY <3>1, <3>3, <3>4
  <2> QED
    BY <1>5, <2>1, <2>2
<1> QED
  BY <1>2, <1>3, <1>6 DEF C!ThreadExit, ExitDo

LEMMA TakingBegins == ASSUME LInv, ResetLock \/ ResetAcquire
                      PROVE  C!ResetBegin
<1>1. walk = "none"
  BY DEF LInv, GrabNested, ResetLock, ResetAcquire
<1>2. CombinerPc' = CombinerPc /\ Attached' = Attached /\ Owned' = Owned
  BY DEF CombinerPc, Attached, Owned, Dying, ResetLock, ResetAcquire, TakeGlobal
<1> QED
  BY <1>1, <1>2, SeenContents DEF C!ResetBegin, ResetLock, ResetAcquire, TakeGlobal

LEMMA VisitVisits == ASSUME LInv, VisitDo
                     PROVE  C!Visit(cur)
<1>1. walk = "reset" /\ cur \in agents \ visited /\ cur \in Threads
  BY DEF LInv, TypeOK, GrabNested, VisitDo
<1>2. ~Dying(cur) /\ Owned[cur] = element[cur]
  BY <1>1, SeenPc DEF LInv, LinkedWhenAttached, Dying
<1>3. CombinerPc' = CombinerPc /\ Attached' = Attached
  BY DEF CombinerPc, Attached, Dying, VisitDo
<1>4. Owned' = [Owned EXCEPT ![cur] = {}]
  BY <1>1, <1>2 DEF LInv, TypeOK, Owned, Dying, VisitDo
<1> QED
  BY <1>1, <1>2, <1>3, <1>4 DEF C!Visit, VisitDo

LEMMA EndEnds == ASSUME LInv, ResetEnd
                 PROVE  C!WalkEnd
<1>1. walk = "reset"
  BY DEF LInv, GrabNested, ResetEnd
<1>2. CombinerPc' = CombinerPc /\ Attached' = Attached /\ Owned' = Owned
  BY DEF CombinerPc, Attached, Owned, Dying, ResetEnd
<1> QED
  BY <1>1, <1>2 DEF C!WalkEnd, ResetEnd

LEMMA ConsumeConsumes == ASSUME LInv, NEW s \in Samples, Consume(s)
                         PROVE  C!Consume(s)
<1>1. CombinerPc' = CombinerPc /\ Attached' = Attached /\ Owned' = Owned
  BY DEF CombinerPc, Attached, Owned, Dying, Consume
<1> QED
  BY <1>1 DEF C!Consume, Consume

(* Taking a mutex, waiting for one and finding a sample late change        *)
(* nothing that Combiner sees.                                             *)
LEMMA LocksStutter ==
    ASSUME LInv, NEW t \in Threads,
           \/ AppendLock(t) \/ ModifyLock(t) \/ ExitLock(t) \/ ExitContended(t)
           \/ ExitAcquire(t) \/ VisitLock(t) \/ VisitContended(t)
    PROVE  UNCHANGED C!vars
<1>1. UNCHANGED <<registered, agents, element, global_result, arg, walk, visited,
                  acc, must, out>>
  BY DEF AppendLock, ModifyLock, ExitLock, ExitContended, ExitAcquire, VisitLock,
         VisitContended, combinerVars
<1>2. /\ \A u \in Threads : Dying(u)' = Dying(u)
      /\ CombinerPc' = CombinerPc
  <2>1. CASE AppendLock(t)
    BY <2>1 DEF LInv, TypeOK, CombinerPc, Dying, AppendLock
  <2>2. CASE ModifyLock(t)
    BY <2>2 DEF LInv, TypeOK, CombinerPc, Dying, ModifyLock
  <2>3. CASE ExitLock(t) \/ ExitContended(t) \/ ExitAcquire(t)
    BY <2>3 DEF LInv, TypeOK, CombinerPc, Dying, ExitLock, ExitContended,
       ExitAcquire
  <2>4. CASE VisitLock(t) \/ VisitContended(t)
    BY <2>4 DEF CombinerPc, Dying, VisitLock, VisitContended, combinerVars
  <2> QED
    BY <2>1, <2>2, <2>3, <2>4
<1>3. Attached' = Attached /\ Owned' = Owned
  BY <1>1, <1>2 DEF Attached, Owned
<1> QED
  BY <1>1, <1>2, <1>3 DEF C!vars

LEMMA LateStutters == ASSUME LInv, NEW t \in Threads, ExitLate(t)
                      PROVE  UNCHANGED C!vars
<1>1. Dying(t) /\ t \notin agents
  BY DEF ExitLate, LInv, LinkedWhenAttached, Dying
<1>2. CombinerPc' = CombinerPc
  BY <1>1 DEF LInv, TypeOK, CombinerPc, Dying, ExitLate, AgentGone
<1>3. Attached' = Attached /\ Owned' = Owned
  BY <1>1 DEF LInv, TypeOK, Attached, Owned, Dying, ExitLate, AgentGone
<1> QED
  BY <1>2, <1>3 DEF C!vars, ExitLate

LEMMA GrabStutters ==
    ASSUME LInv, ResetContended \/ VisitAcquire \/ SampleLate \/ UNCHANGED vars
    PROVE  UNCHANGED C!vars
<1>1. UNCHANGED combinerVars
  BY DEF ResetContended, VisitAcquire, SampleLate, vars
<1> QED
  BY <1>1 DEF combinerVars, C!vars, CombinerPc, Attached, Owned, Dying

(* With its mutexes held one by one, the samples the grab thread submits   *)
(* inside of a walk and the ends of threads, the reducer takes the steps   *)
(* of Combiner and no others, but for the sample an ending thread submits. *)
THEOREM SectionsAreSteps == Spec => StepsOfCombiner
<1>1. LInv /\ [Next]_vars =>
        [C!Next \/ \E t \in Threads, s \in Samples : ExitStore(t, s)]_(C!vars)
  <2> SUFFICES ASSUME LInv, [Next]_vars
               PROVE  \/ C!Next
                      \/ \E t \in Threads, s \in Samples : ExitStore(t, s)
                      \/ UNCHANGED C!vars
    OBVIOUS
  <2>1. ASSUME NEW t \in Threads, NEW s \in Samples, Begin(t, s) PROVE C!Next
    BY <2>1, BeginSubmits DEF C!Next
  <2>2. ASSUME NEW t \in Threads, AppendDo(t) \/ ModifyDo(t) \/ ExitDo(t)
         PROVE  C!Next
    BY <2>2, AppendAppends, ModifyModifies, ExitExits DEF C!Next
  <2>3. ASSUME ResetLock \/ ResetAcquire PROVE C!Next
    BY <2>3, TakingBegins DEF C!Next
  <2>4. ASSUME VisitDo PROVE C!Next
    <3>1. cur \in Threads
      BY DEF LInv, TypeOK
    <3> QED
      BY <2>4, <3>1, VisitVisits DEF C!Next
  <2>5. ASSUME ResetEnd PROVE C!Next
    BY <2>5, EndEnds DEF C!Next
  <2>6. ASSUME NEW s \in Samples, Consume(s) PROVE C!Next
    BY <2>6, ConsumeConsumes DEF C!Next
  <2>7. ASSUME NEW t \in Threads,
               \/ AppendLock(t) \/ ModifyLock(t) \/ ExitLock(t) \/ ExitContended(t)
               \/ ExitAcquire(t) \/ VisitLock(t) \/ VisitContended(t)
        PROVE  UNCHANGED C!vars
    BY <2>7, LocksStutter
  <2>8. ASSUME NEW t \in Threads, ExitLate(t) PROVE UNCHANGED C!vars
    BY <2>8, LateStutters
  <2>9. ASSUME ResetContended \/ VisitAcquire \/ SampleLate \/ UNCHANGED vars
        PROVE  UNCHANGED C!vars
    BY <2>9, GrabStutters
  <2> QED
    BY <2>1, <2>2, <2>3, <2>4, <2>5, <2>6, <2>7, <2>8, <2>9 DEF Next
<1> QED
  BY <1>1, Inductive, PTL DEF Spec, StepsOfCombiner

-----------------------------------------------------------------------------
(* Nothing is collected but in reset_all_agents, and an agent that is gone *)
(* has left an empty element.                                              *)
AtRest ==
    /\ walk = "none" => acc = {}
    /\ \A t \in Threads : ~registered[t] => element[t] = {}

(* The samples that have a place, and those that have none.                *)
Held == global_result \cup acc \cup out \cup UNION {Owned[t] : t \in Threads}

(* A sample has one place at a time.                                       *)
Separate ==
    /\ \A t, u \in Threads : t # u => Owned[t] \cap Owned[u] = {}
    /\ \A t \in Threads : Owned[t] \cap (global_result \cup acc \cup out) = {}
    /\ global_result \cap acc = {} /\ (global_result \cup acc) \cap out = {}
    /\ \A t \in Threads : arg[t] \notin Held
    /\ \A t, u \in Threads : t # u /\ arg[t] = arg[u] => arg[t] = NoSample

(* What Fresh leaves out is what is held, in flight or lost. *)
LEMMA HeldContents == AtRest /\ TypeOK => Contents \cup out = Held
BY DEF AtRest, TypeOK, Contents, Held

LEMMA FreshIsNew ==
    ASSUME AtRest, TypeOK, NEW s \in Samples, Fresh(s)
    PROVE  s \notin Held /\ s \notin lost /\ \A t \in Threads : arg[t] # s
<1>1. Contents \cup out = Held
  BY HeldContents
<1>2. s # NoSample
  BY SampleAssumption
<1> QED
  BY <1>1, <1>2 DEF Fresh, InFlight

(* The steps that move no sample from one list to another. *)
LEMMA LocksMoveNothing ==
    ASSUME TypeOK,
           \/ \E t \in Threads :
                 \/ AppendLock(t) \/ AppendDo(t) \/ ModifyLock(t) \/ ExitLock(t)
                 \/ ExitContended(t) \/ ExitAcquire(t) \/ VisitLock(t)
                 \/ VisitContended(t)
           \/ ResetContended \/ VisitAcquire \/ SampleLate \/ UNCHANGED vars
    PROVE  /\ UNCHANGED <<registered, element, global_result, acc, out, lost, arg, walk>>
           /\ Owned' = Owned
<1>1. ASSUME NEW t \in Threads, AppendLock(t) \/ AppendDo(t) \/ ModifyLock(t)
      PROVE  /\ UNCHANGED <<registered, element, global_result, acc, out, lost, arg, walk>>
             /\ Owned' = Owned
  BY <1>1 DEF TypeOK, AppendLock, AppendDo, ModifyLock, Owned, Dying, exitVars
<1>2. ASSUME NEW t \in Threads, ExitLock(t) \/ ExitContended(t) \/ ExitAcquire(t)
      PROVE  /\ UNCHANGED <<registered, element, global_result, acc, out, lost, arg, walk>>
             /\ Owned' = Owned
  BY <1>2 DEF TypeOK, ExitLock, ExitContended, ExitAcquire, Owned, Dying, exitVars
<1>3. ASSUME NEW t \in Threads, VisitLock(t) \/ VisitContended(t)
      PROVE  /\ UNCHANGED <<registered, element, global_result, acc, out, lost, arg, walk>>
             /\ Owned' = Owned
  BY <1>3 DEF VisitLock, VisitContended, combinerVars, Owned, Dying, exitVars
<1>4. CASE ResetContended \/ VisitAcquire \/ SampleLate \/ UNCHANGED vars
  BY <1>4 DEF ResetContended, VisitAcquire, SampleLate, vars, combinerVars, Owned,
     Dying, exitVars
<1> QED
  BY <1>1, <1>2, <1>3, <1>4

LEMMA BeginMoves ==
    ASSUME LInv, AtRest, NEW t \in Threads, NEW s \in Samples, Begin(t, s)
    PROVE  /\ UNCHANGED <<element, global_result, acc, out, lost, walk>>
           /\ Owned' = Owned /\ arg' = [arg EXCEPT ![t] = s]
           /\ registered' = [registered EXCEPT ![t] = TRUE]
<1>0. TypeOK
  BY DEF LInv
<1>1. element' = element
  <2>1. CASE registered[t]
    BY <2>1 DEF Begin
  <2>2. CASE ~registered[t]
    <3>1. element[t] = {}
      BY <2>2 DEF AtRest
    <3>2. element' = [element EXCEPT ![t] = {}]
      BY <2>2 DEF Begin
    <3>3. element = [u \in Threads |-> element[u]]
      BY <1>0 DEF TypeOK
    <3> QED
      BY <3>1, <3>2, <3>3
  <2> QED
    BY <2>1, <2>2
<1>2. \A u \in Threads : Dying(u)' = Dying(u)
  BY <1>0 DEF TypeOK, Begin, MaySubmit, Dying
<1>3. Owned' = Owned
  BY <1>1, <1>2 DEF Owned
<1>4. registered' = [registered EXCEPT ![t] = TRUE]
  BY <1>0 DEF TypeOK, Begin
<1> QED
  BY <1>1, <1>3, <1>4 DEF Begin, exitVars

LEMMA ModifyMoves ==
    ASSUME LInv, NEW t \in Threads, ModifyDo(t)
    PROVE  /\ UNCHANGED <<global_result, acc, out, lost, walk, registered>>
           /\ Owned' = [Owned EXCEPT ![t] = Owned[t] \cup {arg[t]}]
           /\ Owned[t] = element[t] /\ arg[t] \in Samples
           /\ registered[t]
           /\ arg' = [arg EXCEPT ![t] = NoSample]
<1>0. TypeOK /\ arg[t] \in Samples /\ registered[t] /\ pc[t] = "modify"
  BY DEF LInv, Arguments, LinkedWhenAttached, ModifyDo
<1>1. \A u \in Threads : Dying(u)' = Dying(u)
  BY <1>0 DEF TypeOK, ModifyDo, Dying
<1>2. ~Dying(t)
  BY <1>0 DEF Dying
<1>3. element' = [element EXCEPT ![t] = element[t] \cup {arg[t]}]
  BY DEF ModifyDo
<1>4. Owned' = [Owned EXCEPT ![t] = Owned[t] \cup {arg[t]}]
  BY <1>0, <1>1, <1>2, <1>3 DEF Owned, TypeOK
<1>5. Owned[t] = element[t]
  BY <1>2 DEF Owned
<1> QED
  BY <1>0, <1>4, <1>5 DEF ModifyDo, exitVars

LEMMA ExitMoves ==
    ASSUME LInv, NEW t \in Threads, ExitDo(t)
    PROVE  /\ UNCHANGED <<acc, out, lost, walk, arg>>
           /\ Owned' = [Owned EXCEPT ![t] = {}]
           /\ Owned[t] = element[t]
           /\ global_result' = global_result \cup Owned[t]
<1>0. TypeOK /\ pc[t] = "exit"
  BY DEF LInv, ExitDo
<1>1. ~Dying(t) /\ Owned[t] = element[t]
  BY <1>0 DEF Dying, Owned
<1>2. \A u \in Threads : u # t => Dying(u)' = Dying(u) /\ element'[u] = element[u]
  BY <1>0 DEF TypeOK, ExitDo, AgentGone, Dying
<1>3. Dying(t)' \/ element'[t] = {}
  BY <1>0 DEF TypeOK, ExitDo, AgentGone, Dying
<1>4. Owned' = [Owned EXCEPT ![t] = {}]
  BY <1>2, <1>3 DEF Owned
<1> QED
  BY <1>1, <1>4 DEF ExitDo, exitVars

LEMMA LateMoves ==
    ASSUME LInv, NEW t \in Threads, ExitLate(t)
    PROVE  /\ UNCHANGED <<global_result, acc, out, lost, walk, arg>>
           /\ Owned' = Owned
           /\ element' = [element EXCEPT ![t] = {}]
           /\ registered' = [registered EXCEPT ![t] = FALSE]
<1>0. TypeOK /\ Dying(t)
  BY DEF LInv, ExitLate
<1>1. \A u \in Threads : u # t => Dying(u)' = Dying(u) /\ element'[u] = element[u]
  BY <1>0 DEF TypeOK, ExitLate, AgentGone, Dying
<1>2. element'[t] = {} /\ Owned[t] = {}
  BY <1>0 DEF TypeOK, ExitLate, AgentGone, Owned
<1>3. Owned' = Owned
  BY <1>1, <1>2 DEF Owned
<1> QED
  BY <1>3 DEF ExitLate, AgentGone

(* The sample joins the list of n, and no other. *)
Joined(S, n, s) == IF n \in S THEN S \cup {s} ELSE S

LEMMA StoreMoves ==
    ASSUME LInv, AtRest, NEW t \in Threads, NEW s \in Samples, NEW n, StoreAt(t, s, n)
    PROVE  /\ global_result' = Joined(global_result, n, s)
           /\ acc' = Joined(acc, n, s) /\ out' = Joined(out, n, s)
           /\ Owned' = [u \in Threads |-> Joined(Owned[u], n, s)]
           /\ \A u \in Threads \ {t} :
                 \/ element'[u] = element[u]
                 \/ element'[u] = element[u] \cup {s} /\ element[u] # {}
           /\ element' \in [Threads -> SUBSET Samples]
           /\ element'[t] = {}
           /\ registered' = [registered EXCEPT ![t] = FALSE]
           /\ arg' = arg /\ walk' = walk
           /\ lost' = IF n \in Held THEN lost ELSE lost \cup {s}
<1>0. TypeOK /\ Dying(t)
  BY DEF LInv, StoreAt
<1>1. /\ global_result' = Joined(global_result, n, s)
      /\ acc' = Joined(acc, n, s) /\ out' = Joined(out, n, s)
  BY DEF StoreAt, Joined
<1>2. element' = [u \in Threads |-> IF u = t THEN {} ELSE
                     IF Dying(u) THEN element[u] ELSE Joined(element[u], n, s)]
  BY DEF StoreAt, Joined
<1>3. \A u \in Threads : u # t => Dying(u)' = Dying(u)
  BY <1>0 DEF TypeOK, StoreAt, Dying
<1>4. Owned' = [u \in Threads |-> Joined(Owned[u], n, s)]
  <2> SUFFICES ASSUME NEW u \in Threads PROVE Owned'[u] = Joined(Owned[u], n, s)
    BY DEF Owned
  <2>1. CASE u = t
    <3>1. element'[u] = {} /\ Owned[u] = {}
      BY <1>0, <1>2, <2>1 DEF Owned
    <3>2. Owned'[u] = {} /\ Joined({}, n, s) = {}
      BY <3>1 DEF Owned, Joined
    <3> QED
      BY <3>1, <3>2
  <2>2. CASE u # t /\ Dying(u)
    <3>1. Owned'[u] = {} /\ Owned[u] = {}
      BY <1>3, <2>2 DEF Owned
    <3> QED
      BY <3>1 DEF Joined
  <2>3. CASE u # t /\ ~Dying(u)
    <3>1. element'[u] = Joined(element[u], n, s)
      BY <1>2, <2>3
    <3>2. Owned'[u] = element'[u] /\ Owned[u] = element[u]
      BY <1>3, <2>3 DEF Owned
    <3> QED
      BY <3>1, <3>2
  <2> QED
    BY <2>1, <2>2, <2>3
<1>5. ASSUME NEW u \in Threads \ {t}
      PROVE  \/ element'[u] = element[u]
             \/ element'[u] = element[u] \cup {s} /\ element[u] # {}
  BY <1>2 DEF Joined
<1>8. element' \in [Threads -> SUBSET Samples]
  BY <1>0, <1>2 DEF Joined, TypeOK
<1>6. Contents \cup out = Held
  BY <1>0, HeldContents
<1>7. lost' = IF n \in Held THEN lost ELSE lost \cup {s}
  BY <1>6 DEF StoreAt
<1> QED
  BY <1>1, <1>2, <1>4, <1>5, <1>7, <1>8 DEF StoreAt

LEMMA TakeMoves ==
    ASSUME LInv, AtRest, ResetLock \/ ResetAcquire
    PROVE  /\ UNCHANGED <<element, registered, out, lost, arg>>
           /\ Owned' = Owned /\ acc = {}
           /\ acc' = global_result /\ global_result' = {} /\ walk' = "reset"
<1>1. gpc \in {"idle", "wait"} /\ TakeGlobal
  BY DEF ResetLock, ResetAcquire
<1>2. acc = {}
  BY <1>1 DEF LInv, GrabNested, AtRest
<1> QED
  BY <1>1, <1>2 DEF TakeGlobal, Owned, Dying, exitVars

LEMMA VisitMoves ==
    ASSUME LInv, VisitDo
    PROVE  /\ UNCHANGED <<global_result, registered, out, lost, arg, walk>>
           /\ cur \in Threads /\ walk = "reset"
           /\ element' = [element EXCEPT ![cur] = {}]
           /\ Owned' = [Owned EXCEPT ![cur] = {}]
           /\ Owned[cur] = element[cur]
           /\ acc' = acc \cup Owned[cur]
<1>0. TypeOK /\ cur \in Threads /\ walk = "reset" /\ ~Dying(cur)
  BY DEF LInv, TypeOK, VisitDo, GrabNested, LinkedWhenAttached, Dying
<1>1. Owned[cur] = element[cur]
  BY <1>0 DEF Owned
<1>2. element' = [element EXCEPT ![cur] = {}] /\ pc' = pc
  BY DEF VisitDo
<1>3. Owned' = [Owned EXCEPT ![cur] = {}]
  BY <1>0, <1>2 DEF Owned, Dying, TypeOK
<1> QED
  BY <1>0, <1>1, <1>2, <1>3 DEF VisitDo, exitVars

LEMMA EndMoves ==
    ASSUME ResetEnd
    PROVE  /\ UNCHANGED <<global_result, registered, element, lost, arg>>
           /\ Owned' = Owned /\ acc' = {} /\ out' = out \cup acc
BY DEF ResetEnd, Owned, Dying, exitVars

LEMMA ConsumeMoves ==
    ASSUME NEW s, Consume(s)
    PROVE  /\ UNCHANGED <<global_result, acc, registered, element, lost, arg, walk>>
           /\ Owned' = Owned /\ s \in out /\ out' = out \ {s}
BY DEF Consume, Owned, Dying, exitVars

-----------------------------------------------------------------------------
(* Every sample has one place at a time, whatever moves.                   *)
LEMMA InitSeparate == Init => AtRest /\ Separate
BY DEF Init, AtRest, Separate, Held, Owned, Dying

LEMMA AtRestStep == LInv /\ AtRest /\ [Next]_vars => AtRest'
<1> SUFFICES ASSUME LInv, AtRest, [Next]_vars PROVE AtRest'
  OBVIOUS
<1>0. TypeOK
  BY DEF LInv
<1>1. ASSUME UNCHANGED <<registered, element, acc, walk>> PROVE AtRest'
  BY <1>1 DEF AtRest
<1>2. ASSUME NEW t \in Threads, NEW s \in Samples, Begin(t, s) PROVE AtRest'
  BY <1>0, <1>2, BeginMoves DEF AtRest, TypeOK
<1>3. ASSUME NEW t \in Threads, ModifyDo(t) PROVE AtRest'
  <2>1. /\ element' = [element EXCEPT ![t] = element[t] \cup {arg[t]}]
        /\ UNCHANGED <<acc, walk, registered>> /\ registered[t]
    BY <1>3, ModifyMoves DEF ModifyDo
  <2> QED
    BY <1>0, <2>1 DEF AtRest, TypeOK
<1>4. ASSUME NEW t \in Threads, ExitDo(t) PROVE AtRest'
  BY <1>0, <1>4 DEF ExitDo, AgentGone, AtRest, TypeOK
<1>5. ASSUME NEW t \in Threads, ExitLate(t) PROVE AtRest'
  BY <1>0, <1>5, LateMoves DEF AtRest, TypeOK
<1>6. ASSUME NEW t \in Threads, NEW s \in Samples, ExitStore(t, s) PROVE AtRest'
  <2>1. PICK n : StoreAt(t, s, n)
    BY <1>6 DEF ExitStore
  <2>2. /\ acc' = Joined(acc, n, s) /\ walk' = walk
        /\ registered' = [registered EXCEPT ![t] = FALSE]
        /\ element'[t] = {}
        /\ \A u \in Threads \ {t} :
              \/ element'[u] = element[u]
              \/ element'[u] = element[u] \cup {s} /\ element[u] # {}
    BY <2>1, StoreMoves
  <2>3. walk' = "none" => acc' = {}
    BY <2>2 DEF AtRest, Joined
  <2>4. ASSUME NEW u \in Threads, ~registered'[u] PROVE element'[u] = {}
    BY <1>0, <2>2, <2>4 DEF AtRest, TypeOK
  <2> QED
    BY <2>3, <2>4 DEF AtRest
<1>7. CASE ResetLock \/ ResetAcquire
  BY <1>7, TakeMoves DEF AtRest
<1>8. CASE VisitDo
  <2>1. /\ element' = [element EXCEPT ![cur] = {}] /\ registered' = registered
        /\ walk' = "reset"
    BY <1>8, VisitMoves
  <2> QED
    BY <1>0, <2>1 DEF AtRest, TypeOK
<1>9. CASE ResetEnd
  BY <1>9, EndMoves DEF AtRest
<1>10. ASSUME NEW s \in Samples, Consume(s) PROVE AtRest'
  BY <1>10, ConsumeMoves DEF AtRest
<1> QED
  BY <1>0, <1>1, <1>2, <1>3, <1>4, <1>5, <1>6, <1>7, <1>8, <1>9, <1>10,
     LocksMoveNothing DEF Next

LEMMA SeparateStep == LInv /\ AtRest /\ Separate /\ [Next]_vars => Separate'
<1> SUFFICES ASSUME LInv, AtRest, Separate, [Next]_vars PROVE Separate'
  OBVIOUS
<1>0. /\ TypeOK /\ Owned \in [Threads -> SUBSET Samples]
      /\ arg \in [Threads -> Samples \cup {NoSample}] /\ Held \subseteq Samples
  BY DEF LInv, TypeOK, Owned, Held
<1>1. ASSUME UNCHANGED <<global_result, acc, out, arg>>, Owned' = Owned PROVE Separate'
  BY <1>1 DEF Separate, Held
<1>2. ASSUME NEW t \in Threads, NEW s \in Samples, Begin(t, s) PROVE Separate'
  <2>1. /\ UNCHANGED <<global_result, acc, out>> /\ Owned' = Owned
        /\ arg' = [arg EXCEPT ![t] = s]
    BY <1>2, BeginMoves
  <2>2. s \notin Held /\ \A u \in Threads : arg[u] # s
    BY <1>0, <1>2, FreshIsNew DEF Begin
  <2>3. Held' = Held
    BY <2>1 DEF Held
  <2> QED
    BY <1>0, <2>1, <2>2, <2>3 DEF Separate
<1>3. ASSUME NEW t \in Threads, ModifyDo(t) PROVE Separate'
  <2>1. /\ UNCHANGED <<global_result, acc, out>>
        /\ Owned' = [Owned EXCEPT ![t] = Owned[t] \cup {arg[t]}]
        /\ arg[t] \in Samples /\ arg' = [arg EXCEPT ![t] = NoSample]
    BY <1>3, ModifyMoves
  <2>2. arg[t] \notin Held
    BY DEF Separate
  <2>3. Held' = Held \cup {arg[t]}
    BY <1>0, <2>1 DEF Held
  <2>4. \A u \in Threads : arg'[u] \notin Held'
    <3> SUFFICES ASSUME NEW u \in Threads PROVE arg'[u] \notin Held'
      OBVIOUS
    <3>1. CASE u = t
      BY <1>0, <2>1, <2>3, <3>1, SampleAssumption
    <3>2. CASE u # t
      BY <1>0, <2>1, <2>3, <3>2, SampleAssumption DEF Separate
    <3> QED
      BY <3>1, <3>2
  <2>5. \A u \in Threads : arg[t] \notin Owned[u]
    BY <2>2 DEF Held
  <2>6. arg[t] \notin global_result \cup acc \cup out
    BY <2>2 DEF Held
  <2>7. \A u, v \in Threads : u # v => Owned'[u] \cap Owned'[v] = {}
    BY <1>0, <2>1, <2>5 DEF Separate
  <2>8. \A u \in Threads : Owned'[u] \cap (global_result' \cup acc' \cup out') = {}
    BY <1>0, <2>1, <2>6 DEF Separate
  <2>9. \A u, v \in Threads : u # v /\ arg'[u] = arg'[v] => arg'[u] = NoSample
    BY <1>0, <2>1 DEF Separate
  <2> QED
    BY <2>1, <2>4, <2>7, <2>8, <2>9 DEF Separate
<1>4. ASSUME NEW t \in Threads, ExitDo(t) PROVE Separate'
  <2>1. /\ UNCHANGED <<acc, out, arg>> /\ Owned' = [Owned EXCEPT ![t] = {}]
        /\ global_result' = global_result \cup Owned[t]
    BY <1>4, ExitMoves
  <2>2. Held' = Held
    BY <1>0, <2>1 DEF Held
  <2>3. \A u, v \in Threads : u # v => Owned'[u] \cap Owned'[v] = {}
    BY <1>0, <2>1 DEF Separate
  <2>4. \A u \in Threads : Owned'[u] \cap (global_result' \cup acc' \cup out') = {}
    BY <1>0, <2>1 DEF Separate
  <2>5. global_result' \cap acc' = {} /\ (global_result' \cup acc') \cap out' = {}
    BY <2>1 DEF Separate
  <2> QED
    BY <2>1, <2>2, <2>3, <2>4, <2>5 DEF Separate
<1>5. ASSUME NEW t \in Threads, ExitLate(t) PROVE Separate'
  BY <1>1, <1>5, LateMoves
<1>6. ASSUME NEW t \in Threads, NEW s \in Samples, ExitStore(t, s) PROVE Separate'
  <2>1. PICK n : StoreAt(t, s, n)
    BY <1>6 DEF ExitStore
  <2>2. /\ global_result' = Joined(global_result, n, s)
        /\ acc' = Joined(acc, n, s) /\ out' = Joined(out, n, s)
        /\ Owned' = [u \in Threads |-> Joined(Owned[u], n, s)]
        /\ arg' = arg
    BY <2>1, StoreMoves
  <2>3. s \notin Held /\ \A u \in Threads : arg[u] # s
    BY <1>0, <2>1, FreshIsNew DEF StoreAt
  <2>4. /\ s \notin global_result \cup acc \cup out
        /\ \A u \in Threads : s \notin Owned[u]
    BY <2>3 DEF Held
  <2>5. \A S, T : S \cap T = {} /\ s \notin S \cup T
                     => Joined(S, n, s) \cap Joined(T, n, s) = {}
    BY DEF Joined
  <2>6. Held' \subseteq Held \cup {s}
    BY <2>2 DEF Held, Joined
  <2>7. \A u \in Threads : arg'[u] \notin Held'
    BY <2>2, <2>3, <2>6 DEF Separate
  <2>8. \A u, v \in Threads : u # v => Owned'[u] \cap Owned'[v] = {}
    BY <2>2, <2>4, <2>5 DEF Separate
  <2>9. \A u \in Threads : /\ Owned'[u] \cap global_result' = {}
                           /\ Owned'[u] \cap acc' = {} /\ Owned'[u] \cap out' = {}
    <3>1. \A u \in Threads : /\ Owned[u] \cap global_result = {}
                             /\ Owned[u] \cap acc = {} /\ Owned[u] \cap out = {}
      BY DEF Separate
    <3> QED
      BY <2>2, <2>4, <2>5, <3>1
  <2>10. global_result' \cap acc' = {} /\ global_result' \cap out' = {} /\ acc' \cap out' = {}
    <3>1. global_result \cap acc = {} /\ global_result \cap out = {} /\ acc \cap out = {}
      BY DEF Separate
    <3> QED
      BY <2>2, <2>4, <2>5, <3>1
  <2>11. \A u \in Threads : Owned'[u] \cap (global_result' \cup acc' \cup out') = {}
    BY <2>9
  <2>12. (global_result' \cup acc') \cap out' = {}
    BY <2>10
  <2> QED
    BY <2>2, <2>7, <2>8, <2>10, <2>11, <2>12 DEF Separate
<1>7. CASE ResetLock \/ ResetAcquire
  <2>1. /\ UNCHANGED <<out, arg>> /\ Owned' = Owned /\ acc = {}
        /\ acc' = global_result /\ global_result' = {}
    BY <1>7, TakeMoves
  <2>2. Held' = Held
    BY <2>1 DEF Held
  <2> QED
    BY <2>1, <2>2 DEF Separate
<1>8. CASE VisitDo
  <2>1. /\ UNCHANGED <<global_result, out, arg>> /\ cur \in Threads
        /\ Owned' = [Owned EXCEPT ![cur] = {}]
        /\ acc' = acc \cup Owned[cur]
    BY <1>8, VisitMoves
  <2>2. Held' = Held
    BY <1>0, <2>1 DEF Held
  <2>3. \A u, v \in Threads : u # v => Owned'[u] \cap Owned'[v] = {}
    BY <1>0, <2>1 DEF Separate
  <2>4. \A u \in Threads : Owned'[u] \cap (global_result' \cup acc' \cup out') = {}
    BY <1>0, <2>1 DEF Separate
  <2>5. global_result' \cap acc' = {} /\ (global_result' \cup acc') \cap out' = {}
    BY <2>1 DEF Separate
  <2> QED
    BY <2>1, <2>2, <2>3, <2>4, <2>5 DEF Separate
<1>9. CASE ResetEnd
  <2>1. /\ UNCHANGED <<global_result, arg>> /\ Owned' = Owned
        /\ acc' = {} /\ out' = out \cup acc
    BY <1>9, EndMoves
  <2>2. Held' = Held
    BY <2>1 DEF Held
  <2> QED
    BY <2>1, <2>2 DEF Separate
<1>10. ASSUME NEW s \in Samples, Consume(s) PROVE Separate'
  <2>1. /\ UNCHANGED <<global_result, acc, arg>> /\ Owned' = Owned
        /\ out' = out \ {s}
    BY <1>10, ConsumeMoves
  <2>2. Held' \subseteq Held
    BY <2>1 DEF Held
  <2> QED
    BY <2>1, <2>2 DEF Separate
<1> QED
  BY <1>0, <1>1, <1>2, <1>3, <1>4, <1>5, <1>6, <1>7, <1>8, <1>9, <1>10,
     LocksMoveNothing DEF Next

(* A sample that has a place is nobody's argument, and in one list: that   *)
(* of one agent, the one of the combiner, the one that reset_all_agents    *)
(* collects, or the one the grab thread takes apart.  Splicing a list into *)
(* itself would cut it in two.                                             *)
THEOREM SamplesHaveOnePlace == Spec => []Separate
<1>1. Init => LInv /\ AtRest /\ Separate
  BY InitLInv, InitSeparate
<1>2. LInv /\ AtRest /\ Separate /\ [Next]_vars => (AtRest /\ Separate)'
  BY AtRestStep, SeparateStep
<1> QED
  BY <1>1, <1>2, Inductive, PTL DEF Spec

-----------------------------------------------------------------------------
(* Circular lists.  A set of nodes is one circle when the pointers do not  *)
(* lead out of it, nor out of it from less than all of it.                 *)
Closed(nx, L) == \A n \in L : nx[n] \in L

IsCircle(nx, L) ==
    /\ L \subseteq Nodes /\ Closed(nx, L)
    /\ \A T \in SUBSET L : T # {} /\ Closed(nx, T) => T = L

(* next_ and previous_ lead back.                                          *)
LinkedBack ==
    /\ next \in [Nodes -> Nodes] /\ previous \in [Nodes -> Nodes]
    /\ \A n \in Nodes : previous[next[n]] = n /\ next[previous[n]] = n

(* A circle is closed backwards as well. *)
LEMMA CirclePrevious ==
    ASSUME LinkedBack, NEW L, IsCircle(next, L), NEW n \in L
    PROVE  previous[n] \in L
<1> DEFINE T == {next[x] : x \in L}
<1>1. T \subseteq L /\ T # {} /\ Closed(next, T)
  BY DEF IsCircle, Closed
<1>2. T = L
  BY <1>1 DEF IsCircle
<1>3. PICK x \in L : n = next[x]
  BY <1>2
<1> QED
  BY <1>3 DEF LinkedBack, IsCircle

(* Only what the pointers of the list say matters. *)
LEMMA SameCircle ==
    ASSUME NEW nx, NEW ny, NEW L, IsCircle(nx, L), \A x \in L : ny[x] = nx[x]
    PROVE  IsCircle(ny, L)
BY DEF IsCircle, Closed

LEMMA EmptyCircle == ASSUME NEW nx PROVE IsCircle(nx, {})
BY DEF IsCircle, Closed

LEMMA LoneCircle == ASSUME NEW nx, NEW n \in Nodes, nx[n] = n PROVE IsCircle(nx, {n})
BY DEF IsCircle, Closed

(* insert_before_as_list of two circles makes one of them. *)
LEMMA SplicedCircle ==
    ASSUME LinkedBack, NEW L, NEW M, IsCircle(next, L), IsCircle(next, M),
           L \cap M = {}, NEW n \in L, NEW e \in M, Splice(n, e)
    PROVE  /\ IsCircle(next', L \cup M)
           /\ \A x \in Nodes \ (L \cup M) : next'[x] = next[x]
<1> DEFINE p == previous[n]
           r == previous[e]
<1>1. p \in L /\ r \in M
  BY CirclePrevious
<1>2. L \subseteq Nodes /\ M \subseteq Nodes
  BY DEF IsCircle
<1>3. /\ next'[p] = e /\ next'[r] = n
      /\ \A x \in Nodes \ {p, r} : next'[x] = next[x]
  BY <1>1, <1>2 DEF Splice, LinkedBack
<1>4. next[p] = n /\ next[r] = e
  BY <1>2 DEF LinkedBack
<1> HIDE DEF p, r
<1>5. Closed(next', L \cup M)
  <2> SUFFICES ASSUME NEW x \in L \cup M PROVE next'[x] \in L \cup M
    BY DEF Closed
  <2> QED
    BY <1>1, <1>2, <1>3 DEF IsCircle, Closed
<1>6. ASSUME NEW T \in SUBSET (L \cup M), T # {}, Closed(next', T) PROVE T = L \cup M
  <2>1. (T \cap L) # {} => p \in T
    <3>1. SUFFICES ASSUME (T \cap L) # {}, p \notin T PROVE FALSE
      OBVIOUS
    <3>2. Closed(next, T \cap L)
      BY <1>1, <1>2, <1>3, <1>6, <3>1 DEF IsCircle, Closed
    <3>3. T \cap L = L
      BY <3>1, <3>2 DEF IsCircle
    <3> QED
      BY <1>1, <3>1, <3>3
  <2>2. (T \cap M) # {} => r \in T
    <3>1. SUFFICES ASSUME (T \cap M) # {}, r \notin T PROVE FALSE
      OBVIOUS
    <3>2. Closed(next, T \cap M)
      BY <1>1, <1>2, <1>3, <1>6, <3>1 DEF IsCircle, Closed
    <3>3. T \cap M = M
      BY <3>1, <3>2 DEF IsCircle
    <3> QED
      BY <1>1, <3>1, <3>3
  <2>3. (p \in T => e \in T) /\ (r \in T => n \in T)
    BY <1>3, <1>6 DEF Closed
  <2>4. p \in T /\ r \in T /\ n \in T /\ e \in T
    BY <1>6, <2>1, <2>2, <2>3
  <2>5. Closed(next, T \cap L) /\ Closed(next, T \cap M)
    BY <1>1, <1>2, <1>3, <1>4, <1>6, <2>4 DEF IsCircle, Closed
  <2>6. T \cap L = L /\ T \cap M = M
    BY <2>4, <2>5 DEF IsCircle
  <2> QED
    BY <1>6, <2>6
<1> QED
  BY <1>1, <1>2, <1>3, <1>5, <1>6 DEF IsCircle

(* remove_from_list leaves a circle, and the node alone. *)
LEMMA UnlinkedCircle ==
    ASSUME LinkedBack, NEW L, IsCircle(next, L), NEW n \in L, Unlink(n)
    PROVE  /\ IsCircle(next', L \ {n}) /\ IsCircle(next', {n})
           /\ \A x \in Nodes \ L : next'[x] = next[x]
<1> DEFINE p == previous[n]
<1>1. p \in L /\ next[p] = n /\ next[n] \in L /\ L \subseteq Nodes /\ p \in Nodes
  BY CirclePrevious DEF LinkedBack, IsCircle, Closed
<1>2. /\ next'[n] = n /\ (p # n => next'[p] = next[n])
      /\ \A x \in Nodes \ {p, n} : next'[x] = next[x]
  BY <1>1 DEF Unlink, LinkedBack
<1>3. \A x \in Nodes : next[x] = n => x = p
  BY DEF LinkedBack
<1>4. p # n => next[n] # n
  BY <1>1, <1>3
<1> HIDE DEF p
<1>5. Closed(next', L \ {n})
  <2> SUFFICES ASSUME NEW x \in L \ {n} PROVE next'[x] \in L \ {n}
    BY DEF Closed
  <2>1. CASE x = p
    BY <1>1, <1>2, <1>4, <2>1
  <2>2. CASE x # p
    BY <1>1, <1>2, <1>3, <2>2 DEF IsCircle, Closed
  <2> QED
    BY <2>1, <2>2
<1>6. ASSUME NEW T \in SUBSET (L \ {n}), T # {}, Closed(next', T) PROVE T = L \ {n}
  <2>1. p \in T
    <3>1. SUFFICES ASSUME p \notin T PROVE FALSE
      OBVIOUS
    <3>2. Closed(next, T)
      BY <1>1, <1>2, <1>6, <3>1 DEF Closed
    <3>3. T = L
      BY <1>6, <3>2 DEF IsCircle
    <3> QED
      BY <1>1, <3>1, <3>3
  <2>2. next[n] \in T
    BY <1>2, <1>6, <2>1 DEF Closed
  <2>3. Closed(next, T \cup {n})
    BY <1>1, <1>2, <1>6, <2>1, <2>2 DEF Closed
  <2>4. T \cup {n} = L
    BY <1>6, <2>3 DEF IsCircle
  <2> QED
    BY <1>6, <2>4
<1>7. L \ {n} \subseteq Nodes
  BY <1>1
<1>8. IsCircle(next', L \ {n})
  BY <1>5, <1>6, <1>7 DEF IsCircle
<1>9. IsCircle(next', {n})
  BY <1>1, <1>2, LoneCircle
<1>10. \A x \in Nodes \ L : next'[x] = next[x]
  BY <1>1, <1>2
<1> QED
  BY <1>8, <1>9, <1>10

(* The operations on two nodes keep the pointers inverse to each other. *)
LEMMA SpliceInverse ==
    ASSUME LinkedBack, NEW n \in Nodes, NEW e \in Nodes, Splice(n, e)
    PROVE  LinkedBack'
<1> DEFINE p == previous[n]
           r == previous[e]
<1>1. p \in Nodes /\ r \in Nodes /\ next[p] = n /\ next[r] = e
  BY DEF LinkedBack
<1>2. next' \in [Nodes -> Nodes] /\ previous' \in [Nodes -> Nodes]
  BY <1>1 DEF Splice, LinkedBack
<1>3. /\ next'[r] = n /\ (p # r => next'[p] = e)
      /\ \A x \in Nodes \ {p, r} : next'[x] = next[x]
      /\ previous'[e] = p /\ (n # e => previous'[n] = r)
      /\ \A x \in Nodes \ {n, e} : previous'[x] = previous[x]
  BY <1>1 DEF Splice, LinkedBack
<1>4. n = e <=> p = r
  BY <1>1
<1> HIDE DEF p, r
<1>5. ASSUME NEW x \in Nodes PROVE previous'[next'[x]] = x /\ next'[previous'[x]] = x
  <2>1. /\ x \notin {p, r} => next[x] \in Nodes \ {n, e}
        /\ x \notin {n, e} => previous[x] \in Nodes \ {p, r}
    BY <1>1 DEF LinkedBack, p, r
  <2>2. previous[next[x]] = x /\ next[previous[x]] = x
    BY DEF LinkedBack
  <2>3. previous'[next'[x]] = x
    BY <1>1, <1>3, <1>4, <2>1, <2>2
  <2>4. next'[previous'[x]] = x
    BY <1>1, <1>3, <1>4, <2>1, <2>2
  <2> QED
    BY <2>3, <2>4
<1> QED
  BY <1>2, <1>5 DEF LinkedBack

LEMMA UnlinkInverse ==
    ASSUME LinkedBack, NEW n \in Nodes, Unlink(n)
    PROVE  LinkedBack'
<1> DEFINE p == previous[n]
           r == next[n]
<1>1. p \in Nodes /\ r \in Nodes /\ next[p] = n /\ previous[r] = n
  BY DEF LinkedBack
<1>2. next' \in [Nodes -> Nodes] /\ previous' \in [Nodes -> Nodes]
  BY <1>1 DEF Unlink, LinkedBack
<1>3. /\ next'[n] = n /\ (p # n => next'[p] = r)
      /\ \A x \in Nodes \ {p, n} : next'[x] = next[x]
      /\ previous'[n] = n /\ (r # n => previous'[r] = p)
      /\ \A x \in Nodes \ {r, n} : previous'[x] = previous[x]
  BY <1>1 DEF Unlink, LinkedBack
<1>4. p = n <=> r = n
  BY <1>1
<1> HIDE DEF p, r
<1>5. ASSUME NEW x \in Nodes PROVE previous'[next'[x]] = x /\ next'[previous'[x]] = x
  <2>1. /\ x \notin {p, n} => next[x] \in Nodes \ {r, n}
        /\ x \notin {r, n} => previous[x] \in Nodes \ {p, n}
    BY <1>1 DEF LinkedBack, p, r
  <2>2. previous[next[x]] = x /\ next[previous[x]] = x
    BY DEF LinkedBack
  <2>3. previous'[next'[x]] = x
    BY <1>1, <1>3, <1>4, <2>1, <2>2
  <2>4. next'[previous'[x]] = x
    BY <1>1, <1>3, <1>4, <2>1, <2>2
  <2> QED
    BY <2>3, <2>4
<1> QED
  BY <1>2, <1>5 DEF LinkedBack

(* Induction over the natural numbers by the least counterexample. *)
LEMMA LeastNat ==
    ASSUME NEW T, T \subseteq Nat, T # {}
    PROVE  \E m \in T : \A k \in T : m <= k
<1>1. PICK m \in T : \A k \in T : <<k, m>> \notin OpToRel(<, Nat)
  BY NatLessThanWellFounded, WFMin
<1>2. \A k \in T : ~(k < m)
  BY <1>1 DEF OpToRel
<1> QED
  BY <1>2

(* A walk of any length from a node exists. *)
IsWalk(at, n, N) == at = [k \in 0 .. N |-> IF k = 0 THEN n ELSE next[at[k - 1]]]

LEMMA WalkExists == ASSUME NEW n, NEW N \in Nat PROVE \E at : IsWalk(at, n, N)
<1> DEFINE T == {m \in Nat : ~ \E at : IsWalk(at, n, m)}
<1>1. SUFFICES ASSUME T # {} PROVE FALSE
  OBVIOUS
<1>2. PICK m \in T : \A k \in T : m <= k
  BY <1>1, LeastNat
<1>3. m # 0
  <2>1. IsWalk([k \in 0 .. 0 |-> n], n, 0)
    BY DEF IsWalk
  <2> QED
    BY <2>1
<1>4. m - 1 \in Nat /\ m - 1 \notin T /\ m \in Nat
  BY <1>2, <1>3
<1>5. PICK f : IsWalk(f, n, m - 1)
  BY <1>4
<1> DEFINE g == [k \in 0 .. m |-> IF k = m THEN next[f[m - 1]] ELSE f[k]]
<1>6. \A k \in 0 .. m : g[k] = IF k = 0 THEN n ELSE next[g[k - 1]]
  <2> SUFFICES ASSUME NEW k \in 0 .. m
               PROVE  g[k] = IF k = 0 THEN n ELSE next[g[k - 1]]
    OBVIOUS
  <2>1. CASE k = m
    <3>1. m - 1 \in 0 .. m /\ m - 1 # m /\ m \in 0 .. m
      BY <1>4
    <3>2. g[m - 1] = f[m - 1] /\ g[m] = next[f[m - 1]]
      BY <3>1
    <3> QED
      BY <1>3, <2>1, <3>2
  <2>2. CASE k # m /\ k = 0
    <3>1. g[k] = f[k] /\ k \in 0 .. m - 1
      BY <1>4, <2>2
    <3>2. f[k] = n
      BY <1>5, <2>2, <3>1 DEF IsWalk
    <3> QED
      BY <2>2, <3>1, <3>2
  <2>3. CASE k # m /\ k # 0
    <3>1. k \in 0 .. m - 1 /\ k - 1 \in 0 .. m /\ k - 1 # m
      BY <1>4, <2>3
    <3>2. g[k] = f[k] /\ g[k - 1] = f[k - 1]
      BY <2>3, <3>1
    <3>3. f[k] = next[f[k - 1]]
      BY <1>5, <2>3, <3>1 DEF IsWalk
    <3> QED
      BY <2>3, <3>2, <3>3
  <2> QED
    BY <2>1, <2>2, <2>3
<1>7. g = [k \in 0 .. m |-> g[k]]
  OBVIOUS
<1> HIDE DEF g
<1>8. IsWalk(g, n, m)
  BY <1>6, <1>7 DEF IsWalk
<1> QED
  BY <1>4, <1>8, <1>2

(* Circle is what a walk comes by. *)
LEMMA CircleOfWalk ==
    ASSUME NEW n, Cardinality(Nodes) \in Nat
    PROVE  \E at : /\ IsWalk(at, n, Cardinality(Nodes))
                   /\ Circle(n) = {at[k] : k \in 0 .. Cardinality(Nodes)}
<1> DEFINE N == Cardinality(Nodes)
<1> DEFINE at == CHOOSE f : f = [k \in 0 .. N |-> IF k = 0 THEN n ELSE next[f[k - 1]]]
<1>1. Circle(n) = {at[k] : k \in 0 .. N}
  BY DEF Circle
<1>2. PICK f : f = [k \in 0 .. N |-> IF k = 0 THEN n ELSE next[f[k - 1]]]
  BY WalkExists DEF IsWalk
<1>3. at = [k \in 0 .. N |-> IF k = 0 THEN n ELSE next[at[k - 1]]]
  BY <1>2
<1> HIDE DEF at
<1> QED
  BY <1>1, <1>3 DEF IsWalk

(* As many steps as there are nodes lead round the circle. *)
LEMMA CircleIsWalk ==
    ASSUME NEW L, IsCircle(next, L), NEW n \in L
    PROVE  Circle(n) = L
<1> DEFINE N == Cardinality(Nodes)
<1>1. IsFiniteSet(Nodes) /\ N \in Nat
  <2>1. IsFiniteSet(Nodes)
    BY FiniteAssumption, FS_AddElement DEF Nodes
  <2> QED
    BY <2>1, FS_CardinalityType
<1>2. PICK at : IsWalk(at, n, N) /\ Circle(n) = {at[k] : k \in 0 .. N}
  BY <1>1, CircleOfWalk
<1> HIDE DEF N
<1>3. at[0] = n /\ \A k \in 1 .. N : at[k] = next[at[k - 1]]
  BY <1>1, <1>2 DEF IsWalk
<1>4. \A k \in 0 .. N : at[k] \in L
  <2> DEFINE T == {k \in 0 .. N : at[k] \notin L}
  <2>1. SUFFICES ASSUME T # {} PROVE FALSE
    OBVIOUS
  <2>2. T \subseteq Nat
    BY <1>1
  <2>3. PICK m \in T : \A k \in T : m <= k
    BY <2>1, <2>2, LeastNat
  <2>4. m \in 1 .. N /\ m - 1 \in 0 .. N
    BY <1>1, <1>3, <2>3
  <2>5. at[m - 1] \in L
    BY <2>3, <2>4
  <2> QED
    BY <1>3, <2>3, <2>4, <2>5 DEF IsCircle, Closed
<1>5. PICK i \in 0 .. N, j \in 0 .. N : i < j /\ at[i] = at[j]
  <2>1. /\ IsFiniteSet(0 .. N) /\ Cardinality(0 .. N) = N + 1
    BY <1>1, FS_Interval
  <2>2. at \in [0 .. N -> Nodes]
    <3>1. at = [k \in 0 .. N |-> at[k]]
      BY <1>2 DEF IsWalk
    <3>2. \A k \in 0 .. N : at[k] \in Nodes
      BY <1>4 DEF IsCircle
    <3> QED
      BY <3>1, <3>2
  <2>3. \E x, y \in 0 .. N : x # y /\ at[x] = at[y]
    BY <1>1, <2>1, <2>2, FS_PigeonHole DEF N
  <2>4. PICK x \in 0 .. N, y \in 0 .. N : x # y /\ at[x] = at[y]
    BY <2>3
  <2>5. x < y \/ y < x
    BY <1>1, <2>4
  <2> QED
    BY <2>4, <2>5
<1> DEFINE S == {at[k] : k \in 0 .. j - 1}
<1>6. S = L
  <2>1. S \subseteq L /\ S # {}
    BY <1>1, <1>4, <1>5
  <2>2. ASSUME NEW k \in 0 .. j - 1 PROVE next[at[k]] \in S
    <3>1. k + 1 \in 1 .. N /\ (k + 1) - 1 = k
      BY <1>1, <1>5
    <3>2. at[k + 1] = next[at[k]]
      BY <1>3, <3>1
    <3>3. CASE k + 1 = j
      BY <1>1, <1>5, <3>2, <3>3
    <3>4. CASE k + 1 # j
      <4>1. k + 1 \in 0 .. j - 1
        BY <1>1, <1>5, <3>4
      <4> QED
        BY <3>2, <4>1
    <3> QED
      BY <3>3, <3>4
  <2>3. Closed(next, S)
    BY <2>2 DEF Closed
  <2> QED
    BY <2>1, <2>3 DEF IsCircle
<1>7. 0 .. j - 1 \subseteq 0 .. N
  BY <1>1, <1>5
<1> QED
  BY <1>2, <1>4, <1>6, <1>7

-----------------------------------------------------------------------------
(* The lists in memory have the heads of the sets of samples, so that they *)
(* take the steps of the reducer.                                          *)

(* A head points to a node of its list, and to none if the list is empty.  *)
HeadOf(p, S) == (p = nullptr /\ S = {}) \/ p \in S

HeadsIn ==
    /\ value \in [Threads -> Samples \cup {nullptr}]
    /\ \A t \in Threads : HeadOf(value[t], element[t])
    /\ HeadOf(global, global_result) /\ HeadOf(tmp, acc)

LEMMA InitHeads == ListsInit => HeadsIn /\ LinkedBack
<1> SUFFICES ASSUME ListsInit PROVE HeadsIn /\ LinkedBack
  OBVIOUS
<1>1. HeadsIn
  BY DEF ListsInit, Init, HeadsIn, HeadOf
<1>2. LinkedBack
  BY DEF ListsInit, LinkedBack
<1> QED
  BY <1>1, <1>2

LEMMA ListsStepNext ==
    ASSUME LInv, HeadsIn, [ListsNext]_<<vars, listVars>>
    PROVE  [Next]_vars
<1>1. ASSUME NEW t \in Threads, NEW s \in Samples, StoreNode(t, s)
      PROVE  ExitStore(t, s)
  <2>1. StoreAt(t, s, Combined(value[t], s))
    BY <1>1 DEF StoreNode
  <2>2. Combined(value[t], s) \in IF element[t] = {} THEN {s} ELSE element[t]
    <3>1. HeadOf(value[t], element[t]) /\ element[t] \subseteq Samples
      BY DEF HeadsIn, LInv, TypeOK
    <3>2. nullptr \notin Samples
      BY SampleAssumption DEF nullptr
    <3> QED
      BY <3>1, <3>2 DEF HeadOf, Combined
  <2> QED
    BY <2>1, <2>2 DEF ExitStore
<1>2. ASSUME NEW t \in Threads, NEW s \in Samples, BeginNode(t, s) PROVE Begin(t, s)
  BY <1>2 DEF BeginNode
<1>3. ASSUME NEW t \in Threads, ModifyList(t) \/ CommitList(t) \/ LateNode(t)
      PROVE  ModifyDo(t) \/ ExitDo(t) \/ ExitLate(t)
  BY <1>3 DEF ModifyList, CommitList, LateNode
<1>4. CASE TakeList \/ VisitList \/ ReturnList
  BY <1>4 DEF TakeList, VisitList, ReturnList, Next
<1>5. ASSUME TakeApart PROVE \E s \in Samples : Consume(s)
  BY <1>5 DEF TakeApart, Consume, LInv, TypeOK
<1>6. ASSUME LockStep PROVE Next
  BY <1>6 DEF LockStep, Next
<1>7. CASE UNCHANGED <<vars, listVars>>
  BY <1>7
<1> QED
  BY <1>1, <1>2, <1>3, <1>4, <1>5, <1>6, <1>7 DEF ListsNext, Next

LEMMA CombinedHead ==
    ASSUME NEW p, NEW q, NEW S, NEW T, nullptr \notin S, nullptr \notin T,
           HeadOf(p, S), HeadOf(q, T)
    PROVE  HeadOf(Combined(p, q), S \cup T)
BY DEF HeadOf, Combined

LEMMA HeadsStep ==
    ASSUME LInv, AtRest, HeadsIn, [ListsNext]_<<vars, listVars>>
    PROVE  HeadsIn'
<1>0. /\ TypeOK /\ value \in [Threads -> Samples \cup {nullptr}]
      /\ HeadOf(global, global_result) /\ HeadOf(tmp, acc)
      /\ \A t \in Threads : HeadOf(value[t], element[t])
      /\ nullptr \notin Samples /\ HeadOf(nullptr, {})
  BY SampleAssumption DEF LInv, HeadsIn, nullptr, HeadOf
<1>01. /\ nullptr \notin global_result /\ nullptr \notin acc
       /\ \A t \in Threads : nullptr \notin element[t]
  BY <1>0 DEF TypeOK
<1>1. ASSUME UNCHANGED <<value, global, tmp, element, global_result, acc>>
      PROVE  HeadsIn'
  BY <1>1 DEF HeadsIn
<1>2. ASSUME NEW t \in Threads, NEW s \in Samples, BeginNode(t, s) PROVE HeadsIn'
  <2>1. UNCHANGED <<element, global_result, acc>>
    BY <1>2, BeginMoves DEF BeginNode
  <2>2. CASE registered[t]
    BY <1>1, <1>2, <2>1, <2>2 DEF BeginNode
  <2>3. CASE ~registered[t]
    <3>1. element[t] = {} /\ value' = [value EXCEPT ![t] = nullptr]
      BY <1>2, <2>3 DEF AtRest, BeginNode
    <3> QED
      BY <1>0, <1>2, <2>1, <3>1 DEF HeadsIn, BeginNode
  <2> QED
    BY <2>2, <2>3
<1>3. ASSUME NEW t \in Threads, NEW s \in Samples, StoreNode(t, s) PROVE HeadsIn'
  <2> DEFINE n == Combined(value[t], s)
  <2>1. StoreAt(t, s, n)
    BY <1>3 DEF StoreNode
  <2>2. /\ global_result' = Joined(global_result, n, s)
        /\ acc' = Joined(acc, n, s)
        /\ \A u \in Threads \ {t} :
              \/ element'[u] = element[u]
              \/ element'[u] = element[u] \cup {s} /\ element[u] # {}
        /\ element'[t] = {}
    BY <2>1, StoreMoves
  <2>3. /\ value' = [value EXCEPT ![t] = nullptr]
        /\ UNCHANGED <<global, tmp>>
    BY <1>3 DEF StoreNode
  <2> HIDE DEF n
  <2>4. HeadOf(global', global_result') /\ HeadOf(tmp', acc')
    BY <1>0, <2>2, <2>3 DEF HeadOf, Joined
  <2>5. ASSUME NEW u \in Threads PROVE HeadOf(value'[u], element'[u])
    <3>1. CASE u = t
      BY <1>0, <2>2, <2>3, <3>1
    <3>2. CASE u # t
      <4>1. value'[u] = value[u] /\ HeadOf(value[u], element[u])
        BY <1>0, <2>3, <3>2
      <4> QED
        BY <2>2, <3>2, <4>1 DEF HeadOf
    <3> QED
      BY <3>1, <3>2
  <2>6. value' \in [Threads -> Samples \cup {nullptr}]
    BY <1>0, <2>3
  <2> QED
    BY <2>4, <2>5, <2>6 DEF HeadsIn
<1>4. ASSUME NEW t \in Threads, ModifyList(t) PROVE HeadsIn'
  <2>1. /\ UNCHANGED <<global_result, acc>> /\ arg[t] \in Samples
        /\ element' = [element EXCEPT ![t] = element[t] \cup {arg[t]}]
    BY <1>4, ModifyMoves DEF ModifyList, ModifyDo
  <2>2. /\ value' = [value EXCEPT ![t] = Combined(value[t], arg[t])]
        /\ UNCHANGED <<global, tmp>>
    BY <1>4 DEF ModifyList
  <2>3. HeadOf(arg[t], {arg[t]}) /\ nullptr \notin {arg[t]}
    BY <1>0, <2>1 DEF HeadOf
  <2>4. HeadOf(Combined(value[t], arg[t]), element[t] \cup {arg[t]})
    BY <1>0, <1>01, <2>3, CombinedHead
  <2>5. Combined(value[t], arg[t]) \in Samples \cup {nullptr}
    BY <1>0, <2>1 DEF Combined
  <2>6. value' \in [Threads -> Samples \cup {nullptr}]
    BY <1>0, <2>2, <2>5
  <2>7. ASSUME NEW u \in Threads PROVE HeadOf(value'[u], element'[u])
    <3>1. CASE u = t
      <4>1. /\ value'[u] = Combined(value[t], arg[t])
            /\ element'[u] = element[t] \cup {arg[t]}
        BY <1>0, <2>1, <2>2, <3>1 DEF TypeOK
      <4> QED
        BY <2>4, <4>1
    <3>2. CASE u # t
      <4>1. value'[u] = value[u] /\ element'[u] = element[u]
        BY <1>0, <2>1, <2>2, <3>2 DEF TypeOK
      <4> QED
        BY <1>0, <4>1
    <3> QED
      BY <3>1, <3>2
  <2> QED
    BY <1>0, <2>1, <2>2, <2>6, <2>7 DEF HeadsIn
<1>5. ASSUME NEW t \in Threads, CommitList(t) PROVE HeadsIn'
  <2>1. /\ UNCHANGED acc /\ global_result' = global_result \cup element[t]
        /\ \/ t \notin owes /\ element' = [element EXCEPT ![t] = {}]
           \/ t \in owes /\ element' = element
    BY <1>5 DEF CommitList, ExitDo, AgentGone
  <2>2. /\ global' = Combined(global, value[t]) /\ tmp' = tmp
        /\ value' = IF t \in owes THEN value ELSE [value EXCEPT ![t] = nullptr]
    BY <1>5 DEF CommitList
  <2>3. HeadOf(global', global_result')
    <3>1. HeadOf(Combined(global, value[t]), global_result \cup element[t])
      BY <1>0, <1>01, CombinedHead
    <3> QED
      BY <2>1, <2>2, <3>1
  <2>4. CASE t \in owes
    BY <1>0, <2>1, <2>2, <2>3, <2>4 DEF HeadsIn
  <2>5. CASE t \notin owes
    <3>1. /\ value' = [value EXCEPT ![t] = nullptr]
          /\ element' = [element EXCEPT ![t] = {}]
      BY <2>1, <2>2, <2>5
    <3>2. \A u \in Threads : HeadOf(value'[u], element'[u])
      BY <1>0, <3>1 DEF TypeOK
    <3>3. value' \in [Threads -> Samples \cup {nullptr}]
      BY <1>0, <3>1
    <3> QED
      BY <1>0, <2>1, <2>2, <2>3, <3>2, <3>3 DEF HeadsIn
  <2> QED
    BY <2>4, <2>5
<1>6. ASSUME NEW t \in Threads, LateNode(t) PROVE HeadsIn'
  <2>1. /\ UNCHANGED <<global_result, acc, global, tmp>>
        /\ element' = [element EXCEPT ![t] = {}]
        /\ value' = [value EXCEPT ![t] = nullptr]
    BY <1>6, LateMoves DEF LateNode
  <2>2. \A u \in Threads : HeadOf(value'[u], element'[u])
    BY <1>0, <2>1 DEF TypeOK
  <2>3. value' \in [Threads -> Samples \cup {nullptr}]
    BY <1>0, <2>1
  <2> QED
    BY <1>0, <2>1, <2>2, <2>3 DEF HeadsIn
<1>7. CASE TakeList
  <2>1. /\ UNCHANGED element /\ acc' = global_result /\ global_result' = {}
    BY <1>7, TakeMoves DEF TakeList
  <2> QED
    BY <1>0, <1>7, <2>1 DEF TakeList, HeadsIn
<1>8. CASE VisitList
  <2>1. /\ UNCHANGED global_result /\ cur \in Threads
        /\ element' = [element EXCEPT ![cur] = {}]
        /\ acc' = acc \cup element[cur]
    BY <1>8, VisitMoves DEF VisitList
  <2>2. /\ tmp' = Combined(tmp, value[cur]) /\ global' = global
        /\ value' = [value EXCEPT ![cur] = nullptr]
    BY <1>8 DEF VisitList
  <2>3. HeadOf(tmp', acc')
    <3>1. HeadOf(Combined(tmp, value[cur]), acc \cup element[cur])
      BY <1>0, <1>01, <2>1, CombinedHead
    <3> QED
      BY <2>1, <2>2, <3>1
  <2>4. \A u \in Threads : HeadOf(value'[u], element'[u])
    BY <1>0, <2>1, <2>2 DEF TypeOK
  <2>5. value' \in [Threads -> Samples \cup {nullptr}]
    BY <1>0, <2>2
  <2> QED
    BY <1>0, <2>1, <2>2, <2>3, <2>4, <2>5 DEF HeadsIn
<1>9. CASE ReturnList
  <2>1. UNCHANGED <<global_result, element>> /\ acc' = {}
    BY <1>9, EndMoves DEF ReturnList
  <2> QED
    BY <1>0, <1>9, <2>1 DEF ReturnList, HeadsIn
<1>10. CASE TakeApart
  BY <1>1, <1>10, ConsumeMoves DEF TakeApart, headVars
<1>11. CASE LockStep \/ UNCHANGED <<vars, listVars>>
  <2>1. UNCHANGED <<value, global, tmp>>
    BY <1>11 DEF LockStep, listVars, headVars
  <2>2. UNCHANGED <<element, global_result, acc>>
    <3>1. CASE LockStep
      BY <1>0, <3>1, LocksMoveNothing DEF LockStep
    <3>2. CASE UNCHANGED <<vars, listVars>>
      BY <3>2 DEF vars, combinerVars
    <3> QED
      BY <1>11, <3>1, <3>2
  <2> QED
    BY <1>1, <2>1, <2>2
<1> QED
  BY <1>2, <1>3, <1>4, <1>5, <1>6, <1>7, <1>8, <1>9, <1>10, <1>11 DEF ListsNext

(* Every operation on the pointers links both ways. *)
LEMMA InverseStep ==
    ASSUME LInv, HeadsIn, LinkedBack, [ListsNext]_<<vars, listVars>>
    PROVE  LinkedBack'
<1>0. /\ TypeOK /\ value \in [Threads -> Samples \cup {nullptr}]
      /\ global \in Samples \cup {nullptr} /\ tmp \in Samples \cup {nullptr}
  BY DEF LInv, TypeOK, HeadsIn, HeadOf
<1>1. ASSUME UNCHANGED nodeVars PROVE LinkedBack'
  BY <1>1 DEF nodeVars, LinkedBack
<1>2. ASSUME NEW p \in Samples \cup {nullptr}, NEW q \in Samples \cup {nullptr},
             CombineNodes(p, q)
      PROVE  LinkedBack'
  <2>1. CASE p # nullptr /\ q # nullptr /\ Splice(p, q)
    BY <2>1, SpliceInverse DEF Nodes
  <2>2. CASE UNCHANGED nodeVars
    BY <1>1, <2>2
  <2> QED
    BY <1>2, <2>1, <2>2 DEF CombineNodes
<1>3. ASSUME NEW t \in Threads, NEW s \in Samples, StoreNode(t, s) PROVE LinkedBack'
  BY <1>0, <1>2, <1>3 DEF StoreNode
<1>4. ASSUME NEW t \in Threads, ModifyList(t) PROVE LinkedBack'
  <2>1. arg[t] \in Samples
    BY <1>4, ModifyMoves DEF ModifyList
  <2> QED
    BY <1>0, <1>2, <1>4, <2>1 DEF ModifyList
<1>5. ASSUME NEW t \in Threads, CommitList(t) PROVE LinkedBack'
  BY <1>0, <1>2, <1>5 DEF CommitList
<1>6. CASE VisitList
  BY <1>0, <1>2, <1>6 DEF VisitList, TypeOK
<1>7. CASE ReturnList
  <2>1. CASE tmp # nullptr /\ Splice(tmp, Root)
    <3>1. tmp \in Nodes /\ Root \in Nodes
      BY <1>0, <2>1 DEF Nodes
    <3> QED
      BY <2>1, <3>1, SpliceInverse
  <2>2. CASE UNCHANGED nodeVars
    BY <1>1, <2>2
  <2> QED
    BY <1>7, <2>1, <2>2 DEF ReturnList
<1>8. CASE TakeApart
  <2>1. next[Root] \in Nodes
    BY DEF LinkedBack, Nodes
  <2> QED
    BY <1>8, <2>1, UnlinkInverse DEF TakeApart
<1>9. ASSUME NEW t \in Threads, NEW s \in Samples, BeginNode(t, s) PROVE LinkedBack'
  BY <1>1, <1>9 DEF BeginNode
<1>10. ASSUME NEW t \in Threads, LateNode(t) PROVE LinkedBack'
  BY <1>1, <1>10 DEF LateNode
<1>11. CASE TakeList \/ LockStep \/ UNCHANGED <<vars, listVars>>
  BY <1>1, <1>11 DEF TakeList, LockStep, listVars
<1> QED
  BY <1>3, <1>4, <1>5, <1>6, <1>7, <1>8, <1>9, <1>10, <1>11 DEF ListsNext

-----------------------------------------------------------------------------
(* The lists of the reducer, with that of the grab thread; a sample that   *)
(* has no place, in the pool or on its way to an element, is alone.        *)
Loose == Samples \ Held

Lists == {Owned[t] : t \in Threads} \cup {global_result, acc, out \cup {Root}}
            \cup {{s} : s \in Loose}

AllApart(F) == \A L, M \in F : L = M \/ L \cap M = {}

AllCircles(nx, F) == \A L \in F : IsCircle(nx, L)

(* The lists of G are those of F, but for X.                               *)
MadeOf(G, F, X) == \A L \in G : L \in F \/ L = X \/ L = {}

Apart == AllApart(Lists)

Circles == lost = {} => AllCircles(next, Lists)

LEMMA ListsApart == TypeOK /\ Separate => Apart
<1> SUFFICES ASSUME TypeOK, Separate, NEW L \in Lists, NEW M \in Lists
             PROVE  L = M \/ L \cap M = {}
  BY DEF Apart, AllApart
<1> DEFINE Combiners == {global_result, acc, out \cup {Root}}
           Elements == {Owned[t] : t \in Threads}
           Singles == {{s} : s \in Loose}
<1>0. /\ \A S \in Elements \cup {global_result, acc, out} : S \subseteq Held
      /\ Held \subseteq Samples /\ Root \notin Samples
  BY RootAssumption DEF TypeOK, Owned, Held
<1>1. \A S \in Elements, T \in Elements : S = T \/ S \cap T = {}
  BY DEF Separate
<1>2. \A S \in Elements, T \in Combiners : S \cap T = {}
  BY <1>0 DEF Separate
<1>3. \A S, T \in Combiners : S = T \/ S \cap T = {}
  BY <1>0 DEF Separate
<1>4. \A S \in Singles, T \in Singles : S = T \/ S \cap T = {}
  OBVIOUS
<1>5. \A S \in Elements \cup Combiners, T \in Singles : S \cap T = {}
  BY <1>0 DEF Loose
<1>6. Lists = Elements \cup Combiners \cup Singles
  BY DEF Lists
<1> HIDE DEF Elements, Combiners, Singles
<1>7. L \in Elements \/ L \in Combiners \/ L \in Singles
  BY <1>6
<1>8. M \in Elements \/ M \in Combiners \/ M \in Singles
  BY <1>6
<1>9. \A S, T : S \cap T = T \cap S
  OBVIOUS
<1>10. CASE L \in Elements
  BY <1>1, <1>2, <1>5, <1>8, <1>10
<1>11. CASE L \in Combiners
  BY <1>2, <1>3, <1>5, <1>8, <1>9, <1>11
<1>12. CASE L \in Singles
  BY <1>4, <1>5, <1>8, <1>9, <1>12
<1> QED
  BY <1>7, <1>10, <1>11, <1>12

(* What a step does to the lists F of which it makes the lists G: it moves *)
(* them, it makes one list of two, or it takes one node off a list.        *)
LEMMA KeptLists ==
    ASSUME NEW F, NEW G, AllCircles(next, F),
           MadeOf(G, F, {}), UNCHANGED next
    PROVE  AllCircles(next', G)
<1>1. \A L \in G : IsCircle(next, L)
  BY EmptyCircle DEF MadeOf, AllCircles
<1> QED
  BY <1>1 DEF AllCircles

LEMMA SplicedLists ==
    ASSUME LinkedBack, NEW F, NEW G, AllCircles(next, F),
           NEW A \in F, NEW B \in F, A \cap B = {},
           NEW n \in A, NEW e \in B, Splice(n, e), A \cup B \in G,
           AllApart(G), MadeOf(G, F, A \cup B)
    PROVE  AllCircles(next', G)
<1>1. /\ IsCircle(next', A \cup B)
      /\ \A x \in Nodes \ (A \cup B) : next'[x] = next[x]
  BY SplicedCircle DEF AllCircles
<1> SUFFICES ASSUME NEW L \in G PROVE IsCircle(next', L)
  BY DEF AllCircles
<1>2. CASE L = A \cup B
  BY <1>1, <1>2
<1>3. CASE L = {}
  BY <1>3, EmptyCircle
<1>4. CASE L \in F /\ L # A \cup B
  <2>1. L \cap (A \cup B) = {} /\ L \subseteq Nodes /\ IsCircle(next, L)
    BY <1>4 DEF IsCircle, AllApart, AllCircles
  <2>2. \A x \in L : next'[x] = next[x]
    BY <1>1, <2>1
  <2> QED
    BY <2>1, <2>2, SameCircle
<1> QED
  BY <1>2, <1>3, <1>4 DEF MadeOf

LEMMA CombinedLists ==
    ASSUME LinkedBack, NEW F, NEW G, AllCircles(next, F),
           NEW A \in F, NEW B \in F, A \cap B = {}, A \cup B \in G,
           NEW p, NEW q, HeadOf(p, A), HeadOf(q, B), CombineNodes(p, q),
           AllApart(G), MadeOf(G, F, A \cup B)
    PROVE  AllCircles(next', G)
<1>0. nullptr \notin A /\ nullptr \notin B
  BY SampleAssumption, RootAssumption DEF AllCircles, IsCircle, Nodes, nullptr
<1>1. CASE p # nullptr /\ q # nullptr
  <2>1. p \in A /\ q \in B /\ Splice(p, q)
    BY <1>1 DEF HeadOf, CombineNodes
  <2> QED
    BY <2>1, SplicedLists
<1>2. CASE p = nullptr \/ q = nullptr
  <2>1. UNCHANGED next /\ (A = {} \/ B = {})
    BY <1>0, <1>2 DEF HeadOf, CombineNodes, nodeVars
  <2>2. A \cup B = A \/ A \cup B = B
    BY <2>1
  <2>3. MadeOf(G, F, {})
    BY <2>2 DEF MadeOf
  <2> QED
    BY <2>1, <2>3, KeptLists
<1> QED
  BY <1>1, <1>2

LEMMA UnlinkedLists ==
    ASSUME LinkedBack, NEW F, NEW G, AllCircles(next, F),
           NEW A \in F, NEW n \in A, Unlink(n), A \ {n} \in G, {n} \in G,
           AllApart(G), \A L \in G : L \in F \/ L = A \ {n} \/ L = {n}
    PROVE  AllCircles(next', G)
<1>1. /\ IsCircle(next', A \ {n}) /\ IsCircle(next', {n})
      /\ \A x \in Nodes \ A : next'[x] = next[x]
  BY UnlinkedCircle DEF AllCircles
<1> SUFFICES ASSUME NEW L \in G PROVE IsCircle(next', L)
  BY DEF AllCircles
<1>2. CASE L = A \ {n} \/ L = {n}
  BY <1>1, <1>2
<1>3. CASE L \in F /\ L # A \ {n} /\ L # {n}
  <2>1. L \cap (A \ {n}) = {} /\ L \cap {n} = {} /\ L \subseteq Nodes
    BY <1>3 DEF IsCircle, AllApart, AllCircles
  <2>2. \A x \in L : next'[x] = next[x]
    BY <1>1, <2>1
  <2> QED
    BY <1>3, <2>2, SameCircle DEF AllCircles
<1> QED
  BY <1>2, <1>3

LEMMA ListsMadeOf ==
    ASSUME NEW F, NEW X,
           \A t \in Threads : Owned'[t] \in F \/ Owned'[t] = X \/ Owned'[t] = {},
           global_result' \in F \/ global_result' = X \/ global_result' = {},
           acc' \in F \/ acc' = X \/ acc' = {},
           out' \cup {Root} \in F \/ out' \cup {Root} = X,
           \A s \in Samples : s \notin Held' => {s} \in F
    PROVE  MadeOf(Lists', F, X)
<1> SUFFICES ASSUME NEW L \in Lists' PROVE L \in F \/ L = X \/ L = {}
  BY DEF MadeOf
<1>1. \/ \E t \in Threads : L = Owned'[t]
      \/ L = global_result' \/ L = acc' \/ L = out' \cup {Root}
      \/ \E s \in Samples : s \notin Held' /\ L = {s}
  BY DEF Lists, Loose
<1> QED
  BY <1>1

LEMMA InitCircles == ListsInit => Circles
<1> SUFFICES ASSUME ListsInit, NEW L \in Lists PROVE IsCircle(next, L)
  BY DEF Circles, AllCircles
<1>1. /\ global_result = {} /\ acc = {} /\ out = {}
      /\ \A t \in Threads : Owned[t] = {}
  BY DEF ListsInit, Init, Owned, Dying
<1>2. L = {} \/ \E n \in Nodes : L = {n}
  BY <1>1 DEF Lists, Loose, Nodes
<1>3. \A n \in Nodes : next[n] = n
  BY DEF ListsInit
<1> QED
  BY <1>2, <1>3, EmptyCircle, LoneCircle

(* The lists stay circles: lists that are spliced are two, and what is     *)
(* spliced in is alone.                                                    *)
LEMMA CirclesStep ==
    ASSUME LInv, AtRest, HeadsIn, LinkedBack, Separate, Apart, Apart', Circles,
           [ListsNext]_<<vars, listVars>>
    PROVE  Circles'
<1> SUFFICES ASSUME lost' = {} PROVE AllCircles(next', Lists')
  BY DEF Circles
<1>0. /\ TypeOK /\ Owned \in [Threads -> SUBSET Samples] /\ Held \subseteq Samples
      /\ Root \notin Samples /\ Root # nullptr
      /\ \A L, M \in Lists : L = M \/ L \cap M = {}
      /\ AllApart(Lists')
      /\ HeadOf(global, global_result) /\ HeadOf(tmp, acc)
      /\ \A t \in Threads : HeadOf(value[t], element[t])
  BY RootAssumption
  DEF LInv, TypeOK, Owned, Held, Apart, AllApart, HeadsIn, nullptr
<1>c. lost = {} => AllCircles(next, Lists)
  BY DEF Circles
<1>m. /\ \A u \in Threads : Owned[u] \in Lists
      /\ global_result \in Lists /\ acc \in Lists /\ out \cup {Root} \in Lists
      /\ \A s \in Samples : s \notin Held => {s} \in Lists
  BY DEF Lists, Loose
<1>l. ASSUME NEW L \in Lists'
      PROVE  \/ \E u \in Threads : L = Owned'[u]
             \/ L = global_result' \/ L = acc' \/ L = out' \cup {Root}
             \/ \E s \in Samples : s \notin Held' /\ L = {s}
  BY DEF Lists, Loose
<1>n. /\ \A u \in Threads : Owned'[u] \in Lists'
      /\ global_result' \in Lists' /\ acc' \in Lists' /\ out' \cup {Root} \in Lists'
      /\ \A s \in Samples : s \notin Held' => {s} \in Lists'
  BY DEF Lists, Loose
<1>1. ASSUME UNCHANGED <<global_result, acc, out, lost, next>>, Owned' = Owned
      PROVE  AllCircles(next', Lists')
  <2>1. Lists' = Lists
    BY <1>1 DEF Lists, Loose, Held
  <2> QED
    BY <1>1, <1>c, <2>1
<1>2. ASSUME NEW t \in Threads, NEW s \in Samples, BeginNode(t, s)
      PROVE  AllCircles(next', Lists')
  BY <1>1, <1>2, BeginMoves DEF BeginNode, nodeVars
<1>3. ASSUME NEW t \in Threads, LateNode(t)
      PROVE  AllCircles(next', Lists')
  BY <1>1, <1>3, LateMoves DEF LateNode, nodeVars
<1>4. CASE LockStep \/ UNCHANGED <<vars, listVars>>
  <2>1. UNCHANGED next
    BY <1>4 DEF LockStep, listVars, nodeVars
  <2>2. UNCHANGED <<global_result, acc, out, lost>> /\ Owned' = Owned
    <3>1. CASE LockStep
      BY <1>0, <3>1, LocksMoveNothing DEF LockStep
    <3>2. CASE UNCHANGED <<vars, listVars>>
      BY <1>0, <3>2, LocksMoveNothing
    <3> QED
      BY <1>4, <3>1, <3>2
  <2> QED
    BY <1>1, <2>1, <2>2
<1>5. ASSUME NEW t \in Threads, ModifyList(t)
      PROVE  AllCircles(next', Lists')
  <2> DEFINE A == Owned[t]
             B == {arg[t]}
  <2>1. /\ UNCHANGED <<global_result, acc, out, lost>>
        /\ Owned' = [Owned EXCEPT ![t] = A \cup B]
        /\ A = element[t] /\ arg[t] \in Samples
    BY <1>5, ModifyMoves DEF ModifyList
  <2>2. arg[t] \notin Held
    BY DEF Separate
  <2>3. A \in Lists /\ B \in Lists /\ A \cap B = {}
    BY <1>m, <2>1, <2>2 DEF Held
  <2>4. A \cup B \in Lists' /\ \A u \in Threads : u # t => Owned'[u] = Owned[u]
    <3>1. Owned'[t] = A \cup B
      BY <1>0, <2>1
    <3> QED
      BY <1>0, <1>n, <2>1, <3>1
  <2>5. Held \subseteq Held'
    BY <1>0, <2>1 DEF Held
  <2>6. MadeOf(Lists', Lists, A \cup B)
    <3>1. \A u \in Threads : Owned'[u] \in Lists \/ Owned'[u] = A \cup B
      BY <1>0, <1>m, <2>1, <2>4
    <3> QED
      BY <1>m, <2>1, <2>5, <3>1, ListsMadeOf
  <2>7. HeadOf(value[t], A) /\ HeadOf(arg[t], B) /\ CombineNodes(value[t], arg[t])
    BY <1>0, <1>5, <2>1 DEF HeadOf, ModifyList
  <2> HIDE DEF A, B
  <2>8. lost = {}
    BY <2>1
  <2>9. AllCircles(next, Lists)
    BY <1>c, <2>8
  <2> QED
    BY <1>0, <2>3, <2>4, <2>6, <2>7, <2>9, CombinedLists
<1>6. ASSUME NEW t \in Threads, CommitList(t)
      PROVE  AllCircles(next', Lists')
  <2> DEFINE A == global_result
             B == Owned[t]
  <2>1. /\ UNCHANGED <<acc, out, lost>>
        /\ Owned' = [Owned EXCEPT ![t] = {}]
        /\ B = element[t] /\ global_result' = A \cup B
    BY <1>6, ExitMoves DEF CommitList
  <2>2. A \in Lists /\ B \in Lists /\ A \cap B = {}
    BY <1>m DEF Separate
  <2>3. A \cup B \in Lists'
    BY <1>n, <2>1
  <2>4. Held' = Held
    BY <1>0, <2>1 DEF Held
  <2>5. \A u \in Threads : Owned'[u] = Owned[u] \/ Owned'[u] = {}
    BY <1>0, <2>1
  <2>6. MadeOf(Lists', Lists, A \cup B)
    <3>1. \A u \in Threads : Owned'[u] \in Lists \/ Owned'[u] = {}
      BY <1>m, <2>5
    <3> QED
      BY <1>m, <2>1, <2>4, <3>1, ListsMadeOf
  <2>7. HeadOf(global, A) /\ HeadOf(value[t], B) /\ CombineNodes(global, value[t])
    BY <1>0, <1>6, <2>1 DEF CommitList
  <2> HIDE DEF A, B
  <2>8. lost = {}
    BY <2>1
  <2>9. AllCircles(next, Lists)
    BY <1>c, <2>8
  <2> QED
    BY <1>0, <2>2, <2>3, <2>6, <2>7, <2>9, CombinedLists
<1>7. ASSUME NEW t \in Threads, NEW s \in Samples, StoreNode(t, s)
      PROVE  AllCircles(next', Lists')
  <2> DEFINE n == Combined(value[t], s)
  <2>1. StoreAt(t, s, n) /\ CombineNodes(value[t], s)
    BY <1>7 DEF StoreNode
  <2>2. /\ global_result' = Joined(global_result, n, s)
        /\ acc' = Joined(acc, n, s) /\ out' = Joined(out, n, s)
        /\ Owned' = [u \in Threads |-> Joined(Owned[u], n, s)]
        /\ lost' = IF n \in Held THEN lost ELSE lost \cup {s}
    BY <2>1, StoreMoves
  <2>3. s \notin Held /\ s # nullptr
    BY <1>0, <2>1, FreshIsNew, SampleAssumption DEF StoreAt, nullptr
  <2>4. n \in Held /\ lost = {}
    BY <2>2
  <2>5. n = value[t] /\ Splice(n, s)
    <3>1. value[t] # nullptr
      BY <2>3, <2>4 DEF Combined
    <3> QED
      BY <2>1, <2>3, <3>1 DEF Combined, CombineNodes
  <2> HIDE DEF n
  <2>6. \E A \in Lists : n \in A /\ A \cup {s} \in Lists'
    <3>1. \A S : n \in S => Joined(S, n, s) = S \cup {s}
      BY DEF Joined
    <3>2. n \in global_result \/ n \in acc \/ n \in out \/ \E u \in Threads : n \in Owned[u]
      BY <2>4 DEF Held
    <3>3. CASE n \in global_result
      BY <1>m, <1>n, <2>2, <3>1, <3>3
    <3>4. CASE n \in acc
      BY <1>m, <1>n, <2>2, <3>1, <3>4
    <3>5. CASE n \in out
      <4>1. out' \cup {Root} = (out \cup {Root}) \cup {s}
        BY <2>2, <3>1, <3>5
      <4> QED
        BY <1>m, <1>n, <3>5, <4>1
    <3>6. ASSUME NEW u \in Threads, n \in Owned[u]
          PROVE  \E A \in Lists : n \in A /\ A \cup {s} \in Lists'
      <4>1. Owned'[u] = Owned[u] \cup {s}
        BY <2>2, <3>1, <3>6
      <4> QED
        BY <1>m, <1>n, <3>6, <4>1
    <3> QED
      BY <3>2, <3>3, <3>4, <3>5, <3>6
  <2>7. PICK A \in Lists : n \in A /\ A \cup {s} \in Lists'
    BY <2>6
  <2>8. {s} \in Lists /\ s \in {s}
    BY <1>m, <2>3
  <2>9. A \cap {s} = {}
    <3>1. A # {s}
      BY <2>3, <2>4, <2>7
    <3> QED
      BY <1>0, <2>7, <2>8, <3>1
  <2>10. \A S \in Lists : Joined(S, n, s) \in Lists \/ Joined(S, n, s) = A \cup {s}
    BY <1>0, <2>7 DEF Joined
  <2>11. out' \cup {Root} = Joined(out \cup {Root}, n, s)
    <3>1. n # Root
      BY <1>0, <2>4
    <3> QED
      BY <2>2, <3>1 DEF Joined
  <2>12. Held \subseteq Held'
    BY <2>2 DEF Held, Joined
  <2>13. MadeOf(Lists', Lists, A \cup {s})
    <3>1. \A u \in Threads : Owned'[u] \in Lists \/ Owned'[u] = A \cup {s}
      BY <1>m, <2>2, <2>10
    <3>2. /\ global_result' \in Lists \/ global_result' = A \cup {s}
          /\ acc' \in Lists \/ acc' = A \cup {s}
          /\ out' \cup {Root} \in Lists \/ out' \cup {Root} = A \cup {s}
      BY <1>m, <2>2, <2>10, <2>11
    <3>3. \A r \in Samples : r \notin Held' => {r} \in Lists
      BY <1>m, <2>12
    <3> QED
      BY <3>1, <3>2, <3>3, ListsMadeOf
  <2>14. AllCircles(next, Lists)
    BY <1>c, <2>4
  <2> QED
    BY <1>0, <2>5, <2>7, <2>8, <2>9, <2>13, <2>14, SplicedLists
<1>8. CASE TakeList
  <2>1. /\ UNCHANGED <<out, lost>> /\ Owned' = Owned /\ acc = {}
        /\ acc' = global_result /\ global_result' = {}
    BY <1>8, TakeMoves DEF TakeList
  <2>2. Held' = Held
    BY <2>1 DEF Held
  <2>3. MadeOf(Lists', Lists, {})
    BY <1>m, <2>1, <2>2, ListsMadeOf
  <2>4. AllCircles(next, Lists)
    BY <1>c, <2>1
  <2>5. UNCHANGED next
    BY <1>8 DEF TakeList, nodeVars
  <2> QED
    BY <2>3, <2>4, <2>5, KeptLists
<1>9. CASE VisitList
  <2> DEFINE A == acc
             B == Owned[cur]
  <2>1. /\ UNCHANGED <<global_result, out, lost>> /\ cur \in Threads
        /\ Owned' = [Owned EXCEPT ![cur] = {}]
        /\ B = element[cur] /\ acc' = A \cup B
    BY <1>9, VisitMoves DEF VisitList
  <2>2. A \in Lists /\ B \in Lists /\ A \cap B = {}
    BY <1>m, <2>1 DEF Separate
  <2>3. A \cup B \in Lists'
    BY <1>n, <2>1
  <2>4. Held' = Held
    BY <1>0, <2>1 DEF Held
  <2>5. \A u \in Threads : Owned'[u] = Owned[u] \/ Owned'[u] = {}
    BY <1>0, <2>1
  <2>6. MadeOf(Lists', Lists, A \cup B)
    <3>1. \A u \in Threads : Owned'[u] \in Lists \/ Owned'[u] = {}
      BY <1>m, <2>5
    <3> QED
      BY <1>m, <2>1, <2>4, <3>1, ListsMadeOf
  <2>7. HeadOf(tmp, A) /\ HeadOf(value[cur], B) /\ CombineNodes(tmp, value[cur])
    BY <1>0, <1>9, <2>1 DEF VisitList
  <2> HIDE DEF A, B
  <2>8. AllCircles(next, Lists)
    BY <1>c, <2>1
  <2> QED
    BY <1>0, <2>2, <2>3, <2>6, <2>7, <2>8, CombinedLists
<1>10. CASE ReturnList
  <2> DEFINE A == acc
             B == out \cup {Root}
  <2>1. /\ UNCHANGED <<global_result, lost>> /\ Owned' = Owned
        /\ acc' = {} /\ out' = out \cup acc
    BY <1>10, EndMoves DEF ReturnList
  <2>2. A \in Lists /\ B \in Lists /\ A \cap B = {}
    <3>1. Root \notin acc /\ acc \cap out = {}
      BY <1>0 DEF TypeOK, Separate
    <3> QED
      BY <1>m, <3>1
  <2>3. out' \cup {Root} = A \cup B
    BY <2>1
  <2>4. A \cup B \in Lists'
    BY <1>n, <2>3
  <2>5. Held' = Held
    BY <2>1 DEF Held
  <2>6. MadeOf(Lists', Lists, A \cup B)
    BY <1>m, <2>1, <2>3, <2>5, ListsMadeOf
  <2>7. HeadOf(tmp, A) /\ HeadOf(Root, B) /\ CombineNodes(tmp, Root)
    BY <1>0, <1>10 DEF ReturnList, HeadOf, CombineNodes
  <2> HIDE DEF A, B
  <2>8. AllCircles(next, Lists)
    BY <1>c, <2>1
  <2> QED
    BY <1>0, <2>2, <2>4, <2>6, <2>7, <2>8, CombinedLists
<1>11. CASE TakeApart
  <2> DEFINE s == next[Root]
             A == out \cup {Root}
  <2>1. Consume(s) /\ Unlink(s)
    BY <1>11 DEF TakeApart
  <2>2. /\ UNCHANGED <<global_result, acc, lost>>
        /\ Owned' = Owned /\ s \in out /\ out' = out \ {s}
    BY <2>1, ConsumeMoves
  <2> HIDE DEF s
  <2>3. A \in Lists /\ s \in A /\ s \in Samples /\ s # Root
    BY <1>0, <1>m, <2>2 DEF TypeOK
  <2>4. out' \cup {Root} = A \ {s}
    BY <2>2, <2>3
  <2>5. s \notin Held'
    <3>1. s \notin global_result /\ s \notin acc /\ \A u \in Threads : s \notin Owned[u]
      BY <2>2 DEF Separate
    <3> QED
      BY <2>2, <3>1 DEF Held
  <2>6. A \ {s} \in Lists' /\ {s} \in Lists'
    BY <1>n, <2>3, <2>4, <2>5
  <2>7. Held \subseteq Held' \cup {s}
    BY <2>2 DEF Held
  <2>8. \A L \in Lists' : L \in Lists \/ L = A \ {s} \/ L = {s}
    BY <1>l, <1>m, <2>2, <2>4, <2>7
  <2> HIDE DEF A
  <2>9. AllCircles(next, Lists)
    BY <1>c, <2>2
  <2> QED
    BY <1>0, <2>1, <2>3, <2>6, <2>8, <2>9, UnlinkedLists
<1> QED
  BY <1>2, <1>3, <1>4, <1>5, <1>6, <1>7, <1>8, <1>9, <1>10, <1>11 DEF ListsNext

(* Walking from the head of a circle comes by all of it. *)
LEMMA ListOfHead ==
    ASSUME NEW L, IsCircle(next, L), NEW p, HeadOf(p, L)
    PROVE  ListOf(p) = L
<1>1. nullptr \notin L
  BY SampleAssumption, RootAssumption DEF IsCircle, Nodes, nullptr
<1>2. CASE p = nullptr
  BY <1>1, <1>2 DEF HeadOf, ListOf
<1>3. CASE p # nullptr
  <2>1. p \in L
    BY <1>3 DEF HeadOf
  <2> QED
    BY <1>3, <2>1, CircleIsWalk DEF ListOf
<1> QED
  BY <1>2, <1>3

LEMMA CirclesMeanLists ==
    ASSUME LInv, AtRest, HeadsIn, LinkedBack, Separate, Circles
    PROVE  CirclesAreTheLists
<1> SUFFICES ASSUME lost = {}
             PROVE  /\ \A n \in Nodes : previous[next[n]] = n /\ next[previous[n]] = n
                    /\ \A t \in Threads : ~Dying(t) => ListOf(value[t]) = element[t]
                    /\ ListOf(global) = global_result
                    /\ ListOf(tmp) = IF walk = "reset" THEN acc ELSE {}
                    /\ Circle(Root) = out \cup {Root}
                    /\ \A s \in Samples : Fresh(s) \/ s \in InFlight => Circle(s) = {s}
  BY DEF CirclesAreTheLists
<1>0. TypeOK /\ \A L \in Lists : IsCircle(next, L)
  BY DEF LInv, Circles, AllCircles
<1>1. \A n \in Nodes : previous[next[n]] = n /\ next[previous[n]] = n
  BY DEF LinkedBack
<1>2. ASSUME NEW t \in Threads, ~Dying(t) PROVE ListOf(value[t]) = element[t]
  <2>1. Owned[t] = element[t]
    BY <1>2 DEF Owned
  <2>2. IsCircle(next, element[t])
    BY <1>0, <2>1 DEF Lists
  <2> QED
    BY <2>2, ListOfHead DEF HeadsIn
<1>3. ListOf(global) = global_result
  <2>1. IsCircle(next, global_result)
    BY <1>0 DEF Lists
  <2> QED
    BY <2>1, ListOfHead DEF HeadsIn
<1>4. ListOf(tmp) = IF walk = "reset" THEN acc ELSE {}
  <2>1. IsCircle(next, acc)
    BY <1>0 DEF Lists
  <2>2. ListOf(tmp) = acc
    BY <2>1, ListOfHead DEF HeadsIn
  <2>3. walk = "reset" \/ acc = {}
    BY <1>0 DEF TypeOK, AtRest
  <2> QED
    BY <2>2, <2>3
<1>5. Circle(Root) = out \cup {Root}
  <2>1. IsCircle(next, out \cup {Root})
    BY <1>0 DEF Lists
  <2> QED
    BY <2>1, CircleIsWalk
<1>6. ASSUME NEW s \in Samples, Fresh(s) \/ s \in InFlight PROVE Circle(s) = {s}
  <2>1. s \notin Held
    <3>1. CASE Fresh(s)
      BY <1>0, <3>1, FreshIsNew
    <3>2. CASE s \in InFlight
      BY <3>2 DEF InFlight, Separate
    <3> QED
      BY <1>6, <3>1, <3>2
  <2>2. IsCircle(next, {s})
    BY <1>0, <2>1 DEF Lists, Loose
  <2> QED
    BY <2>2, CircleIsWalk
<1> QED
  BY <1>1, <1>2, <1>3, <1>4, <1>5, <1>6

(* The lists in memory only take the steps of the reducer. *)
LEMMA ListsInductive ==
    ListsSpec => [](LInv /\ AtRest /\ HeadsIn /\ LinkedBack /\ Separate /\ Apart)
<1> DEFINE Inv == LInv /\ AtRest /\ HeadsIn /\ LinkedBack /\ Separate
<1>1. ListsInit => Inv
  BY InitLInv, InitSeparate, InitHeads DEF ListsInit
<1>2. Inv /\ [ListsNext]_<<vars, listVars>> => Inv'
  <2> SUFFICES ASSUME Inv, [ListsNext]_<<vars, listVars>> PROVE Inv'
    OBVIOUS
  <2>1. [Next]_vars
    BY ListsStepNext
  <2>2. LInv'
    BY <2>1, NextLInv
  <2>3. AtRest' /\ Separate'
    BY <2>1, AtRestStep, SeparateStep
  <2>4. HeadsIn' /\ LinkedBack'
    BY HeadsStep, InverseStep
  <2> QED
    BY <2>2, <2>3, <2>4
<1>3. Inv => Apart
  BY ListsApart DEF LInv
<1> QED
  BY <1>1, <1>2, <1>3, PTL DEF ListsSpec

(* Walking next_ from a head, or from the root of the grab thread, comes   *)
(* by the samples of that list and by no others, through every order of    *)
(* submissions, commits and collections: op(s1, s2) of CombineCollected    *)
(* never gets two nodes of one circle, and an element that gave its list   *)
(* away is not combined again before its head is reset.                    *)
THEOREM CirclesStayLists == ListsSpec => []CirclesAreTheLists
<1> DEFINE Inv == LInv /\ AtRest /\ HeadsIn /\ LinkedBack /\ Separate /\ Apart
<1>1. ListsInit => Circles
  BY InitCircles
<1>2. Inv /\ Inv' /\ Circles /\ [ListsNext]_<<vars, listVars>> => Circles'
  BY CirclesStep
<1>3. Inv /\ Circles => CirclesAreTheLists
  BY CirclesMeanLists
<1>4. ListsSpec => []Inv
  BY ListsInductive
<1> HIDE DEF Inv
<1> QED
  BY <1>1, <1>2, <1>3, <1>4, PTL DEF ListsSpec

(* The runs of the lists in memory are runs of the reducer with its        *)
(* mutexes, so that what holds of those holds of these.                    *)
THEOREM ListsAreTheReducer == ListsSpec => Spec
<1>1. ListsInit => Init
  BY DEF ListsInit
<1>2. LInv /\ HeadsIn /\ [ListsNext]_<<vars, listVars>> => [Next]_vars
  BY ListsStepNext
<1> QED
  BY <1>1, <1>2, ListsInductive, PTL DEF ListsSpec, Spec
=============================================================================
