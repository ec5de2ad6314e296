--------------------------- MODULE ProfilerProofs ---------------------------
(***************************************************************************)
(* Proofs about Profiler, for any set of controllers, of sessions and any  *)
(* finite pool: who owns a profiler, where a sample is, that nothing stays *)
(* unwritten, and that the sessions implement SessionLog.                  *)
(***************************************************************************)
EXTENDS Profiler, FiniteSetTheorems, TLAPS

(* What a profiler is in each stage of its life. *)
Life ==
    /\ \A p \in Profilers :
          \/ heap[p] = "unused"
          \/ \E c \in Controllers : ctx[c] = p /\ pc[c] = "publish"
          => ~init[p] /\ hash_set[p] = {} /\ recorded[p] = 0 /\ written[p] = 0
    /\ \A c \in Controllers : pc[c] = "delete" => init[ctx[c]]

IInv == TypeOK /\ OneOwner /\ SampleOnce /\ NothingUnwritten /\ Life

LEMMA InitIInv == Init => IInv
<1> SUFFICES ASSUME Init PROVE IInv
  OBVIOUS
<1> USE DEF Init
<1>1. TypeOK
  BY DEF TypeOK
<1>2. OneOwner
  BY ProfilerAssumption DEF OneOwner
<1>3. SampleOnce
  BY SampleAssumption DEF SampleOnce
<1>4. NothingUnwritten
  BY FS_EmptySet DEF NothingUnwritten
<1>5. Life
  BY DEF Life
<1> QED
  BY <1>1, <1>2, <1>3, <1>4, <1>5 DEF IInv

-----------------------------------------------------------------------------
(* The variables keep their types, and the program counters agree with     *)
(* what the threads have in hand.                                          *)
LEMMA NextType == IInv /\ [Next]_vars => TypeOK'
<1> SUFFICES ASSUME TypeOK, Life, OneOwner, [Next]_vars PROVE TypeOK'
  BY DEF IInv
<1> USE ProfilerAssumption, SampleAssumption DEF TypeOK, objects, dumperVars
<1>1. ASSUME NEW c \in Controllers, NEW p \in Profilers, StartCheck(c, p)
      PROVE  TypeOK'
  BY <1>1 DEF StartCheck
<1>2. ASSUME NEW c \in Controllers, StartPublish(c) PROVE TypeOK'
  BY <1>2 DEF StartPublish
<1>3. ASSUME NEW c \in Controllers, StartDiscard(c) PROVE TypeOK'
  BY <1>3 DEF StartDiscard
<1>4. ASSUME NEW c \in Controllers, StopCheck(c) \/ StopGone(c) PROVE TypeOK'
  BY <1>4 DEF StopCheck, StopGone
<1>5. ASSUME NEW c \in Controllers, StopSwap(c) PROVE TypeOK'
  BY <1>5 DEF StopSwap
<1>6. ASSUME NEW c \in Controllers, StopInit(c) PROVE TypeOK'
  BY <1>6 DEF StopInit
<1>7. ASSUME NEW c \in Controllers, NEW s \in Samples, StopFlush(c, s)
      PROVE  TypeOK'
  BY <1>7 DEF StopFlush
<1>8. ASSUME NEW c \in Controllers, StopDelete(c) PROVE TypeOK'
  BY <1>8 DEF StopDelete
<1>9. ASSUME NEW s \in Samples, Arrive(s) \/ DumpCheck(s) PROVE TypeOK'
  BY <1>9 DEF Arrive, DumpCheck
<1>10. CASE DumpRecord
  <2>1. sample \in Samples /\ g_cp \in Profilers
    BY <1>10 DEF DumpRecord
  <2>2. Cardinality(hash_set[g_cp] \cup {sample}) \in Nat
    BY <2>1, FS_Subset, FS_CardinalityType
  <2> QED
    BY <1>10, <2>1, <2>2 DEF DumpRecord, Insert
<1>11. CASE DumpGone \/ DumpDestroy
  BY <1>11 DEF DumpGone, DumpDestroy
<1>12. CASE UNCHANGED vars
  BY <1>12 DEF vars
<1> QED
  BY <1>1, <1>2, <1>3, <1>4, <1>5, <1>6, <1>7, <1>8, <1>9, <1>10, <1>11, <1>12
  DEF Next, ControllerStep

(* A profiler passes from hand to hand and is deleted by the last. *)
LEMMA NextOwner == IInv /\ [Next]_vars => OneOwner' /\ Life'
<1> SUFFICES ASSUME TypeOK, OneOwner, NothingUnwritten, Life, [Next]_vars
             PROVE  OneOwner' /\ Life'
  BY DEF IInv
<1> USE ProfilerAssumption DEF TypeOK, OneOwner, Life, objects, dumperVars
<1>1. ASSUME NEW c \in Controllers, NEW p \in Profilers, StartCheck(c, p)
      PROVE  OneOwner' /\ Life'
  BY <1>1 DEF StartCheck
<1>2. ASSUME NEW c \in Controllers, StartPublish(c) PROVE OneOwner' /\ Life'
  BY <1>2 DEF StartPublish
<1>3. ASSUME NEW c \in Controllers, StartDiscard(c) PROVE OneOwner' /\ Life'
  BY <1>3 DEF StartDiscard
<1>4. ASSUME NEW c \in Controllers, StopCheck(c) \/ StopGone(c)
      PROVE  OneOwner' /\ Life'
  BY <1>4 DEF StopCheck, StopGone
<1>5. ASSUME NEW c \in Controllers, StopSwap(c) PROVE OneOwner' /\ Life'
  BY <1>5 DEF StopSwap
<1>6. ASSUME NEW c \in Controllers, StopInit(c) PROVE OneOwner' /\ Life'
  BY <1>6 DEF StopInit
<1>7. ASSUME NEW c \in Controllers, NEW s \in Samples, StopFlush(c, s)
      PROVE  OneOwner' /\ Life'
  BY <1>7 DEF StopFlush
<1>8. ASSUME NEW c \in Controllers, StopDelete(c) PROVE OneOwner' /\ Life'
  BY <1>8 DEF StopDelete
<1>9. ASSUME NEW s \in Samples, Arrive(s) \/ DumpCheck(s)
      PROVE  OneOwner' /\ Life'
  BY <1>9 DEF Arrive, DumpCheck
<1>10. CASE DumpRecord
  BY <1>10 DEF DumpRecord, Insert
<1>11. CASE DumpGone \/ DumpDestroy
  BY <1>11 DEF DumpGone, DumpDestroy
<1>12. CASE UNCHANGED vars
  BY <1>12 DEF vars
<1> QED
  BY <1>1, <1>2, <1>3, <1>4, <1>5, <1>6, <1>7, <1>8, <1>9, <1>10, <1>11, <1>12
  DEF Next, ControllerStep

(* A sample passes from place to place. *)
LEMMA NextSample == IInv /\ [Next]_vars => SampleOnce'
<1> SUFFICES ASSUME TypeOK, SampleOnce, [Next]_vars PROVE SampleOnce'
  BY DEF IInv
<1> USE ProfilerAssumption, SampleAssumption
    DEF TypeOK, SampleOnce, objects, dumperVars
<1>1. ASSUME NEW c \in Controllers, NEW p \in Profilers, StartCheck(c, p)
      PROVE  SampleOnce'
  BY <1>1 DEF StartCheck
<1>2. ASSUME NEW c \in Controllers,
             \/ StartPublish(c) \/ StartDiscard(c) \/ StopCheck(c) \/ StopGone(c)
             \/ StopSwap(c) \/ StopInit(c) \/ StopDelete(c)
      PROVE  SampleOnce'
  BY <1>2 DEF StartPublish, StartDiscard, StopCheck, StopGone, StopSwap,
              StopInit, StopDelete
<1>3. ASSUME NEW c \in Controllers, NEW s \in Samples, StopFlush(c, s)
      PROVE  SampleOnce'
  BY <1>3 DEF StopFlush
<1>4. ASSUME NEW s \in Samples, Arrive(s) \/ DumpCheck(s) PROVE SampleOnce'
  BY <1>4 DEF Arrive, DumpCheck
<1>5. CASE DumpRecord
  BY <1>5 DEF DumpRecord, Insert
<1>6. CASE DumpGone \/ DumpDestroy
  BY <1>6 DEF DumpGone, DumpDestroy
<1>7. CASE UNCHANGED vars
  BY <1>7 DEF vars
<1> QED
  BY <1>1, <1>2, <1>3, <1>4, <1>5, <1>6, <1>7 DEF Next, ControllerStep

-----------------------------------------------------------------------------
(* The cached samples of a profiler are a finite set. *)
LEMMA CacheFinite ==
    ASSUME TypeOK, NEW p \in Profilers
    PROVE  IsFiniteSet(hash_set[p]) /\ Cardinality(hash_set[p]) \in Nat
<1>1. hash_set[p] \subseteq Samples
  BY DEF TypeOK
<1> QED
  BY <1>1, SampleAssumption, FS_Subset, FS_CardinalityType

(* Records, lines of the file and cached samples change together. *)
LEMMA NextWritten == IInv /\ [Next]_vars => NothingUnwritten'
<1> SUFFICES ASSUME TypeOK, OneOwner, SampleOnce, NothingUnwritten, Life,
                    [Next]_vars
             PROVE  NothingUnwritten'
  BY DEF IInv
<1> USE ProfilerAssumption DEF TypeOK, NothingUnwritten, objects, dumperVars
<1>1. ASSUME NEW c \in Controllers, NEW p \in Profilers, StartCheck(c, p)
      PROVE  NothingUnwritten'
  BY <1>1 DEF StartCheck
<1>2. ASSUME NEW c \in Controllers,
             \/ StartPublish(c) \/ StopCheck(c) \/ StopGone(c) \/ StopSwap(c)
             \/ StopInit(c)
      PROVE  NothingUnwritten'
  BY <1>2 DEF StartPublish, StopCheck, StopGone, StopSwap, StopInit
<1>3. ASSUME NEW c \in Controllers, StartDiscard(c) PROVE NothingUnwritten'
  BY <1>3 DEF StartDiscard, Life
<1>4. ASSUME NEW c \in Controllers, StopDelete(c) PROVE NothingUnwritten'
  BY <1>4 DEF StopDelete, Life
<1>5. ASSUME NEW c \in Controllers, NEW s \in Samples, StopFlush(c, s)
      PROVE  NothingUnwritten'
  <2> DEFINE p == ctx[c]
  <2>1. p \in Profilers /\ s \in hash_set[p]
    BY <1>5 DEF StopFlush
  <2>2. IsFiniteSet(hash_set[p]) /\ Cardinality(hash_set[p]) \in Nat
    BY <2>1, CacheFinite
  <2>3. Cardinality(hash_set[p] \ {s}) = Cardinality(hash_set[p]) - 1
    <3> DEFINE S == hash_set[p]
    <3>1. s \in S /\ IsFiniteSet(S)
      BY <2>1, <2>2
    <3> HIDE DEF S
    <3>2. Cardinality(S \ {s}) = Cardinality(S) - 1
      BY <3>1, FS_RemoveElement
    <3> QED
      BY <3>2 DEF S
  <2>4. /\ hash_set' = [hash_set EXCEPT ![p] = hash_set[p] \ {s}]
        /\ written' = [written EXCEPT ![p] = written[p] + 1]
        /\ recorded' = recorded /\ heap' = heap
    BY <1>5 DEF StopFlush
  <2>5. recorded'[p] = written'[p] + Cardinality(hash_set'[p])
    BY <2>1, <2>2, <2>3, <2>4
  <2>6. \A q \in Profilers \ {p} :
           hash_set'[q] = hash_set[q] /\ written'[q] = written[q]
    BY <2>4
  <2>7. \A q \in Profilers : heap'[q] # "live" => hash_set'[q] = {}
    BY <2>1, <2>4
  <2> QED
    BY <2>4, <2>5, <2>6, <2>7
<1>6. ASSUME NEW s \in Samples, Arrive(s) \/ DumpCheck(s)
      PROVE  NothingUnwritten'
  BY <1>6 DEF Arrive, DumpCheck
<1>7. CASE DumpRecord
  <2> DEFINE set == hash_set[g_cp] \cup {sample}
  <2>1. g_cp \in Profilers /\ heap[g_cp] = "live"
    BY <1>7 DEF DumpRecord, OneOwner
  <2>2. sample \notin hash_set[g_cp]
    BY <2>1 DEF SampleOnce
  <2>3. Cardinality(set) = Cardinality(hash_set[g_cp]) + 1
    BY <2>1, <2>2, CacheFinite, FS_AddElement
  <2>4. Cardinality(hash_set[g_cp]) \in Nat
    BY <2>1, CacheFinite
  <2>5. /\ recorded' = [recorded EXCEPT ![g_cp] = recorded[g_cp] + 1]
        /\ heap' = heap
    BY <1>7 DEF DumpRecord
  <2>6. \/ /\ hash_set' = [hash_set EXCEPT ![g_cp] = {}]
           /\ written' = [written EXCEPT ![g_cp] = written[g_cp] + Cardinality(set)]
        \/ /\ hash_set' = [hash_set EXCEPT ![g_cp] = set]
           /\ written' = written
    BY <1>7 DEF DumpRecord, Insert
  <2>7. recorded'[g_cp] = written'[g_cp] + Cardinality(hash_set'[g_cp])
    <3>1. Cardinality({}) = 0
      BY FS_EmptySet
    <3>2. recorded'[g_cp] = written[g_cp] + Cardinality(set)
      BY <2>1, <2>3, <2>4, <2>5
    <3>3. Cardinality(set) \in Nat
      BY <2>3, <2>4
    <3> HIDE DEF set
    <3> QED
      BY <2>1, <2>6, <3>1, <3>2, <3>3
  <2>8. \A q \in Profilers \ {g_cp} :
           /\ hash_set'[q] = hash_set[q] /\ written'[q] = written[q]
           /\ recorded'[q] = recorded[q]
    BY <2>5, <2>6
  <2> QED
    BY <2>1, <2>5, <2>7, <2>8
<1>8. CASE DumpGone \/ DumpDestroy
  BY <1>8 DEF DumpGone, DumpDestroy
<1>9. CASE UNCHANGED vars
  BY <1>9 DEF vars
<1> QED
  BY <1>1, <1>2, <1>3, <1>4, <1>5, <1>6, <1>7, <1>8, <1>9
  DEF Next, ControllerStep

-----------------------------------------------------------------------------
(* The inductive invariant. *)
THEOREM IInvHolds == Spec => []IInv
<1>1. IInv /\ [Next]_vars => IInv'
  BY NextType, NextOwner, NextSample, NextWritten DEF IInv
<1> QED
  BY InitIInv, <1>1, PTL DEF Spec

(* The variables keep their types; a thread that works on a profiler has   *)
(* one.                                                                    *)
THEOREM TypeCorrect == Spec => []TypeOK
<1>1. IInv => TypeOK
  BY DEF IInv
<1> QED
  BY <1>1, IInvHolds, PTL

(* No profiler leaks, is deleted twice or used after it was deleted,       *)
(* however many threads start and stop sessions.                           *)
THEOREM OneOwnerAlways == Spec => []OneOwner
<1>1. IInv => OneOwner
  BY DEF IInv
<1> QED
  BY <1>1, IInvHolds, PTL

(* No sample is freed while a profiler caches it, nor freed twice. *)
THEOREM SampleOnceAlways == Spec => []SampleOnce
<1>1. IInv => SampleOnce
  BY DEF IInv
<1> QED
  BY <1>1, IInvHolds, PTL

(* A deleted profiler has written every sample it was given. *)
THEOREM NothingStaysUnwritten == Spec => []NothingUnwritten
<1>1. IInv => NothingUnwritten
  BY DEF IInv
<1> QED
  BY <1>1, IInvHolds, PTL

-----------------------------------------------------------------------------
(* Every step is a step of SessionLog or leaves it as it is. *)
LEMMA StepRefines == IInv /\ [Next]_vars => [Log!LogNext]_(Log!logVars)
<1> SUFFICES ASSUME TypeOK, OneOwner, SampleOnce, NothingUnwritten, Life,
                    [Next]_vars
             PROVE  [Log!LogNext]_(Log!logVars)
  BY DEF IInv
<1> DEFINE Same == /\ g_cp' = g_cp /\ recorded' = recorded /\ written' = written
                   /\ \A q \in Profilers : StateOf(q)' = StateOf(q)
<1>0. ASSUME Same PROVE [Log!LogNext]_(Log!logVars)
  BY <1>0 DEF Log!logVars
<1> USE ProfilerAssumption DEF TypeOK, objects, dumperVars
<1>1. ASSUME NEW c \in Controllers, NEW p \in Profilers, StartCheck(c, p)
      PROVE  Same
  BY <1>1 DEF StartCheck, StateOf, OneOwner
<1>2. ASSUME NEW c \in Controllers, StartPublish(c) PROVE Log!LogNext
  <2>0. PICK p \in Profilers : p = ctx[c]
    BY <1>2 DEF StartPublish
  <2>1. StateOf(p) = "unused"
    BY <1>2, <2>0 DEF StartPublish, StateOf, OneOwner
  <2>2. StateOf(p)' = "open"
    BY <1>2, <2>0 DEF StartPublish, StateOf, OneOwner
  <2>3. \A q \in Profilers \ {p} : StateOf(q)' = StateOf(q)
    BY <1>2, <2>0 DEF StartPublish, StateOf
  <2>4. Log!Open(p)
    BY <1>2, <2>0, <2>1, <2>2, <2>3 DEF StartPublish, Log!Open
  <2> QED
    BY <2>1, <2>4 DEF Log!LogNext
<1>3. ASSUME NEW c \in Controllers, StartDiscard(c) PROVE Same
  BY <1>3 DEF StartDiscard, StateOf, OneOwner, Life
<1>4. ASSUME NEW c \in Controllers, StopCheck(c) \/ StopGone(c) PROVE Same
  BY <1>4 DEF StopCheck, StopGone, StateOf
<1>5. ASSUME NEW c \in Controllers, StopSwap(c) PROVE Log!LogNext
  <2>0. PICK p \in Profilers : p = g_cp
    BY <1>5 DEF StopSwap
  <2>1. StateOf(p)' = "closing"
    BY <1>5, <2>0 DEF StopSwap, StateOf, OneOwner
  <2>2. \A q \in Profilers \ {p} : StateOf(q)' = StateOf(q)
    BY <1>5, <2>0 DEF StopSwap, StateOf
  <2>3. Log!Close
    BY <1>5, <2>0, <2>1, <2>2 DEF StopSwap, Log!Close
  <2> QED
    BY <2>3 DEF Log!LogNext
<1>6. ASSUME NEW c \in Controllers, StopInit(c) PROVE Same
  BY <1>6 DEF StopInit, StateOf, OneOwner
<1>7. ASSUME NEW c \in Controllers, NEW s \in Samples, StopFlush(c, s)
      PROVE  Log!LogNext
  <2> DEFINE p == ctx[c]
  <2>1. p \in Profilers /\ StateOf(p) = "closing"
    BY <1>7 DEF StopFlush, StateOf, OneOwner
  <2>2. \A q \in Profilers : StateOf(q)' = StateOf(q)
    BY <1>7 DEF StopFlush, StateOf
  <2>3. written[p] < recorded[p]
    <3>1. IsFiniteSet(hash_set[p]) /\ Cardinality(hash_set[p]) \in Nat
      BY <2>1, CacheFinite
    <3>2. Cardinality(hash_set[p]) # 0
      BY <1>7, <2>1, <3>1, FS_EmptySet DEF StopFlush
    <3> QED
      BY <2>1, <3>1, <3>2 DEF NothingUnwritten
  <2>4. Log!Write(p)
    BY <1>7, <2>1, <2>2, <2>3 DEF StopFlush, Log!Write
  <2> QED
    BY <2>1, <2>4 DEF Log!LogNext
<1>8. ASSUME NEW c \in Controllers, StopDelete(c) PROVE Log!LogNext
  <2>0. PICK p \in Profilers : p = ctx[c]
    BY <1>8 DEF StopDelete
  <2>1. StateOf(p) = "closing" /\ init[p]
    BY <1>8, <2>0 DEF StopDelete, StateOf, OneOwner, Life
  <2>2. StateOf(p)' = "closed"
    BY <1>8, <2>0, <2>1 DEF StopDelete, StateOf, OneOwner
  <2>3. \A q \in Profilers \ {p} : StateOf(q)' = StateOf(q)
    BY <1>8, <2>0 DEF StopDelete, StateOf
  <2>4. written[p] = recorded[p]
    <3>1. Cardinality({}) = 0
      BY FS_EmptySet
    <3>2. hash_set[p] = {}
      BY <1>8, <2>0, <2>1 DEF StopDelete
    <3>3. recorded[p] = written[p] + Cardinality(hash_set[p])
      BY DEF NothingUnwritten
    <3>4. recorded[p] = written[p] + 0
      BY <3>1, <3>2, <3>3
    <3> QED
      BY <3>4
  <2>5. Log!Return(p)
    BY <1>8, <2>0, <2>1, <2>2, <2>3, <2>4 DEF StopDelete, Log!Return
  <2> QED
    BY <2>1, <2>5 DEF Log!LogNext
<1>9. ASSUME NEW s \in Samples, Arrive(s) \/ DumpCheck(s) PROVE Same
  BY <1>9 DEF Arrive, DumpCheck, StateOf
<1>10. CASE DumpRecord
  <2>1. g_cp \in Profilers
    BY <1>10 DEF DumpRecord
  <2>2. \A q \in Profilers : StateOf(q)' = StateOf(q)
    BY <1>10 DEF DumpRecord, StateOf, OneOwner
  <2>3. /\ g_cp' = g_cp
        /\ recorded' = [recorded EXCEPT ![g_cp] = @ + 1]
    BY <1>10 DEF DumpRecord
  <2>4. \/ written' = written
        \/ written' = [written EXCEPT ![g_cp] = recorded[g_cp] + 1]
    <3> DEFINE S == hash_set[g_cp]
               set == S \cup {sample}
    <3>1. IsFiniteSet(S) /\ Cardinality(S) \in Nat
      BY <2>1, CacheFinite
    <3>2. sample \notin S
      BY <2>1 DEF SampleOnce
    <3>3. recorded[g_cp] = written[g_cp] + Cardinality(S)
      BY <2>1 DEF NothingUnwritten
    <3>4. \/ written' = written
          \/ written' = [written EXCEPT ![g_cp] = written[g_cp] + Cardinality(set)]
      BY <1>10 DEF DumpRecord, Insert
    <3> HIDE DEF S
    <3>5. Cardinality(set) = Cardinality(S) + 1
      BY <3>1, <3>2, FS_AddElement
    <3>6. written[g_cp] + Cardinality(set) = recorded[g_cp] + 1
      BY <2>1, <3>1, <3>3, <3>5
    <3> QED
      BY <3>4, <3>6
  <2>5. Log!Record
    BY <2>1, <2>2, <2>3, <2>4 DEF Log!Record
  <2> QED
    BY <2>5 DEF Log!LogNext
<1>11. CASE DumpGone \/ DumpDestroy
  BY <1>0, <1>11 DEF DumpGone, DumpDestroy, StateOf
<1>12. CASE UNCHANGED vars
  BY <1>0, <1>12 DEF vars, StateOf
<1> QED
  BY <1>0, <1>1, <1>2, <1>3, <1>4, <1>5, <1>6, <1>7, <1>8, <1>9, <1>10,
     <1>11, <1>12
  DEF Next, ControllerStep

(* Whatever threads start, stop and dump in whatever order, there is one   *)
(* session at a time and its file is complete when its stop returns.       *)
THEOREM ProfilerImplementsLog == Spec => ImplementsLog
<1>1. Init => Log!LogInit
  BY ProfilerAssumption DEF Init, Log!LogInit, StateOf
<1> QED
  BY <1>1, IInvHolds, StepRefines, PTL DEF Spec, ImplementsLog, Log!LogSpec
=============================================================================
