--------------------------- MODULE CombinerProofs ---------------------------
(***************************************************************************)
(* Proofs about Combiner, for any set of threads and of samples: the       *)
(* invariants the run checks, and that the combiner implements SampleBag.  *)
(***************************************************************************)
EXTENDS Combiner, TLAPS

(* An agent is linked from Append to ThreadExit; outside that span its     *)
(* element is empty, and only its own thread is inside operator<<.         *)
Linked ==
    \A t \in Threads :
        /\ t \in agents <=> registered[t] /\ pc[t] # "append"
        /\ pc[t] # "idle" => registered[t]
        /\ pc[t] = "idle" <=> arg[t] = NoSample
        /\ t \notin agents => element[t] = {}

(* What a walk still owes is in an agent it has yet to visit. *)
WalkOwes ==
    /\ walk = "none" => visited = {} /\ acc = {} /\ must = {}
    /\ walk = "reset" => global_result = {}
    /\ walk # "none" =>
          \A s \in must : s \in acc \/ \E t \in agents \ visited : s \in element[t]

IInv == TypeOK /\ Linked /\ OneListPerSample /\ WalkOwes

-----------------------------------------------------------------------------
(* Membership in Contents, the form in which the proofs use it. *)
LEMMA InContents ==
    ASSUME NEW s
    PROVE  s \in Contents <=> \/ s \in global_result
                              \/ \E t \in Threads : s \in element[t]
                              \/ walk = "reset" /\ s \in acc
  BY DEF Contents, Elements

LEMMA InInFlight ==
    ASSUME NEW s
    PROVE  s \in InFlight <=> s # NoSample /\ \E t \in Threads : s = arg[t]
  BY DEF InFlight

(* The combiner starts out with nothing linked, nothing stored, no walk. *)
LEMMA InitIInv == Init => IInv
  BY SampleAssumption
  DEF Init, IInv, TypeOK, Linked, OneListPerSample, WalkOwes, Elements, InFlight

-----------------------------------------------------------------------------
(* The types of the variables are kept by every step. *)
LEMMA NextType == IInv /\ [Next]_vars => TypeOK'
<1> SUFFICES ASSUME TypeOK, Linked, WalkOwes, [Next]_vars PROVE TypeOK'
  BY DEF IInv
<1> USE DEF TypeOK
<1>1. ASSUME NEW t \in Threads, NEW s \in Samples, Submit(t, s) PROVE TypeOK'
  BY <1>1 DEF Submit
<1>2. ASSUME NEW t \in Threads, Append(t) PROVE TypeOK'
  BY <1>2 DEF Append
<1>3. ASSUME NEW t \in Threads, Modify(t) PROVE TypeOK'
  BY <1>3, SampleAssumption DEF Modify, Linked
<1>4. ASSUME NEW t \in Threads, ThreadExit(t) PROVE TypeOK'
  BY <1>4 DEF ThreadExit, WalkOwes
<1>5. CASE ResetBegin
  BY <1>5 DEF ResetBegin, Contents, Elements
<1>6. CASE CombineBegin
  BY <1>6 DEF CombineBegin, Contents, Elements
<1>7. ASSUME NEW t \in Threads, Visit(t) PROVE TypeOK'
  BY <1>7 DEF Visit
<1>8. CASE WalkEnd
  BY <1>8 DEF WalkEnd
<1>9. ASSUME NEW s \in Samples, Consume(s) PROVE TypeOK'
  BY <1>9 DEF Consume
<1>10. CASE UNCHANGED vars
  BY <1>10 DEF vars
<1> QED
  BY <1>1, <1>2, <1>3, <1>4, <1>5, <1>6, <1>7, <1>8, <1>9, <1>10 DEF Next

(* Which agents are linked, and that the others are empty. *)
LEMMA NextLinked == IInv /\ [Next]_vars => Linked'
<1> SUFFICES ASSUME TypeOK, Linked, [Next]_vars PROVE Linked'
  BY DEF IInv
<1> USE DEF TypeOK, Linked
<1>1. ASSUME NEW t \in Threads, NEW s \in Samples, Submit(t, s) PROVE Linked'
  BY <1>1, SampleAssumption DEF Submit
<1>2. ASSUME NEW t \in Threads, Append(t) PROVE Linked'
  BY <1>2 DEF Append
<1>3. ASSUME NEW t \in Threads, Modify(t) PROVE Linked'
  BY <1>3 DEF Modify
<1>4. ASSUME NEW t \in Threads, ThreadExit(t) PROVE Linked'
  BY <1>4 DEF ThreadExit
<1>5. CASE ResetBegin
  BY <1>5 DEF ResetBegin
<1>6. CASE CombineBegin
  BY <1>6 DEF CombineBegin
<1>7. ASSUME NEW t \in Threads, Visit(t) PROVE Linked'
  BY <1>7 DEF Visit
<1>8. CASE WalkEnd
  BY <1>8 DEF WalkEnd
<1>9. ASSUME NEW s \in Samples, Consume(s) PROVE Linked'
  BY <1>9 DEF Consume
<1>10. CASE UNCHANGED vars
  BY <1>10 DEF vars
<1> QED
  BY <1>1, <1>2, <1>3, <1>4, <1>5, <1>6, <1>7, <1>8, <1>9, <1>10 DEF Next

(* What the walk under way owes stays in reach of it: only the walk takes  *)
(* from an element while it holds mtx_.                                    *)
LEMMA NextWalkOwes == IInv /\ [Next]_vars => WalkOwes'
<1> SUFFICES ASSUME TypeOK, Linked, WalkOwes, [Next]_vars PROVE WalkOwes'
  BY DEF IInv
<1> USE DEF TypeOK, WalkOwes
<1>1. ASSUME NEW t \in Threads, NEW s \in Samples, Submit(t, s) PROVE WalkOwes'
  BY <1>1 DEF Submit, Linked
<1>2. ASSUME NEW t \in Threads, Append(t) PROVE WalkOwes'
  BY <1>2 DEF Append
<1>3. ASSUME NEW t \in Threads, Modify(t) PROVE WalkOwes'
  BY <1>3 DEF Modify
<1>4. ASSUME NEW t \in Threads, ThreadExit(t) PROVE WalkOwes'
  BY <1>4 DEF ThreadExit
<1>5. CASE ResetBegin
  <2>1. walk' = "reset" /\ global_result' = {}
    BY <1>5 DEF ResetBegin
  <2>2. ASSUME NEW s \in must'
        PROVE  s \in acc' \/ \E t \in agents' \ visited' : s \in element'[t]
    BY <1>5, <2>2, InContents DEF ResetBegin, Linked
  <2> QED
    BY <2>1, <2>2
<1>6. CASE CombineBegin
  <2>1. walk' = "combine"
    BY <1>6 DEF CombineBegin
  <2>2. ASSUME NEW s \in must'
        PROVE  s \in acc' \/ \E t \in agents' \ visited' : s \in element'[t]
    BY <1>6, <2>2, InContents DEF CombineBegin, Linked
  <2> QED
    BY <2>1, <2>2
<1>7. ASSUME NEW t \in Threads, Visit(t) PROVE WalkOwes'
  BY <1>7 DEF Visit
<1>8. CASE WalkEnd
  BY <1>8 DEF WalkEnd
<1>9. ASSUME NEW s \in Samples, Consume(s) PROVE WalkOwes'
  BY <1>9 DEF Consume
<1>10. CASE UNCHANGED vars
  BY <1>10 DEF vars
<1> QED
  BY <1>1, <1>2, <1>3, <1>4, <1>5, <1>6, <1>7, <1>8, <1>9, <1>10 DEF Next

(* A sample moves from one list to another and is never in two. *)
LEMMA NextOneList == IInv /\ [Next]_vars => OneListPerSample'
<1> SUFFICES ASSUME TypeOK, Linked, WalkOwes, OneListPerSample, [Next]_vars
             PROVE  OneListPerSample'
  BY DEF IInv
<1> USE DEF TypeOK, OneListPerSample, Elements, InFlight
<1>1. ASSUME NEW t \in Threads, NEW s \in Samples, Submit(t, s)
      PROVE  OneListPerSample'
  BY <1>1 DEF Submit, Linked, Contents
<1>2. ASSUME NEW t \in Threads, Append(t) PROVE OneListPerSample'
  BY <1>2 DEF Append
<1>3. ASSUME NEW t \in Threads, Modify(t) PROVE OneListPerSample'
  BY <1>3 DEF Modify, Linked
<1>4. ASSUME NEW t \in Threads, ThreadExit(t) PROVE OneListPerSample'
  BY <1>4 DEF ThreadExit
<1>5. CASE ResetBegin
  BY <1>5 DEF ResetBegin
<1>6. CASE CombineBegin
  BY <1>6 DEF CombineBegin
<1>7. ASSUME NEW t \in Threads, Visit(t) PROVE OneListPerSample'
  BY <1>7 DEF Visit, WalkOwes
<1>8. CASE WalkEnd
  BY <1>8 DEF WalkEnd
<1>9. ASSUME NEW s \in Samples, Consume(s) PROVE OneListPerSample'
  BY <1>9 DEF Consume
<1>10. CASE UNCHANGED vars
  BY <1>10 DEF vars
<1> QED
  BY <1>1, <1>2, <1>3, <1>4, <1>5, <1>6, <1>7, <1>8, <1>9, <1>10 DEF Next

-----------------------------------------------------------------------------
(* The inductive invariant: what holds between any two steps.              *)
THEOREM IInvHolds == Spec => []IInv
<1>1. IInv /\ [Next]_vars => IInv'
  BY NextType, NextLinked, NextWalkOwes, NextOneList DEF IInv
<1> QED
  BY InitIInv, <1>1, PTL DEF Spec

(* The variables keep their types. *)
THEOREM TypeCorrect == Spec => []TypeOK
<1>1. IInv => TypeOK
  BY DEF IInv
<1> QED
  BY <1>1, IInvHolds, PTL

(* No sample is ever linked into two lists, so that neither commit_and_erase *)
(* nor exchange nor operator<< corrupts a circular list of samples.        *)
THEOREM OneListAlways == Spec => []OneListPerSample
<1>1. IInv => OneListPerSample
  BY DEF IInv
<1> QED
  BY <1>1, IInvHolds, PTL

(* When a walk of reset_all_agents or combine_agents ends it has gathered  *)
(* all that was stored when it took mtx_.                                  *)
THEOREM WalkMissesNothing == Spec => []WalkComplete
<1>1. IInv => WalkComplete
  BY DEF IInv, WalkOwes, WalkComplete
<1> QED
  BY <1>1, IInvHolds, PTL

-----------------------------------------------------------------------------
(* Every step of the combiner is a step of the bag or leaves it as it is.  *)
LEMMA StepRefines == IInv /\ [Next]_vars => [Bag!BagNext]_(Bag!bagVars)
<1> SUFFICES ASSUME TypeOK, Linked, OneListPerSample, WalkOwes, [Next]_vars
             PROVE  [Bag!BagNext]_(Bag!bagVars)
  BY DEF IInv
<1> DEFINE owed == IF walk = "reset" THEN must ELSE {}
           taking == walk = "reset"
           Same == /\ Contents' = Contents /\ owed' = owed
                   /\ taking' = taking /\ out' = out
<1>0. ASSUME Same PROVE [Bag!BagNext]_(Bag!bagVars)
  BY <1>0 DEF Bag!bagVars
<1> USE DEF TypeOK
<1>1. ASSUME NEW t \in Threads, NEW s \in Samples, Submit(t, s) PROVE Same
  BY <1>1 DEF Submit, Contents, Elements, Linked
<1>2. ASSUME NEW t \in Threads, Append(t) PROVE Same
  BY <1>2 DEF Append, Contents, Elements
<1>3. ASSUME NEW t \in Threads, Modify(t) PROVE Bag!BagNext
  <2> DEFINE s == arg[t]
  <2>1. s \in Samples
    BY <1>3 DEF Modify, Linked
  <2>2. Contents' = Contents \cup {s}
    BY <1>3 DEF Modify, Contents, Elements
  <2>3. s \notin Contents \cup out
    BY <1>3, <2>1, SampleAssumption
    DEF OneListPerSample, Contents, Elements, InFlight
  <2>4. Bag!Add(s)
    BY <1>3, <2>2, <2>3 DEF Bag!Add, Modify
  <2> QED
    BY <2>1, <2>4 DEF Bag!BagNext
<1>4. ASSUME NEW t \in Threads, ThreadExit(t) PROVE Same
  BY <1>4 DEF ThreadExit, Contents, Elements
<1>5. CASE ResetBegin
  <2>1. Contents' = Contents
    BY <1>5 DEF ResetBegin, Contents, Elements
  <2>2. Bag!TakeBegin
    BY <1>5, <2>1 DEF ResetBegin, Bag!TakeBegin
  <2> QED
    BY <2>2 DEF Bag!BagNext
<1>6. CASE CombineBegin
  BY <1>0, <1>6 DEF CombineBegin, Contents, Elements
<1>7. ASSUME NEW t \in Threads, Visit(t) PROVE Same
  BY <1>7 DEF Visit, Contents, Elements
<1>8. CASE WalkEnd
  <2>1. CASE walk = "reset"
    <3>1. must \subseteq acc
      BY <1>8 DEF WalkEnd, WalkOwes
    <3>2. acc \subseteq Contents
      BY <2>1 DEF Contents
    <3>3. Contents' = Contents \ acc
      BY <1>8, <2>1 DEF WalkEnd, Contents, Elements, OneListPerSample
    <3>4. Bag!TakeEnd(acc)
      BY <1>8, <2>1, <3>1, <3>2, <3>3 DEF WalkEnd, Bag!TakeEnd
    <3> QED
      BY <3>2, <3>4 DEF Bag!BagNext
  <2>2. CASE walk # "reset"
    BY <1>0, <1>8, <2>2 DEF WalkEnd, Contents, Elements
  <2> QED
    BY <2>1, <2>2
<1>9. ASSUME NEW s \in Samples, Consume(s) PROVE Bag!BagNext
  <2>1. Contents' = Contents
    BY <1>9 DEF Consume, Contents, Elements
  <2>2. Bag!Consume(s)
    BY <1>9, <2>1 DEF Consume, Bag!Consume
  <2> QED
    BY <2>2 DEF Bag!BagNext
<1>10. CASE UNCHANGED vars
  BY <1>0, <1>10 DEF vars, Contents, Elements
<1> QED
  BY <1>0, <1>1, <1>2, <1>3, <1>4, <1>5, <1>6, <1>7, <1>8, <1>9, <1>10 DEF Next

(* The two-level locking of the combiner implements one bag of samples:    *)
(* no sample is lost, invented or delivered twice, and a reset delivers    *)
(* whatever was stored when it began.                                      *)
THEOREM CombinerRefinesBag == Spec => ImplementsBag
<1>1. Init => Bag!BagInit
  BY DEF Init, Bag!BagInit, Contents, Elements
<1> QED
  BY <1>1, IInvHolds, StepRefines, PTL DEF Spec, ImplementsBag, Bag!BagSpec
=============================================================================
