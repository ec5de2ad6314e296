-------------------------- MODULE CollectorProofs --------------------------
(***************************************************************************)
(* Proofs about Collector, for any finite pool and any bound on pending    *)
(* samples: every sample is in one place, the three counters agree with    *)
(* the samples under way, and these stay below the bound.  The last part   *)
(* is about SpeedLimit, of the same source file: the range in which the    *)
(* grab thread keeps the sampling, and the way it moves it.                *)
(***************************************************************************)
EXTENDS Collector, SpeedLimit, Integers, FiniteSetTheorems, TLAPS

(* Only grab_thread creates the dump thread, before anything else. *)
DumpNotYet == gpc = "start" => dpc = "none"

IInv == TypeOK /\ DumpNotYet /\ OwnedOnce /\ CountsAddUp /\ PendingBounded

LEMMA InitIInv == Init => IInv
<1> SUFFICES ASSUME Init PROVE IInv
  OBVIOUS
<1>1. Pending = {}
  BY DEF Init, Pending
<1>2. Cardinality(Pending) = 0
  BY <1>1, FS_EmptySet
<1> QED
  <2>1. TypeOK /\ DumpNotYet
    BY DEF Init, Bag!BagInit, TypeOK, DumpNotYet
  <2>2. OwnedOnce
    BY <1>1 DEF Init, Bag!BagInit, OwnedOnce
  <2>3. CountsAddUp /\ PendingBounded
    BY <1>2, PendingAssumption DEF Init, CountsAddUp, PendingBounded
  <2> QED
    BY <2>1, <2>2, <2>3 DEF IInv

(* The variables keep their types, for samples move between sets. *)
LEMMA NextType == TypeOK /\ DumpNotYet /\ [Next]_vars => TypeOK'
<1> SUFFICES ASSUME TypeOK, DumpNotYet, [Next]_vars PROVE TypeOK'
  OBVIOUS
<1> USE DEF TypeOK, bagVars, counts
<1>1. ASSUME NEW s \in Samples, GetObject(s) \/ SubmitOK(s) \/ SubmitLate(s)
      PROVE  TypeOK'
  BY <1>1 DEF GetObject, SubmitOK, SubmitLate, Bag!Add
<1>2. CASE GrabStart \/ GrabSleep \/ GrabLeave \/ GrabJoin
  BY <1>2 DEF GrabStart, GrabSleep, GrabLeave, GrabJoin, DumpNotYet
<1>3. CASE GrabTop
  BY <1>3 DEF GrabTop, Bag!TakeBegin
<1>4. ASSUME NEW S \in SUBSET bag, GrabReset(S) PROVE TypeOK'
  BY <1>4 DEF GrabReset, Bag!TakeEnd
<1>5. ASSUME NEW s \in Samples, GrabSift(s) PROVE TypeOK'
  BY <1>5 DEF GrabSift, Drop, PassOn, Bag!Consume
<1>6. CASE GrabHandOff
  BY <1>6 DEF GrabHandOff, SignalDump
<1>7. CASE GrabFinish
  BY <1>7 DEF GrabFinish, SignalDump
<1>8. CASE DumpTop \/ DumpBreak \/ DumpWait \/ DumpEnd \/ SpuriousWakeup
  BY <1>8 DEF DumpTop, DumpBreak, DumpWait, DumpEnd, SpuriousWakeup
<1>9. CASE DumpTake
  BY <1>9 DEF DumpTake
<1>10. ASSUME NEW s \in Samples, DumpOne(s) PROVE TypeOK'
  BY <1>10 DEF DumpOne
<1>11. CASE DumpCount
  BY <1>11 DEF DumpCount
<1>12. CASE Flush
  BY <1>12 DEF Flush
<1>13. CASE ExitStop \/ ExitJoin
  BY <1>13 DEF ExitStop, ExitJoin
<1>14. CASE UNCHANGED vars
  BY <1>14 DEF vars
<1> QED
  BY <1>1, <1>2, <1>3, <1>4, <1>5, <1>6, <1>7, <1>8, <1>9, <1>10, <1>11,
     <1>12, <1>13, <1>14
  DEF Next, SubmitStep, GrabStep, SiftStep, DumpStep

(* The dump thread is not there before grab_thread has created it. *)
LEMMA NextDumpNotYet == DumpNotYet /\ [Next]_vars => DumpNotYet'
  BY DEF DumpNotYet, Next, SubmitStep, GetObject, SubmitOK, SubmitLate,
         GrabStep, GrabStart, GrabTop, GrabReset, SiftStep, GrabSift,
         GrabHandOff, SignalDump, GrabSleep, GrabLeave, GrabFinish, GrabJoin,
         DumpStep, DumpTop, DumpBreak, DumpWait, DumpTake, DumpOne, DumpCount,
         DumpEnd, SpuriousWakeup, Flush, ExitStop, ExitJoin, vars

(* A step moves samples from one place to one other. *)
LEMMA NextOwned == TypeOK /\ OwnedOnce /\ [Next]_vars => OwnedOnce'
<1> SUFFICES ASSUME TypeOK, OwnedOnce, [Next]_vars PROVE OwnedOnce'
  OBVIOUS
<1> USE DEF TypeOK, OwnedOnce, Pending, bagVars
<1>1. ASSUME NEW s \in Samples, GetObject(s) \/ SubmitOK(s) \/ SubmitLate(s)
      PROVE  OwnedOnce'
  BY <1>1 DEF GetObject, SubmitOK, SubmitLate, Bag!Add
<1>2. CASE GrabStart \/ GrabSleep \/ GrabLeave \/ GrabJoin
  BY <1>2 DEF GrabStart, GrabSleep, GrabLeave, GrabJoin
<1>3. CASE GrabTop
  BY <1>3 DEF GrabTop, Bag!TakeBegin
<1>4. ASSUME NEW S \in SUBSET bag, GrabReset(S) PROVE OwnedOnce'
  BY <1>4 DEF GrabReset, Bag!TakeEnd
<1>5. ASSUME NEW s \in Samples, GrabSift(s) PROVE OwnedOnce'
  BY <1>5 DEF GrabSift, Drop, PassOn, Bag!Consume
<1>6. CASE GrabHandOff
  BY <1>6 DEF GrabHandOff
<1>7. CASE GrabFinish
  BY <1>7 DEF GrabFinish
<1>8. CASE DumpTop \/ DumpBreak \/ DumpWait \/ DumpEnd \/ SpuriousWakeup
  BY <1>8 DEF DumpTop, DumpBreak, DumpWait, DumpEnd, SpuriousWakeup
<1>9. CASE DumpTake
  BY <1>9 DEF DumpTake
<1>10. ASSUME NEW s \in Samples, DumpOne(s) PROVE OwnedOnce'
  BY <1>10 DEF DumpOne
<1>11. CASE DumpCount
  BY <1>11 DEF DumpCount
<1>12. CASE Flush
  BY <1>12 DEF Flush
<1>13. CASE ExitStop \/ ExitJoin
  BY <1>13 DEF ExitStop, ExitJoin
<1>14. CASE UNCHANGED vars
  BY <1>14 DEF vars
<1> QED
  BY <1>1, <1>2, <1>3, <1>4, <1>5, <1>6, <1>7, <1>8, <1>9, <1>10, <1>11,
     <1>12, <1>13, <1>14
  DEF Next, SubmitStep, GrabStep, SiftStep, DumpStep

-----------------------------------------------------------------------------
(* The pending samples are a finite set, whose size is a number. *)
LEMMA PendingFinite ==
    TypeOK => IsFiniteSet(Pending) /\ Cardinality(Pending) \in Nat
<1> SUFFICES ASSUME TypeOK
             PROVE  IsFiniteSet(Pending) /\ Cardinality(Pending) \in Nat
  OBVIOUS
<1>1. Pending \subseteq Samples
  BY DEF TypeOK, Pending
<1>2. IsFiniteSet(Pending)
  BY <1>1, SamplesAssumption, FS_Subset
<1> QED
  BY <1>2, FS_CardinalityType

(* The counters and the samples under way change together. *)
LEMMA NextCounts ==
    IInv /\ [Next]_vars => CountsAddUp' /\ PendingBounded'
<1> SUFFICES ASSUME TypeOK, DumpNotYet, OwnedOnce, CountsAddUp, PendingBounded,
                    [Next]_vars
             PROVE  CountsAddUp' /\ PendingBounded'
  BY DEF IInv
<1> DEFINE Counting(d) == IF d = "count" THEN 1 ELSE 0
           Kept == /\ Pending' = Pending /\ UNCHANGED counts
                   /\ Counting(dpc') = Counting(dpc)
<1>0. ASSUME Kept PROVE CountsAddUp' /\ PendingBounded'
  BY <1>0 DEF CountsAddUp, PendingBounded, counts
<1> USE PendingFinite, PendingAssumption DEF TypeOK
<1>1. ASSUME NEW s \in Samples, GetObject(s) \/ SubmitOK(s) \/ SubmitLate(s)
      PROVE  Kept
  BY <1>1 DEF GetObject, SubmitOK, SubmitLate, Pending
<1>2. CASE GrabStart \/ GrabSleep \/ GrabLeave \/ GrabJoin
  BY <1>0, <1>2 DEF GrabStart, GrabSleep, GrabLeave, GrabJoin, Pending, DumpNotYet
<1>3. CASE GrabTop
  BY <1>0, <1>3 DEF GrabTop, Pending
<1>4. ASSUME NEW S \in SUBSET bag, GrabReset(S) PROVE Kept
  BY <1>4 DEF GrabReset, Pending
<1>5. ASSUME NEW s \in Samples, GrabSift(s)
      PROVE  CountsAddUp' /\ PendingBounded'
  <2>1. s \notin Pending
    BY <1>5 DEF GrabSift, Bag!Consume, OwnedOnce
  <2>2. CASE TooMany /\ Drop(s)
    BY <1>5, <2>2 DEF GrabSift, Drop, Pending, CountsAddUp, PendingBounded
  <2>3. CASE ~TooMany /\ PassOn(s)
    <3>1. Pending' = Pending \cup {s}
      BY <1>5, <2>3 DEF GrabSift, PassOn, Pending
    <3>2. Cardinality(Pending') = Cardinality(Pending) + 1
      BY <2>1, <3>1, FS_AddElement
    <3>3. grab_count' < drop_count + dump_count + MaxPending
      BY <1>5, <2>3 DEF TooMany, GrabSift, PassOn
    <3> QED
      BY <1>5, <2>3, <3>2, <3>3 DEF GrabSift, PassOn, CountsAddUp, PendingBounded
  <2> QED
    BY <1>5, <2>2, <2>3 DEF GrabSift
<1>6. CASE GrabHandOff
  BY <1>0, <1>6 DEF GrabHandOff, SignalDump, Pending
<1>7. CASE GrabFinish
  BY <1>0, <1>7 DEF GrabFinish, SignalDump, Pending
<1>8. CASE DumpTop \/ DumpBreak \/ DumpWait \/ DumpEnd \/ SpuriousWakeup
  BY <1>0, <1>8 DEF DumpTop, DumpBreak, DumpWait, DumpEnd, SpuriousWakeup, Pending
<1>9. CASE DumpTake
  BY <1>0, <1>9 DEF DumpTake, Pending
<1>10. ASSUME NEW s \in Samples, DumpOne(s)
       PROVE  CountsAddUp' /\ PendingBounded'
  <2>1. Pending' = Pending \ {s} /\ s \in Pending
    BY <1>10 DEF DumpOne, Pending, OwnedOnce
  <2>2. Cardinality(Pending') = Cardinality(Pending) - 1
    BY <2>1, FS_RemoveElement
  <2> QED
    BY <1>10, <2>2 DEF DumpOne, CountsAddUp, PendingBounded, counts
<1>11. CASE DumpCount
  BY <1>11 DEF DumpCount, counts, CountsAddUp, PendingBounded, Pending
<1>12. CASE Flush
  BY <1>0, <1>12 DEF Flush, Pending
<1>13. CASE ExitStop \/ ExitJoin
  BY <1>0, <1>13 DEF ExitStop, ExitJoin, Pending
<1>14. CASE UNCHANGED vars
  BY <1>0, <1>14 DEF vars, Pending
<1> QED
  BY <1>0, <1>1, <1>2, <1>3, <1>4, <1>5, <1>6, <1>7, <1>8, <1>9, <1>10,
     <1>11, <1>12, <1>13, <1>14
  DEF Next, SubmitStep, GrabStep, SiftStep, DumpStep

-----------------------------------------------------------------------------
(* The inductive invariant. *)
THEOREM IInvHolds == Spec => []IInv
<1>1. IInv /\ [Next]_vars => IInv'
  BY NextType, NextDumpNotYet, NextOwned, NextCounts DEF IInv
<1> QED
  BY InitIInv, <1>1, PTL DEF Spec

(* The variables keep their types. *)
THEOREM TypeCorrect == Spec => []TypeOK
<1>1. IInv => TypeOK
  BY DEF IInv
<1> QED
  BY <1>1, IInvHolds, PTL

(* No sample is lost, linked twice or returned to the pool twice between   *)
(* submit and dump_and_destroy, at any point of a stop.                    *)
THEOREM OwnedOnceAlways == Spec => []OwnedOnce
<1>1. IInv => OwnedOnce
  BY DEF IInv
<1> QED
  BY <1>1, IInvHolds, PTL

(* The counters of grab_thread and of dump_thread, read and written        *)
(* without a lock, always account for the samples under way.               *)
THEOREM CountsAlwaysAddUp == Spec => []CountsAddUp
<1>1. IInv => CountsAddUp
  BY DEF IInv
<1> QED
  BY <1>1, IInvHolds, PTL

(* Fewer than FLAGS_collector_max_pending_samples samples are ever waiting *)
(* for the dump thread.                                                    *)
THEOREM PendingAlwaysBounded == Spec => []PendingBounded
<1>1. IInv => PendingBounded
  BY DEF IInv
<1> QED
  BY <1>1, IInvHolds, PTL

-----------------------------------------------------------------------------
(* The assumptions of SpeedLimit on its constants: any rate, base and      *)
(* width, clocks any distance apart, and the bounds of the model.          *)
LimitConstants ==
    /\ Expected \in Nat \ {0} /\ Base \in Nat \ {0} /\ Second \in Nat \ {0}
    /\ Epoch \in Nat /\ Word \in Nat \ {0}
    /\ MaxTime \in Nat \ {0} /\ MaxRound \in Nat

LEMMA ConstantsHold == LimitConstants
BY LimitAssumption, BoundAssumption DEF LimitConstants

(* The first contention was noted in the past. *)
LimitInv == LimitTypeOK /\ first_sample_real_us <= now

(* Division of natural numbers, and products. *)
LEMMA DivIn ==
    ASSUME NEW a \in Nat, NEW b \in Nat \ {0}
    PROVE  /\ a \div b \in Nat /\ a % b \in Nat /\ a % b < b
           /\ a = (b * (a \div b)) + (a % b)
OBVIOUS

LEMMA NatProduct ==
    ASSUME NEW a \in Nat, NEW b \in Nat
    PROVE  a * b \in Nat /\ (a # 0 /\ b # 0 => a * b # 0)
OBVIOUS

(* A fresh CollectorSpeedLimit. *)
LEMMA InitLimit == LimitConstants /\ LimitInit => LimitInv
<1> SUFFICES ASSUME LimitConstants, LimitInit PROVE LimitInv
  OBVIOUS
<1>1. /\ sampling_range \in 1 .. Base /\ count_before_grabbed \in Nat
      /\ first_sample_real_us \in 0 .. MaxTime /\ first_sample_real_us <= now
      /\ now \in 1 .. MaxTime /\ last_update \in 1 .. now /\ round \in 0 .. MaxRound
  BY DEF LimitConstants, LimitInit
<1>2. ever_grabbed \in BOOLEAN
  BY Zenon DEF LimitInit
<1>3. pc \in [Threads -> {"idle", "first"}]
  BY DEF LimitInit
<1> QED
  BY <1>1, <1>2, <1>3 DEF LimitInv, LimitTypeOK

(* The last lines of update_speed_limit. *)
LEMMA ClampIn ==
    ASSUME LimitConstants, NEW new \in Nat
    PROVE  Clamp(new) \in 1 .. Base
BY DEF LimitConstants, Clamp

(* Products that wrap are still numbers, which the clamp brings in range.  *)
LEMMA RangeIsNat ==
    ASSUME LimitConstants, LimitInv, round # 0
    PROVE  FirstRange \in Nat /\ NextRange(now - last_update) \in Nat
<1>0. /\ Expected \in Nat \ {0} /\ Base \in Nat \ {0} /\ Second \in Nat \ {0}
      /\ Epoch \in Nat /\ Word \in Nat \ {0}
      /\ sampling_range \in Nat /\ now \in Nat /\ last_update \in Nat
      /\ first_sample_real_us \in Nat /\ first_sample_real_us <= now
      /\ last_update <= now /\ round \in Nat \ {0}
  BY DEF LimitConstants, LimitInv, LimitTypeOK
<1>1. Second * round \in Nat \ {0}
  BY <1>0, NatProduct
<1>2. ASSUME NEW i \in Nat, NEW r \in Nat
      PROVE  ((Expected * i * r) % Word) \div (Second * round) \in Nat
  <2>1. Expected * i * r \in Nat
    BY <1>0, NatProduct
  <2>2. (Expected * i * r) % Word \in Nat
    BY <1>0, <2>1, DivIn
  <2> QED
    BY <1>1, <2>2, DivIn
<1>3. FirstInterval \in Nat /\ now - last_update \in Nat
  BY <1>0 DEF FirstInterval
<1>4. FirstRange \in Nat
  BY <1>0, <1>2, <1>3 DEF FirstRange
<1>5. ASSUME NEW new \in Nat, NEW i \in Nat PROVE Blend(new, i) \in Nat
  <2>1. CASE i < Second
    <3>1. (new * i) + (sampling_range * (Second - i)) \in Nat
      BY <1>0, <2>1, NatProduct
    <3>2. ((new * i) + (sampling_range * (Second - i))) % Word \in Nat
      BY <1>0, <3>1, DivIn
    <3>3. (((new * i) + (sampling_range * (Second - i))) % Word) \div Second \in Nat
      BY <1>0, <3>2, DivIn
    <3> QED
      BY <2>1, <3>3 DEF Blend
  <2>2. CASE ~(i < Second)
    BY <2>2 DEF Blend
  <2> QED
    BY <2>1, <2>2
<1>6. NextRange(now - last_update) \in Nat
  BY <1>0, <1>2, <1>3, <1>5 DEF NextRange
<1> QED
  BY <1>4, <1>6

(* is_collectable leaves the range alone; an update clamps it. *)
LEMMA LimitStep ==
    LimitConstants /\ LimitInv /\ [LimitNext]_speedVars => LimitInv'
<1> SUFFICES ASSUME LimitConstants, LimitInv, [LimitNext]_speedVars PROVE LimitInv'
  OBVIOUS
<1> USE DEF LimitInv, LimitTypeOK, LimitConstants
<1>1. CASE Tick
  BY <1>1 DEF Tick, limitVars
<1>2. CASE Update
  <2>1. sampling_range' \in 1 .. Base
    BY <1>2, RangeIsNat, ClampIn DEF Update
  <2> QED
    BY <1>2, <2>1 DEF Update
<1>3. CASE UpdateNothing
  BY <1>3 DEF UpdateNothing, limitVars
<1>4. ASSUME NEW t \in Threads, CountSample(t) PROVE LimitInv'
  BY <1>4 DEF CountSample
<1>5. ASSUME NEW t \in Threads, StampFirst(t) PROVE LimitInv'
  BY <1>5 DEF StampFirst
<1>6. ASSUME NEW t \in Threads, TakeSample(t) PROVE LimitInv'
  BY <1>6 DEF TakeSample, limitVars
<1>7. CASE UNCHANGED speedVars
  BY <1>7 DEF speedVars, limitVars
<1> QED
  BY <1>1, <1>2, <1>3, <1>4, <1>5, <1>6, <1>7 DEF LimitNext

(* sampling_range, by which submit_contention divides, is never 0 and      *)
(* never above COLLECTOR_SAMPLING_BASE, even when a product of             *)
(* update_speed_limit wraps.                                               *)
THEOREM LimitTypes == LimitSpec => []LimitTypeOK
<1>1. LimitInit => LimitInv
  BY ConstantsHold, InitLimit
<1>2. LimitInv /\ [LimitNext]_speedVars => LimitInv'
  BY ConstantsHold, LimitStep
<1>3. LimitInv => LimitTypeOK
  BY DEF LimitInv
<1> QED
  BY <1>1, <1>2, <1>3, PTL DEF LimitSpec
(* Quotients and products keep the order. *)
LEMMA MulMono ==
    ASSUME NEW a \in Nat, NEW b \in Nat, NEW c \in Nat, b <= c
    PROVE  a * b <= a * c /\ b * a <= c * a
OBVIOUS

LEMMA DivBelow ==
    ASSUME NEW a \in Nat, NEW b \in Nat \ {0}, NEW c \in Nat, a <= b * c
    PROVE  a \div b <= c
<1> DEFINE q == a \div b
<1>1. q \in Nat /\ b * q <= a /\ b * q \in Nat /\ b * c \in Nat
  BY DivIn
<1>2. SUFFICES ASSUME c + 1 <= q PROVE FALSE
  BY <1>1
<1> HIDE DEF q
<1>3. b * (c + 1) <= b * q
  BY <1>1, <1>2, MulMono
<1>4. b * (c + 1) = b * c + b
  OBVIOUS
<1> QED
  BY <1>1, <1>3, <1>4

LEMMA DivAbove ==
    ASSUME NEW a \in Nat, NEW b \in Nat \ {0}, NEW c \in Nat, b * c <= a
    PROVE  c <= a \div b
OBVIOUS

(* No product of update_speed_limit reaches 2^64: for the 1000 samples a   *)
(* second and the base of 16384 in the code, the first holds for a gap of  *)
(* 13 days, the second always.                                             *)
NoProductWraps(gap) ==
    /\ Expected * gap * Base < Word
    /\ (Expected * Base + Base) * Second < Word

LEMMA SmallMod ==
    ASSUME NEW a \in Nat, NEW b \in Nat \ {0}, a < b
    PROVE  a % b = a
OBVIOUS

(* A blend over less than a second lies between the old range and the new. *)
LEMMA BlendTowards ==
    ASSUME LimitConstants, LimitInv, NEW gap \in Nat, NoProductWraps(gap),
           NEW i \in Nat, NEW new \in Nat, i < Second => new <= Expected * Base
    PROVE  /\ new <= sampling_range => Blend(new, i) <= sampling_range
           /\ sampling_range <= new => sampling_range <= Blend(new, i)
<1>0. /\ Expected \in Nat \ {0} /\ Base \in Nat \ {0} /\ Second \in Nat \ {0}
      /\ Word \in Nat \ {0} /\ sampling_range \in Nat /\ sampling_range <= Base
      /\ (Expected * Base + Base) * Second < Word
  BY DEF LimitConstants, LimitInv, LimitTypeOK, NoProductWraps
<1>1. CASE ~(i < Second)
  BY <1>1 DEF Blend
<1>2. CASE i < Second
  <2> DEFINE r == sampling_range
             j == Second - i
             sum == new * i + r * j
  <2>1. j \in Nat /\ i + j = Second /\ i <= Second /\ j <= Second
    BY <1>0, <1>2
  <2>2. /\ new * i \in Nat /\ r * j \in Nat /\ r * i \in Nat /\ Expected * Base \in Nat
        /\ (Expected * Base) * Second \in Nat /\ Base * Second \in Nat
        /\ r * Second \in Nat
    BY <1>0, <2>1, NatProduct
  <2>3. new * i <= (Expected * Base) * Second
    <3>1. new * i <= (Expected * Base) * i
      BY <1>0, <1>2, <2>2, MulMono
    <3>2. (Expected * Base) * i <= (Expected * Base) * Second
      BY <1>0, <2>1, <2>2, MulMono
    <3>3. (Expected * Base) * i \in Nat
      BY <2>2, NatProduct
    <3> QED
      BY <2>2, <3>1, <3>2, <3>3
  <2>4. r * j <= Base * Second
    <3>1. r * j <= Base * j /\ Base * j <= Base * Second /\ Base * j \in Nat
      BY <1>0, <2>1, MulMono, NatProduct
    <3> QED
      BY <2>2, <3>1
  <2>5. (Expected * Base + Base) * Second = (Expected * Base) * Second + Base * Second
    BY <1>0, <2>2
  <2>6. sum \in Nat /\ sum < Word
    BY <1>0, <2>2, <2>3, <2>4, <2>5
  <2>7. Blend(new, i) = sum \div Second
    <3>1. sum % Word = sum
      BY <1>0, <2>6, SmallMod
    <3> QED
      BY <1>2, <3>1 DEF Blend
  <2>8. r * i + r * j = Second * r
    <3>1. r * i + r * j = r * (i + j)
      BY <1>0, <2>1
    <3>2. r * Second = Second * r
      BY <1>0
    <3> QED
      BY <2>1, <3>1, <3>2
  <2>9. ASSUME new <= r PROVE sum \div Second <= r
    <3>1. new * i <= r * i
      BY <1>0, <2>9, MulMono
    <3>2. sum <= Second * r
      BY <2>2, <2>8, <3>1
    <3> HIDE DEF sum
    <3> QED
      BY <1>0, <2>6, <3>2, DivBelow
  <2>10. ASSUME r <= new PROVE r <= sum \div Second
    <3>1. r * i <= new * i
      BY <1>0, <2>10, MulMono
    <3>2. Second * r <= sum
      BY <2>2, <2>8, <3>1
    <3> HIDE DEF sum
    <3> QED
      BY <1>0, <2>6, <3>2, DivAbove
  <2> QED
    BY <2>7, <2>9, <2>10
<1> QED
  BY <1>1, <1>2

(* The new range before it is blended: against the old one it is where the *)
(* round is against the expected rate, rounded down as it may be.          *)
LEMMA QuotientTowards ==
    ASSUME LimitConstants, LimitInv, NEW gap \in Nat, NoProductWraps(gap),
           round # 0, NEW i \in Nat, i <= gap
    PROVE  LET new == ((Expected * i * sampling_range) % Word) \div (Second * round) IN
           /\ new \in Nat
           /\ i < Second => new <= Expected * Base
           /\ round * Second >= Expected * i => new <= sampling_range
           /\ round * Second <= Expected * i => new >= sampling_range
<1> DEFINE r == sampling_range
           e == Expected * i
           d == Second * round
<1>0. /\ Expected \in Nat \ {0} /\ Base \in Nat \ {0} /\ Second \in Nat \ {0}
      /\ Word \in Nat \ {0} /\ r \in Nat /\ r <= Base /\ round \in Nat \ {0}
      /\ (Expected * gap) * Base < Word
  BY DEF LimitConstants, LimitInv, LimitTypeOK, NoProductWraps
<1>1. /\ e \in Nat /\ d \in Nat \ {0} /\ e * r \in Nat /\ Expected * gap \in Nat
      /\ d = round * Second
  BY <1>0, NatProduct
<1>2. e <= Expected * gap
  BY <1>0, MulMono
<1>3. /\ e * r <= (Expected * gap) * r
      /\ (Expected * gap) * r <= (Expected * gap) * Base
      /\ (Expected * gap) * r \in Nat /\ (Expected * gap) * Base \in Nat
  <2> HIDE DEF e
  <2> QED
    BY <1>0, <1>1, <1>2, MulMono, NatProduct
<1>4. e * r < Word
  <2> HIDE DEF e
  <2> QED
    BY <1>0, <1>1, <1>3
<1>5. (e * r) % Word = e * r
  <2> HIDE DEF e
  <2> QED
    BY <1>0, <1>1, <1>4, SmallMod
<1>6. ASSUME i < Second PROVE e * r <= d * (Expected * Base)
  <2>1. e <= Expected * Second
    BY <1>0, <1>6, MulMono
  <2>2. 1 <= round /\ Second * 1 <= d
    BY <1>0, MulMono
  <2>3. Expected * Second <= Expected * d
    BY <1>0, <1>1, <2>2, MulMono
  <2>4. Expected * Second \in Nat /\ Expected * d \in Nat
    BY <1>0, <1>1, NatProduct
  <2>5. e <= Expected * d
    BY <1>1, <2>1, <2>3, <2>4
  <2> HIDE DEF e, d
  <2>6. e * r <= (Expected * d) * r /\ (Expected * d) * r <= (Expected * d) * Base
    BY <1>0, <1>1, <2>4, <2>5, MulMono
  <2>7. (Expected * d) * Base = d * (Expected * Base)
    BY <1>0, <1>1
  <2>8. (Expected * d) * r \in Nat /\ (Expected * d) * Base \in Nat
    BY <1>0, <2>4, NatProduct
  <2> QED
    BY <1>1, <2>6, <2>7, <2>8
<1>7. ASSUME e <= d PROVE e * r <= d * r
  <2> HIDE DEF e, d
  <2> QED
    BY <1>0, <1>1, <1>7, MulMono
<1>8. ASSUME d <= e PROVE d * r <= e * r
  <2> HIDE DEF e, d
  <2> QED
    BY <1>0, <1>1, <1>8, MulMono
<1>9. Expected * Base \in Nat
  BY <1>0, NatProduct
<1> DEFINE a == e * r
           new == (a % Word) \div d
<1>10. a \in Nat /\ a % Word = a
  BY <1>1, <1>5
<1>11. /\ i < Second => a <= d * (Expected * Base)
       /\ e <= d => a <= d * r
       /\ d <= e => d * r <= a
  BY <1>6, <1>7, <1>8
<1>12. /\ new \in Nat
       /\ i < Second => new <= Expected * Base
       /\ e <= d => new <= r
       /\ d <= e => new >= r
  <2> HIDE DEF a, e, d
  <2>1. new = a \div d
    BY <1>10
  <2>2. a \div d \in Nat
    BY <1>1, <1>10, DivIn
  <2>3. i < Second => a \div d <= Expected * Base
    BY <1>1, <1>9, <1>10, <1>11, DivBelow
  <2>4. e <= d => a \div d <= r
    BY <1>0, <1>1, <1>10, <1>11, DivBelow
  <2>5. d <= e => a \div d >= r
    BY <1>0, <1>1, <1>10, <1>11, DivAbove
  <2> QED
    BY <2>1, <2>2, <2>3, <2>4, <2>5
<1>13. /\ round * Second >= Expected * i => e <= d
       /\ round * Second <= Expected * i => d <= e
  BY <1>1
<1> QED
  BY <1>12, <1>13

(* One update, with its product, quotient, blend and clamp. *)
LEMMA UpdateTowards ==
    ASSUME LimitConstants, LimitInv, NEW gap \in Nat, NoProductWraps(gap),
           Update, ever_grabbed, now - last_update <= gap
    PROVE  LET interval == now - last_update IN
           /\ round * Second >= Expected * interval => sampling_range' <= sampling_range
           /\ round * Second <= Expected * interval => sampling_range' >= sampling_range
<1> DEFINE i == now - last_update
           q == ((Expected * i * sampling_range) % Word) \div (Second * round)
           next == NextRange(i)
<1>1. round # 0 /\ i \in Nat /\ i <= gap
  BY DEF LimitConstants, LimitInv, LimitTypeOK, Update
<1>2. /\ q \in Nat
      /\ i < Second => q <= Expected * Base
      /\ round * Second >= Expected * i => q <= sampling_range
      /\ round * Second <= Expected * i => q >= sampling_range
  <2> HIDE DEF i
  <2> QED
    BY <1>1, QuotientTowards
<1>3. next = Blend(q, i)
  BY DEF NextRange
<1>4. sampling_range' = Clamp(next)
  BY DEF Update
<1>5. next \in Nat
  BY <1>1, RangeIsNat
<1> HIDE DEF q, i, next
<1>6. /\ q <= sampling_range => next <= sampling_range
      /\ sampling_range <= q => sampling_range <= next
  BY <1>1, <1>2, <1>3, BlendTowards
<1>7. sampling_range \in 1 .. Base /\ Base \in Nat
  BY DEF LimitConstants, LimitInv, LimitTypeOK
<1>8. /\ next <= sampling_range => Clamp(next) <= sampling_range
      /\ sampling_range <= next => sampling_range <= Clamp(next)
  BY <1>5, <1>7 DEF Clamp
<1>9. /\ round * Second >= Expected * i => sampling_range' <= sampling_range
      /\ round * Second <= Expected * i => sampling_range' >= sampling_range
  <2>1. q <= sampling_range <=> sampling_range >= q
    BY <1>2, <1>7
  <2> QED
    BY <1>2, <1>4, <1>6, <1>7, <1>8
<1> QED
  BY <1>9 DEF i

(* Once there is an estimate, an update never raises sampling_range after  *)
(* a round of more samples than expected, and never lowers it after one of *)
(* fewer: no rounding, blend or clamp of update_speed_limit turns it round,*)
(* while two updates are never more than gap apart.                        *)
THEOREM LimitTowardsExpected ==
    ASSUME NEW gap \in Nat, NoProductWraps(gap)
    PROVE  LimitSpec /\ [](now - last_update <= gap) => TowardsExpected
<1>1. LimitInit => LimitInv
  BY ConstantsHold, InitLimit
<1>2. LimitInv /\ [LimitNext]_speedVars => LimitInv'
  BY ConstantsHold, LimitStep
<1> DEFINE i == now - last_update
           Towards ==
               ever_grabbed /\ round # 0 /\ round' = 0 =>
                   /\ round * Second >= Expected * i => sampling_range' <= sampling_range
                   /\ round * Second <= Expected * i => sampling_range' >= sampling_range
<1>3. LimitInv /\ i <= gap /\ [LimitNext]_speedVars => [Towards]_speedVars
  <2> SUFFICES ASSUME LimitInv, i <= gap, LimitNext, ever_grabbed, round # 0, round' = 0
               PROVE  /\ round * Second >= Expected * i => sampling_range' <= sampling_range
                      /\ round * Second <= Expected * i => sampling_range' >= sampling_range
    OBVIOUS
  <2>1. CASE Update
    BY <2>1, ConstantsHold, UpdateTowards
  <2>2. CASE ~Update
    <3>1. round \in Nat
      BY DEF LimitInv, LimitTypeOK
    <3>2. Tick \/ UpdateNothing => FALSE
      BY DEF Tick, UpdateNothing
    <3>3. ASSUME NEW t \in Threads
          PROVE  ~CountSample(t) /\ ~StampFirst(t) /\ ~TakeSample(t)
      <4>1. ~CountSample(t)
        BY Zenon DEF CountSample
      <4>2. ~StampFirst(t) /\ ~TakeSample(t)
        <5>1. round' # round + 1
          BY <3>1
        <5> QED
          BY <5>1, Zenon DEF StampFirst, TakeSample
      <4> QED
        BY <4>1, <4>2
    <3> QED
      BY <2>2, <3>2, <3>3 DEF LimitNext
  <2> QED
    BY <2>1, <2>2
<1> QED
  BY <1>1, <1>2, <1>3, PTL DEF LimitSpec, TowardsExpected
============================================================================
