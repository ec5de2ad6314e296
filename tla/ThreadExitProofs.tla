-------------------------- MODULE ThreadExitProofs --------------------------
(***************************************************************************)
(* Proofs about the functions a thread runs when it ends, for any          *)
(* functions and any number of them: each registration is run once at      *)
(* most, the last of one helper first, and a thread that returns leaves    *)
(* none behind.                                                            *)
(***************************************************************************)
EXTENDS ThreadExit, SequenceTheorems, TLAPS

Types ==
    /\ fns \in Seq(Registration) /\ dying \in Seq(Registration)
    /\ ran \in Seq(Registration)
    /\ cancelled \subseteq Registration
    /\ helper \in BOOLEAN /\ inside \in BOOLEAN
    /\ ending \in {"no", "thread", "process"}
    /\ round \in Nat
    /\ calls \in Nat
    /\ ~helper => fns = << >>

Increasing(s) == \A i, j \in 1 .. Len(s) : i < j => s[i].no < s[j].no

(* The registrations of the helper being destroyed come before those of    *)
(* the next one, and both are numbered in the order they stand in.         *)
InOrder ==
    /\ Increasing(fns) /\ Increasing(dying)
    /\ \A i \in 1 .. Len(dying), j \in 1 .. Len(fns) : dying[i].no < fns[j].no
    /\ \A j \in 1 .. Len(fns) : fns[j].no <= calls
    /\ \A j \in 1 .. Len(dying) : dying[j].no <= calls
    /\ \A j \in 1 .. Len(ran) : ran[j].no <= calls

(* What has been run is in no helper any more. *)
RunIsGone ==
    \A i \in 1 .. Len(ran) :
        /\ \A j \in 1 .. Len(fns) : ran[i].no # fns[j].no
        /\ \A j \in 1 .. Len(dying) : ran[i].no # dying[j].no

(* A registration is in a helper until it is run or cancelled. *)
Somewhere(n) ==
    \/ \E i \in 1 .. Len(ran) : ran[i].no = n
    \/ \E r \in cancelled : r.no = n
    \/ \E i \in 1 .. Len(fns) : fns[i].no = n
    \/ \E i \in 1 .. Len(dying) : dying[i].no = n

NoneForgotten == \A n \in 1 .. calls : Somewhere(n)

TInv == Types /\ InOrder /\ RunIsGone /\ RunOnce /\ RunInReverse /\ NoneForgotten

LEMMA InitTInv == Init => TInv
<1> SUFFICES ASSUME Init PROVE TInv
  OBVIOUS
<1>1. << >> \in Seq(Registration) /\ Len(<< >>) = 0
  BY EmptySeq
<1>2. /\ fns = << >> /\ dying = << >> /\ ran = << >> /\ calls = 0
      /\ 1 .. Len(fns) = {} /\ 1 .. Len(dying) = {} /\ 1 .. Len(ran) = {}
  BY <1>1 DEF Init
<1>3. Types
  BY <1>1 DEF Init, Types
<1>4. InOrder /\ RunIsGone /\ RunOnce /\ RunInReverse
  BY <1>2 DEF InOrder, Increasing, RunIsGone, RunOnce, RunInReverse, LastInFirstOut
<1>5. NoneForgotten
  BY <1>2 DEF NoneForgotten
<1> QED
  BY <1>3, <1>4, <1>5 DEF TInv

-----------------------------------------------------------------------------
LEMMA Numbered ==
    ASSUME NEW s \in Seq(Registration)
    PROVE  /\ Len(s) \in Nat /\ DOMAIN s = 1 .. Len(s)
           /\ \A i \in 1 .. Len(s) : s[i] \in Registration /\ s[i].no \in Nat
<1>1. \A i \in 1 .. Len(s) : s[i] \in Registration
  BY ElementOfSeq
<1> QED
  BY <1>1, LenProperties DEF Registration

(* What an erased run leaves: its elements were there, in the same order. *)
LEMMA Erased ==
    ASSUME NEW s \in Seq(Registration), NEW a \in 1 .. Len(s), NEW b \in a .. Len(s)
    PROVE  LET t == SubSeq(s, 1, a - 1) \o SubSeq(s, b + 1, Len(s)) IN
           /\ t \in Seq(Registration)
           /\ Len(t) = (a - 1) + (Len(s) - b)
           /\ \A i \in 1 .. Len(t) : t[i] = IF i < a THEN s[i] ELSE s[i + (b - a) + 1]
<1>1. /\ Len(s) \in Nat /\ a \in Nat /\ b \in Nat
      /\ \A i \in 1 .. Len(s) : s[i] \in Registration
  BY LenProperties, ElementOfSeq
<1>2. /\ SubSeq(s, 1, a - 1) \in Seq(Registration)
      /\ Len(SubSeq(s, 1, a - 1)) = a - 1
      /\ \A i \in 1 .. (a - 1) : SubSeq(s, 1, a - 1)[i] = s[i]
  <2>1. \A i \in 1 .. (a - 1) : s[i] \in Registration
    BY <1>1
  <2>2. 1 \in Int /\ a - 1 \in Int
    BY <1>1
  <2>3. /\ SubSeq(s, 1, a - 1) \in Seq(Registration)
        /\ Len(SubSeq(s, 1, a - 1)) = IF 1 <= a - 1 THEN (a - 1) - 1 + 1 ELSE 0
        /\ \A i \in 1 .. ((a - 1) - 1 + 1) : SubSeq(s, 1, a - 1)[i] = s[1 + i - 1]
    BY <2>1, <2>2, SubSeqProperties
  <2> QED
    BY <1>1, <2>3
<1>3. /\ SubSeq(s, b + 1, Len(s)) \in Seq(Registration)
      /\ Len(SubSeq(s, b + 1, Len(s))) = Len(s) - b
      /\ \A i \in 1 .. (Len(s) - b) : SubSeq(s, b + 1, Len(s))[i] = s[b + i]
  <2>1. \A i \in (b + 1) .. Len(s) : s[i] \in Registration
    BY <1>1
  <2>2. b + 1 \in Int /\ Len(s) \in Int
    BY <1>1
  <2>3. /\ SubSeq(s, b + 1, Len(s)) \in Seq(Registration)
        /\ Len(SubSeq(s, b + 1, Len(s)))
               = IF b + 1 <= Len(s) THEN Len(s) - (b + 1) + 1 ELSE 0
        /\ \A i \in 1 .. (Len(s) - (b + 1) + 1) :
              SubSeq(s, b + 1, Len(s))[i] = s[(b + 1) + i - 1]
    BY <2>1, <2>2, SubSeqProperties
  <2> QED
    BY <1>1, <2>3
<1> DEFINE p == SubSeq(s, 1, a - 1)
           q == SubSeq(s, b + 1, Len(s))
           t == p \o q
<1>4. /\ p \o q \in Seq(Registration)
      /\ Len(p \o q) = Len(p) + Len(q)
      /\ \A i \in 1 .. Len(p) + Len(q) :
            (p \o q)[i] = IF i <= Len(p) THEN p[i] ELSE q[i - Len(p)]
  BY <1>2, <1>3, ConcatProperties
<1>5. Len(p) = a - 1 /\ Len(q) = Len(s) - b
  BY <1>2, <1>3
<1>6. \A i \in 1 .. Len(t) : t[i] = IF i < a THEN s[i] ELSE s[i + (b - a) + 1]
  <2> SUFFICES ASSUME NEW i \in 1 .. Len(t)
               PROVE  t[i] = IF i < a THEN s[i] ELSE s[i + (b - a) + 1]
    OBVIOUS
  <2>1. i \in 1 .. ((a - 1) + (Len(s) - b))
    BY <1>4, <1>5
  <2>2. CASE i < a
    <3>1. i \in 1 .. (a - 1) /\ i <= Len(p)
      BY <1>1, <1>5, <2>1, <2>2
    <3> QED
      BY <1>2, <1>4, <1>5, <2>1, <2>2, <3>1
  <2>3. CASE ~(i < a)
    <3>1. /\ i - (a - 1) \in 1 .. (Len(s) - b)
          /\ ~(i <= Len(p))
          /\ b + (i - (a - 1)) = i + (b - a) + 1
      BY <1>1, <1>5, <2>1, <2>3
    <3>2. t[i] = q[i - (a - 1)]
      BY <1>4, <1>5, <2>1, <3>1
    <3> QED
      BY <1>3, <2>3, <3>1, <3>2
  <2> QED
    BY <2>2, <2>3
<1> QED
  BY <1>4, <1>5, <1>6

-----------------------------------------------------------------------------
LEMMA AtExitKeeps == ASSUME TInv, NEW f \in Functions, AtExit(f)
                     PROVE  TInv'
<1> DEFINE r == [fn |-> f, no |-> calls + 1]
<1>1. /\ r \in Registration /\ r.no = calls + 1 /\ calls \in Nat
      /\ calls' = calls + 1 /\ fns' = Append(fns, r)
      /\ UNCHANGED <<dying, ending, round, inside, cancelled, ran>>
      /\ helper' = TRUE
  BY DEF AtExit, Registration, TInv, Types
<1>2. /\ fns' \in Seq(Registration)
      /\ Len(fns') = Len(fns) + 1
      /\ \A i \in 1 .. Len(fns) : fns'[i] = fns[i]
      /\ fns'[Len(fns) + 1] = r
  BY <1>1, AppendProperties DEF TInv, Types
<1>3. /\ Len(fns) \in Nat /\ Len(dying) \in Nat /\ Len(ran) \in Nat
      /\ \A i \in 1 .. Len(fns) : fns[i].no \in Nat
      /\ \A i \in 1 .. Len(dying) : dying[i].no \in Nat
      /\ \A i \in 1 .. Len(ran) : ran[i].no \in Nat
  BY Numbered DEF TInv, Types
<1>4. Types'
  BY <1>1, <1>2 DEF TInv, Types
<1>5. \A i \in 1 .. Len(fns') : i \in 1 .. Len(fns) \/ i = Len(fns) + 1
  BY <1>2, <1>3
<1>6. InOrder'
  <2>1. Increasing(fns)'
    BY <1>1, <1>2, <1>3, <1>5 DEF TInv, InOrder, Increasing
  <2>2. Increasing(dying)'
    BY <1>1 DEF TInv, InOrder, Increasing
  <2>3. /\ \A i \in 1 .. Len(dying') : dying'[i].no <= calls
        /\ \A i \in 1 .. Len(fns) : fns[i].no <= calls
        /\ \A i \in 1 .. Len(ran') : ran'[i].no <= calls
        /\ \A i \in 1 .. Len(dying), j \in 1 .. Len(fns) : dying[i].no < fns[j].no
    BY <1>1 DEF TInv, InOrder
  <2>4. \A j \in 1 .. Len(fns') : /\ fns'[j].no <= calls'
                                 /\ \A i \in 1 .. Len(dying') : dying'[i].no < fns'[j].no
    <3> SUFFICES ASSUME NEW j \in 1 .. Len(fns')
                 PROVE  /\ fns'[j].no <= calls'
                        /\ \A i \in 1 .. Len(dying') : dying'[i].no < fns'[j].no
      OBVIOUS
    <3>1. CASE j \in 1 .. Len(fns)
      BY <1>1, <1>2, <1>3, <2>3, <3>1
    <3>2. CASE j = Len(fns) + 1
      BY <1>1, <1>2, <1>3, <2>3, <3>2
    <3> QED
      BY <1>5, <3>1, <3>2
  <2>5. /\ \A j \in 1 .. Len(dying') : dying'[j].no <= calls'
        /\ \A j \in 1 .. Len(ran') : ran'[j].no <= calls'
    BY <1>1, <1>3, <2>3
  <2> QED
    BY <2>1, <2>2, <2>4, <2>5 DEF InOrder
<1>7. RunIsGone'
  BY <1>1, <1>2, <1>3, <1>5 DEF TInv, InOrder, RunIsGone
<1>8. RunOnce' /\ RunInReverse'
  BY <1>1 DEF TInv, RunOnce, RunInReverse, LastInFirstOut, Last
<1>9. NoneForgotten'
  <2> SUFFICES ASSUME NEW n \in 1 .. calls' PROVE Somewhere(n)'
    BY DEF NoneForgotten
  <2>1. CASE n = calls + 1
    <3>1. Len(fns) + 1 \in 1 .. Len(fns') /\ fns'[Len(fns) + 1].no = n
      BY <1>1, <1>2, <1>3, <2>1
    <3> QED
      BY <3>1 DEF Somewhere
  <2>2. CASE n # calls + 1
    <3>1. n \in 1 .. calls
      BY <1>1, <2>2
    <3>2. Somewhere(n)
      BY <3>1 DEF TInv, NoneForgotten
    <3>3. \A i \in 1 .. Len(fns) : i \in 1 .. Len(fns') /\ fns'[i].no = fns[i].no
      BY <1>2, <1>3
    <3> QED
      BY <1>1, <3>2, <3>3 DEF Somewhere
  <2> QED
    BY <2>1, <2>2
<1> QED
  BY <1>4, <1>6, <1>7, <1>8, <1>9 DEF TInv

LEMMA CancelKeeps == ASSUME TInv, NEW f \in Functions, Cancel(f)
                     PROVE  TInv'
<1>1. PICK a \in 1 .. Len(fns) : \E b \in a .. Len(fns) :
          /\ FirstRun(f, a, b)
          /\ fns' = SubSeq(fns, 1, a - 1) \o SubSeq(fns, b + 1, Len(fns))
  BY DEF Cancel
<1>2. PICK b \in a .. Len(fns) :
          /\ FirstRun(f, a, b)
          /\ fns' = SubSeq(fns, 1, a - 1) \o SubSeq(fns, b + 1, Len(fns))
  BY <1>1
<1>3. /\ UNCHANGED <<helper, dying, ending, round, inside, calls, ran>>
      /\ cancelled' = cancelled \cup {r \in ToSet(fns) : r.fn = f}
  BY DEF Cancel
<1>4. /\ fns' \in Seq(Registration)
      /\ Len(fns') = (a - 1) + (Len(fns) - b)
      /\ \A i \in 1 .. Len(fns') :
            fns'[i] = IF i < a THEN fns[i] ELSE fns[i + (b - a) + 1]
  BY <1>2, Erased DEF TInv, Types
<1>5. /\ Len(fns) \in Nat /\ a \in Nat /\ b \in Nat
      /\ Len(dying) \in Nat /\ Len(ran) \in Nat
      /\ \A i \in 1 .. Len(fns) : fns[i] \in Registration /\ fns[i].no \in Nat
      /\ DOMAIN fns = 1 .. Len(fns)
  BY Numbered DEF TInv, Types
<1> DEFINE was(i) == IF i < a THEN i ELSE i + (b - a) + 1
<1>6. \A i \in 1 .. Len(fns') : was(i) \in 1 .. Len(fns) /\ fns'[i] = fns[was(i)]
  <2> SUFFICES ASSUME NEW i \in 1 .. Len(fns')
               PROVE  was(i) \in 1 .. Len(fns) /\ fns'[i] = fns[was(i)]
    OBVIOUS
  <2>1. i \in 1 .. ((a - 1) + (Len(fns) - b)) /\ a <= b /\ b <= Len(fns)
    BY <1>4, <1>5
  <2>2. CASE i < a
    BY <1>4, <1>5, <2>1, <2>2
  <2>3. CASE ~(i < a)
    <3>1. was(i) = i + (b - a) + 1
      BY <2>3
    <3>2. was(i) \in 1 .. Len(fns)
      BY <1>5, <2>1, <2>3, <3>1
    <3>3. fns'[i] = fns[i + (b - a) + 1]
      BY <1>4, <2>3
    <3> QED
      BY <3>1, <3>2, <3>3
  <2> QED
    BY <2>2, <2>3
<1>7. \A i, j \in 1 .. Len(fns') : i < j => was(i) < was(j)
  BY <1>4, <1>5
<1> HIDE DEF was
<1>8. Types'
  <2>1. ToSet(fns) \subseteq Registration
    BY <1>5 DEF ToSet
  <2>2. Len(fns) # 0
    BY <1>5
  <2>3. helper
    BY <2>2, EmptySeq DEF TInv, Types
  <2> QED
    BY <1>3, <1>4, <2>1, <2>3 DEF TInv, Types
<1>9. InOrder'
  <2>1. Increasing(fns)'
    <3> SUFFICES ASSUME NEW i \in 1 .. Len(fns'), NEW j \in 1 .. Len(fns'), i < j
                 PROVE  fns'[i].no < fns'[j].no
      BY DEF Increasing
    <3>1. was(i) < was(j) /\ was(i) \in 1 .. Len(fns) /\ was(j) \in 1 .. Len(fns)
      BY <1>6, <1>7
    <3>2. fns[was(i)].no < fns[was(j)].no
      BY <3>1 DEF TInv, InOrder, Increasing
    <3> QED
      BY <1>6, <3>2
  <2>2. Increasing(dying)'
    BY <1>3 DEF TInv, InOrder, Increasing
  <2>3. \A j \in 1 .. Len(fns') : /\ fns'[j].no <= calls'
                                 /\ \A i \in 1 .. Len(dying') : dying'[i].no < fns'[j].no
    <3> SUFFICES ASSUME NEW j \in 1 .. Len(fns')
                 PROVE  /\ fns'[j].no <= calls'
                        /\ \A i \in 1 .. Len(dying') : dying'[i].no < fns'[j].no
      OBVIOUS
    <3>1. was(j) \in 1 .. Len(fns) /\ fns'[j] = fns[was(j)]
      BY <1>6
    <3> QED
      BY <1>3, <3>1 DEF TInv, InOrder
  <2> QED
    BY <1>3, <2>1, <2>2, <2>3 DEF TInv, InOrder
<1>10. RunIsGone'
  BY <1>3, <1>6 DEF TInv, RunIsGone
<1>11. RunOnce' /\ RunInReverse'
  BY <1>3 DEF TInv, RunOnce, RunInReverse, LastInFirstOut, Last
<1>12. NoneForgotten'
  <2> SUFFICES ASSUME NEW n \in 1 .. calls' PROVE Somewhere(n)'
    BY DEF NoneForgotten
  <2>1. Somewhere(n)
    BY <1>3 DEF TInv, NoneForgotten
  <2>2. ASSUME NEW k \in 1 .. Len(fns), fns[k].no = n PROVE Somewhere(n)'
    <3>1. CASE k < a
      <4>1. k \in 1 .. Len(fns') /\ fns'[k] = fns[k]
        BY <1>4, <1>5, <3>1
      <4> QED
        BY <2>2, <4>1 DEF Somewhere
    <3>2. CASE k \in a .. b
      <4>1. fns[k].fn = f /\ fns[k] \in ToSet(fns)
        BY <1>2, <1>5, <3>2 DEF FirstRun, ToSet
      <4>2. fns[k] \in cancelled'
        BY <1>3, <4>1
      <4> QED
        BY <2>2, <4>2 DEF Somewhere
    <3>3. CASE b < k
      <4> DEFINE i == k - (b - a) - 1
      <4>1. /\ i \in 1 .. ((a - 1) + (Len(fns) - b)) /\ ~(i < a)
            /\ i + (b - a) + 1 = k
        BY <1>5, <3>3
      <4>2. i \in 1 .. Len(fns')
        BY <1>4, <4>1
      <4>3. fns'[i] = fns[i + (b - a) + 1]
        BY <1>4, <4>1, <4>2
      <4>4. fns'[i] = fns[k]
        BY <4>1, <4>3
      <4> QED
        BY <2>2, <4>2, <4>4 DEF Somewhere
    <3> QED
      BY <1>5, <3>1, <3>2, <3>3
  <2> QED
    BY <1>3, <2>1, <2>2 DEF Somewhere
<1> QED
  BY <1>8, <1>9, <1>10, <1>11, <1>12 DEF TInv

LEMMA DestroyKeeps == ASSUME TInv, Destroy
                      PROVE  TInv'
<1>1. /\ dying' = fns /\ fns' = << >> /\ helper' = FALSE
      /\ round' = round + 1 /\ dying = << >> /\ ~inside
      /\ UNCHANGED <<ending, inside, calls, cancelled, ran>>
  BY DEF Destroy, history
<1>2. << >> \in Seq(Registration) /\ Len(<< >>) = 0 /\ 1 .. 0 = {}
  BY EmptySeq
<1>3. Types'
  <2>1. /\ fns' \in Seq(Registration) /\ dying' \in Seq(Registration)
        /\ ran' \in Seq(Registration) /\ cancelled' \subseteq Registration
    BY <1>1, <1>2 DEF TInv, Types
  <2>2. helper' \in BOOLEAN /\ inside' \in BOOLEAN
    BY <1>1, Zenon DEF TInv, Types
  <2>3. round' \in Nat /\ calls' \in Nat /\ ending' \in {"no", "thread", "process"}
    BY <1>1 DEF TInv, Types
  <2> QED
    BY <1>1, <2>1, <2>2, <2>3 DEF Types
<1>4. InOrder'
  BY <1>1, <1>2 DEF TInv, InOrder, Increasing
<1>5. RunIsGone'
  BY <1>1, <1>2 DEF TInv, RunIsGone
<1>6. RunOnce' /\ RunInReverse'
  BY <1>1 DEF TInv, InOrder, Increasing, RunOnce, RunInReverse, LastInFirstOut
<1>7. NoneForgotten'
  BY <1>1, <1>2 DEF TInv, NoneForgotten, Somewhere
<1> QED
  BY <1>3, <1>4, <1>5, <1>6, <1>7 DEF TInv

LEMMA RunBackKeeps == ASSUME TInv, RunBack
                      PROVE  TInv'
<1> DEFINE r == dying[Len(dying)]
           n == Len(dying)
           m == Len(ran)
<1>1. /\ ~inside /\ inside' = TRUE /\ dying # << >>
      /\ ran' = Append(ran, r) /\ dying' = SubSeq(dying, 1, n - 1)
      /\ UNCHANGED <<fns, helper, ending, round, calls, cancelled>>
  BY DEF RunBack, Last, Front
<1>2. /\ n \in Nat \ {0} /\ m \in Nat /\ Len(fns) \in Nat
      /\ n \in 1 .. n
      /\ \A i \in 1 .. n : dying[i] \in Registration /\ dying[i].no \in Nat
      /\ \A i \in 1 .. m : ran[i].no \in Nat
      /\ \A i \in 1 .. Len(fns) : fns[i].no \in Nat
  <2>1. n \in Nat \ {0}
    BY <1>1, EmptySeq DEF TInv, Types
  <2> QED
    BY <2>1, Numbered DEF TInv, Types
<1>3. /\ ran' \in Seq(Registration) /\ Len(ran') = m + 1
      /\ \A i \in 1 .. m : ran'[i] = ran[i]
      /\ ran'[m + 1] = r
  BY <1>1, <1>2, AppendProperties DEF TInv, Types
<1>4. /\ dying' \in Seq(Registration) /\ Len(dying') = n - 1
      /\ \A i \in 1 .. (n - 1) : dying'[i] = dying[i]
  <2>1. 1 \in Int /\ n - 1 \in Int /\ \A i \in 1 .. (n - 1) : dying[i] \in Registration
    BY <1>2
  <2>2. /\ SubSeq(dying, 1, n - 1) \in Seq(Registration)
        /\ Len(SubSeq(dying, 1, n - 1)) = IF 1 <= n - 1 THEN (n - 1) - 1 + 1 ELSE 0
        /\ \A i \in 1 .. ((n - 1) - 1 + 1) :
              SubSeq(dying, 1, n - 1)[i] = dying[1 + i - 1]
    BY <2>1, SubSeqProperties
  <2>3. Len(SubSeq(dying, 1, n - 1)) = n - 1
    <3> DEFINE k == Len(SubSeq(dying, 1, n - 1))
    <3>1. n \in Nat \ {0} /\ k = IF 1 <= n - 1 THEN (n - 1) - 1 + 1 ELSE 0
      BY <1>2, <2>2
    <3> HIDE DEF k, n
    <3>2. k = n - 1
      BY <3>1
    <3> QED
      BY <3>2 DEF k
  <2>4. ASSUME NEW i \in 1 .. (n - 1) PROVE SubSeq(dying, 1, n - 1)[i] = dying[i]
    <3>1. i \in 1 .. ((n - 1) - 1 + 1) /\ 1 + i - 1 = i
      BY <1>2
    <3> QED
      BY <2>2, <3>1
  <2> QED
    BY <1>1, <2>2, <2>3, <2>4
<1>5. /\ \A i \in 1 .. Len(ran') : i \in 1 .. m \/ i = m + 1
      /\ \A i \in 1 .. Len(dying') : i \in 1 .. n /\ i < n /\ dying'[i] = dying[i]
      /\ \A i \in 1 .. n : i \in 1 .. Len(dying') \/ i = n
  BY <1>2, <1>3, <1>4
<1>6. Types'
  BY <1>1, <1>3, <1>4 DEF TInv, Types
<1>7. InOrder'
  <2>1. Increasing(fns)'
    BY <1>1 DEF TInv, InOrder, Increasing
  <2>2. Increasing(dying)'
    BY <1>5 DEF TInv, InOrder, Increasing
  <2>3. \A j \in 1 .. Len(ran') : ran'[j].no <= calls'
    BY <1>1, <1>2, <1>3, <1>5 DEF TInv, InOrder
  <2> QED
    BY <1>1, <1>5, <2>1, <2>2, <2>3 DEF TInv, InOrder
<1>8. RunIsGone'
  <2> SUFFICES ASSUME NEW i \in 1 .. Len(ran')
               PROVE  /\ \A j \in 1 .. Len(fns) : ran'[i].no # fns[j].no
                      /\ \A j \in 1 .. Len(dying') : ran'[i].no # dying'[j].no
    BY <1>1 DEF RunIsGone
  <2>1. CASE i \in 1 .. m
    BY <1>3, <1>5, <2>1 DEF TInv, RunIsGone
  <2>2. CASE i = m + 1
    <3>1. \A j \in 1 .. Len(fns) : r.no < fns[j].no
      BY <1>2 DEF TInv, InOrder
    <3>2. \A j \in 1 .. Len(dying') : dying'[j].no < r.no
      BY <1>2, <1>5 DEF TInv, InOrder, Increasing
    <3> QED
      BY <1>2, <1>3, <1>5, <2>2, <3>1, <3>2
  <2> QED
    BY <1>5, <2>1, <2>2
<1>9. RunOnce'
  <2>1. \A i \in 1 .. m : ran[i].no # r.no
    BY <1>2 DEF TInv, RunIsGone
  <2> QED
    BY <1>3, <1>5, <2>1 DEF TInv, RunOnce
<1>10. RunInReverse'
  <2>1. LastInFirstOut'
    BY <1>5 DEF TInv, RunInReverse, LastInFirstOut
  <2>2. ASSUME dying' # << >> PROVE ran'[Len(ran')].no > dying'[Len(dying')].no
    <3>1. Len(dying') # 0
      BY <1>4, <2>2, EmptySeq
    <3>2. Len(dying') \in 1 .. Len(dying')
      BY <1>2, <1>4, <3>1
    <3>3. dying'[Len(dying')].no < r.no
      BY <1>2, <1>5, <3>2 DEF TInv, InOrder, Increasing
    <3> QED
      BY <1>2, <1>3, <1>5, <3>2, <3>3
  <2> QED
    BY <2>1, <2>2 DEF RunInReverse, Last
<1>11. NoneForgotten'
  <2> SUFFICES ASSUME NEW k \in 1 .. calls PROVE Somewhere(k)'
    BY <1>1 DEF NoneForgotten
  <2>1. Somewhere(k)
    BY DEF TInv, NoneForgotten
  <2>2. ASSUME NEW i \in 1 .. m, ran[i].no = k PROVE Somewhere(k)'
    <3>1. i \in 1 .. Len(ran') /\ ran'[i].no = k
      BY <1>2, <1>3, <2>2
    <3> QED
      BY <3>1 DEF Somewhere
  <2>3. ASSUME NEW i \in 1 .. n, dying[i].no = k PROVE Somewhere(k)'
    <3>1. CASE i = n
      <4>1. m + 1 \in 1 .. Len(ran') /\ ran'[m + 1].no = k
        BY <1>2, <1>3, <2>3, <3>1
      <4> QED
        BY <4>1 DEF Somewhere
    <3>2. CASE i \in 1 .. Len(dying')
      BY <1>5, <2>3, <3>2 DEF Somewhere
    <3> QED
      BY <1>5, <3>1, <3>2
  <2> QED
    BY <1>1, <2>1, <2>2, <2>3 DEF Somewhere
<1> QED
  BY <1>6, <1>7, <1>8, <1>9, <1>10, <1>11 DEF TInv

LEMMA OtherKeeps ==
    ASSUME TInv,
           \/ Return \/ UNCHANGED vars
           \/ \E how \in {"thread", "process"} : End(how)
    PROVE  TInv'
<1>1. /\ UNCHANGED <<fns, helper, dying, round, calls, cancelled, ran>>
      /\ ending' \in {"no", "thread", "process"}
      /\ inside' \in BOOLEAN /\ (inside' => inside)
  <2>1. CASE Return
    <3>1. UNCHANGED <<fns, helper, dying, ending, round, history>> /\ inside' = FALSE
      BY <2>1 DEF Return
    <3> QED
      BY <3>1, Zenon DEF history, TInv, Types
  <2>2. ASSUME NEW how \in {"thread", "process"}, End(how)
        PROVE  /\ UNCHANGED <<fns, helper, dying, round, inside, history>>
               /\ ending' \in {"no", "thread", "process"}
    BY <2>2 DEF End
  <2>3. CASE \E how \in {"thread", "process"} : End(how)
    BY <2>2, <2>3, Zenon DEF history, TInv, Types
  <2>4. CASE UNCHANGED vars
    BY <2>4, Zenon DEF vars, TInv, Types
  <2> QED
    BY <2>1, <2>3, <2>4
<1>2. Types' /\ InOrder' /\ RunIsGone' /\ NoneForgotten'
  BY <1>1 DEF TInv, Types, InOrder, Increasing, RunIsGone, NoneForgotten, Somewhere
<1>3. RunOnce' /\ RunInReverse'
  BY <1>1 DEF TInv, RunOnce, RunInReverse, LastInFirstOut, Last
<1> QED
  BY <1>2, <1>3 DEF TInv

LEMMA Inductive == Spec => []TInv
<1>1. TInv /\ [Next]_vars => TInv'
  BY AtExitKeeps, CancelKeeps, DestroyKeeps, RunBackKeeps, OtherKeeps DEF Next
<1> QED
  BY <1>1, InitTInv, PTL DEF Spec

(* However functions register and cancel others while they run, none is    *)
(* called twice for one registration.                                      *)
THEOREM NoneRunTwice == Spec => []RunOnce
<1>1. TInv => RunOnce
  BY DEF TInv
<1> QED
  BY <1>1, Inductive, PTL

(* ~ThreadExitHelper runs the last registered function of its vector first,*)
(* whatever has been cancelled before.                                     *)
THEOREM LastRunsFirst == Spec => []RunInReverse
<1>1. TInv => RunInReverse
  BY DEF TInv
<1> QED
  BY <1>1, Inductive, PTL

(* A thread that has returned has run what was registered and not          *)
(* cancelled, unless the destructor of its key was called Rounds times.    *)
THEOREM ReturnLeavesNone == Spec => []AllRun
<1>1. TInv => AllRun
  <2> SUFFICES ASSUME TInv, ~inside, dying = << >>, ~helper \/ round = Rounds,
                      NEW n \in 1 .. calls
               PROVE  \/ \E r \in ToSet(ran) \cup cancelled : r.no = n
                      \/ round = Rounds /\ \E r \in ToSet(fns) : r.no = n
    BY DEF AllRun
  <2>1. /\ DOMAIN ran = 1 .. Len(ran) /\ DOMAIN fns = 1 .. Len(fns)
        /\ 1 .. Len(dying) = {}
    BY Numbered, EmptySeq DEF TInv, Types
  <2>2. CASE \E i \in 1 .. Len(ran) : ran[i].no = n
    BY <2>1, <2>2 DEF ToSet
  <2>3. CASE \E r \in cancelled : r.no = n
    BY <2>3
  <2>4. ASSUME NEW i \in 1 .. Len(fns), fns[i].no = n
        PROVE  round = Rounds /\ \E r \in ToSet(fns) : r.no = n
    <3>1. fns[i] \in ToSet(fns)
      BY <2>1 DEF ToSet
    <3>2. Len(fns) # 0
      BY Numbered DEF TInv, Types
    <3>3. helper
      BY <3>2, EmptySeq DEF TInv, Types
    <3> QED
      BY <2>4, <3>1, <3>3
  <2> QED
    BY <2>1, <2>2, <2>3, <2>4 DEF TInv, NoneForgotten, Somewhere
<1> QED
  BY <1>1, Inductive, PTL
=============================================================================
