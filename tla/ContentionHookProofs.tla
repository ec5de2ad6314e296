------------------------ MODULE ContentionHookProofs ------------------------
(***************************************************************************)
(* Proofs about the hooked lock and unlock, for any number of threads,     *)
(* mutexes and sessions, any size of the thread-local list, and any hash   *)
(* of the mutexes to the slots of g_mutex_map.                             *)
(***************************************************************************)
EXTENDS ContentionHook, SequenceTheorems, TLAPS

(* Where the thread has a list entry or a slot to make or to use up.       *)
BeforeLock == {"prepare", "waitraw", "waittls", "waitmap"}
Adding == {"addload", "addcas", "duration", "range"}
Removing == {"copyduration", "copyrange", "invalidate", "clear", "release"}
Calls == BeforeLock \cup Adding \cup Removing

(* A call works for one mutex, which its thread waits for or holds.        *)
CallOfMutex(t) ==
    /\ pc[t] \in Calls => arg[t] \in Mutexes
    /\ pc[t] \in BeforeLock => holder[arg[t]] # t
    /\ pc[t] \in Adding \cup Removing => holder[arg[t]] = t

CallsMutex == \A t \in Threads : CallOfMutex(t)

(* A call that records the wait has a range to divide by.                  *)
RangeOf(t) == pc[t] \in {"waittls", "waitmap"} \cup Adding => range[t] = 1

HasRange == \A t \in Threads : RangeOf(t)

(* A list is never ahead of the session; a call that goes to fill an entry *)
(* in finds it last, and one that has gone to the table has none.          *)
ListInOrder(t) ==
    LET l == tls[t].list IN
    /\ tls[t].cp_version <= g_cp_version
    /\ pc[t] = "waittls" => Len(l) > 0 /\ l[Len(l)].mutex = arg[t]
    /\ pc[t] \in Removing => \A i \in 1 .. Len(l) : l[i].mutex # arg[t]

ListsInOrder == \A t \in Threads : ListInOrder(t)

Current(t) == g_cp /\ ~starting /\ tls[t].cp_version = g_cp_version

(* Once a session is under way, a mutex is in a list of it once, and is    *)
(* one its thread holds, or waits for (ListIsOfThisSession).               *)
Distinct(t) ==
    \A i, j \in 1 .. Len(tls[t].list) :
        tls[t].list[i].mutex = tls[t].list[j].mutex => i = j

EntriesDistinct == \A t \in Threads : Current(t) => Distinct(t)

ListedHeld(t) ==
    \A i \in 1 .. Len(tls[t].list) :
        \/ holder[tls[t].list[i].mutex] = t
        \/ pc[t] \in {"waitraw", "waittls"} /\ tls[t].list[i].mutex = arg[t]

AllListedHeld == \A t \in Threads : Current(t) => ListedHeld(t)

(* In every session. *)
SessionInv ==
    /\ TypeOK /\ CallsMutex /\ HasRange /\ ListsInOrder
    /\ EntriesDistinct /\ AllListedHeld

(* An exchange that found the slot in use by nobody. *)
LooksForEmpty(t) ==
    pc[t] = "addcas" => expected[t] = <<Empty, <<1, arg[t]>> >>

(* Who writes a slot, or reads it in parts, has it for the mutex it holds. *)
Uses == {"duration", "range", "copyduration", "copyrange", "invalidate", "clear"}

HasSlot(t) ==
    /\ pc[t] \in Uses => versioned_mutex[Slot(arg[t])] = <<1, arg[t]>>
    /\ pc[t] = "range" => csite[Slot(arg[t])].duration = <<t, arg[t]>>
    /\ pc[t] \in {"copyduration", "copyrange"} =>
           csite[Slot(arg[t])] = SiteOf(t, arg[t], 1)
    /\ pc[t] = "release" => ~IsFor(versioned_mutex[Slot(arg[t])], arg[t])

(* What has been copied from the slot, or taken from the list, so far.     *)
HasCopied(t) ==
    /\ pc[t] = "copyrange" => saved[t].duration = <<t, arg[t]>>
    /\ pc[t] \in {"invalidate", "clear", "release", "submit"} =>
           saved[t] = SiteOf(t, arg[t], 1)

(* A list has nothing of another session; with the hooks on, its sites are *)
(* unset or of the hold under way, and it has no entry for a mutex whose   *)
(* site goes to the table.                                                 *)
ListOfHolds(t) ==
    /\ tls[t].cp_version # 1 => Len(tls[t].list) = 0
    /\ g_cp => \A i \in 1 .. Len(tls[t].list) :
          /\ tls[t].list[i].csite.sampling_range # 0 =>
                 tls[t].list[i].csite = SiteOf(t, tls[t].list[i].mutex, 1)
          /\ pc[t] \in Adding => tls[t].list[i].mutex # arg[t]

FirstOf(t) ==
    LooksForEmpty(t) /\ HasSlot(t) /\ HasCopied(t) /\ ListOfHolds(t)

(* With the hooks on, a slot in use is for a mutex that hashes to it, and  *)
(* has the site of the hold under way; the holder has no entry of it.      *)
SlotOfHold(i) ==
    LET m == versioned_mutex[i][2]
        u == holder[m]
    IN  /\ Slot(m) = i /\ u \in Threads
        /\ \A k \in 1 .. Len(tls[u].list) : tls[u].list[k].mutex # m
        /\ \/ csite[i] = SiteOf(u, m, 1)
           \/ arg[u] = m /\ pc[u] \in {"duration", "range", "clear"}

SlotOK(i) ==
    versioned_mutex[i] # Empty =>
        versioned_mutex[i][1] = 1 /\ (g_cp => SlotOfHold(i))

(* In a session begun before any lock is taken. *)
FirstInv ==
    /\ g_cp_version > 0
    /\ FirstSession => /\ \A t \in Threads : FirstOf(t)
                       /\ \A i \in Slots : SlotOK(i)

-----------------------------------------------------------------------------
(* Sites and lists of them. *)
LEMMA SiteTypes ==
    ASSUME NEW t \in Threads, NEW m \in Mutexes
    PROVE  /\ <<t, m>> \in Holds /\ <<t, m>> # NoHold
           /\ Unset \in Sites /\ Unset.sampling_range = 0
           /\ \A r \in Ranges : SiteOf(t, m, r) \in Sites
BY NullAssumption DEF Holds, Unset, Sites, SiteOf, Ranges

(* Forgetting a hold keeps a site one, and leaves a site of another alone. *)
LEMMA ForgetSite ==
    ASSUME NEW cs \in Sites, NEW h
    PROVE  /\ Forget(cs, h) \in Sites
           /\ Forget(cs, h).sampling_range = cs.sampling_range
           /\ cs.duration # h => Forget(cs, h).duration = cs.duration
           /\ cs.duration # h /\ cs.range_of # h => Forget(cs, h) = cs
BY DEF Forget, Sites

LEMMA ForgetList ==
    ASSUME NEW l \in Seq(Entries), NEW h
    PROVE  LET f == ForgetTls(l, h) IN
           /\ f \in Seq(Entries) /\ Len(f) = Len(l)
           /\ \A i \in 1 .. Len(l) :
                 f[i].mutex = l[i].mutex /\ f[i].csite = Forget(l[i].csite, h)
<1> DEFINE f == ForgetTls(l, h)
<1>1. DOMAIN l = 1 .. Len(l) /\ Len(l) \in Nat
      /\ \A i \in 1 .. Len(l) : l[i] \in Entries
  BY LenProperties, ElementOfSeq
<1>2. \A i \in 1 .. Len(l) :
         /\ f[i] = [l[i] EXCEPT !.csite = Forget(l[i].csite, h)]
         /\ f[i] \in Entries
         /\ f[i].mutex = l[i].mutex /\ f[i].csite = Forget(l[i].csite, h)
  BY <1>1, ForgetSite DEF ForgetTls, Entries
<1>3. f \in [1 .. Len(l) -> Entries]
  BY <1>1, <1>2 DEF ForgetTls
<1>4. f \in Seq(Entries) /\ Len(f) = Len(l)
  BY <1>1, <1>3, IsASeq, LenProperties
<1> QED
  BY <1>2, <1>4

LEMMA SwapRemoved ==
    ASSUME NEW l \in Seq(Entries), NEW i \in 1 .. Len(l)
    PROVE  LET s == SwapRemove(l, i) IN
           /\ s \in Seq(Entries) /\ Len(s) = Len(l) - 1
           /\ \A j \in 1 .. Len(l) - 1 :
                 s[j] = IF j = i THEN l[Len(l)] ELSE l[j]
<1> DEFINE n == Len(l)
           x == [l EXCEPT ![i] = l[n]]
<1>1. n \in Nat /\ n # 0 /\ \A j \in 1 .. n : l[j] \in Entries
  BY LenProperties, ElementOfSeq
<1>2. \A j \in 1 .. n - 1 : x[j] = IF j = i THEN l[n] ELSE l[j]
  BY <1>1, LenProperties
<1>3. \A j \in 1 .. n - 1 : x[j] \in Entries
  BY <1>1, <1>2
<1>4. SwapRemove(l, i) = SubSeq(x, 1, n - 1)
  BY DEF SwapRemove
<1> HIDE DEF x
<1>5. /\ SubSeq(x, 1, n - 1) \in Seq(Entries)
      /\ Len(SubSeq(x, 1, n - 1)) = n - 1
      /\ \A j \in 1 .. n - 1 : SubSeq(x, 1, n - 1)[j] = x[j]
  <2> DEFINE k == n - 1
  <2>1. k \in Int /\ k >= 0 /\ \A j \in 1 .. k : x[j] \in Entries
    BY <1>1, <1>3
  <2> HIDE DEF k
  <2>2. /\ SubSeq(x, 1, k) \in Seq(Entries)
        /\ Len(SubSeq(x, 1, k)) = IF 1 <= k THEN k - 1 + 1 ELSE 0
        /\ \A j \in 1 .. k - 1 + 1 : SubSeq(x, 1, k)[j] = x[1 + j - 1]
    BY <2>1, SubSeqProperties
  <2>3. /\ Len(SubSeq(x, 1, k)) = k
        /\ \A j \in 1 .. k : SubSeq(x, 1, k)[j] = x[j]
    BY <2>1, <2>2
  <2> QED
    BY <2>2, <2>3 DEF k
<1> QED
  BY <1>2, <1>4, <1>5

LEMMA Filled ==
    ASSUME NEW l \in Seq(Entries), Len(l) > 0, NEW cs \in Sites
    PROVE  LET f == [l EXCEPT ![Len(l)].csite = cs] IN
           /\ f \in Seq(Entries) /\ Len(f) = Len(l)
           /\ \A i \in 1 .. Len(l) :
                 /\ f[i].mutex = l[i].mutex
                 /\ f[i].csite = IF i = Len(l) THEN cs ELSE l[i].csite
<1> DEFINE f == [l EXCEPT ![Len(l)].csite = cs]
<1>1. DOMAIN l = 1 .. Len(l) /\ Len(l) \in Nat
      /\ \A i \in 1 .. Len(l) : l[i] \in Entries
  BY LenProperties, ElementOfSeq
<1>2. \A i \in 1 .. Len(l) :
         f[i] = IF i = Len(l) THEN [l[i] EXCEPT !.csite = cs] ELSE l[i]
  BY <1>1
<1>3. \A i \in 1 .. Len(l) :
         /\ f[i] \in Entries /\ f[i].mutex = l[i].mutex
         /\ f[i].csite = IF i = Len(l) THEN cs ELSE l[i].csite
  BY <1>1, <1>2 DEF Entries
<1>4. f \in [1 .. Len(l) -> Entries]
  BY <1>1, <1>3
<1>5. f \in Seq(Entries) /\ Len(f) = Len(l)
  BY <1>1, <1>4, IsASeq, LenProperties
<1> QED
  BY <1>3, <1>5

-----------------------------------------------------------------------------
(* What the steps that change a list do to it. *)
ListOf(t) == tls[t].list

LEMMA ListTypes ==
    ASSUME TypeOK, NEW t \in Threads
    PROVE  /\ tls[t] \in [cp_version : Nat, list : Seq(Entries)]
           /\ tls[t].list \in Seq(Entries) /\ tls[t].cp_version \in Nat
           /\ Len(tls[t].list) \in Nat /\ Len(tls[t].list) <= TlsMax
           /\ DOMAIN tls[t].list = 1 .. Len(tls[t].list)
           /\ \A i \in 1 .. Len(tls[t].list) :
                 /\ tls[t].list[i] \in Entries
                 /\ tls[t].list[i].mutex \in Mutexes
                 /\ tls[t].list[i].csite \in Sites
<1>1. /\ tls[t] \in [cp_version : Nat, list : Seq(Entries)]
      /\ Len(tls[t].list) <= TlsMax
  BY DEF TypeOK
<1>2. tls[t].list \in Seq(Entries) /\ tls[t].cp_version \in Nat
  BY <1>1
<1>3. Len(tls[t].list) \in Nat /\ DOMAIN tls[t].list = 1 .. Len(tls[t].list)
      /\ \A i \in 1 .. Len(tls[t].list) : tls[t].list[i] \in Entries
  BY <1>2, LenProperties, ElementOfSeq
<1> QED
  BY <1>1, <1>2, <1>3 DEF Entries

(* Only the thread itself changes its list. *)
LEMMA OthersKeepLists ==
    ASSUME TypeOK, NEW t \in Threads, NEW u \in Threads, u # t,
           LockStep(t) \/ UnlockStep(t)
    PROVE  tls'[u] = tls[u]
BY DEF TypeOK, LockStep, UnlockStep, Prepare, LockRaw, LockTls, LockMap, AddLoad,
       AddExchange, WriteDuration, WriteRange, LockUnrecorded, LockContended,
       CopyDuration, CopyRange, Invalidate, ClearSlot, UnlockReal,
       SubmitContention, UnlockRaw, UnlockTls, UnlockMap

LEMMA PrepareList ==
    ASSUME TypeOK, NEW t \in Threads, arg[t] \in Mutexes, Prepare(t)
    PROVE  LET old == CurrentList(t)
               new == tls'[t].list
           IN  /\ tls' = [tls EXCEPT ![t] =
                             [cp_version |-> g_cp_version, list |-> new]]
               /\ old \in Seq(Entries) /\ new \in Seq(Entries)
               /\ HasRoom(old) =>
                     /\ Len(new) = Len(old) + 1 /\ Len(new) <= TlsMax
                     /\ \A i \in 1 .. Len(old) : new[i] = old[i]
                     /\ new[Len(new)].mutex = arg[t]
                     /\ new[Len(new)].csite = Unset
               /\ ~HasRoom(old) => new = old
<1> DEFINE old == CurrentList(t)
           e == [mutex |-> arg[t], csite |-> Unset]
           new == IF HasRoom(old) THEN Append(old, e) ELSE old
<1>1. tls' = [tls EXCEPT ![t] = [cp_version |-> g_cp_version, list |-> new]]
      /\ tls'[t].list = new
  BY DEF Prepare, TypeOK
<1>2. old \in Seq(Entries) /\ Len(old) \in Nat
  BY ListTypes, EmptySeq, LenProperties DEF CurrentList
<1>3. e \in Entries
  BY SiteTypes DEF Entries
<1>4. new \in Seq(Entries)
  BY <1>2, <1>3, AppendProperties
<1>5. ASSUME HasRoom(old)
      PROVE  /\ Len(new) = Len(old) + 1 /\ Len(new) <= TlsMax
             /\ \A i \in 1 .. Len(old) : new[i] = old[i]
             /\ new[Len(new)] = e
  <2>1. new = Append(old, e) /\ Len(old) < TlsMax
    BY <1>5 DEF HasRoom
  <2> HIDE DEF old, e, new
  <2>2. /\ Len(new) = Len(old) + 1 /\ new[Len(old) + 1] = e
        /\ \A i \in 1 .. Len(old) : new[i] = old[i]
    BY <1>2, <1>3, <2>1, AppendProperties
  <2> QED
    BY <1>2, <2>1, <2>2, TlsAssumption
<1>6. e.mutex = arg[t] /\ e.csite = Unset
  OBVIOUS
<1> HIDE DEF e
<1> QED
  BY <1>1, <1>2, <1>4, <1>5, <1>6

LEMMA LockTlsList ==
    ASSUME TypeOK, NEW t \in Threads, arg[t] \in Mutexes,
           Len(tls[t].list) > 0, LockTls(t)
    PROVE  LET l == tls[t].list
               new == tls'[t].list
           IN  /\ tls' = [tls EXCEPT ![t].list = new]
               /\ new \in Seq(Entries) /\ Len(new) = Len(l)
               /\ \A i \in 1 .. Len(l) :
                     /\ new[i].mutex = l[i].mutex
                     /\ new[i].csite = IF i = Len(l)
                                       THEN SiteOf(t, arg[t], range[t])
                                       ELSE l[i].csite
<1> DEFINE l == tls[t].list
           cs == SiteOf(t, arg[t], range[t])
           new == [l EXCEPT ![Len(l)].csite = cs]
<1>1. tls' = [tls EXCEPT ![t].list = new] /\ tls'[t].list = new
  BY ListTypes DEF LockTls, TypeOK
<1>2. cs \in Sites /\ l \in Seq(Entries)
  BY SiteTypes, ListTypes DEF TypeOK
<1> HIDE DEF cs
<1>3. /\ new \in Seq(Entries) /\ Len(new) = Len(l)
      /\ \A i \in 1 .. Len(l) :
            /\ new[i].mutex = l[i].mutex
            /\ new[i].csite = IF i = Len(l) THEN cs ELSE l[i].csite
  BY <1>2, Filled
<1> QED
  BY <1>1, <1>3 DEF cs

LEMMA UnlockRawList ==
    ASSUME TypeOK, NEW t \in Threads, NEW m \in Mutexes, UnlockRaw(t, m)
    PROVE  LET l == tls[t].list
               new == tls'[t].list
           IN  /\ tls' = [tls EXCEPT ![t].list = new]
               /\ new \in Seq(Entries) /\ Len(new) = Len(l)
               /\ \A i \in 1 .. Len(l) :
                     /\ new[i].mutex = l[i].mutex
                     /\ new[i].csite = Forget(l[i].csite, <<t, m>>)
<1> DEFINE l == tls[t].list
           new == ForgetTls(l, <<t, m>>)
<1>1. tls' = [tls EXCEPT ![t].list = new] /\ tls'[t].list = new
  BY ListTypes DEF UnlockRaw, TypeOK
<1>2. l \in Seq(Entries)
  BY ListTypes
<1>3. /\ new \in Seq(Entries) /\ Len(new) = Len(l)
      /\ \A i \in 1 .. Len(l) :
            /\ new[i].mutex = l[i].mutex
            /\ new[i].csite = Forget(l[i].csite, <<t, m>>)
  BY <1>2, ForgetList
<1> HIDE DEF new
<1> QED
  BY <1>1, <1>3

(* The entry taken out is the last one for the mutex; the one at the end   *)
(* of the list is in its place.                                            *)
Taken(t, m, i) ==
    /\ i \in 1 .. Len(tls[t].list) /\ tls[t].list[i].mutex = m
    /\ LET l == tls[t].list
           new == tls'[t].list
       IN  /\ tls' = [tls EXCEPT ![t].list = new]
           /\ new \in Seq(Entries) /\ Len(new) = Len(l) - 1
           /\ \A j \in 1 .. Len(l) - 1 :
                 LET k == IF j = i THEN Len(l) ELSE j IN
                 /\ new[j].mutex = l[k].mutex
                 /\ new[j].csite = Forget(l[k].csite, <<t, m>>)
    /\ LET cs == tls[t].list[i].csite IN
       IF cs.sampling_range # 0
       THEN /\ saved' = [saved EXCEPT ![t] = cs]
            /\ arg' = [arg EXCEPT ![t] = m]
            /\ pc' = [pc EXCEPT ![t] = "submit"]
       ELSE UNCHANGED <<saved, arg, pc>>
    /\ pc[t] = "idle" /\ holder[m] = t /\ g_cp /\ Release(t, m)
    /\ UNCHANGED <<sessionVars, versioned_mutex, range, expected>>

LEMMA UnlockTlsList ==
    ASSUME TypeOK, NEW t \in Threads, NEW m \in Mutexes, UnlockTls(t, m)
    PROVE  \E i \in 1 .. Len(tls[t].list) : Taken(t, m, i)
<1> DEFINE l == tls[t].list
           n == Len(l)
<1>1. PICK i \in EntriesOf(l, m) :
          /\ LET cs == l[i].csite IN
             IF cs.sampling_range # 0
             THEN /\ saved' = [saved EXCEPT ![t] = cs]
                  /\ arg' = [arg EXCEPT ![t] = m]
                  /\ GoTo(t, "submit")
             ELSE UNCHANGED <<saved, arg, pc>>
          /\ tls' = [tls EXCEPT ![t].list =
                        ForgetTls(SwapRemove(@, i), <<t, m>>)]
  BY DEF UnlockTls
<1>2. i \in 1 .. n /\ l[i].mutex = m /\ l \in Seq(Entries) /\ n \in Nat
  BY <1>1, ListTypes DEF EntriesOf
<1> DEFINE s == SwapRemove(l, i)
           new == ForgetTls(s, <<t, m>>)
<1>3. tls' = [tls EXCEPT ![t].list = new] /\ tls'[t].list = new
  BY <1>1, ListTypes DEF TypeOK
<1>4. /\ s \in Seq(Entries) /\ Len(s) = n - 1
      /\ \A j \in 1 .. n - 1 : s[j] = IF j = i THEN l[n] ELSE l[j]
  BY <1>2, SwapRemoved
<1> HIDE DEF s
<1>5. /\ new \in Seq(Entries) /\ Len(new) = Len(s)
      /\ \A j \in 1 .. Len(s) :
            new[j].mutex = s[j].mutex /\ new[j].csite = Forget(s[j].csite, <<t, m>>)
  BY <1>4, ForgetList
<1> HIDE DEF new
<1>6. /\ pc[t] = "idle" /\ holder[m] = t /\ g_cp /\ Release(t, m)
      /\ UNCHANGED <<sessionVars, versioned_mutex, range, expected>>
  BY DEF UnlockTls
<1>7. \A j \in 1 .. n - 1 :
         LET k == IF j = i THEN n ELSE j IN
         /\ new[j].mutex = l[k].mutex
         /\ new[j].csite = Forget(l[k].csite, <<t, m>>)
  BY <1>4, <1>5
<1> QED
  BY <1>1, <1>2, <1>3, <1>4, <1>5, <1>6, <1>7 DEF Taken, GoTo

-----------------------------------------------------------------------------
(* Every step keeps the types. *)
Labels == {"idle", "prepare", "waitraw", "waittls", "waitmap", "addload",
           "addcas", "duration", "range", "copyduration", "copyrange",
           "invalidate", "clear", "release", "submit"}

LEMMA SlotTypes ==
    ASSUME TypeOK, NEW m \in Mutexes
    PROVE  /\ Slot(m) \in Slots
           /\ versioned_mutex[Slot(m)] \in Versioned /\ csite[Slot(m)] \in Sites
BY DEF TypeOK, Slots

LEMMA ListsTyped ==
    ASSUME TypeOK, CallsMutex, NEW t \in Threads, LockStep(t) \/ UnlockStep(t)
    PROVE  /\ tls' \in [Threads -> [cp_version : Nat, list : Seq(Entries)]]
           /\ \A u \in Threads : Len(tls'[u].list) <= TlsMax
<1> DEFINE Typed ==
        /\ tls' \in [Threads -> [cp_version : Nat, list : Seq(Entries)]]
        /\ \A u \in Threads : Len(tls'[u].list) <= TlsMax
<1>0. /\ tls \in [Threads -> [cp_version : Nat, list : Seq(Entries)]]
      /\ \A u \in Threads : Len(tls[u].list) <= TlsMax /\ Len(tls[u].list) \in Nat
      /\ g_cp_version \in Nat
  BY ListTypes DEF TypeOK
<1>1. ASSUME NEW l \in Seq(Entries), Len(l) <= TlsMax,
             NEW v \in Nat,
             tls' = [tls EXCEPT ![t] = [cp_version |-> v, list |-> l]]
      PROVE  Typed
  BY <1>0, <1>1
<1>2. ASSUME tls' = [tls EXCEPT ![t].list = tls'[t].list],
             tls'[t].list \in Seq(Entries), Len(tls'[t].list) <= TlsMax
      PROVE  Typed
  BY <1>0, <1>2
<1>3. CASE UNCHANGED tls
  BY <1>0, <1>3
<1>4. CASE Prepare(t)
  <2>1. arg[t] \in Mutexes
    BY <1>4 DEF Prepare, CallsMutex, CallOfMutex, Calls, BeforeLock
  <2>2. Len(CurrentList(t)) <= TlsMax
    BY <1>0, EmptySeq, TlsAssumption DEF CurrentList
  <2>3. tls'[t].list \in Seq(Entries) /\ Len(tls'[t].list) <= TlsMax
    BY <1>4, <2>1, <2>2, PrepareList
  <2> QED
    BY <1>0, <1>1, <1>4, <2>1, <2>3, PrepareList
<1>5. CASE LockTls(t) /\ Len(tls[t].list) > 0
  <2>1. arg[t] \in Mutexes
    BY <1>5 DEF LockTls, CallsMutex, CallOfMutex, Calls, BeforeLock
  <2>2. /\ tls' = [tls EXCEPT ![t].list = tls'[t].list]
        /\ tls'[t].list \in Seq(Entries)
        /\ Len(tls'[t].list) = Len(tls[t].list)
    BY <1>5, <2>1, LockTlsList
  <2> QED
    BY <1>0, <1>2, <2>2
<1>6. CASE LockTls(t) /\ ~(Len(tls[t].list) > 0)
  <2>1. Len(tls[t].list) = 0 /\ DOMAIN tls[t].list = 1 .. 0
    BY <1>0, <1>6, ListTypes
  <2>2. [tls[t].list EXCEPT ![0].csite = SiteOf(t, arg[t], range[t])] = tls[t].list
    BY <2>1
  <2>3. tls' = [tls EXCEPT ![t].list = tls[t].list]
    BY <1>6, <2>1, <2>2 DEF LockTls
  <2> QED
    BY <1>0, <2>3
<1>7. ASSUME NEW m \in Mutexes, UnlockRaw(t, m) PROVE Typed
  <2>1. /\ tls' = [tls EXCEPT ![t].list = tls'[t].list]
        /\ tls'[t].list \in Seq(Entries)
        /\ Len(tls'[t].list) = Len(tls[t].list)
    BY <1>7, UnlockRawList
  <2> QED
    BY <1>0, <1>2, <2>1
<1>8. ASSUME NEW m \in Mutexes, UnlockTls(t, m) PROVE Typed
  <2>1. PICK i \in 1 .. Len(tls[t].list) : Taken(t, m, i)
    BY <1>8, UnlockTlsList
  <2>2. /\ tls' = [tls EXCEPT ![t].list = tls'[t].list]
        /\ tls'[t].list \in Seq(Entries)
        /\ Len(tls'[t].list) = Len(tls[t].list) - 1
    BY <2>1 DEF Taken
  <2>3. Len(tls'[t].list) <= TlsMax
    BY <1>0, <2>2, TlsAssumption
  <2> HIDE DEF Typed
  <2> QED
    BY <1>2, <2>2, <2>3
<1> QED
  BY <1>3, <1>4, <1>5, <1>6, <1>7, <1>8
  DEF LockStep, UnlockStep, LockRaw, LockMap, AddLoad, AddExchange, WriteDuration,
      WriteRange, LockUnrecorded, LockContended, CopyDuration, CopyRange,
      Invalidate, ClearSlot, UnlockReal, SubmitContention, UnlockMap

LEMMA LabelsTyped ==
    ASSUME TypeOK, NEW t \in Threads, LockStep(t) \/ UnlockStep(t)
    PROVE  pc' \in [Threads -> Labels]
<1>0. pc \in [Threads -> Labels]
  BY DEF TypeOK, Labels
<1>1. ASSUME NEW l \in Labels, GoTo(t, l) PROVE pc' \in [Threads -> Labels]
  BY <1>0, <1>1 DEF GoTo
<1>2. CASE Return(t)
  BY <1>1, <1>2 DEF Return, Labels
<1>3. CASE Prepare(t)
  <2>1. \E l \in {"waitraw", "waittls", "waitmap"} : GoTo(t, l)
    BY <1>3 DEF Prepare
  <2> QED
    BY <1>1, <2>1 DEF Labels
<1>4. CASE LockRaw(t) \/ LockTls(t) \/ WriteRange(t) \/ SubmitContention(t)
  BY <1>2, <1>4 DEF LockRaw, LockTls, WriteRange, SubmitContention
<1>5. CASE LockMap(t) \/ AddLoad(t) \/ AddExchange(t) \/ WriteDuration(t)
  BY <1>1, <1>2, <1>5 DEF LockMap, AddLoad, AddExchange, WriteDuration, Labels
<1>6. ASSUME NEW m \in Mutexes,
             LockUnrecorded(t, m) \/ \E r \in Ranges : LockContended(t, m, r)
      PROVE  pc' \in [Threads -> Labels]
  BY <1>0, <1>1, <1>6 DEF LockUnrecorded, LockContended, Labels
<1>7. CASE CopyDuration(t) \/ CopyRange(t) \/ Invalidate(t) \/ ClearSlot(t)
           \/ UnlockReal(t)
  BY <1>1, <1>7 DEF CopyDuration, CopyRange, Invalidate, ClearSlot, UnlockReal,
                    Labels
<1>8. ASSUME NEW m \in Mutexes, UnlockRaw(t, m) \/ UnlockMap(t, m)
      PROVE  pc' \in [Threads -> Labels]
  BY <1>0, <1>1, <1>8 DEF UnlockRaw, UnlockMap, Labels
<1>9. ASSUME NEW m \in Mutexes, UnlockTls(t, m)
      PROVE  pc' \in [Threads -> Labels]
  <2>1. PICK i \in 1 .. Len(tls[t].list) : Taken(t, m, i)
    BY <1>9, UnlockTlsList
  <2>2. GoTo(t, "submit") \/ UNCHANGED pc
    BY <2>1 DEF Taken, GoTo
  <2> QED
    BY <1>0, <1>1, <2>2 DEF Labels
<1> QED
  BY <1>3, <1>4, <1>5, <1>6, <1>7, <1>8, <1>9 DEF LockStep, UnlockStep

LEMMA ArgumentsTyped ==
    ASSUME TypeOK, NEW t \in Threads, LockStep(t) \/ UnlockStep(t)
    PROVE  arg' \in [Threads -> Mutexes \cup {0}] /\ range' \in [Threads -> Ranges]
<1> DEFINE Typed == /\ arg' \in [Threads -> Mutexes \cup {0}]
                    /\ range' \in [Threads -> Ranges]
<1>0. arg \in [Threads -> Mutexes \cup {0}] /\ range \in [Threads -> Ranges]
  BY DEF TypeOK
<1>1. CASE Return(t)
  BY <1>0, <1>1 DEF Return, Ranges
<1>2. ASSUME arg' = arg, range' = range PROVE Typed
  BY <1>0, <1>2
<1>3. ASSUME NEW m \in Mutexes, arg' = [arg EXCEPT ![t] = m], range' = range
      PROVE  Typed
  BY <1>0, <1>3
<1>4. CASE LockRaw(t) \/ LockTls(t) \/ WriteRange(t) \/ SubmitContention(t)
  BY <1>1, <1>4 DEF LockRaw, LockTls, WriteRange, SubmitContention
<1>5. CASE AddLoad(t) \/ AddExchange(t)
  BY <1>1, <1>2, <1>5 DEF AddLoad, AddExchange
<1>6. CASE \/ Prepare(t) \/ LockMap(t) \/ WriteDuration(t) \/ CopyDuration(t)
           \/ CopyRange(t) \/ Invalidate(t) \/ ClearSlot(t) \/ UnlockReal(t)
  BY <1>2, <1>6 DEF Prepare, LockMap, WriteDuration, CopyDuration, CopyRange,
                    Invalidate, ClearSlot, UnlockReal
<1>7. ASSUME NEW m \in Mutexes,
             LockUnrecorded(t, m) \/ UnlockRaw(t, m) \/ UnlockMap(t, m)
      PROVE  Typed
  BY <1>2, <1>3, <1>7 DEF LockUnrecorded, UnlockRaw, UnlockMap
<1>8. ASSUME NEW m \in Mutexes, NEW r \in Ranges, LockContended(t, m, r)
      PROVE  Typed
  <2>1. arg' = [arg EXCEPT ![t] = m] /\ range' = [range EXCEPT ![t] = r]
    BY <1>8 DEF LockContended
  <2> QED
    BY <1>0, <2>1
<1>9. ASSUME NEW m \in Mutexes, UnlockTls(t, m) PROVE Typed
  <2>1. PICK i \in 1 .. Len(tls[t].list) : Taken(t, m, i)
    BY <1>9, UnlockTlsList
  <2>2. UNCHANGED range /\ (arg' = [arg EXCEPT ![t] = m] \/ UNCHANGED arg)
    BY <2>1 DEF Taken
  <2> QED
    BY <1>2, <1>3, <2>2
<1> QED
  BY <1>4, <1>5, <1>6, <1>7, <1>8, <1>9 DEF LockStep, UnlockStep

(* A step takes a mutex that is free, gives one back, or does neither.     *)
Takes(t, m) == holder[m] = NoThread /\ holder' = [holder EXCEPT ![m] = t]

Gives(t, m) == holder[m] = t /\ Release(t, m)

LEMMA HoldersMove ==
    ASSUME CallsMutex, NEW t \in Threads, LockStep(t) \/ UnlockStep(t)
    PROVE  \/ UNCHANGED holder
           \/ \E m \in Mutexes : Takes(t, m) \/ Gives(t, m)
<1> DEFINE Moves == \/ UNCHANGED holder
                    \/ \E m \in Mutexes : Takes(t, m) \/ Gives(t, m)
<1>1. CASE LockRaw(t) \/ LockTls(t) \/ LockMap(t)
  <2>1. arg[t] \in Mutexes /\ Takes(t, arg[t])
    BY <1>1 DEF LockRaw, LockTls, LockMap, Takes, CallsMutex, CallOfMutex, Calls,
                BeforeLock
  <2> QED
    BY <2>1
<1>2. CASE UnlockReal(t)
  <2>1. arg[t] \in Mutexes /\ Gives(t, arg[t])
    BY <1>2 DEF UnlockReal, Gives, CallsMutex, CallOfMutex, Calls, Removing
  <2> QED
    BY <2>1
<1>3. ASSUME NEW m \in Mutexes,
             LockUnrecorded(t, m) \/ \E r \in Ranges : LockContended(t, m, r)
      PROVE  Moves
  BY <1>3 DEF LockUnrecorded, LockContended, Takes
<1>4. ASSUME NEW m \in Mutexes,
             UnlockRaw(t, m) \/ UnlockTls(t, m) \/ UnlockMap(t, m)
      PROVE  Moves
  BY <1>4 DEF UnlockRaw, UnlockTls, UnlockMap, Gives
<1>5. CASE \/ Prepare(t) \/ AddLoad(t) \/ AddExchange(t) \/ WriteDuration(t)
           \/ WriteRange(t) \/ CopyDuration(t) \/ CopyRange(t) \/ Invalidate(t)
           \/ ClearSlot(t) \/ SubmitContention(t)
  BY <1>5 DEF Prepare, AddLoad, AddExchange, WriteDuration, WriteRange,
              CopyDuration, CopyRange, Invalidate, ClearSlot, SubmitContention
<1> QED
  BY <1>1, <1>2, <1>3, <1>4, <1>5 DEF LockStep, UnlockStep

LEMMA HoldersTyped ==
    ASSUME TypeOK, CallsMutex, NEW t \in Threads, LockStep(t) \/ UnlockStep(t)
    PROVE  holder' \in [Mutexes -> Threads \cup {NoThread}]
<1>1. holder \in [Mutexes -> Threads \cup {NoThread}]
  BY DEF TypeOK
<1>2. ASSUME NEW m \in Mutexes, Takes(t, m) \/ Gives(t, m)
      PROVE  holder' \in [Mutexes -> Threads \cup {NoThread}]
  BY <1>1, <1>2 DEF Takes, Gives, Release
<1> QED
  BY <1>1, <1>2, HoldersMove

LEMMA SessionStays ==
    ASSUME NEW t \in Threads, LockStep(t) \/ UnlockStep(t)
    PROVE  g_cp' = g_cp /\ g_cp_version' = g_cp_version /\ starting' = starting
<1> USE DEF sessionVars
<1>1. CASE LockStep(t)
  BY <1>1 DEF LockStep, Prepare, LockRaw, LockTls, LockMap, AddLoad, AddExchange,
              WriteDuration, WriteRange, LockUnrecorded, LockContended
<1>2. CASE UnlockStep(t)
  BY <1>2 DEF UnlockStep, CopyDuration, CopyRange, Invalidate, ClearSlot,
              UnlockReal, SubmitContention, UnlockRaw, UnlockTls, UnlockMap
<1> QED
  BY <1>1, <1>2

LEMMA SessionsTyped ==
    ASSUME TypeOK, Next
    PROVE  g_cp' \in BOOLEAN /\ g_cp_version' \in Nat /\ starting' \in BOOLEAN
<1>0. g_cp \in BOOLEAN /\ g_cp_version \in Nat /\ starting \in BOOLEAN
  BY DEF TypeOK
<1>1. CASE StartPublish \/ StartVersion \/ Stop
  <2>1. g_cp' \in BOOLEAN /\ starting' \in BOOLEAN
    BY <1>0, <1>1, Zenon DEF StartPublish, StartVersion, Stop
  <2>2. g_cp_version' \in Nat
    BY <1>0, <1>1 DEF StartPublish, StartVersion, Stop
  <2> QED
    BY <2>1, <2>2
<1>2. ASSUME NEW t \in Threads, LockStep(t) \/ UnlockStep(t)
      PROVE  g_cp' \in BOOLEAN /\ g_cp_version' \in Nat /\ starting' \in BOOLEAN
  <2>1. g_cp' = g_cp /\ g_cp_version' = g_cp_version /\ starting' = starting
    BY <1>2, SessionStays
  <2> QED
    BY <1>0, <2>1
<1> QED
  BY <1>1, <1>2 DEF Next

LEMMA SlotsMove ==
    ASSUME NEW t \in Threads, LockStep(t) \/ UnlockStep(t)
    PROVE  \/ UNCHANGED versioned_mutex
           \/ AddExchange(t) /\ versioned_mutex[Slot(arg[t])] = expected[t][1]
           \/ ClearSlot(t)
BY DEF LockStep, UnlockStep, Prepare, LockRaw, LockTls, LockMap, AddLoad,
       AddExchange, WriteDuration, WriteRange, LockUnrecorded, LockContended,
       CopyDuration, CopyRange, Invalidate, UnlockReal, SubmitContention,
       UnlockRaw, UnlockTls, UnlockMap, tableVars

LEMMA SitesMove ==
    ASSUME CallsMutex, NEW t \in Threads, LockStep(t) \/ UnlockStep(t)
    PROVE  \/ UNCHANGED csite
           \/ WriteDuration(t) \/ WriteRange(t) \/ Invalidate(t)
           \/ \E m \in Mutexes : Gives(t, m)
<1>1. CASE UnlockReal(t)
  <2>1. arg[t] \in Mutexes /\ Gives(t, arg[t])
    BY <1>1 DEF UnlockReal, Gives, CallsMutex, CallOfMutex, Calls, Removing
  <2> QED
    BY <2>1
<1>2. ASSUME NEW m \in Mutexes,
             UnlockRaw(t, m) \/ UnlockTls(t, m) \/ UnlockMap(t, m)
      PROVE  UNCHANGED csite \/ Gives(t, m)
  BY <1>2 DEF UnlockRaw, UnlockTls, UnlockMap, Gives
<1> QED
  BY <1>1, <1>2
  DEF LockStep, UnlockStep, Prepare, LockRaw, LockTls, LockMap, AddLoad,
      AddExchange, LockUnrecorded, LockContended, CopyDuration, CopyRange,
      ClearSlot, SubmitContention, tableVars

LEMMA TableTyped ==
    ASSUME TypeOK, CallsMutex, NEW t \in Threads, LockStep(t) \/ UnlockStep(t)
    PROVE  /\ versioned_mutex' \in [Slots -> Versioned]
           /\ csite' \in [Slots -> Sites]
<1>0. /\ versioned_mutex \in [Slots -> Versioned] /\ csite \in [Slots -> Sites]
      /\ expected[t][2] \in Versioned /\ Empty \in Versioned
  BY DEF TypeOK, Versioned
<1>1. versioned_mutex' \in [Slots -> Versioned]
  BY <1>0, SlotsMove DEF AddExchange, ClearSlot
<1>2. CASE WriteDuration(t) \/ WriteRange(t) \/ Invalidate(t)
  <2>1. /\ arg[t] \in Mutexes /\ <<t, arg[t]>> \in Holds
        /\ range[t] \in Ranges /\ 0 \in Ranges
    BY <1>2, SiteTypes DEF WriteDuration, WriteRange, Invalidate, CallsMutex,
                           CallOfMutex, Calls, Adding, Removing, TypeOK, Ranges
  <2> QED
    BY <1>0, <1>2, <2>1 DEF WriteDuration, WriteRange, Invalidate, Sites
<1>3. ASSUME NEW m \in Mutexes, Gives(t, m)
      PROVE  csite' \in [Slots -> Sites]
  BY <1>0, <1>3, ForgetSite DEF Gives, Release
<1> QED
  BY <1>0, <1>1, <1>2, <1>3, SitesMove

LEMMA LocalsTyped ==
    ASSUME TypeOK, CallsMutex, NEW t \in Threads, LockStep(t) \/ UnlockStep(t)
    PROVE  /\ expected' \in [Threads -> Versioned \X Versioned]
           /\ saved' \in [Threads -> Sites]
<1>0. /\ expected \in [Threads -> Versioned \X Versioned]
      /\ saved \in [Threads -> Sites] /\ Unset \in Sites
      /\ Empty \in Versioned /\ g_cp_version \in Nat
  BY SiteTypes DEF TypeOK, Versioned, Unset, Sites, Ranges
<1>1. CASE AddLoad(t)
  <2>1. arg[t] \in Mutexes
    BY <1>1 DEF AddLoad, CallsMutex, CallOfMutex, Calls, Adding
  <2>2. /\ versioned_mutex[Slot(arg[t])] \in Versioned
        /\ <<g_cp_version, arg[t]>> \in Versioned
    BY <1>0, <2>1, SlotTypes DEF Versioned
  <2> QED
    BY <1>0, <1>1, <2>2 DEF AddLoad
<1>2. CASE AddExchange(t)
  BY <1>0, <1>2 DEF AddExchange
<1>3. CASE CopyDuration(t) \/ CopyRange(t)
  <2>1. arg[t] \in Mutexes
    BY <1>3 DEF CopyDuration, CopyRange, CallsMutex, CallOfMutex, Calls, Removing
  <2>2. csite[Slot(arg[t])] \in Sites
    BY <2>1, SlotTypes
  <2> QED
    BY <1>0, <1>3, <2>2 DEF CopyDuration, CopyRange, Sites
<1>4. CASE SubmitContention(t)
  BY <1>0, <1>4 DEF SubmitContention
<1>5. ASSUME NEW m \in Mutexes, UnlockTls(t, m)
      PROVE  /\ expected' \in [Threads -> Versioned \X Versioned]
             /\ saved' \in [Threads -> Sites]
  <2>1. PICK i \in 1 .. Len(tls[t].list) : Taken(t, m, i)
    BY <1>5, UnlockTlsList
  <2>2. tls[t].list[i].csite \in Sites
    BY ListTypes
  <2>3. /\ expected' = expected
        /\ saved' = saved \/ saved' = [saved EXCEPT ![t] = tls[t].list[i].csite]
    BY <2>1 DEF Taken
  <2> QED
    BY <1>0, <2>2, <2>3
<1> QED
  BY <1>0, <1>1, <1>2, <1>3, <1>4, <1>5
  DEF LockStep, UnlockStep, Prepare, LockRaw, LockTls, LockMap, WriteDuration,
      WriteRange, LockUnrecorded, LockContended, Invalidate, ClearSlot,
      UnlockReal, UnlockRaw, UnlockMap

LEMMA TypesKept == TypeOK /\ CallsMutex /\ [Next]_vars => TypeOK'
<1> SUFFICES ASSUME TypeOK, CallsMutex, [Next]_vars PROVE TypeOK'
  OBVIOUS
<1>1. CASE UNCHANGED vars
  BY <1>1 DEF vars, sessionVars, tableVars, TypeOK
<1>2. CASE StartPublish \/ StartVersion \/ Stop
  <2>1. /\ g_cp' \in BOOLEAN /\ g_cp_version' \in Nat /\ starting' \in BOOLEAN
    BY <1>2, SessionsTyped DEF Next
  <2>2. UNCHANGED <<holder, tls, tableVars, pc, arg, range, expected, saved>>
    BY <1>2 DEF StartPublish, StartVersion, Stop
  <2> QED
    BY <2>1, <2>2 DEF TypeOK, tableVars
<1>3. ASSUME NEW t \in Threads, LockStep(t) \/ UnlockStep(t) PROVE TypeOK'
  <2>1. /\ g_cp' \in BOOLEAN /\ g_cp_version' \in Nat /\ starting' \in BOOLEAN
    BY <1>3, SessionsTyped DEF Next
  <2> QED
    BY <1>3, <2>1, ListsTyped, LabelsTyped, ArgumentsTyped, HoldersTyped,
       TableTyped, LocalsTyped
    DEF TypeOK, Labels
<1> QED
  BY <1>1, <1>2, <1>3 DEF Next

-----------------------------------------------------------------------------
(* A step changes what is the thread's own, and holders by one hold of it. *)
LEMMA OthersStay ==
    ASSUME TypeOK, NEW t \in Threads, LockStep(t) \/ UnlockStep(t),
           NEW u \in Threads, u # t
    PROVE  /\ pc'[u] = pc[u] /\ arg'[u] = arg[u] /\ range'[u] = range[u]
           /\ saved'[u] = saved[u] /\ expected'[u] = expected[u]
           /\ tls'[u] = tls[u]
<1> DEFINE Stays == /\ pc'[u] = pc[u] /\ arg'[u] = arg[u] /\ range'[u] = range[u]
                    /\ saved'[u] = saved[u] /\ expected'[u] = expected[u]
<1>0. /\ DOMAIN pc = Threads /\ DOMAIN arg = Threads /\ DOMAIN range = Threads
      /\ DOMAIN saved = Threads /\ DOMAIN expected = Threads
      /\ tls'[u] = tls[u]
  BY OthersKeepLists DEF TypeOK
<1> USE DEF GoTo, Return
<1>1. CASE Prepare(t)
  BY <1>0, <1>1 DEF Prepare
<1>2. CASE LockRaw(t) \/ LockTls(t) \/ LockMap(t)
  BY <1>0, <1>2 DEF LockRaw, LockTls, LockMap
<1>3. CASE AddLoad(t) \/ AddExchange(t) \/ WriteDuration(t) \/ WriteRange(t)
  BY <1>0, <1>3 DEF AddLoad, AddExchange, WriteDuration, WriteRange
<1>4. ASSUME NEW m \in Mutexes,
             \/ LockUnrecorded(t, m) \/ UnlockRaw(t, m) \/ UnlockMap(t, m)
             \/ \E r \in Ranges : LockContended(t, m, r)
      PROVE  Stays
  BY <1>0, <1>4 DEF LockUnrecorded, LockContended, UnlockRaw, UnlockMap
<1>5. CASE CopyDuration(t) \/ CopyRange(t) \/ Invalidate(t) \/ ClearSlot(t)
           \/ UnlockReal(t) \/ SubmitContention(t)
  BY <1>0, <1>5 DEF CopyDuration, CopyRange, Invalidate, ClearSlot, UnlockReal,
              SubmitContention
<1>6. ASSUME NEW m \in Mutexes, UnlockTls(t, m) PROVE Stays
  <2>1. PICK i \in 1 .. Len(tls[t].list) : Taken(t, m, i)
    BY <1>6, UnlockTlsList
  <2> QED
    BY <1>0, <2>1 DEF Taken
<1> QED
  BY <1>0, <1>1, <1>2, <1>3, <1>4, <1>5, <1>6 DEF LockStep, UnlockStep

LEMMA HoldsOfOthers ==
    ASSUME TypeOK, CallsMutex, NEW t \in Threads, LockStep(t) \/ UnlockStep(t),
           NEW u \in Threads, u # t, NEW m \in Mutexes
    PROVE  holder'[m] = u <=> holder[m] = u
<1>1. holder \in [Mutexes -> Threads \cup {NoThread}] /\ NoThread \notin Threads
  BY NullAssumption DEF TypeOK
<1>2. ASSUME NEW n \in Mutexes, Takes(t, n) \/ Gives(t, n)
      PROVE  holder'[m] = u <=> holder[m] = u
  BY <1>1, <1>2 DEF Takes, Gives, Release
<1> QED
  BY <1>1, <1>2, HoldersMove

LEMMA OwnCall ==
    ASSUME TypeOK, CallsMutex, HasRange, NEW t \in Threads,
           LockStep(t) \/ UnlockStep(t)
    PROVE  CallOfMutex(t)' /\ RangeOf(t)'
<1> DEFINE Goal == CallOfMutex(t)' /\ RangeOf(t)'
<1> USE DEF CallOfMutex, RangeOf, Calls, BeforeLock, Adding, Removing
<1>0. /\ pc \in [Threads -> Labels] /\ arg \in [Threads -> Mutexes \cup {0}]
      /\ range \in [Threads -> Ranges]
      /\ holder \in [Mutexes -> Threads \cup {NoThread}] /\ NoThread \notin Threads
      /\ CallOfMutex(t) /\ RangeOf(t)
  BY NullAssumption DEF TypeOK, CallsMutex, HasRange, Labels
<1>1. ASSUME GoTo(t, "idle") \/ GoTo(t, "submit") PROVE Goal
  BY <1>0, <1>1 DEF GoTo
<1>2. CASE Prepare(t)
  BY <1>0, <1>2 DEF Prepare, GoTo, Ranges
<1>3. CASE LockRaw(t) \/ LockTls(t) \/ WriteRange(t) \/ SubmitContention(t)
           \/ UnlockReal(t)
  BY <1>1, <1>3 DEF LockRaw, LockTls, WriteRange, SubmitContention, UnlockReal,
                    Return
<1>4. CASE LockMap(t)
  BY <1>0, <1>4 DEF LockMap, GoTo
<1>5. CASE AddLoad(t) \/ AddExchange(t)
  BY <1>0, <1>1, <1>5 DEF AddLoad, AddExchange, Return, GoTo
<1>6. CASE WriteDuration(t) \/ CopyDuration(t) \/ CopyRange(t) \/ Invalidate(t)
           \/ ClearSlot(t)
  BY <1>0, <1>6 DEF WriteDuration, CopyDuration, CopyRange, Invalidate, ClearSlot,
                    GoTo
<1>7. ASSUME NEW m \in Mutexes, LockUnrecorded(t, m) \/ UnlockRaw(t, m)
      PROVE  Goal
  BY <1>0, <1>7 DEF LockUnrecorded, UnlockRaw
<1>8. ASSUME NEW m \in Mutexes, NEW r \in Ranges, LockContended(t, m, r)
      PROVE  Goal
  <2>1. holder[m] # t
    <3>1. \A n \in Mutexes : holder[n] = t => n < m
      BY <1>8 DEF LockContended
    <3>2. m \in Nat
      BY MutexAssumption
    <3> QED
      BY <3>1, <3>2
  <2> QED
    BY <1>0, <1>8, <2>1 DEF LockContended, GoTo
<1>9. ASSUME NEW m \in Mutexes, UnlockMap(t, m) PROVE Goal
  BY <1>0, <1>9 DEF UnlockMap, GoTo
<1>10. ASSUME NEW m \in Mutexes, UnlockTls(t, m) PROVE Goal
  <2>1. PICK i \in 1 .. Len(tls[t].list) : Taken(t, m, i)
    BY <1>10, UnlockTlsList
  <2>2. GoTo(t, "submit") \/ pc'[t] = "idle"
    BY <2>1 DEF Taken, GoTo
  <2> QED
    BY <1>1, <2>2
<1> QED
  BY <1>2, <1>3, <1>4, <1>5, <1>6, <1>7, <1>8, <1>9, <1>10 DEF LockStep, UnlockStep

LEMMA CallsKept ==
    ASSUME TypeOK, CallsMutex, HasRange, [Next]_vars
    PROVE  CallsMutex' /\ HasRange'
<1>1. CASE UNCHANGED <<pc, arg, range, holder>>
  BY <1>1 DEF CallsMutex, HasRange, CallOfMutex, RangeOf
<1>2. ASSUME NEW t \in Threads, LockStep(t) \/ UnlockStep(t), NEW u \in Threads
      PROVE  CallOfMutex(u)' /\ RangeOf(u)'
  <2>1. CASE u = t
    BY <1>2, <2>1, OwnCall
  <2>2. CASE u # t
    <3>1. pc'[u] = pc[u] /\ arg'[u] = arg[u] /\ range'[u] = range[u]
      BY <1>2, <2>2, OthersStay
    <3>2. arg[u] \in Mutexes => (holder'[arg[u]] = u <=> holder[arg[u]] = u)
      BY <1>2, <2>2, HoldsOfOthers
    <3>3. CallOfMutex(u) /\ RangeOf(u)
      BY DEF CallsMutex, HasRange, CallOfMutex, RangeOf
    <3> QED
      BY <3>1, <3>2, <3>3 DEF CallOfMutex, RangeOf, Calls
  <2> QED
    BY <2>1, <2>2
<1>3. CASE StartPublish \/ StartVersion \/ Stop \/ UNCHANGED vars
  BY <1>1, <1>3 DEF StartPublish, StartVersion, Stop, vars
<1> QED
  BY <1>2, <1>3 DEF Next, CallsMutex, HasRange, CallOfMutex, RangeOf

-----------------------------------------------------------------------------
(* The thread's own list, after each of its steps. *)
OwnListOK(t) == ListInOrder(t) /\ (Current(t) => Distinct(t) /\ ListedHeld(t))

LEMMA ListFacts ==
    ASSUME SessionInv, NEW t \in Threads
    PROVE  /\ OwnListOK(t) /\ CallOfMutex(t)
           /\ pc \in [Threads -> Labels] /\ pc[t] \in Labels
           /\ arg \in [Threads -> Mutexes \cup {0}]
           /\ tls \in [Threads -> [cp_version : Nat, list : Seq(Entries)]]
           /\ holder \in [Mutexes -> Threads \cup {NoThread}]
           /\ NoThread \notin Threads /\ g_cp_version \in Nat
           /\ tls[t].cp_version \in Nat /\ Len(tls[t].list) \in Nat
           /\ \A i \in 1 .. Len(tls[t].list) : tls[t].list[i].mutex \in Mutexes
<1>1. TypeOK /\ OwnListOK(t) /\ CallOfMutex(t)
  BY DEF SessionInv, ListsInOrder, EntriesDistinct, AllListedHeld, OwnListOK,
         CallsMutex
<1>2. /\ pc \in [Threads -> Labels] /\ arg \in [Threads -> Mutexes \cup {0}]
      /\ holder \in [Mutexes -> Threads \cup {NoThread}]
      /\ tls \in [Threads -> [cp_version : Nat, list : Seq(Entries)]]
      /\ g_cp_version \in Nat
  BY <1>1 DEF TypeOK, Labels
<1>3. /\ tls[t].cp_version \in Nat /\ Len(tls[t].list) \in Nat
      /\ \A i \in 1 .. Len(tls[t].list) : tls[t].list[i].mutex \in Mutexes
  BY <1>1, ListTypes
<1> QED
  BY <1>1, <1>2, <1>3, NullAssumption

(* A step that leaves the list alone. *)
LEMMA ListStays ==
    ASSUME SessionInv, NEW t \in Threads, LockStep(t) \/ UnlockStep(t),
           tls' = tls, pc'[t] # "waittls",
           pc'[t] \in Removing =>
               \A i \in 1 .. Len(tls[t].list) : tls[t].list[i].mutex # arg'[t],
           Current(t) =>
               \A i \in 1 .. Len(tls[t].list) : holder'[tls[t].list[i].mutex] = t
    PROVE  OwnListOK(t)'
<1>1. g_cp' = g_cp /\ g_cp_version' = g_cp_version /\ starting' = starting
  BY SessionStays
<1>2. OwnListOK(t)
  BY ListFacts
<1> QED
  BY <1>1, <1>2 DEF OwnListOK, ListInOrder, Current, Distinct, ListedHeld

LEMMA PrepareOwn ==
    ASSUME SessionInv, NEW t \in Threads, Prepare(t)
    PROVE  OwnListOK(t)'
<1> DEFINE old == CurrentList(t)
           new == tls'[t].list
<1>0. pc[t] = "prepare" /\ arg[t] \in Mutexes /\ TypeOK
  BY ListFacts DEF Prepare, CallOfMutex, Calls, BeforeLock, SessionInv
<1>1. g_cp' = g_cp /\ g_cp_version' = g_cp_version /\ starting' = starting
      /\ arg' = arg /\ holder' = holder
  BY DEF Prepare, sessionVars
<1>2. /\ tls' = [tls EXCEPT ![t] = [cp_version |-> g_cp_version, list |-> new]]
      /\ old \in Seq(Entries) /\ new \in Seq(Entries)
      /\ HasRoom(old) =>
            /\ Len(new) = Len(old) + 1
            /\ \A i \in 1 .. Len(old) : new[i] = old[i]
            /\ new[Len(new)].mutex = arg[t]
      /\ ~HasRoom(old) => new = old
  BY <1>0, PrepareList
<1>3. tls'[t].cp_version = g_cp_version /\ Len(old) \in Nat /\ Len(new) \in Nat
  BY <1>2, ListFacts, LenProperties
<1>4. \A i \in 1 .. Len(old) :
         Current(t)' => holder[old[i].mutex] = t
  <2>1. CASE tls[t].cp_version = g_cp_version
    <3>1. old = tls[t].list
      BY <2>1 DEF CurrentList
    <3>2. Current(t)' => Current(t)
      BY <1>1, <2>1 DEF Current
    <3> QED
      BY <1>0, <3>1, <3>2, ListFacts DEF OwnListOK, ListedHeld
  <2>2. CASE tls[t].cp_version # g_cp_version
    BY <2>2, EmptySeq DEF CurrentList
  <2> QED
    BY <2>1, <2>2
<1>5. \A i, j \in 1 .. Len(old) :
         Current(t)' /\ old[i].mutex = old[j].mutex => i = j
  <2>1. CASE tls[t].cp_version = g_cp_version
    <3>1. old = tls[t].list
      BY <2>1 DEF CurrentList
    <3>2. Current(t)' => Current(t)
      BY <1>1, <2>1 DEF Current
    <3> QED
      BY <3>1, <3>2, ListFacts DEF OwnListOK, Distinct
  <2>2. CASE tls[t].cp_version # g_cp_version
    BY <2>2, EmptySeq DEF CurrentList
  <2> QED
    BY <2>1, <2>2
<1>6. holder[arg[t]] # t
  BY <1>0, ListFacts DEF CallOfMutex, BeforeLock
<1>7. /\ pc'[t] \in {"waitraw", "waittls", "waitmap"}
      /\ pc'[t] = "waittls" => HasRoom(old)
      /\ pc'[t] = "waitmap" => ~HasRoom(old)
  BY ListFacts DEF Prepare, GoTo
<1> HIDE DEF old, new
<1>8. ListInOrder(t)'
  BY <1>1, <1>2, <1>3, <1>7, ListFacts DEF ListInOrder, Removing, new
<1>9. ASSUME Current(t)' PROVE Distinct(t)' /\ ListedHeld(t)'
  <2>1. \A i \in 1 .. Len(old) : holder[old[i].mutex] = t
    BY <1>4, <1>9
  <2>2. \A i, j \in 1 .. Len(old) : old[i].mutex = old[j].mutex => i = j
    BY <1>5, <1>9
  <2>3. \A i, j \in 1 .. Len(new) : new[i].mutex = new[j].mutex => i = j
    BY <1>2, <1>3, <1>6, <2>1, <2>2
  <2>4. \A i \in 1 .. Len(new) :
           \/ holder[new[i].mutex] = t
           \/ pc'[t] \in {"waitraw", "waittls"} /\ new[i].mutex = arg[t]
    BY <1>2, <1>3, <1>7, <2>1
  <2> QED
    BY <1>1, <2>3, <2>4 DEF Distinct, ListedHeld, new
<1> QED
  BY <1>8, <1>9 DEF OwnListOK

LEMMA LockTlsOwn ==
    ASSUME SessionInv, NEW t \in Threads, LockTls(t)
    PROVE  OwnListOK(t)'
<1> DEFINE l == tls[t].list
           new == tls'[t].list
<1>0. /\ pc[t] = "waittls" /\ arg[t] \in Mutexes /\ TypeOK
      /\ Len(l) \in Nat /\ Len(l) > 0 /\ l[Len(l)].mutex = arg[t]
  BY ListFacts DEF LockTls, CallOfMutex, Calls, BeforeLock, SessionInv, OwnListOK,
                   ListInOrder
<1>1. g_cp' = g_cp /\ g_cp_version' = g_cp_version /\ starting' = starting
      /\ holder' = [holder EXCEPT ![arg[t]] = t] /\ pc'[t] = "idle"
  BY ListFacts DEF LockTls, sessionVars, Return, GoTo
<1>2. /\ tls' = [tls EXCEPT ![t].list = new] /\ Len(new) = Len(l)
      /\ \A i \in 1 .. Len(l) : new[i].mutex = l[i].mutex
  BY <1>0, LockTlsList
<1>3. tls'[t].cp_version = tls[t].cp_version
  BY <1>2, ListFacts
<1> HIDE DEF new
<1>4. ListInOrder(t)'
  BY <1>1, <1>3, ListFacts DEF ListInOrder, Removing, OwnListOK
<1>5. ASSUME Current(t)' PROVE Distinct(t)' /\ ListedHeld(t)'
  <2>1. Distinct(t) /\ ListedHeld(t)
    BY <1>1, <1>3, <1>5, ListFacts DEF Current, OwnListOK
  <2>2. Distinct(t)'
    BY <1>2, <2>1 DEF Distinct, new
  <2>3. \A i \in 1 .. Len(l) : holder'[l[i].mutex] = t
    BY <1>0, <1>1, <2>1, ListFacts DEF ListedHeld
  <2>4. ListedHeld(t)'
    BY <1>2, <2>3 DEF ListedHeld, new
  <2> QED
    BY <2>2, <2>4
<1> QED
  BY <1>4, <1>5 DEF OwnListOK

LEMMA UnlockTlsOwn ==
    ASSUME SessionInv, NEW t \in Threads, NEW m \in Mutexes, UnlockTls(t, m)
    PROVE  OwnListOK(t)'
<1> DEFINE l == tls[t].list
           new == tls'[t].list
           n == Len(l)
<1>1. PICK i \in 1 .. n : Taken(t, m, i)
  BY UnlockTlsList DEF SessionInv
<1>2. /\ g_cp' = g_cp /\ g_cp_version' = g_cp_version /\ starting' = starting
      /\ holder' = [holder EXCEPT ![m] = NoThread]
      /\ pc'[t] \in {"idle", "submit"} /\ pc[t] = "idle"
  BY <1>1, ListFacts DEF Taken, sessionVars, Release
<1>3. /\ tls' = [tls EXCEPT ![t].list = new] /\ Len(new) = n - 1
      /\ l[i].mutex = m /\ n \in Nat
      /\ \A j \in 1 .. n - 1 : new[j].mutex = l[IF j = i THEN n ELSE j].mutex
  BY <1>1, ListFacts DEF Taken
<1>4. tls'[t].cp_version = tls[t].cp_version
  BY <1>3, ListFacts
<1> HIDE DEF new
<1>5. ListInOrder(t)'
  BY <1>2, <1>4, ListFacts DEF ListInOrder, Removing, OwnListOK
<1>6. ASSUME Current(t)' PROVE Distinct(t)' /\ ListedHeld(t)'
  <2>1. Distinct(t) /\ ListedHeld(t)
    BY <1>2, <1>4, <1>6, ListFacts DEF Current, OwnListOK
  <2>2. \A j, k \in 1 .. n - 1 : new[j].mutex = new[k].mutex => j = k
    BY <1>3, <2>1 DEF Distinct
  <2>3. Distinct(t)'
    BY <1>3, <2>2 DEF Distinct, new
  <2>4. \A j \in 1 .. n : j # i => l[j].mutex # m /\ holder[l[j].mutex] = t
    BY <1>2, <1>3, <2>1 DEF Distinct, ListedHeld
  <2>5. ASSUME NEW j \in 1 .. n - 1 PROVE holder'[new[j].mutex] = t
    <3> DEFINE k == IF j = i THEN n ELSE j
    <3>1. k \in 1 .. n /\ k # i
      BY <1>3
    <3>2. l[k].mutex # m /\ holder[l[k].mutex] = t /\ l[k].mutex \in Mutexes
      BY <2>4, <3>1, ListFacts
    <3>3. new[j].mutex = l[k].mutex
      BY <1>3
    <3> HIDE DEF k
    <3> QED
      BY <1>2, <3>2, <3>3, ListFacts
  <2>6. ListedHeld(t)'
    BY <1>3, <2>5 DEF ListedHeld, new
  <2> QED
    BY <2>3, <2>6
<1> QED
  BY <1>5, <1>6 DEF OwnListOK

LEMMA UnlockRawOwn ==
    ASSUME SessionInv, NEW t \in Threads, NEW m \in Mutexes, UnlockRaw(t, m)
    PROVE  OwnListOK(t)'
<1>1. tls' = [tls EXCEPT ![t].list = tls'[t].list]
  BY UnlockRawList DEF SessionInv
<1>2. tls'[t].cp_version = tls[t].cp_version
  BY <1>1, ListFacts
<1>3. ~g_cp' /\ g_cp_version' = g_cp_version /\ pc'[t] = "idle"
  BY DEF UnlockRaw, sessionVars
<1> QED
  BY <1>2, <1>3, ListFacts DEF OwnListOK, ListInOrder, Current, Removing

LEMMA OwnList ==
    ASSUME SessionInv, NEW t \in Threads, LockStep(t) \/ UnlockStep(t)
    PROVE  OwnListOK(t)'
<1>0. OwnListOK(t) /\ CallOfMutex(t)
  BY ListFacts
<1> DEFINE Entry(i) == tls[t].list[i].mutex
<1>1. CASE LockRaw(t) \/ LockMap(t)
  <2>1. pc[t] \in {"waitraw", "waitmap"} /\ arg[t] \in Mutexes
    BY <1>0, <1>1 DEF LockRaw, LockMap, CallOfMutex, Calls, BeforeLock
  <2>2. /\ holder' = [holder EXCEPT ![arg[t]] = t] /\ holder[arg[t]] = NoThread
        /\ tls' = tls /\ pc'[t] \in {"idle", "addload"}
    BY <1>1, ListFacts DEF LockRaw, LockMap, Return, GoTo
  <2>3. Current(t) => \A i \in 1 .. Len(tls[t].list) : holder'[Entry(i)] = t
    BY <1>0, <2>1, <2>2, ListFacts DEF OwnListOK, ListedHeld
  <2> QED
    BY <2>2, <2>3, ListStays DEF Removing
<1>2. ASSUME NEW m \in Mutexes, LockUnrecorded(t, m)
      PROVE  OwnListOK(t)'
  <2>1. /\ holder' = [holder EXCEPT ![m] = t] /\ holder[m] = NoThread
        /\ tls' = tls /\ pc'[t] = "idle" /\ pc[t] = "idle"
    BY <1>2 DEF LockUnrecorded
  <2>2. Current(t) => \A i \in 1 .. Len(tls[t].list) : holder'[Entry(i)] = t
    BY <1>0, <2>1, ListFacts DEF OwnListOK, ListedHeld
  <2> QED
    BY <2>1, <2>2, ListStays DEF Removing
<1>3. CASE AddLoad(t) \/ AddExchange(t) \/ WriteDuration(t) \/ WriteRange(t)
           \/ SubmitContention(t) \/ \E m \in Mutexes, r \in Ranges :
                                        LockContended(t, m, r)
  <2>1. /\ pc[t] \notin {"waitraw", "waittls"} /\ tls' = tls /\ holder' = holder
        /\ pc'[t] \in {"idle", "prepare", "addcas", "duration", "range"}
    BY <1>3, ListFacts
    DEF AddLoad, AddExchange, WriteDuration, WriteRange, SubmitContention,
        LockContended, Return, GoTo
  <2>2. Current(t) => \A i \in 1 .. Len(tls[t].list) : holder'[Entry(i)] = t
    BY <1>0, <2>1 DEF OwnListOK, ListedHeld
  <2> QED
    BY <2>1, <2>2, ListStays DEF Removing
<1>4. CASE CopyDuration(t) \/ CopyRange(t) \/ Invalidate(t) \/ ClearSlot(t)
  <2>1. /\ pc[t] \in Removing /\ tls' = tls /\ holder' = holder /\ arg' = arg
        /\ pc'[t] # "waittls" /\ pc[t] \notin {"waitraw", "waittls"}
    BY <1>4, ListFacts
    DEF CopyDuration, CopyRange, Invalidate, ClearSlot, GoTo, Removing
  <2>2. Current(t) => \A i \in 1 .. Len(tls[t].list) : holder'[Entry(i)] = t
    BY <1>0, <2>1 DEF OwnListOK, ListedHeld
  <2> QED
    BY <1>0, <2>1, <2>2, ListStays DEF OwnListOK, ListInOrder
<1>5. CASE UnlockReal(t)
  <2>1. /\ pc[t] = "release" /\ tls' = tls /\ pc'[t] = "submit"
        /\ holder' = [holder EXCEPT ![arg[t]] = NoThread]
    BY <1>5, ListFacts DEF UnlockReal, GoTo, Release
  <2>2. Current(t) => \A i \in 1 .. Len(tls[t].list) : holder'[Entry(i)] = t
    BY <1>0, <2>1, ListFacts DEF OwnListOK, ListedHeld, ListInOrder, Removing
  <2> QED
    BY <2>1, <2>2, ListStays DEF Removing
<1>6. ASSUME NEW m \in Mutexes, UnlockMap(t, m)
      PROVE  OwnListOK(t)'
  <2>1. /\ pc[t] = "idle" /\ tls' = tls
        /\ \/ holder' = holder
           \/ holder' = [holder EXCEPT ![m] = NoThread]
        /\ pc'[t] = "idle" \/ (pc'[t] = "copyduration" /\ arg'[t] = m)
    BY <1>6, ListFacts DEF UnlockMap, GoTo, Release
  <2>2. \A i \in 1 .. Len(tls[t].list) : Entry(i) # m
    BY <1>6, ListTypes DEF UnlockMap, EntriesOf, SessionInv
  <2>3. Current(t) => \A i \in 1 .. Len(tls[t].list) : holder'[Entry(i)] = t
    BY <1>0, <2>1, <2>2, ListFacts DEF OwnListOK, ListedHeld
  <2> QED
    BY <2>1, <2>2, <2>3, ListStays DEF Removing
<1> QED
  BY <1>1, <1>2, <1>3, <1>4, <1>5, <1>6, PrepareOwn, LockTlsOwn, UnlockTlsOwn,
     UnlockRawOwn
  DEF LockStep, UnlockStep

(* A list that is not the thread's stays what it is, and what it is for.   *)
LEMMA ListOfOther ==
    ASSUME SessionInv, NEW t \in Threads, LockStep(t) \/ UnlockStep(t),
           NEW u \in Threads, u # t
    PROVE  OwnListOK(u)'
<1> DEFINE l == tls[u].list
<1>1. /\ pc'[u] = pc[u] /\ arg'[u] = arg[u] /\ tls'[u] = tls[u]
      /\ g_cp' = g_cp /\ g_cp_version' = g_cp_version /\ starting' = starting
  BY OthersStay, SessionStays DEF SessionInv
<1>2. OwnListOK(u) /\ \A i \in 1 .. Len(l) : l[i].mutex \in Mutexes
  BY ListFacts
<1>3. \A i \in 1 .. Len(l) : holder[l[i].mutex] = u => holder'[l[i].mutex] = u
  BY <1>2, HoldsOfOthers DEF SessionInv
<1> QED
  BY <1>1, <1>2, <1>3 DEF OwnListOK, ListInOrder, Current, Distinct, ListedHeld

(* A session that starts or stops leaves no list current that was not.     *)
LEMMA ListAcrossSessions ==
    ASSUME SessionInv, NEW u \in Threads,
           StartPublish \/ StartVersion \/ Stop \/ UNCHANGED vars
    PROVE  OwnListOK(u)'
<1>1. OwnListOK(u) /\ g_cp_version \in Nat /\ tls[u].cp_version \in Nat
  BY ListFacts
<1>2. UNCHANGED <<pc, arg, tls, holder>>
  BY DEF StartPublish, StartVersion, Stop, vars
<1>3. tls[u].cp_version <= g_cp_version
  BY <1>1 DEF OwnListOK, ListInOrder
<1>4. g_cp_version <= g_cp_version' /\ (Current(u)' => Current(u))
  BY <1>1, <1>2, <1>3
  DEF StartPublish, StartVersion, Stop, vars, sessionVars, Current
<1>5. g_cp_version' \in Nat
  BY <1>1 DEF StartPublish, StartVersion, Stop, vars, sessionVars
<1> QED
  BY <1>1, <1>2, <1>4, <1>5 DEF OwnListOK, ListInOrder, Distinct, ListedHeld

LEMMA SessionInvNext == SessionInv /\ [Next]_vars => SessionInv'
<1> SUFFICES ASSUME SessionInv, [Next]_vars PROVE SessionInv'
  OBVIOUS
<1>1. TypeOK' /\ CallsMutex' /\ HasRange'
  BY TypesKept, CallsKept DEF SessionInv
<1>2. ASSUME NEW u \in Threads PROVE OwnListOK(u)'
  <2>1. ASSUME NEW t \in Threads, LockStep(t) \/ UnlockStep(t)
        PROVE  OwnListOK(u)'
    BY <2>1, OwnList, ListOfOther
  <2> QED
    BY <2>1, ListAcrossSessions DEF Next
<1> QED
  BY <1>1, <1>2 DEF SessionInv, ListsInOrder, EntriesDistinct, AllListedHeld,
                    OwnListOK

LEMMA SessionInvInit == Init \/ InitStarted => SessionInv
<1> SUFFICES ASSUME Init \/ InitStarted PROVE SessionInv
  OBVIOUS
<1>1. Quiet /\ g_cp_version \in Nat
  BY DEF Init, InitStarted
<1>2. g_cp \in BOOLEAN /\ starting \in BOOLEAN
  BY Zenon DEF Init, InitStarted
<1>3. Unset \in Sites /\ Empty \in Versioned
  BY DEF Unset, Sites, Ranges, Versioned
<1>4. << >> \in Seq(Entries) /\ Len(<< >>) = 0 /\ 0 <= TlsMax
  BY EmptySeq, TlsAssumption
<1>5. \A t \in Threads : tls[t] = [cp_version |-> 0, list |-> << >>]
  BY <1>1 DEF Quiet
<1>6. tls \in [Threads -> [cp_version : Nat, list : Seq(Entries)]]
  BY <1>1, <1>4 DEF Quiet
<1>7. TypeOK
  <2>1. \A t \in Threads : Len(tls[t].list) <= TlsMax
    BY <1>4, <1>5
  <2>2. /\ holder \in [Mutexes -> Threads \cup {NoThread}]
        /\ versioned_mutex \in [Slots -> Versioned] /\ csite \in [Slots -> Sites]
        /\ saved \in [Threads -> Sites] /\ arg \in [Threads -> Mutexes \cup {0}]
        /\ range \in [Threads -> Ranges] /\ pc \in [Threads -> Labels]
        /\ expected \in [Threads -> Versioned \X Versioned]
    BY <1>1, <1>3 DEF Quiet, Ranges, Labels
  <2> QED
    BY <1>1, <1>2, <1>6, <2>1, <2>2 DEF TypeOK, Labels
<1>8. \A t \in Threads : pc[t] = "idle"
  BY <1>1 DEF Quiet
<1>9. CallsMutex /\ HasRange
  BY <1>8 DEF CallsMutex, HasRange, CallOfMutex, RangeOf, Calls, BeforeLock,
              Adding, Removing
<1>10. ListsInOrder
  BY <1>1, <1>4, <1>5, <1>8 DEF ListsInOrder, ListInOrder, Removing
<1>11. EntriesDistinct /\ AllListedHeld
  BY <1>4, <1>5 DEF EntriesDistinct, AllListedHeld, Distinct, ListedHeld
<1> QED
  BY <1>7, <1>9, <1>10, <1>11 DEF SessionInv

LEMMA SessionInvAlways == (Spec => []SessionInv) /\ (SpecStarted => []SessionInv)
<1>1. Init => SessionInv
  BY SessionInvInit
<1>2. InitStarted => SessionInv
  BY SessionInvInit
<1>3. SessionInv /\ [Next]_vars => SessionInv'
  BY SessionInvNext
<1>4. Spec => []SessionInv
  BY <1>1, <1>3, PTL DEF Spec
<1>5. SpecStarted => []SessionInv
  BY <1>2, <1>3, PTL DEF SpecStarted
<1> QED
  BY <1>4, <1>5

(* The hooks' shared table, their thread-local lists and the locals of     *)
(* pthread_mutex_lock_impl and pthread_mutex_unlock_impl stay what their   *)
(* types say; no list outgrows TLS_MAX_COUNT.                              *)
THEOREM TypeCorrect == (Spec => []TypeOK) /\ (SpecStarted => []TypeOK)
<1>1. SessionInv => TypeOK
  BY DEF SessionInv
<1> QED
  BY <1>1, SessionInvAlways, PTL

(* Once contention_profiler_start is over, what a thread's list has of the *)
(* session is for mutexes it holds, or for the one it waits for: the       *)
(* entries of an earlier session are gone or are not looked at.            *)
THEOREM ListsAreOfTheirSession ==
    /\ Spec => []ListIsOfThisSession
    /\ SpecStarted => []ListIsOfThisSession
<1>1. SessionInv => ListIsOfThisSession
  <2> SUFFICES ASSUME SessionInv,
                      NEW t \in Threads,
                      g_cp /\ ~starting /\ tls[t].cp_version = g_cp_version,
                      NEW i \in DOMAIN tls[t].list
               PROVE  \/ holder[tls[t].list[i].mutex] = t
                      \/ /\ pc[t] \in {"waitraw", "waittls"}
                         /\ tls[t].list[i].mutex = arg[t]
    BY DEF ListIsOfThisSession
  <2>1. ListedHeld(t)
    BY DEF SessionInv, AllListedHeld, Current
  <2>2. i \in 1 .. Len(tls[t].list)
    BY ListTypes DEF SessionInv
  <2> QED
    BY <2>1, <2>2 DEF ListedHeld
<1> QED
  BY <1>1, SessionInvAlways, PTL

-----------------------------------------------------------------------------
(* The first session. *)
LEMMA FirstFacts ==
    ASSUME SessionInv, FirstInv, FirstSession, NEW t \in Threads
    PROVE  /\ FirstOf(t) /\ OwnListOK(t) /\ CallOfMutex(t) /\ RangeOf(t)
           /\ pc \in [Threads -> Labels] /\ arg \in [Threads -> Mutexes \cup {0}]
           /\ saved \in [Threads -> Sites] /\ csite \in [Slots -> Sites]
           /\ versioned_mutex \in [Slots -> Versioned]
           /\ expected \in [Threads -> Versioned \X Versioned]
           /\ holder \in [Mutexes -> Threads \cup {NoThread}]
           /\ NoThread \notin Threads /\ g_cp_version = 1 /\ ~starting
           /\ \A m \in Mutexes : Slot(m) \in Slots
           /\ Empty \notin Nat \X Mutexes
BY ListFacts, NullAssumption
DEF FirstInv, SessionInv, TypeOK, FirstSession, Slots, HasRange, Labels

(* Two threads that use the same slot hold the same mutex.                 *)
LEMMA SlotIsOneThreads ==
    ASSUME SessionInv, FirstInv, FirstSession,
           NEW t \in Threads, NEW u \in Threads, t # u,
           pc[t] \in Uses \cup {"addcas", "release"},
           pc[u] \in Uses \cup {"addcas", "release"}
    PROVE  /\ arg[t] # arg[u] /\ arg[t] \in Mutexes /\ arg[u] \in Mutexes
           /\ pc[t] \in Uses /\ pc[u] \in Uses => Slot(arg[t]) # Slot(arg[u])
<1>1. /\ arg[t] \in Mutexes /\ arg[u] \in Mutexes
      /\ holder[arg[t]] = t /\ holder[arg[u]] = u
  BY FirstFacts DEF CallOfMutex, Calls, Adding, Removing, Uses
<1>2. ASSUME pc[t] \in Uses, pc[u] \in Uses, Slot(arg[t]) = Slot(arg[u])
      PROVE  FALSE
  <2>1. <<1, arg[t]>> = <<1, arg[u]>>
    BY <1>2, FirstFacts DEF FirstOf, HasSlot
  <2> QED
    BY <1>1, <2>1
<1> QED
  BY <1>1, <1>2

(* What becomes of the site of a slot. *)
SiteMoves(t, i) ==
    \/ csite'[i] = csite[i]
    \/ pc[t] \in {"duration", "range", "invalidate"} /\ Slot(arg[t]) = i
    \/ \E m \in Mutexes :
          Gives(t, m) /\ csite'[i] = Forget(csite[i], <<t, m>>)

LEMMA SitesMoveOneByOne ==
    ASSUME TypeOK, CallsMutex, NEW t \in Threads, LockStep(t) \/ UnlockStep(t),
           NEW i \in Slots
    PROVE  SiteMoves(t, i)
<1>0. csite \in [Slots -> Sites]
  BY DEF TypeOK
<1>1. CASE WriteDuration(t) \/ WriteRange(t) \/ Invalidate(t)
  BY <1>0, <1>1 DEF WriteDuration, WriteRange, Invalidate, SiteMoves
<1>2. ASSUME NEW m \in Mutexes, Gives(t, m) PROVE SiteMoves(t, i)
  BY <1>2 DEF Gives, Release, SiteMoves
<1> QED
  BY <1>1, <1>2, SitesMove DEF SiteMoves

(* What another thread has of a slot, it still has after a step.           *)
LEMMA FirstOfOther ==
    ASSUME SessionInv, FirstInv, FirstSession,
           NEW t \in Threads, LockStep(t) \/ UnlockStep(t),
           NEW u \in Threads, u # t
    PROVE  FirstOf(u)'
<1> DEFINE i == Slot(arg[u])
<1>0. TypeOK /\ CallsMutex
  BY DEF SessionInv
<1>1. /\ pc'[u] = pc[u] /\ arg'[u] = arg[u] /\ saved'[u] = saved[u]
      /\ expected'[u] = expected[u] /\ tls'[u] = tls[u] /\ g_cp' = g_cp
  BY <1>0, OthersStay, SessionStays
<1>2. LooksForEmpty(u)' /\ HasCopied(u)' /\ ListOfHolds(u)'
  BY <1>1, FirstFacts DEF FirstOf, LooksForEmpty, HasCopied, ListOfHolds
<1>3. ASSUME pc[u] \in Uses \cup {"release"}
      PROVE  \/ versioned_mutex'[i] = versioned_mutex[i]
             \/ pc[u] = "release" /\ ~IsFor(versioned_mutex'[i], arg[u])
  <2>0. arg[u] \in Mutexes /\ i \in Slots
    BY <1>3, FirstFacts DEF CallOfMutex, Calls, Adding, Removing, Uses
  <2>1. CASE AddExchange(t) /\ versioned_mutex[Slot(arg[t])] = expected[t][1]
    <3>1. /\ arg[t] # arg[u] /\ expected[t] = <<Empty, <<1, arg[t]>> >>
          /\ versioned_mutex[Slot(arg[t])] = Empty
          /\ versioned_mutex' =
                [versioned_mutex EXCEPT ![Slot(arg[t])] = <<1, arg[t]>>]
      BY <1>3, <2>1, SlotIsOneThreads, FirstFacts
      DEF AddExchange, FirstOf, LooksForEmpty
    <3>2. pc[u] \in Uses => versioned_mutex[i] # Empty
      <4>1. pc[u] \in Uses => versioned_mutex[i] = <<1, arg[u]>>
        BY FirstFacts DEF FirstOf, HasSlot
      <4> QED
        BY <2>0, <4>1, FirstFacts
    <3> QED
      BY <1>3, <2>0, <3>1, <3>2, FirstFacts DEF IsFor
  <2>2. CASE ClearSlot(t)
    <3>1. pc[t] \in Uses /\ pc[t] = "clear"
      BY <2>2 DEF ClearSlot, Uses
    <3>2. pc[u] \in Uses => Slot(arg[t]) # i
      BY <3>1, SlotIsOneThreads
    <3>3. versioned_mutex' = [versioned_mutex EXCEPT ![Slot(arg[t])] = Empty]
      BY <2>2 DEF ClearSlot
    <3> QED
      BY <1>3, <2>0, <3>2, <3>3, FirstFacts DEF IsFor
  <2> QED
    BY <2>1, <2>2, SlotsMove
<1>4. ASSUME pc[u] \in Uses
      PROVE  /\ csite[i].duration = <<u, arg[u]>> =>
                    csite'[i].duration = <<u, arg[u]>>
             /\ csite[i] = SiteOf(u, arg[u], 1) => csite'[i] = csite[i]
  <2>0. arg[u] \in Mutexes /\ i \in Slots /\ csite[i] \in Sites
    BY <1>4, FirstFacts DEF CallOfMutex, Calls, Adding, Removing, Uses
  <2>1. ~(pc[t] \in {"duration", "range", "invalidate"} /\ Slot(arg[t]) = i)
    BY <1>4, SlotIsOneThreads DEF Uses
  <2>2. ASSUME NEW m \in Mutexes, csite'[i] = Forget(csite[i], <<t, m>>)
        PROVE  /\ csite[i].duration = <<u, arg[u]>> =>
                      csite'[i].duration = <<u, arg[u]>>
               /\ csite[i] = SiteOf(u, arg[u], 1) => csite'[i] = csite[i]
    <3>1. <<u, arg[u]>> # <<t, m>>
      OBVIOUS
    <3>2. csite[i] = SiteOf(u, arg[u], 1) =>
             csite[i].duration = <<u, arg[u]>> /\ csite[i].range_of = <<u, arg[u]>>
      BY DEF SiteOf
    <3> QED
      BY <2>0, <2>2, <3>1, <3>2, ForgetSite
  <2> QED
    BY <1>0, <2>0, <2>1, <2>2, SitesMoveOneByOne DEF SiteMoves
<1>5. HasSlot(u)'
  <2>1. HasSlot(u)
    BY FirstFacts DEF FirstOf
  <2> QED
    BY <1>1, <1>3, <1>4, <2>1 DEF HasSlot, Uses
<1> QED
  BY <1>2, <1>5 DEF FirstOf

(* The thread's own slot and copies, after each of its steps.              *)
LEMMA OwnSlot ==
    ASSUME SessionInv, FirstInv, FirstSession,
           NEW t \in Threads, LockStep(t) \/ UnlockStep(t)
    PROVE  LooksForEmpty(t)' /\ HasSlot(t)' /\ HasCopied(t)'
<1> DEFINE Goal == LooksForEmpty(t)' /\ HasSlot(t)' /\ HasCopied(t)'
           i == Slot(arg[t])
<1> USE DEF Uses
<1>0. /\ LooksForEmpty(t) /\ HasSlot(t) /\ HasCopied(t)
      /\ pc[t] \in Uses \cup {"addload", "addcas", "release"} =>
            /\ arg[t] \in Mutexes /\ i \in Slots /\ range[t] \in Ranges
            /\ csite[i] \in Sites /\ saved[t] \in Sites
  BY FirstFacts DEF FirstOf, CallOfMutex, Calls, Adding, Removing, SessionInv, TypeOK
<1>1. ASSUME pc'[t] \in {"idle", "prepare", "waitraw", "waittls", "waitmap",
                         "addload"}
      PROVE  Goal
  BY <1>1 DEF LooksForEmpty, HasSlot, HasCopied
<1>2. CASE Prepare(t) \/ LockRaw(t) \/ LockTls(t) \/ LockMap(t) \/ WriteRange(t)
           \/ SubmitContention(t) \/ \E m \in Mutexes : \/ LockUnrecorded(t, m)
                                                        \/ UnlockRaw(t, m)
                                                        \/ \E r \in Ranges :
                                                              LockContended(t, m, r)
  BY <1>1, <1>2, FirstFacts
  DEF Prepare, LockRaw, LockTls, LockMap, WriteRange, SubmitContention,
      LockUnrecorded, UnlockRaw, LockContended, GoTo, Return
<1>3. CASE AddLoad(t)
  <2>1. versioned_mutex[i] # Empty => versioned_mutex[i][1] = 1
    BY <1>0, <1>3 DEF AddLoad, FirstInv, SlotOK
  <2>2. \/ pc'[t] = "idle"
        \/ /\ pc'[t] = "addcas" /\ arg' = arg
           /\ expected'[t] = <<Empty, <<1, arg[t]>> >>
    BY <1>3, <2>1, FirstFacts DEF AddLoad, Return, GoTo
  <2> QED
    BY <1>1, <2>2 DEF LooksForEmpty, HasSlot, HasCopied
<1>4. CASE AddExchange(t)
  <2>1. \/ pc'[t] = "idle"
        \/ /\ pc'[t] = "duration" /\ arg' = arg
           /\ versioned_mutex'[i] = <<1, arg[t]>>
    BY <1>0, <1>4, FirstFacts DEF AddExchange, Return, GoTo, LooksForEmpty
  <2> QED
    BY <1>1, <2>1 DEF LooksForEmpty, HasSlot, HasCopied
<1>5. CASE WriteDuration(t)
  <2>1. /\ pc[t] = "duration" /\ pc'[t] = "range" /\ arg' = arg
        /\ versioned_mutex' = versioned_mutex
        /\ csite'[i].duration = <<t, arg[t]>>
    BY <1>0, <1>5, FirstFacts DEF WriteDuration, GoTo, Sites
  <2> QED
    BY <1>0, <2>1 DEF LooksForEmpty, HasSlot, HasCopied
<1>6. CASE CopyDuration(t)
  <2>1. csite[i].duration = <<t, arg[t]>>
    BY <1>0, <1>6 DEF CopyDuration, HasSlot, SiteOf
  <2>2. /\ pc[t] = "copyduration" /\ pc'[t] = "copyrange" /\ arg' = arg
        /\ versioned_mutex' = versioned_mutex /\ csite' = csite
        /\ saved'[t].duration = <<t, arg[t]>>
    BY <1>0, <1>6, <2>1, FirstFacts DEF CopyDuration, GoTo, tableVars, Sites
  <2> QED
    BY <1>0, <2>2 DEF LooksForEmpty, HasSlot, HasCopied
<1>7. CASE CopyRange(t)
  <2>1. /\ csite[i] = SiteOf(t, arg[t], 1) /\ saved[t].duration = <<t, arg[t]>>
        /\ pc[t] = "copyrange"
    BY <1>0, <1>7 DEF CopyRange, HasSlot, HasCopied
  <2>2. /\ pc'[t] = "invalidate" /\ arg' = arg
        /\ versioned_mutex' = versioned_mutex
        /\ saved'[t] = [saved[t] EXCEPT !.range_of = csite[i].range_of,
                                        !.sampling_range = csite[i].sampling_range]
    BY <1>7, FirstFacts DEF CopyRange, GoTo, tableVars
  <2>3. csite[i].range_of = <<t, arg[t]>> /\ csite[i].sampling_range = 1
    BY <2>1 DEF SiteOf
  <2>4. saved[t] \in Sites
    BY <1>0, <2>1
  <2>5. saved'[t] = SiteOf(t, arg[t], 1)
    BY <2>1, <2>2, <2>3, <2>4 DEF SiteOf, Sites
  <2> QED
    BY <1>0, <2>1, <2>2, <2>5 DEF LooksForEmpty, HasSlot, HasCopied
<1>8. CASE Invalidate(t)
  <2>1. /\ pc[t] = "invalidate" /\ pc'[t] = "clear" /\ arg' = arg
        /\ versioned_mutex' = versioned_mutex /\ saved' = saved
    BY <1>8, FirstFacts DEF Invalidate, GoTo
  <2> QED
    BY <1>0, <2>1 DEF LooksForEmpty, HasSlot, HasCopied
<1>9. CASE ClearSlot(t)
  <2>1. /\ pc[t] = "clear" /\ pc'[t] = "release" /\ arg' = arg
        /\ versioned_mutex'[i] = Empty /\ saved' = saved
    BY <1>0, <1>9, FirstFacts DEF ClearSlot, GoTo
  <2> QED
    BY <1>0, <2>1 DEF LooksForEmpty, HasSlot, HasCopied, IsFor
<1>10. CASE UnlockReal(t)
  <2>1. /\ pc[t] = "release" /\ pc'[t] = "submit" /\ arg' = arg /\ saved' = saved
    BY <1>10, FirstFacts DEF UnlockReal, GoTo
  <2> QED
    BY <1>0, <2>1 DEF LooksForEmpty, HasSlot, HasCopied
<1>11. ASSUME NEW m \in Mutexes, UnlockTls(t, m) PROVE Goal
  <2>1. PICK k \in 1 .. Len(tls[t].list) : Taken(t, m, k)
    BY <1>11, UnlockTlsList DEF SessionInv
  <2> DEFINE cs == tls[t].list[k].csite
  <2>2. CASE cs.sampling_range # 0
    <3>1. cs = SiteOf(t, m, 1)
      BY <2>1, <2>2, FirstFacts DEF Taken, FirstOf, ListOfHolds
    <3>2. pc'[t] = "submit" /\ saved'[t] = cs /\ arg'[t] = m
      BY <2>1, <2>2, FirstFacts DEF Taken
    <3> QED
      BY <3>1, <3>2 DEF LooksForEmpty, HasSlot, HasCopied
  <2>3. CASE cs.sampling_range = 0
    BY <1>1, <2>1, <2>3 DEF Taken
  <2> QED
    BY <2>2, <2>3
<1>12. ASSUME NEW m \in Mutexes, UnlockMap(t, m) PROVE Goal
  <2> DEFINE e == versioned_mutex[Slot(m)]
  <2>0. /\ pc[t] = "idle" /\ holder[m] = t /\ g_cp
        /\ versioned_mutex' = versioned_mutex
    BY <1>12 DEF UnlockMap
  <2>1. CASE IsFor(e, m)
    <3>1. Slot(m) \in Slots /\ e \in Versioned /\ e # Empty /\ e[2] = m
      BY <2>1, FirstFacts DEF IsFor
    <3>2. e[1] = 1 /\ SlotOfHold(Slot(m))
      BY <2>0, <3>1 DEF FirstInv, SlotOK
    <3>3. e = <<1, m>> /\ csite[Slot(m)] = SiteOf(t, m, 1)
      BY <2>0, <3>1, <3>2 DEF SlotOfHold, Versioned
    <3>4. pc'[t] = "copyduration" /\ arg'[t] = m /\ csite' = csite
      BY <1>12, <2>1, FirstFacts DEF UnlockMap, GoTo
    <3> QED
      BY <2>0, <3>3, <3>4 DEF LooksForEmpty, HasSlot, HasCopied
  <2>2. CASE ~IsFor(e, m)
    BY <1>1, <1>12, <2>0, <2>2 DEF UnlockMap
  <2> QED
    BY <2>1, <2>2
<1> QED
  BY <1>2, <1>3, <1>4, <1>5, <1>6, <1>7, <1>8, <1>9, <1>10, <1>11, <1>12
  DEF LockStep, UnlockStep

(* The thread's own sites and entries, after each of its steps.            *)
LEMMA OwnSites ==
    ASSUME SessionInv, FirstInv, FirstSession,
           NEW t \in Threads, LockStep(t) \/ UnlockStep(t)
    PROVE  ListOfHolds(t)'
<1> DEFINE l == tls[t].list
           new == tls'[t].list
<1>0. /\ ListOfHolds(t) /\ TypeOK /\ g_cp_version = 1
      /\ \A i \in 1 .. Len(l) : l[i].mutex \in Mutexes /\ l[i].csite \in Sites
      /\ Len(l) \in Nat
      /\ tls \in [Threads -> [cp_version : Nat, list : Seq(Entries)]]
      /\ g_cp' = g_cp
  BY FirstFacts, ListTypes, SessionStays DEF FirstOf, SessionInv, TypeOK
<1>1. ASSUME tls' = tls, pc'[t] \notin Adding \/ (pc[t] \in Adding /\ arg' = arg)
      PROVE  ListOfHolds(t)'
  BY <1>0, <1>1 DEF ListOfHolds
<1>2. CASE Prepare(t)
  <2> DEFINE old == CurrentList(t)
  <2>1. arg[t] \in Mutexes /\ pc'[t] \notin Adding
    BY <1>2, FirstFacts DEF Prepare, CallOfMutex, Calls, BeforeLock, GoTo, Adding
  <2>2. /\ tls' = [tls EXCEPT ![t] = [cp_version |-> 1, list |-> new]]
        /\ old \in Seq(Entries)
        /\ HasRoom(old) =>
              /\ Len(new) = Len(old) + 1
              /\ \A i \in 1 .. Len(old) : new[i] = old[i]
              /\ new[Len(new)].csite = Unset
        /\ ~HasRoom(old) => new = old
    BY <1>0, <1>2, <2>1, PrepareList
  <2>3. Len(old) \in Nat /\ (Len(old) = 0 \/ old = l)
    BY <2>2, LenProperties, EmptySeq DEF CurrentList
  <2>4. g_cp => \A i \in 1 .. Len(old) :
           old[i].csite.sampling_range # 0 =>
               old[i].csite = SiteOf(t, old[i].mutex, 1)
    BY <1>0, <2>3 DEF ListOfHolds
  <2> HIDE DEF old, new
  <2>5. g_cp => \A i \in 1 .. Len(new) :
           new[i].csite.sampling_range # 0 =>
               new[i].csite = SiteOf(t, new[i].mutex, 1)
    <3>1. Unset.sampling_range = 0
      BY DEF Unset
    <3>2. CASE HasRoom(old)
      <4>1. \A i \in 1 .. Len(new) : i \in 1 .. Len(old) \/ i = Len(new)
        BY <2>2, <2>3, <3>2
      <4> QED
        BY <2>2, <2>4, <3>1, <3>2, <4>1
    <3> QED
      BY <2>2, <2>4, <3>2
  <2>6. tls'[t].cp_version = 1
    BY <1>0, <2>2
  <2> QED
    BY <1>0, <2>1, <2>5, <2>6 DEF ListOfHolds, new
<1>3. CASE LockTls(t)
  <2>1. /\ arg[t] \in Mutexes /\ Len(l) > 0 /\ l[Len(l)].mutex = arg[t]
        /\ range[t] = 1 /\ pc'[t] = "idle"
    BY <1>3, FirstFacts
    DEF LockTls, CallOfMutex, Calls, BeforeLock, OwnListOK, ListInOrder, RangeOf,
        Return, GoTo
  <2>2. /\ tls' = [tls EXCEPT ![t].list = new] /\ Len(new) = Len(l)
        /\ \A i \in 1 .. Len(l) :
              /\ new[i].mutex = l[i].mutex
              /\ new[i].csite = IF i = Len(l) THEN SiteOf(t, arg[t], 1)
                                ELSE l[i].csite
    BY <1>0, <1>3, <2>1, LockTlsList
  <2>3. tls'[t].cp_version = tls[t].cp_version
    BY <1>0, <2>2
  <2> HIDE DEF new
  <2>4. g_cp => \A i \in 1 .. Len(new) :
           new[i].csite.sampling_range # 0 =>
               new[i].csite = SiteOf(t, new[i].mutex, 1)
    BY <1>0, <2>1, <2>2 DEF ListOfHolds
  <2> QED
    BY <1>0, <2>1, <2>2, <2>3, <2>4 DEF ListOfHolds, Adding, new
<1>4. ASSUME NEW m \in Mutexes, UnlockRaw(t, m) PROVE ListOfHolds(t)'
  <2>1. tls' = [tls EXCEPT ![t].list = new] /\ Len(new) = Len(l) /\ ~g_cp
    BY <1>0, <1>4, UnlockRawList DEF UnlockRaw
  <2>2. tls'[t].cp_version = tls[t].cp_version
    BY <1>0, <2>1
  <2> QED
    BY <1>0, <2>1, <2>2 DEF ListOfHolds
<1>5. ASSUME NEW m \in Mutexes, UnlockTls(t, m) PROVE ListOfHolds(t)'
  <2> DEFINE n == Len(l)
  <2>1. PICK i \in 1 .. n : Taken(t, m, i)
    BY <1>0, <1>5, UnlockTlsList
  <2>2. /\ tls' = [tls EXCEPT ![t].list = new] /\ Len(new) = n - 1
        /\ l[i].mutex = m /\ g_cp /\ pc'[t] \notin Adding
        /\ \A j \in 1 .. n - 1 :
              LET k == IF j = i THEN n ELSE j IN
              /\ new[j].mutex = l[k].mutex
              /\ new[j].csite = Forget(l[k].csite, <<t, m>>)
    BY <2>1, FirstFacts DEF Taken, Adding
  <2>3. tls'[t].cp_version = tls[t].cp_version /\ tls[t].cp_version = 1
    BY <1>0, <2>1, <2>2 DEF ListOfHolds
  <2>4. Distinct(t)
    BY <1>0, <2>2, <2>3, FirstFacts DEF OwnListOK, Current
  <2>5. ASSUME NEW j \in 1 .. Len(new), new[j].csite.sampling_range # 0
        PROVE  new[j].csite = SiteOf(t, new[j].mutex, 1)
    <3> DEFINE k == IF j = i THEN n ELSE j
    <3>1. k \in 1 .. n /\ k # i
      BY <1>0, <2>2
    <3>2. new[j].mutex = l[k].mutex /\ new[j].csite = Forget(l[k].csite, <<t, m>>)
      BY <2>2
    <3> HIDE DEF k, new
    <3>3. l[k].mutex # m /\ l[k].csite \in Sites
      BY <1>0, <2>2, <2>4, <3>1 DEF Distinct
    <3>4. l[k].csite.sampling_range # 0
      BY <2>5, <3>2, <3>3, ForgetSite
    <3>5. l[k].csite = SiteOf(t, l[k].mutex, 1)
      BY <1>0, <2>2, <3>1, <3>4 DEF ListOfHolds
    <3>6. l[k].csite.duration # <<t, m>> /\ l[k].csite.range_of # <<t, m>>
      BY <3>3, <3>5 DEF SiteOf
    <3> QED
      BY <3>2, <3>3, <3>5, <3>6, ForgetSite
  <2> QED
    BY <2>2, <2>3, <2>5 DEF ListOfHolds
<1>6. CASE LockMap(t)
  <2>1. pc[t] = "waitmap" /\ tls' = tls /\ arg' = arg /\ arg[t] \in Mutexes
        /\ holder[arg[t]] # t
    BY <1>6, FirstFacts DEF LockMap, CallOfMutex, Calls, BeforeLock
  <2>2. g_cp /\ Len(l) # 0 => ListedHeld(t)
    BY <1>0, FirstFacts DEF ListOfHolds, OwnListOK, Current
  <2>3. g_cp => \A i \in 1 .. Len(l) : l[i].mutex # arg[t]
    BY <1>0, <2>1, <2>2 DEF ListedHeld
  <2> QED
    BY <1>0, <2>1, <2>3 DEF ListOfHolds
<1>7. CASE AddLoad(t) \/ AddExchange(t) \/ WriteDuration(t)
  <2>1. tls' = tls /\ pc[t] \in Adding /\ (pc'[t] \notin Adding \/ arg' = arg)
    BY <1>7, FirstFacts DEF AddLoad, AddExchange, WriteDuration, Return, GoTo, Adding
  <2> QED
    BY <1>1, <2>1
<1>8. CASE \/ LockRaw(t) \/ WriteRange(t) \/ CopyDuration(t) \/ CopyRange(t)
           \/ Invalidate(t) \/ ClearSlot(t) \/ UnlockReal(t) \/ SubmitContention(t)
  <2>1. tls' = tls /\ pc'[t] \notin Adding
    BY <1>8, FirstFacts
    DEF LockRaw, WriteRange, CopyDuration, CopyRange, Invalidate, ClearSlot,
        UnlockReal, SubmitContention, Return, GoTo, Adding
  <2> QED
    BY <1>1, <2>1
<1>9. ASSUME NEW m \in Mutexes,
             \/ LockUnrecorded(t, m) \/ UnlockMap(t, m)
             \/ \E r \in Ranges : LockContended(t, m, r)
      PROVE  ListOfHolds(t)'
  <2>1. tls' = tls /\ pc'[t] \notin Adding
    BY <1>9, FirstFacts DEF LockUnrecorded, UnlockMap, LockContended, GoTo, Adding
  <2> QED
    BY <1>1, <2>1
<1> QED
  BY <1>2, <1>3, <1>4, <1>5, <1>6, <1>7, <1>8, <1>9 DEF LockStep, UnlockStep

(* An entry that a step puts in the thread's list was there for the same   *)
(* mutex, or is for one the thread does not hold.                          *)
LEMMA EntriesMove ==
    ASSUME SessionInv, NEW t \in Threads, LockStep(t) \/ UnlockStep(t),
           NEW k \in 1 .. Len(tls'[t].list)
    PROVE  \/ \E j \in 1 .. Len(tls[t].list) :
                 tls'[t].list[k].mutex = tls[t].list[j].mutex
           \/ holder[tls'[t].list[k].mutex] # t
<1> DEFINE l == tls[t].list
           new == tls'[t].list
           Moves == \/ \E j \in 1 .. Len(l) : new[k].mutex = l[j].mutex
                    \/ holder[new[k].mutex] # t
<1>0. TypeOK /\ Len(l) \in Nat
  BY ListFacts DEF SessionInv
<1>1. CASE Prepare(t)
  <2> DEFINE old == CurrentList(t)
  <2>1. arg[t] \in Mutexes /\ holder[arg[t]] # t
    BY <1>1, ListFacts DEF Prepare, CallOfMutex, Calls, BeforeLock
  <2>2. /\ old \in Seq(Entries)
        /\ HasRoom(old) =>
              /\ Len(new) = Len(old) + 1
              /\ \A i \in 1 .. Len(old) : new[i] = old[i]
              /\ new[Len(new)].mutex = arg[t]
        /\ ~HasRoom(old) => new = old
    BY <1>0, <1>1, <2>1, PrepareList
  <2>3. Len(old) \in Nat /\ (Len(old) = 0 \/ old = l)
    BY <2>2, LenProperties, EmptySeq DEF CurrentList
  <2> HIDE DEF old, new
  <2>4. (k \in 1 .. Len(old) /\ new[k] = old[k]) \/ new[k].mutex = arg[t]
    BY <2>2, <2>3 DEF new
  <2> QED
    BY <2>1, <2>3, <2>4 DEF new
<1>2. CASE LockTls(t)
  <2>1. arg[t] \in Mutexes /\ Len(l) > 0
    BY <1>2, ListFacts
    DEF LockTls, CallOfMutex, Calls, BeforeLock, OwnListOK, ListInOrder
  <2> QED
    BY <1>0, <1>2, <2>1, LockTlsList
<1>3. ASSUME NEW m \in Mutexes, UnlockRaw(t, m) PROVE Moves
  BY <1>0, <1>3, UnlockRawList
<1>4. ASSUME NEW m \in Mutexes, UnlockTls(t, m) PROVE Moves
  <2>1. PICK i \in 1 .. Len(l) : Taken(t, m, i)
    BY <1>0, <1>4, UnlockTlsList
  <2>2. /\ Len(new) = Len(l) - 1
        /\ new[k].mutex = l[IF k = i THEN Len(l) ELSE k].mutex
    BY <2>1 DEF Taken
  <2>3. (IF k = i THEN Len(l) ELSE k) \in 1 .. Len(l)
    BY <1>0, <2>2
  <2> QED
    BY <2>2, <2>3
<1>5. CASE UNCHANGED tls
  BY <1>5
<1> QED
  BY <1>1, <1>2, <1>3, <1>4, <1>5
  DEF LockStep, UnlockStep, LockRaw, LockMap, AddLoad, AddExchange, WriteDuration,
      WriteRange, LockUnrecorded, LockContended, CopyDuration, CopyRange,
      Invalidate, ClearSlot, UnlockReal, SubmitContention, UnlockMap

LEMMA SlotFacts ==
    ASSUME SessionInv, FirstInv, FirstSession, g_cp,
           NEW i \in Slots, versioned_mutex[i] # Empty
    PROVE  /\ versioned_mutex[i][2] \in Mutexes /\ versioned_mutex[i][1] = 1
           /\ versioned_mutex[i] = <<1, versioned_mutex[i][2]>>
           /\ holder[versioned_mutex[i][2]] \in Threads
           /\ Slot(versioned_mutex[i][2]) = i /\ SlotOfHold(i)
<1>1. versioned_mutex[i] \in Nat \X Mutexes
  BY DEF SessionInv, TypeOK, Versioned
<1>2. versioned_mutex[i][1] = 1 /\ SlotOfHold(i)
  BY DEF FirstInv, SlotOK
<1> QED
  BY <1>1, <1>2 DEF SlotOfHold

(* A hold whose site is in the table is not ended before the site is taken *)
(* from there.                                                             *)
LEMMA SlotNotGiven ==
    ASSUME SessionInv, FirstInv, FirstSession, g_cp,
           NEW t \in Threads, LockStep(t) \/ UnlockStep(t),
           NEW i \in Slots, versioned_mutex[i] # Empty,
           holder[versioned_mutex[i][2]] = t
    PROVE  holder'[versioned_mutex[i][2]] # NoThread
<1> DEFINE m == versioned_mutex[i][2]
<1>0. /\ m \in Mutexes /\ Slot(m) = i /\ SlotOfHold(i)
      /\ holder \in [Mutexes -> Threads \cup {NoThread}] /\ t # NoThread
      /\ holder[m] = t
  BY SlotFacts, FirstFacts
<1> SUFFICES ASSUME holder'[m] = NoThread PROVE FALSE
  OBVIOUS
<1>1. ASSUME NEW n \in Mutexes, UnlockTls(t, n) PROVE FALSE
  <2>1. PICK k \in 1 .. Len(tls[t].list) : Taken(t, n, k)
    BY <1>1, UnlockTlsList DEF SessionInv
  <2>2. tls[t].list[k].mutex = n /\ holder' = [holder EXCEPT ![n] = NoThread]
    BY <2>1 DEF Taken, Release
  <2>3. m # n
    BY <1>0, <2>2 DEF SlotOfHold
  <2> QED
    BY <1>0, <2>2, <2>3
<1>2. ASSUME NEW n \in Mutexes, UnlockMap(t, n) PROVE FALSE
  BY <1>0, <1>2 DEF UnlockMap, IsFor, Release
<1>3. CASE UnlockReal(t)
  <2>1. ~IsFor(versioned_mutex[Slot(arg[t])], arg[t])
    BY <1>3, FirstFacts DEF UnlockReal, FirstOf, HasSlot
  <2> QED
    BY <1>0, <1>3, <2>1 DEF UnlockReal, IsFor, Release
<1>4. ASSUME NEW n \in Mutexes, UnlockRaw(t, n) PROVE FALSE
  BY <1>4 DEF UnlockRaw
<1>5. ASSUME NEW n, holder' = [holder EXCEPT ![n] = t] PROVE FALSE
  BY <1>0, <1>5
<1>6. CASE UNCHANGED holder
  BY <1>0, <1>6
<1> QED
  BY <1>1, <1>2, <1>3, <1>4, <1>5, <1>6
  DEF LockStep, UnlockStep, Prepare, LockRaw, LockTls, LockMap, AddLoad,
      AddExchange, WriteDuration, WriteRange, LockUnrecorded, LockContended,
      CopyDuration, CopyRange, Invalidate, ClearSlot, SubmitContention

(* The thread that writes the site of a slot or takes it away.             *)
LEMMA SlotWritten ==
    ASSUME SessionInv, FirstInv, FirstSession,
           NEW t \in Threads, LockStep(t) \/ UnlockStep(t),
           pc[t] \in {"duration", "range", "invalidate", "clear"},
           versioned_mutex'[Slot(arg[t])] # Empty
    PROVE  \/ csite'[Slot(arg[t])] = SiteOf(t, arg[t], 1)
           \/ arg'[t] = arg[t] /\ pc'[t] \in {"duration", "range", "clear"}
<1> DEFINE i == Slot(arg[t])
<1>0. /\ arg[t] \in Mutexes /\ i \in Slots /\ csite[i] \in Sites /\ HasSlot(t)
      /\ pc[t] = "range" => range[t] = 1
  BY FirstFacts DEF CallOfMutex, Calls, Adding, Removing, FirstOf, RangeOf
<1>1. CASE WriteDuration(t)
  BY <1>1, FirstFacts DEF WriteDuration, GoTo
<1>2. CASE WriteRange(t)
  <2>1. csite[i].duration = <<t, arg[t]>> /\ range[t] = 1
    BY <1>0, <1>2 DEF WriteRange, HasSlot
  <2>2. csite'[i] = [csite[i] EXCEPT !.range_of = <<t, arg[t]>>,
                                     !.sampling_range = 1]
    BY <1>0, <1>2, <2>1, FirstFacts DEF WriteRange
  <2> QED
    BY <1>0, <2>1, <2>2 DEF SiteOf, Sites
<1>3. CASE Invalidate(t)
  BY <1>3, FirstFacts DEF Invalidate, GoTo
<1>4. CASE ClearSlot(t)
  BY <1>0, <1>4, FirstFacts DEF ClearSlot
<1> QED
  BY <1>1, <1>2, <1>3, <1>4
  DEF LockStep, UnlockStep, Prepare, LockRaw, LockTls, LockMap, AddLoad,
      AddExchange, LockUnrecorded, LockContended, CopyDuration, CopyRange,
      UnlockReal, SubmitContention, UnlockRaw, UnlockTls, UnlockMap

(* A slot in use stays what it is for while it is in use.                  *)
LEMMA SlotStays ==
    ASSUME SessionInv, FirstInv, FirstSession, g_cp,
           NEW t \in Threads, LockStep(t) \/ UnlockStep(t),
           NEW i \in Slots, versioned_mutex[i] # Empty,
           versioned_mutex'[i] = versioned_mutex[i]
    PROVE  SlotOfHold(i)'
<1> DEFINE m == versioned_mutex[i][2]
           u == holder[m]
<1>0. /\ m \in Mutexes /\ u \in Threads /\ Slot(m) = i
      /\ versioned_mutex[i] = <<1, m>> /\ SlotOfHold(i)
  BY SlotFacts
<1>1. TypeOK /\ CallsMutex /\ csite \in [Slots -> Sites]
  BY FirstFacts DEF SessionInv
<1>2. holder'[m] = u
  <2>1. CASE u = t
    <3>1. holder'[m] # NoThread
      BY <2>1, SlotNotGiven
    <3>2. ASSUME NEW n \in Mutexes, Takes(t, n) \/ Gives(t, n)
          PROVE  holder'[m] = u
      BY <1>0, <2>1, <3>1, <3>2, FirstFacts DEF Takes, Gives, Release
    <3> QED
      BY <1>1, <3>2, HoldersMove
  <2>2. CASE u # t
    BY <1>0, <1>1, <2>2, HoldsOfOthers
  <2> QED
    BY <2>1, <2>2
<1>3. \A k \in 1 .. Len(tls'[u].list) : tls'[u].list[k].mutex # m
  <2>1. \A k \in 1 .. Len(tls[u].list) : tls[u].list[k].mutex # m
    BY <1>0 DEF SlotOfHold
  <2>2. CASE u = t
    BY <2>1, <2>2, EntriesMove
  <2>3. CASE u # t
    BY <1>0, <1>1, <2>1, <2>3, OthersStay
  <2> QED
    BY <2>2, <2>3
<1>4. \/ csite'[i] = SiteOf(u, m, 1)
      \/ arg'[u] = m /\ pc'[u] \in {"duration", "range", "clear"}
  <2>1. ASSUME pc[t] \in {"duration", "range", "invalidate", "clear"},
               Slot(arg[t]) = i
        PROVE  u = t /\ arg[t] = m
    <3>1. versioned_mutex[i] = <<1, arg[t]>> /\ holder[arg[t]] = t
      BY <2>1, FirstFacts DEF FirstOf, HasSlot, Uses, CallOfMutex, Adding, Removing
    <3> QED
      BY <1>0, <3>1
  <2>2. CASE /\ pc[t] \in {"duration", "range", "invalidate", "clear"}
             /\ Slot(arg[t]) = i
    BY <1>0, <2>1, <2>2, SlotWritten
  <2>3. CASE ~(/\ pc[t] \in {"duration", "range", "invalidate", "clear"}
               /\ Slot(arg[t]) = i)
    <3>1. CASE arg[u] = m /\ pc[u] \in {"duration", "range", "clear"}
      <4>1. u # t
        BY <1>0, <2>3, <3>1
      <4> QED
        BY <1>0, <1>1, <3>1, <4>1, OthersStay
    <3>2. CASE csite[i] = SiteOf(u, m, 1)
      <4>1. CASE csite'[i] = csite[i]
        BY <3>2, <4>1
      <4>2. ASSUME NEW n \in Mutexes, Gives(t, n),
                   csite'[i] = Forget(csite[i], <<t, n>>)
            PROVE  csite'[i] = csite[i]
        <5>1. holder[n] = t /\ holder'[n] = NoThread
          BY <4>2, FirstFacts DEF Gives, Release
        <5>2. <<t, n>> # <<u, m>>
          BY <1>0, <1>2, <5>1, FirstFacts
        <5>3. /\ csite[i] \in Sites /\ csite[i].duration = <<u, m>>
              /\ csite[i].range_of = <<u, m>>
          BY <1>1, <3>2 DEF SiteOf
        <5> QED
          BY <4>2, <5>2, <5>3, ForgetSite
      <4> QED
        BY <1>1, <2>3, <3>2, <4>1, <4>2, SitesMoveOneByOne DEF SiteMoves
    <3> QED
      BY <1>0, <3>1, <3>2 DEF SlotOfHold
  <2> QED
    BY <2>2, <2>3
<1>5. versioned_mutex'[i][2] = m
  OBVIOUS
<1> HIDE DEF m, u
<1> QED
  BY <1>0, <1>2, <1>3, <1>4, <1>5 DEF SlotOfHold

LEMMA SlotTaken ==
    ASSUME SessionInv, FirstInv, FirstSession,
           NEW t \in Threads, AddExchange(t),
           NEW i \in Slots, versioned_mutex'[i] # versioned_mutex[i]
    PROVE  SlotOK(i)'
<1>0. pc[t] = "addcas" /\ arg[t] \in Mutexes /\ holder[arg[t]] = t
  BY FirstFacts DEF AddExchange, CallOfMutex, Calls, Adding
<1>1. /\ i = Slot(arg[t]) /\ versioned_mutex'[i] = <<1, arg[t]>>
      /\ pc'[t] = "duration" /\ arg' = arg
  BY <1>0, FirstFacts DEF AddExchange, FirstOf, LooksForEmpty, GoTo
<1>2. holder' = holder /\ tls' = tls /\ g_cp' = g_cp
  BY DEF AddExchange, sessionVars
<1>3. g_cp => \A k \in 1 .. Len(tls[t].list) : tls[t].list[k].mutex # arg[t]
  BY <1>0, FirstFacts DEF FirstOf, ListOfHolds, Adding
<1> QED
  BY <1>0, <1>1, <1>2, <1>3 DEF SlotOK, SlotOfHold

LEMMA SlotNext ==
    ASSUME SessionInv, FirstInv, FirstSession,
           NEW t \in Threads, LockStep(t) \/ UnlockStep(t), NEW i \in Slots
    PROVE  SlotOK(i)'
<1>1. CASE AddExchange(t) /\ versioned_mutex'[i] # versioned_mutex[i]
  BY <1>1, SlotTaken
<1>2. CASE versioned_mutex'[i] = versioned_mutex[i]
  <2>1. versioned_mutex[i] # Empty => versioned_mutex[i][1] = 1
    BY DEF FirstInv, SlotOK
  <2>2. g_cp' = g_cp
    BY SessionStays
  <2> QED
    BY <1>2, <2>1, <2>2, SlotStays DEF SlotOK
<1>3. CASE ClearSlot(t) /\ versioned_mutex'[i] # versioned_mutex[i]
  BY <1>3, FirstFacts DEF ClearSlot, SlotOK
<1> QED
  BY <1>1, <1>2, <1>3, SlotsMove

LEMMA FirstInvNext == SessionInv /\ FirstInv /\ [Next]_vars => FirstInv'
<1> SUFFICES ASSUME SessionInv, FirstInv, [Next]_vars PROVE FirstInv'
  OBVIOUS
<1>0. g_cp_version > 0 /\ g_cp_version \in Nat
  BY DEF FirstInv, SessionInv, TypeOK
<1>1. CASE StartPublish \/ StartVersion
  BY <1>0, <1>1 DEF StartPublish, StartVersion, FirstInv, FirstSession
<1>2. CASE UNCHANGED vars
  BY <1>2
  DEF vars, sessionVars, tableVars, FirstInv, FirstSession, FirstOf, LooksForEmpty,
      HasSlot, HasCopied, ListOfHolds, SlotOK, SlotOfHold
<1>3. CASE Stop
  <2>1. /\ ~g_cp' /\ (FirstSession' <=> FirstSession) /\ g_cp_version' > 0
        /\ UNCHANGED <<holder, tls, versioned_mutex, csite, pc, arg, expected, saved>>
    BY <1>0, <1>3 DEF Stop, FirstSession, tableVars
  <2> QED
    BY <2>1 DEF FirstInv, FirstOf, LooksForEmpty, HasSlot, HasCopied, ListOfHolds,
                SlotOK
<1>4. ASSUME NEW t \in Threads, LockStep(t) \/ UnlockStep(t)
      PROVE  FirstInv'
  <2>1. g_cp_version' > 0 /\ (FirstSession' <=> FirstSession)
    BY <1>0, <1>4, SessionStays DEF FirstSession
  <2>2. ASSUME FirstSession, NEW u \in Threads PROVE FirstOf(u)'
    BY <1>4, <2>2, OwnSlot, OwnSites, FirstOfOther DEF FirstOf
  <2>3. ASSUME FirstSession, NEW i \in Slots PROVE SlotOK(i)'
    BY <1>4, <2>3, SlotNext
  <2> QED
    BY <2>1, <2>2, <2>3 DEF FirstInv, Slots
<1> QED
  BY <1>1, <1>2, <1>3, <1>4 DEF Next

LEMMA FirstInvInit == InitStarted => FirstInv
<1> SUFFICES ASSUME InitStarted PROVE FirstInv
  OBVIOUS
<1>1. Quiet /\ g_cp_version = 1
  BY DEF InitStarted
<1>2. \A t \in Threads : pc[t] = "idle" /\ Len(tls[t].list) = 0
  BY <1>1, EmptySeq DEF Quiet
<1>3. \A i \in Slots : versioned_mutex[i] = Empty
  BY <1>1 DEF Quiet
<1> QED
  BY <1>1, <1>2, <1>3 DEF FirstInv, FirstOf, LooksForEmpty, HasSlot, HasCopied,
                          ListOfHolds, SlotOK, Uses, Adding

LEMMA FirstInvAlways == SpecStarted => [](SessionInv /\ FirstInv)
<1>1. InitStarted => SessionInv /\ FirstInv
  BY SessionInvInit, FirstInvInit
<1>2. SessionInv /\ FirstInv /\ [Next]_vars => (SessionInv /\ FirstInv)'
  BY SessionInvNext, FirstInvNext
<1> QED
  BY <1>1, <1>2, PTL DEF SpecStarted

(* submit_contention is called with the two words that pthread_mutex_lock  *)
(* measured for the hold just ended, whether they came by the list or by   *)
(* the slot: no other hold's words, and no range of 0 to divide by.        *)
THEOREM SamplesAreOfTheirHolds == SpecStarted => []SampleIsOfItsHold
<1>1. SessionInv /\ FirstInv => SampleIsOfItsHold
  BY DEF FirstInv, FirstOf, HasCopied, SampleIsOfItsHold
<1> QED
  BY <1>1, FirstInvAlways, PTL

(* A slot of g_mutex_map in use while the hooks are on is for a mutex that *)
(* is held: every unlock finds the slot its lock took.                     *)
THEOREM TableHasHeldMutexes == SpecStarted => []TableEntriesHeld
<1>1. ASSUME SessionInv, FirstInv PROVE TableEntriesHeld
  <2> SUFFICES ASSUME FirstSession, g_cp, NEW i \in Slots, versioned_mutex[i] # Empty
               PROVE  holder[versioned_mutex[i][2]] # NoThread
    BY DEF TableEntriesHeld
  <2>1. holder[versioned_mutex[i][2]] \in Threads
    BY <1>1, SlotFacts
  <2> QED
    BY <2>1, NullAssumption
<1> QED
  BY <1>1, FirstInvAlways, PTL
=============================================================================
