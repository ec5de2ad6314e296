--------------------------- MODULE ContentionHook ---------------------------
(***************************************************************************)
(* The hooked pthread_mutex_lock and pthread_mutex_unlock                  *)
(* (src/contention.cpp): a contended lock leaves a contention site, in a   *)
(* thread-local list of TLS_MAX_COUNT entries or else in the global table  *)
(* g_mutex_map; the unlock that ends the hold takes the site back and      *)
(* submits it.  Profiling sessions start and stop meanwhile.               *)
(*                                                                         *)
(* The application's mutexes are of the default type.  What a step does to *)
(* the thread-local list is atomic with the next access to shared state;   *)
(* every access to g_mutex_map or g_cp is a step of its own.  A step that  *)
(* reads g_cp_version twice finds the same version both times.             *)
(***************************************************************************)
EXTENDS Naturals, Sequences, FiniteSets

CONSTANTS
    Threads,
    Mutexes,              \* numbers: a thread locks them in ascending order
    NoThread, NoHold, Empty,
    Slot(_),              \* the index of g_mutex_map a mutex is hashed to
    TlsMax,               \* TLS_MAX_COUNT
    MaxStarts             \* bound of the model on the profiling sessions

ASSUME MutexAssumption == Mutexes \subseteq Nat
ASSUME TlsAssumption == TlsMax \in Nat
ASSUME NullAssumption == /\ NoThread \notin Threads
                         /\ NoHold \notin Threads \X Mutexes
                         /\ Empty \notin Nat \X Mutexes

VARIABLES
    g_cp,                 \* g_cp # nullptr
    g_cp_version,
    starting,             \* contention_profiler_start is between its stores
    holder,               \* holder[m]: the thread that has mutex m
    tls,                  \* tls[t]: tls_csites of thread t
    versioned_mutex,      \* of each slot of g_mutex_map: Empty, or a pair
    csite,                \* of each slot of g_mutex_map
    pc, arg,              \* where thread t is, and the mutex it is called with
    range,                \* sampling_range in pthread_mutex_lock_impl
    expected,             \* expected and desired of the exchange
    saved                 \* saved_csite in pthread_mutex_unlock_impl

tableVars == <<versioned_mutex, csite>>
sessionVars == <<g_cp, g_cp_version, starting>>
vars == <<sessionVars, holder, tls, tableVars, pc, arg, range, expected, saved>>

Slots == {Slot(m) : m \in Mutexes}
Ranges == 0..1            \* 0, and all the sampling ranges there are
Holds == Threads \X Mutexes

(* A contention site: in place of the two words its fields hold, the hold  *)
(* of a mutex whose wait they were measured for.  A hold that has ended    *)
(* becomes NoHold wherever it is still written down.                       *)
Sites == [duration : Holds \cup {NoHold}, range_of : Holds \cup {NoHold},
          sampling_range : Ranges]
Unset == [duration |-> NoHold, range_of |-> NoHold, sampling_range |-> 0]
SiteOf(t, m, r) ==
    [duration |-> <<t, m>>, range_of |-> <<t, m>>, sampling_range |-> r]

(* An entry of the thread-local list, and what a slot of g_mutex_map holds. *)
Entries == [mutex : Mutexes, csite : Sites]
Versioned == (Nat \X Mutexes) \cup {Empty}

Forget(cs, h) ==
    [cs EXCEPT !.duration = IF @ = h THEN NoHold ELSE @,
               !.range_of = IF @ = h THEN NoHold ELSE @]

Quiet ==
    /\ holder = [m \in Mutexes |-> NoThread]
    /\ tls = [t \in Threads |-> [cp_version |-> 0, list |-> <<>>]]
    /\ versioned_mutex = [i \in Slots |-> Empty]
    /\ csite = [i \in Slots |-> Unset]
    /\ pc = [t \in Threads |-> "idle"]
    /\ arg = [t \in Threads |-> 0]
    /\ range = [t \in Threads |-> 0]
    /\ expected = [t \in Threads |-> <<Empty, Empty>>]
    /\ saved = [t \in Threads |-> Unset]

Init == g_cp = FALSE /\ g_cp_version = 0 /\ starting = FALSE /\ Quiet

(* examples/sample/main.cpp starts the profiler before it makes a thread:  *)
(* no lock is taken between the two stores of contention_profiler_start.   *)
InitStarted == g_cp = TRUE /\ g_cp_version = 1 /\ starting = FALSE /\ Quiet

GoTo(t, l) == pc' = [pc EXCEPT ![t] = l]

(* The call returns, and its locals are gone. *)
Return(t) ==
    /\ GoTo(t, "idle")
    /\ arg' = [arg EXCEPT ![t] = 0]
    /\ range' = [range EXCEPT ![t] = 0]

-----------------------------------------------------------------------------
(* The lock is not contended, or hooks are off: nothing is recorded. *)
LockUnrecorded(t, m) ==
    /\ pc[t] = "idle"
    /\ \A n \in Mutexes : holder[n] = t => n < m
    /\ holder[m] = NoThread
    /\ holder' = [holder EXCEPT ![m] = t]
    /\ UNCHANGED <<sessionVars, tls, tableVars, pc, arg, range, expected, saved>>

(* pthread_mutex_trylock returns EBUSY; is_collectable gives the range. *)
LockContended(t, m, r) ==
    /\ pc[t] = "idle"
    /\ \A n \in Mutexes : holder[n] = t => n < m
    /\ g_cp
    /\ holder[m] # NoThread
    /\ arg' = [arg EXCEPT ![t] = m]
    /\ range' = [range EXCEPT ![t] = r]
    /\ GoTo(t, "prepare")
    /\ UNCHANGED <<sessionVars, holder, tls, tableVars, expected, saved>>

(* Mutants: the list is not emptied for a new session; one entry too many. *)
CurrentList_stale(t) == tls[t].list
HasRoom_offbyone(l) == Len(l) <= TlsMax

CurrentList(t) == IF tls[t].cp_version = g_cp_version THEN tls[t].list ELSE <<>>
HasRoom(l) == Len(l) < TlsMax

(* The list, emptied when it is of an earlier session, gets an entry if it *)
(* has room; the site of the entry is filled in when the lock is there.    *)
Prepare(t) ==
    LET old == CurrentList(t)
        room == HasRoom(old)
    IN  /\ pc[t] = "prepare"
        /\ tls' = [tls EXCEPT ![t] =
                      [cp_version |-> g_cp_version,
                       list |-> IF room
                                THEN Append(old, [mutex |-> arg[t], csite |-> Unset])
                                ELSE old]]
        /\ GoTo(t, CASE range[t] = 0 -> "waitraw"
                     [] range[t] # 0 /\ room -> "waittls"
                     [] OTHER -> "waitmap")
        /\ UNCHANGED <<sessionVars, holder, tableVars, arg, range, expected,
                       saved>>

(* The real lock returns, to a thread that records nothing. *)
LockRaw(t) ==
    /\ pc[t] = "waitraw"
    /\ holder[arg[t]] = NoThread
    /\ holder' = [holder EXCEPT ![arg[t]] = t]
    /\ Return(t)
    /\ UNCHANGED <<sessionVars, tls, tableVars, expected, saved>>

(* The real lock returns; the site goes to the entry added last. *)
LockTls(t) ==
    /\ pc[t] = "waittls"
    /\ holder[arg[t]] = NoThread
    /\ holder' = [holder EXCEPT ![arg[t]] = t]
    /\ tls' = [tls EXCEPT ![t].list[Len(tls[t].list)].csite =
                              SiteOf(t, arg[t], range[t])]
    /\ Return(t)
    /\ UNCHANGED <<sessionVars, tableVars, expected, saved>>

(* The real lock returns, to a thread whose list was full. *)
LockMap(t) ==
    /\ pc[t] = "waitmap"
    /\ holder[arg[t]] = NoThread
    /\ holder' = [holder EXCEPT ![arg[t]] = t]
    /\ GoTo(t, "addload")
    /\ UNCHANGED <<sessionVars, tls, tableVars, arg, range, expected, saved>>

(* add_pthread_contention_site loads the slot and gives up when a mutex of *)
(* this session has it.                                                    *)
AddLoad(t) ==
    LET e == versioned_mutex[Slot(arg[t])]
    IN  /\ pc[t] = "addload"
        /\ IF e = Empty \/ e[1] # g_cp_version
           THEN /\ expected' = [expected EXCEPT ![t] =
                                   <<e, <<g_cp_version, arg[t]>> >>]
                /\ GoTo(t, "addcas")
                /\ UNCHANGED <<arg, range>>
           ELSE Return(t) /\ UNCHANGED expected
        /\ UNCHANGED <<sessionVars, holder, tls, tableVars, saved>>

(* compare_exchange_strong on the slot. *)
AddExchange(t) ==
    LET i == Slot(arg[t])
    IN  /\ pc[t] = "addcas"
        /\ IF versioned_mutex[i] = expected[t][1]
           THEN /\ versioned_mutex' = [versioned_mutex EXCEPT ![i] = expected[t][2]]
                /\ GoTo(t, "duration")
                /\ UNCHANGED <<arg, range>>
           ELSE Return(t) /\ UNCHANGED versioned_mutex
        /\ expected' = [expected EXCEPT ![t] = <<Empty, Empty>>]
        /\ UNCHANGED <<sessionVars, holder, tls, csite, saved>>

(* The two fields of the site in the table are written one by one. *)
WriteDuration(t) ==
    /\ pc[t] = "duration"
    /\ csite' = [csite EXCEPT ![Slot(arg[t])].duration = <<t, arg[t]>>]
    /\ GoTo(t, "range")
    /\ UNCHANGED <<sessionVars, holder, tls, versioned_mutex, arg, range,
                   expected, saved>>

WriteRange(t) ==
    /\ pc[t] = "range"
    /\ csite' = [csite EXCEPT ![Slot(arg[t])].range_of = <<t, arg[t]>>,
                              ![Slot(arg[t])].sampling_range = range[t]]
    /\ Return(t)
    /\ UNCHANGED <<sessionVars, holder, tls, versioned_mutex, expected, saved>>

-----------------------------------------------------------------------------
(* real_pthread_mutex_unlock_func: the hold is over.                       *)
Release(t, m) ==
    /\ holder' = [holder EXCEPT ![m] = NoThread]
    /\ csite' = [i \in Slots |-> Forget(csite[i], <<t, m>>)]

ForgetTls(l, h) ==
    [i \in DOMAIN l |-> [l[i] EXCEPT !.csite = Forget(@, h)]]

(* pthread_mutex_unlock_impl is called with hooks off. *)
UnlockRaw(t, m) ==
    /\ pc[t] = "idle"
    /\ holder[m] = t
    /\ ~g_cp
    /\ Release(t, m)
    /\ tls' = [tls EXCEPT ![t].list = ForgetTls(@, <<t, m>>)]
    /\ UNCHANGED <<sessionVars, versioned_mutex, pc, arg, range, expected, saved>>

EntriesOf(l, m) == {i \in DOMAIN l : l[i].mutex = m}

(* The last entry goes to the place of entry i. *)
SwapRemove(l, i) == SubSeq([l EXCEPT ![i] = l[Len(l)]], 1, Len(l) - 1)

(* The entry nearest to the end of the list is for m: it is taken out and  *)
(* the mutex unlocked.                                                     *)
UnlockTls(t, m) ==
    /\ pc[t] = "idle"
    /\ holder[m] = t
    /\ g_cp
    /\ \E i \in EntriesOf(tls[t].list, m) :
          /\ \A j \in EntriesOf(tls[t].list, m) : j <= i
          /\ LET cs == tls[t].list[i].csite
             IN  IF cs.sampling_range # 0
                 THEN /\ saved' = [saved EXCEPT ![t] = cs]
                      /\ arg' = [arg EXCEPT ![t] = m]
                      /\ GoTo(t, "submit")
                 ELSE UNCHANGED <<saved, arg, pc>>
          /\ tls' = [tls EXCEPT ![t].list = ForgetTls(SwapRemove(@, i), <<t, m>>)]
    /\ Release(t, m)
    /\ UNCHANGED <<sessionVars, versioned_mutex, range, expected>>

(* Mutant of IsFor: any entry of the slot will do. *)
IsFor_any(e, m) == e # Empty

IsFor(e, m) == e # Empty /\ e[2] = m

(* No entry is for m: remove_pthread_contention_site looks at the slot, by *)
(* the mutex alone.                                                        *)
UnlockMap(t, m) ==
    LET e == versioned_mutex[Slot(m)]
    IN  /\ pc[t] = "idle"
        /\ holder[m] = t
        /\ g_cp
        /\ EntriesOf(tls[t].list, m) = {}
        /\ IF IsFor(e, m)
           THEN /\ arg' = [arg EXCEPT ![t] = m]
                /\ GoTo(t, "copyduration")
                /\ UNCHANGED <<holder, csite>>
           ELSE Release(t, m) /\ UNCHANGED <<arg, pc>>
        /\ UNCHANGED <<sessionVars, tls, versioned_mutex, range, expected, saved>>

(* *saved_csite = entry.csite copies two words. *)
CopyDuration(t) ==
    /\ pc[t] = "copyduration"
    /\ saved' = [saved EXCEPT ![t].duration = csite[Slot(arg[t])].duration]
    /\ GoTo(t, "copyrange")
    /\ UNCHANGED <<sessionVars, holder, tls, tableVars, arg, range, expected>>

CopyRange(t) ==
    LET cs == csite[Slot(arg[t])]
    IN  /\ pc[t] = "copyrange"
        /\ saved' = [saved EXCEPT ![t].range_of = cs.range_of,
                                  ![t].sampling_range = cs.sampling_range]
        /\ GoTo(t, "invalidate")
        /\ UNCHANGED <<sessionVars, holder, tls, tableVars, arg, range, expected>>

(* make_contention_site_invalid(&entry.csite) *)
Invalidate(t) ==
    /\ pc[t] = "invalidate"
    /\ csite' = [csite EXCEPT ![Slot(arg[t])].sampling_range = 0]
    /\ GoTo(t, "clear")
    /\ UNCHANGED <<sessionVars, holder, tls, versioned_mutex, arg, range,
                   expected, saved>>

(* Mutant of ClearSlot: the slot stays in use. *)
ClearSlot_forgotten(t) ==
    /\ pc[t] = "clear"
    /\ GoTo(t, "release")
    /\ UNCHANGED <<sessionVars, holder, tls, tableVars, arg, range, expected,
                   saved>>

(* m.store(0) *)
ClearSlot(t) ==
    /\ pc[t] = "clear"
    /\ versioned_mutex' = [versioned_mutex EXCEPT ![Slot(arg[t])] = Empty]
    /\ GoTo(t, "release")
    /\ UNCHANGED <<sessionVars, holder, tls, csite, arg, range, expected, saved>>

(* The real unlock, before the site from the table is submitted. *)
UnlockReal(t) ==
    /\ pc[t] = "release"
    /\ Release(t, arg[t])
    /\ GoTo(t, "submit")
    /\ UNCHANGED <<sessionVars, tls, versioned_mutex, arg, range, expected, saved>>

(* submit_contention divides by the range and submits a sample. *)
SubmitContention(t) ==
    /\ pc[t] = "submit"
    /\ saved' = [saved EXCEPT ![t] = Unset]
    /\ Return(t)
    /\ UNCHANGED <<sessionVars, holder, tls, tableVars, expected>>

-----------------------------------------------------------------------------
(* contention_profiler_start stores g_cp, then increments g_cp_version;    *)
(* the hooks read both without g_cp_mutex.                                 *)
StartPublish ==
    /\ ~g_cp /\ ~starting
    /\ g_cp_version < MaxStarts
    /\ g_cp' = TRUE
    /\ starting' = TRUE
    /\ UNCHANGED <<g_cp_version, holder, tls, tableVars, pc, arg, range,
                   expected, saved>>

StartVersion ==
    /\ starting
    /\ g_cp_version' = g_cp_version + 1
    /\ starting' = FALSE
    /\ UNCHANGED <<g_cp, holder, tls, tableVars, pc, arg, range, expected, saved>>

(* contention_profiler_stop takes g_cp away. *)
Stop ==
    /\ g_cp /\ ~starting
    /\ g_cp' = FALSE
    /\ UNCHANGED <<g_cp_version, starting, holder, tls, tableVars, pc, arg,
                   range, expected, saved>>

-----------------------------------------------------------------------------
LockStep(t) ==
    \/ Prepare(t) \/ LockRaw(t) \/ LockTls(t) \/ LockMap(t)
    \/ AddLoad(t) \/ AddExchange(t) \/ WriteDuration(t) \/ WriteRange(t)
    \/ \E m \in Mutexes : LockUnrecorded(t, m)
    \/ \E m \in Mutexes, r \in Ranges : LockContended(t, m, r)

UnlockStep(t) ==
    \/ CopyDuration(t) \/ CopyRange(t) \/ Invalidate(t) \/ ClearSlot(t)
    \/ UnlockReal(t) \/ SubmitContention(t)
    \/ \E m \in Mutexes : UnlockRaw(t, m) \/ UnlockTls(t, m) \/ UnlockMap(t, m)

Next ==
    \/ StartPublish \/ StartVersion \/ Stop
    \/ \E t \in Threads : LockStep(t) \/ UnlockStep(t)

Spec == Init /\ [][Next]_vars

SpecStarted == InitStarted /\ [][Next]_vars

-----------------------------------------------------------------------------
TypeOK ==
    /\ g_cp \in BOOLEAN /\ g_cp_version \in Nat /\ starting \in BOOLEAN
    /\ holder \in [Mutexes -> Threads \cup {NoThread}]
    /\ tls \in [Threads -> [cp_version : Nat, list : Seq(Entries)]]
    /\ \A t \in Threads : Len(tls[t].list) <= TlsMax
    /\ versioned_mutex \in [Slots -> Versioned]
    /\ csite \in [Slots -> Sites]
    /\ pc \in [Threads -> {"idle", "prepare", "waitraw", "waittls", "waitmap",
                           "addload", "addcas", "duration", "range",
                           "copyduration", "copyrange", "invalidate", "clear",
                           "release", "submit"}]
    /\ arg \in [Threads -> Mutexes \cup {0}]
    /\ range \in [Threads -> Ranges]
    /\ expected \in [Threads -> Versioned \X Versioned]
    /\ saved \in [Threads -> Sites]

FirstSession == g_cp_version = 1 /\ ~starting

(* In a session begun before any lock is taken, a submitted sample tells   *)
(* of the wait for the very hold that the unlock has ended, and its range, *)
(* the divisor of submit_contention, is not 0.  (A later session can meet  *)
(* the sites of holds that ended between the sessions.)                    *)
SampleIsOfItsHold ==
    FirstSession =>
        \A t \in Threads :
            pc[t] = "submit" => saved[t] = SiteOf(t, arg[t], 1)

(* While the hooks are on, a slot of the table in use in that session is   *)
(* for a mutex somebody holds: the table does not fill with dead sites.    *)
TableEntriesHeld ==
    FirstSession /\ g_cp => \A i \in Slots :
        versioned_mutex[i] # Empty => holder[versioned_mutex[i][2]] # NoThread

(* Across sessions: once a session is under way, the entries a thread has  *)
(* of it are for mutexes it holds, or for the one it waits for.            *)
ListIsOfThisSession ==
    \A t \in Threads :
        g_cp /\ ~starting /\ tls[t].cp_version = g_cp_version =>
            \A i \in DOMAIN tls[t].list :
                \/ holder[tls[t].list[i].mutex] = t
                \/ /\ pc[t] \in {"waitraw", "waittls"}
                   /\ tls[t].list[i].mutex = arg[t]

(* "g_mutex_map stores the correspondence of mutex and csite": the site    *)
(* remove_pthread_contention_site returns was stored for its mutex, or its *)
(* hold is long over.                                                      *)
TableCorresponds ==
    \A t \in Threads :
        pc[t] = "invalidate" /\ saved[t].range_of # NoHold =>
            saved[t].range_of[2] = arg[t]
=============================================================================
