----------------------------- MODULE Collector -----------------------------
(***************************************************************************)
(* The collector (src/collector.cpp): application threads submit samples   *)
(* into a reducer, the grab thread empties it every 100ms, sifts what it   *)
(* got and hands the rest to the dump thread, which writes or frees it.    *)
(* The reducer is SampleBag, which Combiner implements.                    *)
(*                                                                         *)
(* dump_thread_mutex_: its sections of the two threads read and write      *)
(* dump_root_ and stop_ once, and are one step each, so the mutex is held  *)
(* between two steps only where dump_thread leaves its loop without        *)
(* unlocking it.  stop_ is a plain bool that ~Collector sets without it.   *)
(* The wait of grab_thread is timed: it ends whether or not               *)
(* wakeup_grab_thread signals it, so that call changes nothing here.       *)
(***************************************************************************)
EXTENDS Naturals, FiniteSets

CONSTANTS
    Samples,              \* the SampledContention objects of the pool
    MaxPending,           \* FLAGS_collector_max_pending_samples
    MaxSubmits            \* bound of the model on the calls of submit

ASSUME PendingAssumption == MaxPending \in Nat \ {0}
ASSUME SamplesAssumption == IsFiniteSet(Samples)

VARIABLES
    free,                 \* samples in the object pool
    submitting,           \* samples an application thread is about to submit
    bag, must, taking,    \* the reducer, and the reset() under way
    out,                  \* prep_map: samples grab_thread has yet to sift
    root,                 \* root of grab_thread: samples it lets through
    dump_root,            \* dump_root_, under dump_thread_mutex_
    dumping,              \* root of dump_thread
    cached,               \* samples the profiler holds until it writes them
    grab_count, drop_count, dump_count,
    stop,                 \* stop_
    dump_mutex,           \* "free", or "dump" once its holder has exited
    gpc,                  \* where grab_thread is
    dpc,                  \* where dump_thread is
    xpc,                  \* where the thread that runs exit handlers is
    submits               \* calls of get_object so far

bagVars == <<bag, must, taking, out>>
counts == <<grab_count, drop_count, dump_count>>
vars == <<free, submitting, bagVars, root, dump_root, dumping, cached, counts,
          stop, dump_mutex, gpc, dpc, xpc, submits>>

Bag == INSTANCE SampleBag

Init ==
    /\ free = Samples /\ submitting = {}
    /\ Bag!BagInit
    /\ root = {} /\ dump_root = {} /\ dumping = {} /\ cached = {}
    /\ grab_count = 0 /\ drop_count = 0 /\ dump_count = 0
    /\ stop = FALSE /\ dump_mutex = "free"
    /\ gpc = "start" /\ dpc = "none" /\ xpc = "running"
    /\ submits = 0

-----------------------------------------------------------------------------
(* submit_contention takes a sample out of the pool. *)
GetObject(s) ==
    /\ xpc # "done"
    /\ submits < MaxSubmits
    /\ s \in free
    /\ free' = free \ {s}
    /\ submitting' = submitting \cup {s}
    /\ submits' = submits + 1
    /\ UNCHANGED <<bagVars, root, dump_root, dumping, cached, counts, stop,
                   dump_mutex, gpc, dpc, xpc>>

(* Collected::submit: the sample is recent enough and goes to the reducer. *)
SubmitOK(s) ==
    /\ s \in submitting
    /\ submitting' = submitting \ {s}
    /\ Bag!Add(s)
    /\ UNCHANGED <<free, root, dump_root, dumping, cached, counts, stop,
                   dump_mutex, gpc, dpc, xpc, submits>>

(* Collected::submit: the grab thread has not been around for 200ms.  Time *)
(* is abstracted to this choice.                                           *)
SubmitLate(s) ==
    /\ s \in submitting
    /\ submitting' = submitting \ {s}
    /\ free' = free \cup {s}
    /\ UNCHANGED <<bagVars, root, dump_root, dumping, cached, counts, stop,
                   dump_mutex, gpc, dpc, xpc, submits>>

-----------------------------------------------------------------------------
(* grab_thread creates the dump thread. *)
GrabStart ==
    /\ gpc = "start"
    /\ gpc' = "top"
    /\ dpc' = "top"
    /\ UNCHANGED <<free, submitting, bagVars, root, dump_root, dumping, cached,
                   counts, stop, dump_mutex, xpc, submits>>

(* The head of the loop of grab_thread; it goes on to call reset(). *)
GrabTop ==
    /\ gpc = "top"
    /\ ~stop
    /\ gpc' = "reset"
    /\ Bag!TakeBegin
    /\ UNCHANGED <<free, submitting, root, dump_root, dumping, cached, counts,
                   stop, dump_mutex, dpc, xpc, submits>>

(* reset() returns the list S, which prep_map takes over.  No sample has a *)
(* preprocessor, so that prep_map is one vector.                           *)
GrabReset(S) ==
    /\ gpc = "reset"
    /\ gpc' = "sift"
    /\ Bag!TakeEnd(S)
    /\ UNCHANGED <<free, submitting, root, dump_root, dumping, cached, counts,
                   stop, dump_mutex, dpc, xpc, submits>>

(* Mutant of TooMany: the bound is passed by one. *)
TooMany_offbyone == grab_count' > drop_count + dump_count + MaxPending

TooMany == grab_count' >= drop_count + dump_count + MaxPending

(* Mutants of Drop: the sample is not destroyed, or not counted. *)
Drop_leak(s) == drop_count' = drop_count + 1 /\ UNCHANGED <<free, root>>
Drop_uncounted(s) == free' = free \cup {s} /\ UNCHANGED <<drop_count, root>>

Drop(s) ==
    /\ drop_count' = drop_count + 1
    /\ free' = free \cup {s}
    /\ UNCHANGED root

PassOn(s) == root' = root \cup {s} /\ UNCHANGED <<drop_count, free>>

(* One turn of the loop over the vector: the sample is destroyed when too  *)
(* many are unprocessed, and linked to root otherwise.                     *)
GrabSift(s) ==
    /\ gpc = "sift"
    /\ Bag!Consume(s)
    /\ grab_count' = grab_count + 1
    /\ \/ TooMany /\ Drop(s)
       \/ ~TooMany /\ PassOn(s)
    /\ UNCHANGED <<submitting, dump_root, dumping, cached, dump_count, stop,
                   dump_mutex, gpc, dpc, xpc, submits>>

(* Mutant of SignalDump: nobody is signalled. *)
SignalDump_lost == UNCHANGED dpc

(* pthread_cond_signal(&dump_thread_cond_) wakes the dump thread if it     *)
(* waits, and is lost otherwise.                                           *)
SignalDump == dpc' = IF dpc = "waiting" THEN "lock" ELSE dpc

(* The vector is done: root is moved to dump_root_ and the dump thread     *)
(* signalled, both under dump_thread_mutex_; nothing to do for an empty    *)
(* root.                                                                   *)
GrabHandOff ==
    /\ gpc = "sift"
    /\ out = {}
    /\ \/ /\ root = {}
          /\ UNCHANGED <<root, dump_root, dpc>>
       \/ /\ root # {}
          /\ dump_mutex = "free"
          /\ dump_root' = dump_root \cup root
          /\ root' = {}
          /\ SignalDump
    /\ gpc' = "sleep"
    /\ UNCHANGED <<free, submitting, bagVars, dumping, cached, counts, stop,
                   dump_mutex, xpc, submits>>

(* update_speed_limit, then the timed wait for the rest of the 100ms. *)
GrabSleep ==
    /\ gpc = "sleep"
    /\ gpc' = "top"
    /\ UNCHANGED <<free, submitting, bagVars, root, dump_root, dumping, cached,
                   counts, stop, dump_mutex, dpc, xpc, submits>>

(* grab_thread has seen stop_ and leaves its loop... *)
GrabLeave ==
    /\ gpc = "top"
    /\ stop
    /\ gpc' = "finish"
    /\ UNCHANGED <<free, submitting, bagVars, root, dump_root, dumping, cached,
                   counts, stop, dump_mutex, dpc, xpc, submits>>

(* ...sets stop_ again under dump_thread_mutex_ and wakes the dump thread. *)
GrabFinish ==
    /\ gpc = "finish"
    /\ dump_mutex = "free"
    /\ stop' = TRUE
    /\ SignalDump
    /\ gpc' = "join"
    /\ UNCHANGED <<free, submitting, bagVars, root, dump_root, dumping, cached,
                   counts, dump_mutex, xpc, submits>>

(* pthread_join(dump_thread_) returns and grab_thread ends. *)
GrabJoin ==
    /\ gpc = "join"
    /\ dpc = "exited"
    /\ gpc' = "exited"
    /\ UNCHANGED <<free, submitting, bagVars, root, dump_root, dumping, cached,
                   counts, stop, dump_mutex, dpc, xpc, submits>>

-----------------------------------------------------------------------------
(* The head of the loop of dump_thread. *)
DumpTop ==
    /\ dpc = "top"
    /\ dpc' = IF stop THEN "exited" ELSE "lock"
    /\ UNCHANGED <<free, submitting, bagVars, root, dump_root, dumping, cached,
                   counts, stop, dump_mutex, gpc, xpc, submits>>

(* dump_thread has dump_thread_mutex_ (from the lock, or back from the     *)
(* wait).  When stop_ is set it breaks out of the loop and returns with    *)
(* the mutex locked.                                                       *)
DumpBreak ==
    /\ dpc = "lock"
    /\ dump_mutex = "free"
    /\ stop
    /\ dump_mutex' = "dump"
    /\ dpc' = "exited"
    /\ UNCHANGED <<free, submitting, bagVars, root, dump_root, dumping, cached,
                   counts, stop, gpc, xpc, submits>>

(* Mutant of DumpWait: dump_root_ is not looked at before the wait. *)
DumpWait_unchecked ==
    /\ dpc = "lock"
    /\ dump_mutex = "free"
    /\ ~stop
    /\ dpc' = "waiting"
    /\ UNCHANGED <<free, submitting, bagVars, root, dump_root, dumping, cached,
                   counts, stop, dump_mutex, gpc, xpc, submits>>

(* Nothing to dump: pthread_cond_wait releases the mutex and waits. *)
DumpWait ==
    /\ dpc = "lock"
    /\ dump_mutex = "free"
    /\ ~stop /\ dump_root = {}
    /\ dpc' = "waiting"
    /\ UNCHANGED <<free, submitting, bagVars, root, dump_root, dumping, cached,
                   counts, stop, dump_mutex, gpc, xpc, submits>>

(* pthread_cond_wait may return without a signal. *)
SpuriousWakeup ==
    /\ dpc = "waiting"
    /\ dpc' = "lock"
    /\ UNCHANGED <<free, submitting, bagVars, root, dump_root, dumping, cached,
                   counts, stop, dump_mutex, gpc, xpc, submits>>

(* The list in dump_root_ becomes the local list of dump_thread. *)
DumpTake ==
    /\ dpc = "lock"
    /\ dump_mutex = "free"
    /\ ~stop /\ dump_root # {}
    /\ dumping' = dumping \cup dump_root
    /\ dump_root' = {}
    /\ dpc' = "work"
    /\ UNCHANGED <<free, submitting, bagVars, root, cached, counts, stop,
                   dump_mutex, gpc, xpc, submits>>

(* dump_and_destroy of one sample: the profiler keeps it, or it goes back  *)
(* to the pool when no profiler is running.                                *)
DumpOne(s) ==
    /\ dpc = "work"
    /\ ~stop
    /\ s \in dumping
    /\ dumping' = dumping \ {s}
    /\ \/ cached' = cached \cup {s} /\ UNCHANGED free
       \/ free' = free \cup {s} /\ UNCHANGED cached
    /\ dpc' = "count"
    /\ UNCHANGED <<submitting, bagVars, root, dump_root, counts, stop,
                   dump_mutex, gpc, xpc, submits>>

(* ++dump_count_, read by the grab thread at any time. *)
DumpCount ==
    /\ dpc = "count"
    /\ dump_count' = dump_count + 1
    /\ dpc' = "work"
    /\ UNCHANGED <<free, submitting, bagVars, root, dump_root, dumping, cached,
                   grab_count, drop_count, stop, dump_mutex, gpc, xpc, submits>>

(* Mutant of DumpEnd: the list is left before its end. *)
DumpEnd_early ==
    /\ dpc = "work"
    /\ dpc' = "top"
    /\ UNCHANGED <<free, submitting, bagVars, root, dump_root, dumping, cached,
                   counts, stop, dump_mutex, gpc, xpc, submits>>

(* The list is finished, or left as it is because of stop_. *)
DumpEnd ==
    /\ dpc = "work"
    /\ stop \/ dumping = {}
    /\ dpc' = "top"
    /\ UNCHANGED <<free, submitting, bagVars, root, dump_root, dumping, cached,
                   counts, stop, dump_mutex, gpc, xpc, submits>>

(* The profiler writes what it holds (flush_to_disk) and frees it. *)
Flush ==
    /\ cached # {}
    /\ free' = free \cup cached
    /\ cached' = {}
    /\ UNCHANGED <<submitting, bagVars, root, dump_root, dumping, counts, stop,
                   dump_mutex, gpc, dpc, xpc, submits>>

-----------------------------------------------------------------------------
(* ~Collector, run by exit(): stop_ = true without any lock... *)
ExitStop ==
    /\ xpc = "running"
    /\ stop' = TRUE
    /\ xpc' = "joining"
    /\ UNCHANGED <<free, submitting, bagVars, root, dump_root, dumping, cached,
                   counts, dump_mutex, gpc, dpc, submits>>

(* ...and pthread_join(grab_thread_), after which the process ends. *)
ExitJoin ==
    /\ xpc = "joining"
    /\ gpc = "exited"
    /\ xpc' = "done"
    /\ UNCHANGED <<free, submitting, bagVars, root, dump_root, dumping, cached,
                   counts, stop, dump_mutex, gpc, dpc, submits>>

-----------------------------------------------------------------------------
SubmitStep == \E s \in Samples : GetObject(s) \/ SubmitOK(s) \/ SubmitLate(s)
SiftStep == \E s \in Samples : GrabSift(s)
GrabStep ==
    \/ GrabStart \/ GrabTop \/ GrabHandOff \/ GrabSleep
    \/ GrabLeave \/ GrabFinish \/ GrabJoin \/ SiftStep
    \/ \E S \in SUBSET bag : GrabReset(S)
DumpStep ==
    \/ DumpTop \/ DumpBreak \/ DumpWait \/ DumpTake \/ DumpCount \/ DumpEnd
    \/ \E s \in Samples : DumpOne(s)

Next == \/ SubmitStep \/ GrabStep \/ DumpStep
        \/ SpuriousWakeup \/ Flush \/ ExitStop \/ ExitJoin

Spec == Init /\ [][Next]_vars

(* The scheduler runs the two threads of the collector and the exit, once  *)
(* it has begun; a timed wait ends.  Nothing makes an application submit,  *)
(* a program exit, or pthread_cond_wait return without a signal.           *)
FairSpec == Spec /\ WF_vars(GrabStep) /\ WF_vars(DumpStep) /\ WF_vars(ExitJoin)

-----------------------------------------------------------------------------
Pending == root \cup dump_root \cup dumping

TypeOK ==
    /\ \A S \in {free, submitting, bag, must, out, root, dump_root, dumping,
                 cached} : S \subseteq Samples
    /\ taking \in BOOLEAN /\ stop \in BOOLEAN
    /\ grab_count \in Nat /\ drop_count \in Nat /\ dump_count \in Nat
    /\ dump_mutex \in {"free", "dump"}
    /\ gpc \in {"start", "top", "reset", "sift", "sleep", "finish", "join",
                "exited"}
    /\ dpc \in {"none", "top", "lock", "waiting", "work", "count", "exited"}
    /\ xpc \in {"running", "joining", "done"}
    /\ submits \in Nat
    /\ dumping # {} => stop \/ dpc \in {"work", "count"}

(* Every sample of the pool is in one place: it is not returned twice, not *)
(* linked twice and not lost, from submit to dump_and_destroy, also when   *)
(* the collector stops half way.                                           *)
OwnedOnce ==
    /\ Samples \subseteq free \cup submitting \cup bag \cup out \cup Pending \cup cached
    /\ free \cap (submitting \cup bag \cup out \cup Pending \cup cached) = {}
    /\ submitting \cap (bag \cup out \cup Pending \cup cached) = {}
    /\ bag \cap (out \cup Pending \cup cached) = {}
    /\ out \cap (Pending \cup cached) = {}
    /\ Pending \cap cached = {}
    /\ root \cap (dump_root \cup dumping) = {} /\ dump_root \cap dumping = {}

(* grab_count_, drop_count_ and dump_count_, written by two threads        *)
(* without a lock, agree with the samples under way: what was grabbed was  *)
(* dropped, dumped, is pending, or is the one dumped and not counted yet.  *)
CountsAddUp ==
    grab_count = drop_count + dump_count + Cardinality(Pending)
                     + (IF dpc = "count" THEN 1 ELSE 0)

(* FLAGS_collector_max_pending_samples bounds the unprocessed samples,     *)
(* whatever the dump thread is doing.                                      *)
PendingBounded == Cardinality(Pending) < MaxPending

(* A sample that submit accepted is dropped or dumped unless the program   *)
(* exits: no signal from grab_thread to dump_thread is lost for good.      *)
AcceptedIsFinished ==
    \A s \in Samples : s \in bag ~> (s \notin bag \cup out \cup Pending \/ stop)

(* The exit goes on to its end, unless the dump thread has left its loop   *)
(* with dump_thread_mutex_ while the grab thread still needs it: the only  *)
(* way ~Collector hangs, whatever signals were sent before.                *)
LeftLocked == dump_mutex = "dump" /\ gpc \notin {"join", "exited"}

ExitEndsOrLeftLocked == xpc = "joining" ~> (xpc = "done" \/ LeftLocked)

(* A program that returns from main ends: examples/sample/main.cpp stops   *)
(* the profiler and returns 0.                                             *)
ExitEnds == xpc = "joining" ~> xpc = "done"
=============================================================================
