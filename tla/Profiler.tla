------------------------------ MODULE Profiler ------------------------------
(***************************************************************************)
(* Profiling sessions (src/profiler.cpp): contention_profiler_start and    *)
(* _stop, called by any thread, and SampledContention::dump_and_destroy,   *)
(* called by the dump thread, which share g_cp under g_cp_mutex but first  *)
(* look at it without.  A ContentionProfiler caches samples, writes and    *)
(* frees them when it has too many and when it is deleted.                 *)
(*                                                                         *)
(* A section under g_cp_mutex is one step: nothing in it waits, and g_cp   *)
(* is written only there.  Sessions have files of their own.               *)
(***************************************************************************)
EXTENDS FiniteSets, Naturals

CONSTANTS
    Controllers,          \* threads that start and stop the profiler
    Profilers,            \* the ContentionProfiler objects that are allocated
    Samples,              \* the SampledContention objects of the pool
    NoProfiler,           \* nullptr
    NoSample,             \* dump_thread has no sample in hand
    MaxCached,            \* MAX_CACHED_CONTENTIONS
    MaxArrivals           \* bound of the model on the samples to dump

ASSUME ProfilerAssumption == NoProfiler \notin Profilers
ASSUME SampleAssumption == NoSample \notin Samples /\ IsFiniteSet(Samples)
ASSUME CachedAssumption == MaxCached \in Nat

VARIABLES
    g_cp,
    heap,                 \* of each profiler: "unused", "live" or "deleted"
    init,                 \* init_ of each profiler
    hash_set,             \* hash_set of each profiler
    recorded,             \* history: samples handed to each profiler
    written,              \* lines in the file of each profiler
    pc, ctx,              \* of each controller
    free,                 \* samples in the object pool
    waiting,              \* samples the dump thread has yet to take
    dumper, sample,       \* where the dump thread is, and its sample
    arrivals

objects == <<heap, init, hash_set, recorded, written>>
dumperVars == <<waiting, dumper, sample, arrivals>>
vars == <<g_cp, objects, pc, ctx, free, dumperVars>>

Init ==
    /\ g_cp = NoProfiler
    /\ heap = [p \in Profilers |-> "unused"]
    /\ init = [p \in Profilers |-> FALSE]
    /\ hash_set = [p \in Profilers |-> {}]
    /\ recorded = [p \in Profilers |-> 0]
    /\ written = [p \in Profilers |-> 0]
    /\ pc = [c \in Controllers |-> "idle"]
    /\ ctx = [c \in Controllers |-> NoProfiler]
    /\ free = Samples /\ waiting = {}
    /\ dumper = "idle" /\ sample = NoSample
    /\ arrivals = 0

-----------------------------------------------------------------------------
(* contention_profiler_start: no session is seen, a profiler is made. *)
StartCheck(c, p) ==
    /\ pc[c] = "idle"
    /\ g_cp = NoProfiler
    /\ heap[p] = "unused"
    /\ heap' = [heap EXCEPT ![p] = "live"]
    /\ ctx' = [ctx EXCEPT ![c] = p]
    /\ pc' = [pc EXCEPT ![c] = "publish"]
    /\ UNCHANGED <<g_cp, init, hash_set, recorded, written, free, dumperVars>>

(* Mutant of StartPublish: g_cp is not looked at again under the mutex. *)
StartPublish_unchecked(c) ==
    /\ pc[c] = "publish"
    /\ g_cp' = ctx[c]
    /\ ctx' = [ctx EXCEPT ![c] = NoProfiler]
    /\ pc' = [pc EXCEPT ![c] = "idle"]
    /\ UNCHANGED <<objects, free, dumperVars>>

(* Under g_cp_mutex there is still no session: this one begins. *)
StartPublish(c) ==
    /\ pc[c] = "publish"
    /\ g_cp = NoProfiler
    /\ g_cp' = ctx[c]
    /\ ctx' = [ctx EXCEPT ![c] = NoProfiler]
    /\ pc' = [pc EXCEPT ![c] = "idle"]
    /\ UNCHANGED <<objects, free, dumperVars>>

(* Another thread was faster: false is returned and the unique_ptr deletes *)
(* the profiler, which was never initialised and writes nothing.           *)
StartDiscard(c) ==
    /\ pc[c] = "publish"
    /\ g_cp # NoProfiler
    /\ heap' = [heap EXCEPT ![ctx[c]] = "deleted"]
    /\ ctx' = [ctx EXCEPT ![c] = NoProfiler]
    /\ pc' = [pc EXCEPT ![c] = "idle"]
    /\ UNCHANGED <<g_cp, init, hash_set, recorded, written, free, dumperVars>>

(* contention_profiler_stop: a session is seen. *)
StopCheck(c) ==
    /\ pc[c] = "idle"
    /\ g_cp # NoProfiler
    /\ pc' = [pc EXCEPT ![c] = "swap"]
    /\ UNCHANGED <<g_cp, objects, ctx, free, dumperVars>>

(* Mutant of StopSwap: g_cp is not set to null. *)
StopSwap_kept(c) ==
    /\ pc[c] = "swap"
    /\ g_cp # NoProfiler
    /\ ctx' = [ctx EXCEPT ![c] = g_cp]
    /\ pc' = [pc EXCEPT ![c] = "init"]
    /\ UNCHANGED <<g_cp, objects, free, dumperVars>>

(* Under g_cp_mutex the session is taken off g_cp. *)
StopSwap(c) ==
    /\ pc[c] = "swap"
    /\ g_cp # NoProfiler
    /\ ctx' = [ctx EXCEPT ![c] = g_cp]
    /\ g_cp' = NoProfiler
    /\ pc' = [pc EXCEPT ![c] = "init"]
    /\ UNCHANGED <<objects, free, dumperVars>>

(* Under g_cp_mutex the session is gone: another thread stopped it. *)
StopGone(c) ==
    /\ pc[c] = "swap"
    /\ g_cp = NoProfiler
    /\ pc' = [pc EXCEPT ![c] = "idle"]
    /\ UNCHANGED <<g_cp, objects, ctx, free, dumperVars>>

(* ctx->init_if_needed(), so that even an empty session leaves a file. *)
StopInit(c) ==
    /\ pc[c] = "init"
    /\ init' = [init EXCEPT ![ctx[c]] = TRUE]
    /\ pc' = [pc EXCEPT ![c] = "delete"]
    /\ UNCHANGED <<g_cp, heap, hash_set, recorded, written, ctx, free, dumperVars>>

(* ~ContentionProfiler: flush_to_disk(true) writes a sample and frees it.  *)
(* Its pointer stays in the hash_set, which nobody else can see, until     *)
(* clear(); here it leaves at once.                                        *)
StopFlush(c, s) ==
    LET p == ctx[c]
    IN  /\ pc[c] = "delete"
        /\ init[p]
        /\ s \in hash_set[p]
        /\ hash_set' = [hash_set EXCEPT ![p] = @ \ {s}]
        /\ written' = [written EXCEPT ![p] = @ + 1]
        /\ free' = free \cup {s}
        /\ UNCHANGED <<g_cp, heap, init, recorded, pc, ctx, dumperVars>>

(* Mutant of StopDelete: the profiler is deleted without a flush. *)
StopDelete_unflushed(c) ==
    /\ pc[c] = "delete"
    /\ heap' = [heap EXCEPT ![ctx[c]] = "deleted"]
    /\ ctx' = [ctx EXCEPT ![c] = NoProfiler]
    /\ pc' = [pc EXCEPT ![c] = "idle"]
    /\ UNCHANGED <<g_cp, init, hash_set, recorded, written, free, dumperVars>>

(* The flush is over: the file is closed and the profiler deleted. *)
StopDelete(c) ==
    /\ pc[c] = "delete"
    /\ init[ctx[c]] => hash_set[ctx[c]] = {}
    /\ heap' = [heap EXCEPT ![ctx[c]] = "deleted"]
    /\ ctx' = [ctx EXCEPT ![c] = NoProfiler]
    /\ pc' = [pc EXCEPT ![c] = "idle"]
    /\ UNCHANGED <<g_cp, init, hash_set, recorded, written, free, dumperVars>>

-----------------------------------------------------------------------------
(* The collector hands a sample to the dump thread. *)
Arrive(s) ==
    /\ arrivals < MaxArrivals
    /\ s \in free
    /\ free' = free \ {s}
    /\ waiting' = waiting \cup {s}
    /\ arrivals' = arrivals + 1
    /\ UNCHANGED <<g_cp, objects, pc, ctx, dumper, sample>>

(* SampledContention::dump_and_destroy looks at g_cp without the mutex. *)
DumpCheck(s) ==
    /\ dumper = "idle"
    /\ s \in waiting
    /\ waiting' = waiting \ {s}
    /\ sample' = s
    /\ dumper' = IF g_cp # NoProfiler THEN "lock" ELSE "destroy"
    /\ UNCHANGED <<g_cp, objects, pc, ctx, free, arrivals>>

(* Mutant of Insert: the samples written are freed and stay in the set. *)
Insert_kept(p, s) ==
    LET set == hash_set[p] \cup {s}
    IN  /\ hash_set' = [hash_set EXCEPT ![p] = set]
        /\ IF Cardinality(set) > MaxCached
           THEN /\ written' = [written EXCEPT ![p] = @ + Cardinality(set)]
                /\ free' = free \cup set
           ELSE UNCHANGED <<written, free>>

(* What ContentionProfiler::dump_and_destroy leaves in the hash_set, and   *)
(* what it frees: a sample found there is merged, and the whole set is     *)
(* written when it has become too large.                                   *)
Insert(p, s) ==
    LET set == hash_set[p] \cup {s}
        merged == IF s \in hash_set[p] THEN {s} ELSE {}
    IN  IF Cardinality(set) > MaxCached
        THEN /\ hash_set' = [hash_set EXCEPT ![p] = {}]
             /\ written' = [written EXCEPT ![p] = @ + Cardinality(set)]
             /\ free' = free \cup set
        ELSE /\ hash_set' = [hash_set EXCEPT ![p] = set]
             /\ free' = free \cup merged
             /\ UNCHANGED written

(* Under g_cp_mutex there still is a session, which takes the sample. *)
DumpRecord ==
    /\ dumper = "lock"
    /\ g_cp # NoProfiler
    /\ init' = [init EXCEPT ![g_cp] = TRUE]
    /\ Insert(g_cp, sample)
    /\ recorded' = [recorded EXCEPT ![g_cp] = @ + 1]
    /\ sample' = NoSample
    /\ dumper' = "idle"
    /\ UNCHANGED <<g_cp, heap, pc, ctx, waiting, arrivals>>

(* Under g_cp_mutex the session is gone. *)
DumpGone ==
    /\ dumper = "lock"
    /\ g_cp = NoProfiler
    /\ dumper' = "destroy"
    /\ UNCHANGED <<g_cp, objects, pc, ctx, free, waiting, sample, arrivals>>

(* destroy(): the sample goes back to the pool. *)
DumpDestroy ==
    /\ dumper = "destroy"
    /\ free' = free \cup {sample}
    /\ sample' = NoSample
    /\ dumper' = "idle"
    /\ UNCHANGED <<g_cp, objects, pc, ctx, waiting, arrivals>>

-----------------------------------------------------------------------------
ControllerStep(c) ==
    \/ StartPublish(c) \/ StartDiscard(c) \/ StopCheck(c) \/ StopSwap(c)
    \/ StopGone(c) \/ StopInit(c) \/ StopDelete(c)
    \/ \E p \in Profilers : StartCheck(c, p)
    \/ \E s \in Samples : StopFlush(c, s)

Next ==
    \/ DumpRecord \/ DumpGone \/ DumpDestroy
    \/ \E s \in Samples : Arrive(s) \/ DumpCheck(s)
    \/ \E c \in Controllers : ControllerStep(c)

Spec == Init /\ [][Next]_vars

-----------------------------------------------------------------------------
TypeOK ==
    /\ g_cp \in Profilers \cup {NoProfiler}
    /\ heap \in [Profilers -> {"unused", "live", "deleted"}]
    /\ init \in [Profilers -> BOOLEAN]
    /\ hash_set \in [Profilers -> SUBSET Samples]
    /\ recorded \in [Profilers -> Nat] /\ written \in [Profilers -> Nat]
    /\ pc \in [Controllers -> {"idle", "publish", "swap", "init", "delete"}]
    /\ ctx \in [Controllers -> Profilers \cup {NoProfiler}]
    /\ free \subseteq Samples /\ waiting \subseteq Samples
    /\ dumper \in {"idle", "lock", "destroy"}
    /\ sample \in Samples \cup {NoSample}
    /\ arrivals \in Nat
    /\ \A c \in Controllers :
          ctx[c] # NoProfiler <=> pc[c] \in {"publish", "init", "delete"}
    /\ dumper = "idle" <=> sample = NoSample

(* A live profiler is in g_cp or in the hands of one thread that starts or *)
(* stops it: none leaks, none is deleted twice, and the dump thread, which *)
(* reaches profilers through g_cp, never uses one that is deleted.         *)
OneOwner ==
    /\ \A p \in Profilers :
          heap[p] = "live" <=> g_cp = p \/ \E c \in Controllers : ctx[c] = p
    /\ \A c \in Controllers :
          ctx[c] # NoProfiler =>
              ctx[c] # g_cp /\ \A d \in Controllers \ {c} : ctx[d] # ctx[c]

(* A sample is in the pool, on its way to the dump thread or cached by one *)
(* profiler: it is freed once, whichever of the three places frees it.     *)
(* It follows that the merge in dump_and_destroy, for a pointer the set    *)
(* already has, never happens.                                             *)
SampleOnce ==
    /\ \A p \in Profilers : hash_set[p] \cap (free \cup waiting \cup {sample}) = {}
    /\ \A p, q \in Profilers : p # q => hash_set[p] \cap hash_set[q] = {}
    /\ free \cap (waiting \cup {sample}) = {}
    /\ sample \notin waiting

(* Every sample a session took is in its file or still cached, and cached  *)
(* no more when the profiler is deleted.                                   *)
NothingUnwritten ==
    \A p \in Profilers :
        /\ recorded[p] = written[p] + Cardinality(hash_set[p])
        /\ heap[p] # "live" => hash_set[p] = {}

(* Starts, stops and dumps of any threads amount to one session at a time, *)
(* each with a complete file once its stop has returned.                   *)
StateOf(p) ==
    CASE g_cp = p -> "open"
      [] \E c \in Controllers : ctx[c] = p /\ pc[c] \in {"init", "delete"} -> "closing"
      [] heap[p] = "deleted" /\ init[p] -> "closed"
      [] OTHER -> "unused"

Log == INSTANCE SessionLog WITH
           Sessions <- Profilers, NoSession <- NoProfiler,
           current <- g_cp, state <- [p \in Profilers |-> StateOf(p)],
           records <- recorded, file <- written

ImplementsLog == Log!LogSpec
=============================================================================
