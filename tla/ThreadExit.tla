----------------------------- MODULE ThreadExit -----------------------------
(***************************************************************************)
(* The functions a thread runs when it ends (src/common/thread_local.cpp): *)
(* thread_atexit pushes a function on the thread's ThreadExitHelper,       *)
(* thread_atexit_cancel removes it, and the helper's destructor pops and   *)
(* runs them.  The functions are the ones of the program: they delete a    *)
(* LocalPool, the agent blocks, a thread local, and what they run may      *)
(* register or cancel functions again.                                     *)
(*                                                                         *)
(* A thread ends by returning - the destructor of a pthread key clears the *)
(* key, deletes the helper, and is called again while the key is not null, *)
(* Rounds times at most - or as the thread that calls exit(), where        *)
(* helper_exit_global does it once.                                        *)
(***************************************************************************)
EXTENDS Naturals, Sequences, SequencesExt

CONSTANTS
    Functions,            \* pairs of a function and its argument
    Rounds,               \* PTHREAD_DESTRUCTOR_ITERATIONS
    MaxCalls              \* bound of the model on thread_atexit

ASSUME RoundsAssumption == Rounds \in Nat \ {0}

VARIABLES
    fns,                  \* fns_ of the helper the key points to
    helper,               \* the key points to a helper
    dying,                \* fns_ of the helper being destroyed
    ending,               \* "no", "thread" or "process"
    round,                \* destructor calls so far
    inside,               \* a function is running
    calls,                \* history: calls of thread_atexit, which number them
    cancelled,            \* history: registrations that have been cancelled
    ran                   \* history: registrations run, in order

vars == <<fns, helper, dying, ending, round, inside, calls, cancelled, ran>>
history == <<calls, cancelled, ran>>

(* A registration: the function, and the number of the call. *)
Registration == [fn : Functions, no : Nat]

Init ==
    /\ fns = << >> /\ helper = FALSE /\ dying = << >>
    /\ ending = "no" /\ round = 0 /\ inside = FALSE
    /\ calls = 0 /\ cancelled = {} /\ ran = << >>

(* The thread's own code runs: before it ends, or in one of the functions. *)
Running == ending = "no" \/ inside

-----------------------------------------------------------------------------
(* thread_atexit: get_or_new_thread_exit_helper, then add. *)
AtExit(f) ==
    /\ Running
    /\ calls < MaxCalls
    /\ calls' = calls + 1
    /\ helper' = TRUE
    /\ fns' = Append(fns, [fn |-> f, no |-> calls'])
    /\ UNCHANGED <<dying, ending, round, inside, cancelled, ran>>

(* remove finds f first at a, and no further than b without a gap. *)
FirstRun(f, a, b) ==
    /\ \A i \in a .. b : fns[i].fn = f
    /\ \A i \in 1 .. (a - 1) : fns[i].fn # f
    /\ b < Len(fns) => fns[b + 1].fn # f

(* Mutant of Cancel: the function before the run goes with it. *)
Cancel_before(f) ==
    /\ Running
    /\ \E a \in 1 .. Len(fns) : \E b \in a .. Len(fns) :
          /\ FirstRun(f, a, b)
          /\ fns' = SubSeq(fns, 1, a - 2) \o SubSeq(fns, b + 1, Len(fns))
    /\ cancelled' = cancelled \cup {r \in ToSet(fns) : r.fn = f}
    /\ UNCHANGED <<helper, dying, ending, round, inside, calls, ran>>

(* thread_atexit_cancel: nothing, if the key is null or f is not found. *)
Cancel(f) ==
    /\ Running
    /\ \E a \in 1 .. Len(fns) : \E b \in a .. Len(fns) :
          /\ FirstRun(f, a, b)
          /\ fns' = SubSeq(fns, 1, a - 1) \o SubSeq(fns, b + 1, Len(fns))
    /\ cancelled' = cancelled \cup {r \in ToSet(fns) : r.fn = f}
    /\ UNCHANGED <<helper, dying, ending, round, inside, calls, ran>>

-----------------------------------------------------------------------------
(* The thread returns, or calls exit(). *)
End(how) ==
    /\ ending = "no"
    /\ ending' = how
    /\ UNCHANGED <<fns, helper, dying, round, inside, history>>

(* A helper is destroyed: the key is cleared first. *)
Destroy ==
    /\ ending # "no" /\ ~inside
    /\ dying = << >>
    /\ helper
    /\ round < (IF ending = "thread" THEN Rounds ELSE 1)
    /\ dying' = fns
    /\ fns' = << >> /\ helper' = FALSE
    /\ round' = round + 1
    /\ UNCHANGED <<ending, inside, history>>

(* Mutant of RunBack: the function is run before it is popped. *)
RunBack_kept ==
    /\ ~inside
    /\ dying # << >>
    /\ ran' = Append(ran, Last(dying))
    /\ inside' = TRUE
    /\ UNCHANGED <<fns, helper, dying, ending, round, calls, cancelled>>

(* Mutant of RunBack: the functions are run from the front. *)
RunBack_front ==
    /\ ~inside
    /\ dying # << >>
    /\ ran' = Append(ran, Head(dying))
    /\ dying' = Tail(dying)
    /\ inside' = TRUE
    /\ UNCHANGED <<fns, helper, ending, round, calls, cancelled>>

(* ~ThreadExitHelper: fns_.back() is popped and called... *)
RunBack ==
    /\ ~inside
    /\ dying # << >>
    /\ ran' = Append(ran, Last(dying))
    /\ dying' = Front(dying)
    /\ inside' = TRUE
    /\ UNCHANGED <<fns, helper, ending, round, calls, cancelled>>

(* ...and returns. *)
Return ==
    /\ inside
    /\ inside' = FALSE
    /\ UNCHANGED <<fns, helper, dying, ending, round, history>>

Next ==
    \/ \E f \in Functions : AtExit(f) \/ Cancel(f)
    \/ \E how \in {"thread", "process"} : End(how)
    \/ Destroy \/ RunBack \/ Return

Spec == Init /\ [][Next]_vars

-----------------------------------------------------------------------------
TypeOK ==
    /\ fns \in Seq(Registration) /\ dying \in Seq(Registration)
    /\ ran \in Seq(Registration)
    /\ helper \in BOOLEAN /\ inside \in BOOLEAN
    /\ ending \in {"no", "thread", "process"}
    /\ round \in 0 .. Rounds
    /\ calls \in 0 .. MaxCalls
    /\ ~helper => fns = << >>
    /\ ending = "no" => dying = << >>

(* A registration is run once at most: delete_local_pool run twice on one  *)
(* pool would be a double free.                                            *)
RunOnce == \A i, j \in 1 .. Len(ran) : i # j => ran[i].no # ran[j].no

(* What one helper runs, it runs in the opposite order of registration:    *)
(* the agents of a thread go before the pool their samples came from was   *)
(* registered, and a registration made meanwhile waits for its own helper. *)
LastInFirstOut ==
    \A i, j \in 1 .. Len(dying) : i < j => dying[i].no < dying[j].no

RunInReverse ==
    /\ LastInFirstOut
    /\ dying # << >> /\ inside => ran[Len(ran)].no > Last(dying).no

(* A returning thread leaves nothing behind: unless it kept registering    *)
(* through all the rounds, every registration is run or cancelled.         *)
AllRun ==
    ending = "thread" /\ ~inside /\ dying = << >> /\ (~helper \/ round = Rounds) =>
        \A n \in 1 .. calls :
            \/ \E r \in ToSet(ran) \cup cancelled : r.no = n
            \/ round = Rounds /\ \E r \in ToSet(fns) : r.no = n

(* thread_atexit_cancel removes "the registered function"                  *)
(* (thread_local.cpp:54): a cancelled registration is not run.             *)
CancelledNotRun == ToSet(ran) \cap cancelled = {}
=============================================================================
