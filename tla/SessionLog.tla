----------------------------- MODULE SessionLog -----------------------------
(***************************************************************************)
(* What contention_profiler_start and _stop promise their callers: one     *)
(* session at a time, a sample is recorded in the session that is open,    *)
(* and the file of a session is complete when its stop returns.            *)
(***************************************************************************)
EXTENDS Naturals

CONSTANTS Sessions, NoSession

VARIABLES
    current,              \* the open session
    state,                \* of each session: unused, open, closing, closed
    records,              \* samples recorded in each session
    file                  \* samples in the file of each session

logVars == <<current, state, records, file>>

LogInit ==
    /\ current = NoSession
    /\ state = [p \in Sessions |-> "unused"]
    /\ records = [p \in Sessions |-> 0]
    /\ file = [p \in Sessions |-> 0]

(* contention_profiler_start returns true. *)
Open(p) ==
    /\ current = NoSession
    /\ state[p] = "unused"
    /\ current' = p
    /\ state' = [state EXCEPT ![p] = "open"]
    /\ UNCHANGED <<records, file>>

(* A sample is recorded; the file may catch up with the records. *)
Record ==
    /\ current \in Sessions
    /\ records' = [records EXCEPT ![current] = @ + 1]
    /\ \/ UNCHANGED file
       \/ file' = [file EXCEPT ![current] = records[current] + 1]
    /\ UNCHANGED <<current, state>>

(* contention_profiler_stop ends the session... *)
Close ==
    /\ current \in Sessions
    /\ state' = [state EXCEPT ![current] = "closing"]
    /\ current' = NoSession
    /\ UNCHANGED <<records, file>>

(* ...brings the file up to date... *)
Write(p) ==
    /\ state[p] = "closing"
    /\ file[p] < records[p]
    /\ file' = [file EXCEPT ![p] = @ + 1]
    /\ UNCHANGED <<current, state, records>>

(* ...and returns. *)
Return(p) ==
    /\ state[p] = "closing"
    /\ file[p] = records[p]
    /\ state' = [state EXCEPT ![p] = "closed"]
    /\ UNCHANGED <<current, records, file>>

LogNext ==
    \/ Record \/ Close
    \/ \E p \in Sessions : Open(p) \/ Write(p) \/ Return(p)

LogSpec == LogInit /\ [][LogNext]_logVars
=============================================================================
