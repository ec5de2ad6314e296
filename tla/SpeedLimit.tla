----------------------------- MODULE SpeedLimit -----------------------------
(***************************************************************************)
(* How many contentions are sampled (src/collector.cpp): is_collectable,   *)
(* called by application threads without any lock, and update_speed_limit, *)
(* called by the grab thread after each round, share a CollectorSpeedLimit.*)
(* Out of Base random numbers sampling_range let a contention through; the *)
(* grab thread moves it so that Expected samples are collected a second.   *)
(*                                                                         *)
(* first_sample_real_us is written from the monotonic clock and compared   *)
(* with gettimeofday; Epoch is the distance of the two.  The products of   *)
(* size_t are taken modulo Word, which is 2^64.                            *)
(***************************************************************************)
EXTENDS Naturals

CONSTANTS
    Threads,              \* application threads
    Expected,             \* FLAGS_collector_expected_per_second
    Base,                 \* COLLECTOR_SAMPLING_BASE
    Second,               \* 1000000 microseconds
    Epoch,                \* gettimeofday_us() - get_monotonic_time_us()
    Word,                 \* the number of values of size_t
    MaxTime,              \* bound of the model on the monotonic clock
    MaxRound              \* bound of the model on the samples of a round

ASSUME LimitAssumption == /\ Expected \in Nat \ {0} /\ Base \in Nat \ {0}
                          /\ Second \in Nat \ {0} /\ Word \in Nat \ {0}
                          /\ Epoch \in Nat
ASSUME BoundAssumption == MaxTime \in Nat \ {0} /\ MaxRound \in Nat

VARIABLES
    sampling_range, ever_grabbed, count_before_grabbed, first_sample_real_us,
    now,                  \* get_monotonic_time_us()
    last_update,          \* last_before_update_sl
    round,                \* samples submitted since the last update
    pc                    \* where is_collectable of each thread is

limitVars == <<sampling_range, ever_grabbed, count_before_grabbed,
               first_sample_real_us>>
speedVars == <<limitVars, now, last_update, round, pc>>

(* A fresh CollectorSpeedLimit; the clocks are past their zero. *)
LimitInit ==
    /\ sampling_range = Base
    /\ ever_grabbed = FALSE
    /\ count_before_grabbed = 0
    /\ first_sample_real_us = 0
    /\ now = 1 /\ last_update = 1
    /\ round = 0
    /\ pc = [t \in Threads |-> "idle"]

Tick ==
    /\ now < MaxTime
    /\ now' = now + 1
    /\ UNCHANGED <<limitVars, last_update, round, pc>>

-----------------------------------------------------------------------------
(* is_collectable before the first round: every contention is counted and  *)
(* sampled, whether or not its thread wakes the grab thread up.  The one   *)
(* that was counted first goes on to note the time.                        *)
CountSample(t) ==
    /\ pc[t] = "idle"
    /\ ~ever_grabbed
    /\ round < MaxRound
    /\ count_before_grabbed' = count_before_grabbed + 1
    /\ \/ /\ count_before_grabbed = 0
          /\ pc' = [pc EXCEPT ![t] = "first"]
          /\ UNCHANGED round
       \/ /\ count_before_grabbed > 0
          /\ round' = round + 1
          /\ UNCHANGED pc
    /\ UNCHANGED <<sampling_range, ever_grabbed, first_sample_real_us, now,
                   last_update>>

StampFirst(t) ==
    /\ pc[t] = "first"
    /\ round < MaxRound
    /\ first_sample_real_us' = now
    /\ round' = round + 1
    /\ pc' = [pc EXCEPT ![t] = "idle"]
    /\ UNCHANGED <<sampling_range, ever_grabbed, count_before_grabbed, now,
                   last_update>>

(* is_collectable later on: the random number is below sampling_range; a   *)
(* contention that is not sampled leaves no trace.                         *)
TakeSample(t) ==
    /\ pc[t] = "idle"
    /\ ever_grabbed
    /\ sampling_range > 0
    /\ round < MaxRound
    /\ round' = round + 1
    /\ UNCHANGED <<limitVars, now, last_update, pc>>

-----------------------------------------------------------------------------
(* The interval a first update works with. *)
FirstInterval ==
    IF first_sample_real_us # 0
    THEN (now + Epoch) - first_sample_real_us
    ELSE now - last_update

FirstRange == ((Expected * FirstInterval * Base) % Word) \div (Second * round)

(* Over less than a second the new range counts for its share only. *)
Blend(new, interval) ==
    IF interval < Second
    THEN ((new * interval + sampling_range * (Second - interval)) % Word) \div Second
    ELSE new

(* Mutant of NextRange: the rate is taken to be the one of the full range. *)
NextRange_full(interval) ==
    Blend(((Expected * interval * Base) % Word) \div (Second * round), interval)

NextRange(interval) ==
    Blend(((Expected * interval * sampling_range) % Word) \div (Second * round),
          interval)

(* Mutant of Clamp: a range of 0 is let through. *)
Clamp_zero(new) == IF new > Base THEN Base ELSE new

Clamp(new) == CASE new = 0 -> 1 [] new > Base -> Base [] OTHER -> new

(* update_speed_limit of a round that has samples. *)
Update ==
    /\ round # 0
    /\ sampling_range' =
          Clamp(IF ever_grabbed THEN NextRange(now - last_update) ELSE FirstRange)
    /\ ever_grabbed' = TRUE
    /\ round' = 0
    /\ last_update' = now
    /\ UNCHANGED <<count_before_grabbed, first_sample_real_us, now, pc>>

(* A round without samples: only last_before_update_sl moves. *)
UpdateNothing ==
    /\ round = 0
    /\ last_update' = now
    /\ UNCHANGED <<limitVars, now, round, pc>>

LimitNext ==
    \/ Tick \/ Update \/ UpdateNothing
    \/ \E t \in Threads : CountSample(t) \/ StampFirst(t) \/ TakeSample(t)

LimitSpec == LimitInit /\ [][LimitNext]_speedVars

-----------------------------------------------------------------------------
(* sampling_range is a divisor in submit_contention and at most Base. *)
LimitTypeOK ==
    /\ sampling_range \in 1 .. Base
    /\ ever_grabbed \in BOOLEAN
    /\ count_before_grabbed \in Nat
    /\ first_sample_real_us \in 0 .. MaxTime
    /\ now \in 1 .. MaxTime /\ last_update \in 1 .. now
    /\ round \in 0 .. MaxRound
    /\ pc \in [Threads -> {"idle", "first"}]

(* Once it has an estimate, an update moves sampling_range towards the     *)
(* expected rate: never up after a round of too many samples, never down   *)
(* after a round of too few, roundings and products included.              *)
TowardsExpected ==
    [][ever_grabbed /\ round # 0 /\ round' = 0 =>
          LET interval == now - last_update IN
          /\ round * Second >= Expected * interval => sampling_range' <= sampling_range
          /\ round * Second <= Expected * interval => sampling_range' >= sampling_range]_speedVars

(* "Expected number of samples to be collected per second"                 *)
(* (collector.cpp:15): the first estimate lets through no more than that   *)
(* of the contentions counted since the first of them.                     *)
FirstEstimate ==
    [][~ever_grabbed /\ ever_grabbed' /\ first_sample_real_us # 0 =>
          \/ sampling_range' = 1
          \/ sampling_range' * round * Second
                 <= Expected * (now - first_sample_real_us) * Base]_speedVars
=============================================================================
