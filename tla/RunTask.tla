------------------------------ MODULE RunTask -------------------------------
(***************************************************************************)
(* xrtc::RunTask (src/base/run_task.cpp): runs a function once its owner   *)
(* has called often enough and long enough.                                *)
(*                                                                         *)
(* An empty optional run_count_ or run_time_ always reads as zero          *)
(* (value_or), so it is zero here.  Both constructors set run_max_count_;  *)
(* run_max_time_ may be missing.  Neither changes afterwards.  Operators   *)
(* take the time of the call; the owner decides what happens to its own    *)
(* state when the task fires.                                              *)
(***************************************************************************)
EXTENDS Integers

VARIABLES
    run_max_time,         \* run_max_time_, or NoLimit
    run_max_count,        \* run_max_count_
    run_count, run_time,  \* run_count_, run_time_
    start                 \* start_run_time_point_, or NoStart

NoLimit == -1
NoStart == -1

TaskInit == run_count = 0 /\ run_time = 0 /\ start = NoStart

TaskType == run_count \in Nat /\ run_time \in Nat /\ start \in Nat \cup {NoStart}

-----------------------------------------------------------------------------
checkCountDone(c) == c >= run_max_count

\* Mutant: one tick too soon.
checkTimeSoon(t) == run_max_time # NoLimit => t >= run_max_time - 1

checkTimeDone(t) == run_max_time # NoLimit => t >= run_max_time

DoneAnd(c, t) == checkCountDone(c) /\ checkTimeDone(t)
DoneOr(c, t)  == checkCountDone(c) \/ checkTimeDone(t)

(* selfIncForCount() and selfIncForTime() at time now.                     *)
IncCount      == run_count + 1
IncStart(now) == IF run_max_time # NoLimit /\ start = NoStart THEN now ELSE start

\* Mutant: operands of the difference swapped.
IncTimeSwapped(now) == IF run_max_time # NoLimit THEN IncStart(now) - now ELSE run_time

IncTime(now)  == IF run_max_time # NoLimit THEN now - IncStart(now) ELSE run_time

selfInc(now) ==
    /\ run_count' = IncCount
    /\ start' = IncStart(now)
    /\ run_time' = IncTime(now)

\* Mutant: the early return forgotten.
FiresAgain(now) == DoneAnd(IncCount, IncTime(now))

(* doByTimeAndCount() and doByTimeOrCount(): does the call run the         *)
(* function, and what does it leave behind?  A task that is done neither   *)
(* counts nor fires until it is reset.                                     *)
FiresAnd(now) == ~DoneAnd(run_count, run_time) /\ DoneAnd(IncCount, IncTime(now))
FiresOr(now)  == ~DoneOr(run_count, run_time) /\ DoneOr(IncCount, IncTime(now))

doByTimeAndCount(now) ==
    IF DoneAnd(run_count, run_time) THEN UNCHANGED <<run_count, run_time, start>>
                                    ELSE selfInc(now)

doByTimeOrCount(now) ==
    IF DoneOr(run_count, run_time) THEN UNCHANGED <<run_count, run_time, start>>
                                   ELSE selfInc(now)

(* reset() leaves start_run_time_point_ alone.                             *)
reset == run_count' = 0 /\ run_time' = 0 /\ UNCHANGED start

(* A call of doByTimeAndCount() that fires and is followed by reset().     *)
doThenReset(now) == run_count' = 0 /\ run_time' = 0 /\ start' = IncStart(now)
=============================================================================
