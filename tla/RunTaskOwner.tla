---------------------------- MODULE RunTaskOwner ----------------------------
(***************************************************************************)
(* A RunTask and its owner, which constructs it in either way, calls one   *)
(* of its two operations at any time and resets it at any time.            *)
(***************************************************************************)
EXTENDS RunTask

CONSTANTS
    Limits, Counts,  \* constructor arguments
    MaxClock,        \* bound on the clock
    MaxCalls         \* bound on the calls between two resets

ASSUME ArgumentAssumption == Limits \subseteq Nat /\ Counts \subseteq Int
ASSUME BoundAssumption == MaxClock \in Nat /\ MaxCalls \in Nat

VARIABLES
    use_or,  \* does the owner call doByTimeOrCount()?
    clock,   \* steady_clock
    calls,   \* calls since the last reset (or the construction)
    origin,  \* history: time of the very first call, or NoStart
    latest,  \* history: time of the latest call
    fired    \* history: how many of the calls ran the function

task == <<run_max_time, run_max_count, use_or>>
vars == <<task, run_count, run_time, start, clock, calls, origin, latest, fired>>

Init ==
    /\ run_max_time \in Limits \cup {NoLimit}
    /\ run_max_count \in Counts
    /\ use_or \in BOOLEAN
    /\ TaskInit
    /\ clock = 0 /\ calls = 0 /\ origin = NoStart /\ latest = 0 /\ fired = 0

Tick ==
    /\ clock < MaxClock
    /\ clock' = clock + 1
    /\ UNCHANGED <<task, run_count, run_time, start, calls, origin, latest, fired>>

Called(fires) ==
    /\ calls < MaxCalls
    /\ calls' = calls + 1
    /\ origin' = IF origin = NoStart THEN clock ELSE origin
    /\ latest' = clock
    /\ fired' = IF fires THEN fired + 1 ELSE fired
    /\ UNCHANGED <<task, clock>>

CallAnd == ~use_or /\ doByTimeAndCount(clock) /\ Called(FiresAnd(clock))

CallOr == use_or /\ doByTimeOrCount(clock) /\ Called(FiresOr(clock))

Reset ==
    /\ calls > 0
    /\ reset
    /\ calls' = 0
    /\ fired' = 0
    /\ UNCHANGED <<task, clock, origin, latest>>

Next == Tick \/ CallAnd \/ CallOr \/ Reset

Spec == Init /\ [][Next]_vars

-----------------------------------------------------------------------------
(* Between two resets the function runs at most once, however often and    *)
(* however late the owner calls.                                           *)
FiresOnce == fired <= 1

(* A task that is done when nothing has been called: it never fires.       *)
BornDone == IF use_or THEN DoneOr(0, 0) ELSE DoneAnd(0, 0)

Counted == calls >= run_max_count
Timed   == run_max_time # NoLimit /\ latest - origin >= run_max_time

(* The function has run by the latest call exactly if the calls since the  *)
(* last reset are enough and, or or, the time is up since the very first   *)
(* call: reset() does not restart the time.  Without a time limit          *)
(* doByTimeAndCount() goes by the calls alone, and doByTimeOrCount() never *)
(* runs the function.                                                      *)
FiresWhenDue ==
    fired = 1 <=> /\ calls > 0 /\ ~BornDone
                  /\ IF use_or THEN Counted \/ Timed
                     ELSE Counted /\ (Timed \/ run_max_time = NoLimit)
=============================================================================
