--------------------------- MODULE RunTaskProofs ----------------------------
(***************************************************************************)
(* Proofs about RunTask for every limit, every count and every sequence of *)
(* calls and resets.                                                       *)
(*                                                                         *)
(* While a task is not done, its counters are the owner's: run_count the   *)
(* calls, run_time the time since the very first call.  Once it is done    *)
(* they stand still, below the owner's.                                    *)
(***************************************************************************)
EXTENDS RunTaskOwner, TLAPS

Done == IF use_or THEN DoneOr(run_count, run_time) ELSE DoneAnd(run_count, run_time)

TypeInv ==
    /\ run_max_time \in Nat \cup {NoLimit} /\ run_max_count \in Int /\ use_or \in BOOLEAN
    /\ run_count \in Nat /\ run_time \in Nat /\ start \in Nat \cup {NoStart}
    /\ clock \in Nat /\ calls \in Nat /\ fired \in Nat
    /\ origin \in Nat \cup {NoStart} /\ latest \in Nat

TimeInv ==
    /\ calls > 0 => origin # NoStart
    /\ origin <= latest /\ latest <= clock
    /\ ~BornDone => start = IF run_max_time = NoLimit THEN NoStart ELSE origin

CountInv ==
    IF BornDone THEN run_count = 0 /\ run_time = 0 /\ fired = 0
    ELSE IF ~Done THEN /\ fired = 0
                       /\ run_count = calls
                       /\ run_time = IF run_max_time = NoLimit \/ calls = 0
                                     THEN 0 ELSE latest - origin
    ELSE /\ fired = 1
         /\ calls > 0 /\ run_count <= calls
         /\ run_max_time # NoLimit => run_time <= latest - origin

Inv == TypeInv /\ TimeInv /\ CountInv

USE DEF task, vars, NoLimit, NoStart

(* A call of either operation keeps the invariant.                         *)
LEMMA CallStep ==
    ASSUME Inv, NEW fires \in BOOLEAN, Called(fires),
           IF Done THEN UNCHANGED <<run_count, run_time, start>> /\ ~fires
                   ELSE selfInc(clock) /\ (fires <=> Done')
    PROVE  Inv'
<1> USE DEF Inv, Called
<1>1. UNCHANGED <<run_max_time, run_max_count, use_or, clock, BornDone>>
  BY DEF BornDone, DoneOr, DoneAnd, checkCountDone, checkTimeDone
<1>2. TypeInv' /\ TimeInv'
  <2>1. CASE BornDone
    <3>1. Done
      BY <2>1 DEF CountInv, BornDone, Done
    <3> QED  BY <1>1, <2>1, <3>1 DEF TypeInv, TimeInv
  <2>2. CASE ~BornDone /\ Done
    <3>1. calls > 0
      BY <2>2 DEF CountInv
    <3> QED  BY <1>1, <2>2, <3>1 DEF TypeInv, TimeInv
  <2>3. CASE ~BornDone /\ ~Done
    BY <1>1, <2>3 DEF TypeInv, TimeInv, selfInc, IncCount, IncStart, IncTime
  <2> QED  BY <2>1, <2>2, <2>3
<1>3. CountInv'
  <2>1. CASE BornDone
    <3>1. Done
      BY <2>1 DEF CountInv, BornDone, Done
    <3> QED  BY <1>1, <2>1, <3>1 DEF CountInv
  <2>2. CASE ~BornDone /\ Done
    <3>1. Done'
      BY <1>1, <2>2 DEF Done, DoneOr, DoneAnd, checkCountDone, checkTimeDone
    <3>2. calls > 0 /\ fired = 1 /\ ~BornDone'
      BY <1>1, <2>2 DEF CountInv
    <3> QED  BY <1>1, <2>2, <3>1, <3>2 DEF CountInv, TypeInv, TimeInv
  <2>3. CASE ~BornDone /\ ~Done
    <3>1. fired = 0 /\ run_count = calls /\ ~BornDone'
      BY <1>1, <2>3 DEF CountInv
    <3>2. /\ run_count' = calls'
          /\ run_time' = IF run_max_time = NoLimit THEN 0 ELSE latest' - origin'
      BY <1>1, <2>3, <3>1 DEF CountInv, TypeInv, TimeInv, selfInc, IncCount, IncStart, IncTime
    <3>3. fired' = IF Done' THEN 1 ELSE 0
      BY <2>3, <3>1
    <3> HIDE DEF Called
    <3>4. calls' \in Nat \ {0} /\ run_max_time' = run_max_time
      BY <1>1 DEF Called, TypeInv
    <3>5. latest' - origin' \in Int
      BY <1>2 DEF TypeInv
    <3> HIDE DEF Inv
    <3>6. CASE Done'
      BY <3>1, <3>2, <3>3, <3>4, <3>5, <3>6 DEF CountInv
    <3>7. CASE ~Done'
      BY <3>1, <3>2, <3>3, <3>4, <3>7 DEF CountInv
    <3> QED  BY <3>6, <3>7
  <2> QED  BY <2>1, <2>2, <2>3
<1> QED  BY <1>2, <1>3

(* The invariant holds throughout.                                         *)
LEMMA Invariance == Spec => []Inv
<1>1. Init => Inv
  BY ArgumentAssumption DEF Init, TaskInit, Inv, TypeInv, TimeInv, CountInv, BornDone, Done
<1>2. Inv /\ [Next]_vars => Inv'
  <2> SUFFICES ASSUME Inv, [Next]_vars PROVE Inv'
    OBVIOUS
  <2>1. CASE Tick
    <3>1. UNCHANGED <<Done, BornDone, run_max_time, run_max_count, use_or>>
      BY <2>1 DEF Tick, BornDone, Done, DoneOr, DoneAnd, checkCountDone, checkTimeDone
    <3> QED  BY <2>1, <3>1 DEF Tick, Inv, TypeInv, TimeInv, CountInv
  <2>2. CASE CallAnd
    <3>1. Called(FiresAnd(clock)) /\ FiresAnd(clock) \in BOOLEAN /\ ~use_or /\ ~use_or'
      BY <2>2 DEF CallAnd, FiresAnd, Called
    <3>2. IF Done THEN UNCHANGED <<run_count, run_time, start>> /\ ~FiresAnd(clock)
                  ELSE selfInc(clock) /\ (FiresAnd(clock) <=> Done')
      BY <2>2, <3>1 DEF CallAnd, doByTimeAndCount, FiresAnd, Done, selfInc, Called,
         DoneAnd, checkCountDone, checkTimeDone
    <3> QED  BY <3>1, <3>2, CallStep
  <2>3. CASE CallOr
    <3>1. Called(FiresOr(clock)) /\ FiresOr(clock) \in BOOLEAN /\ use_or /\ use_or'
      BY <2>3 DEF CallOr, FiresOr, Called
    <3>2. IF Done THEN UNCHANGED <<run_count, run_time, start>> /\ ~FiresOr(clock)
                  ELSE selfInc(clock) /\ (FiresOr(clock) <=> Done')
      BY <2>3, <3>1 DEF CallOr, doByTimeOrCount, FiresOr, Done, selfInc, Called,
         DoneOr, checkCountDone, checkTimeDone
    <3> QED  BY <3>1, <3>2, CallStep
  <2>4. CASE Reset
    <3>1. UNCHANGED <<BornDone, run_max_time, run_max_count, use_or>> /\ (Done' <=> BornDone)
      BY <2>4 DEF Reset, reset, BornDone, Done, DoneOr, DoneAnd, checkCountDone, checkTimeDone
    <3> QED  BY <2>4, <3>1 DEF Reset, reset, Inv, TypeInv, TimeInv, CountInv
  <2>5. CASE UNCHANGED vars
    BY <2>5 DEF Inv, TypeInv, TimeInv, CountInv, BornDone, Done, DoneOr, DoneAnd,
       checkCountDone, checkTimeDone
  <2> QED  BY <2>1, <2>2, <2>3, <2>4, <2>5 DEF Next
<1> QED  BY <1>1, <1>2, PTL DEF Spec

(* doByTimeAndCount() and doByTimeOrCount() run the function at most once  *)
(* between two resets, for every limit and count.                          *)
THEOREM TaskFiresOnce == Spec => []FiresOnce
<1>1. Inv => FiresOnce
  BY DEF Inv, CountInv, FiresOnce
<1> QED  BY <1>1, Invariance, PTL

(* And they run it exactly when it is due, for every limit and count.      *)
THEOREM TaskFiresWhenDue == Spec => []FiresWhenDue
<1>1. Inv => FiresWhenDue
  <2> SUFFICES ASSUME Inv PROVE FiresWhenDue
    OBVIOUS
  <2> USE DEF Inv, CountInv, TypeInv, FiresWhenDue, Counted, Timed
  <2>1. CASE BornDone
    BY <2>1
  <2>2. CASE ~BornDone /\ Done
    BY <2>2 DEF Done, DoneOr, DoneAnd, checkCountDone, checkTimeDone, BornDone, TimeInv
  <2>3. CASE ~BornDone /\ ~Done
    BY <2>3 DEF Done, DoneOr, DoneAnd, checkCountDone, checkTimeDone, TimeInv
  <2> QED  BY <2>1, <2>2, <2>3
<1> QED  BY <1>1, Invariance, PTL
=============================================================================
