------------------------- MODULE SrtCongestionCtrl --------------------------
(***************************************************************************)
(* xrtc::SrtCongestionCtrl (src/srt_net/srt_cc.cpp).  congestionCtrl()     *)
(* samples the SRT statistics of a socket and decides whether the encoder  *)
(* should speed up or slow down; updateVideoEncodeBitate() applies the     *)
(* decision to the caller's bitrate.  The two may run on different         *)
(* threads: they share congestion_state_, an atomic, and nothing else.     *)
(* Each is paced by a RunTask.                                             *)
(*                                                                         *)
(* Rates are in bits per second, times in ticks of the model's clock.      *)
(* Decimal factors of the code (1.3, 1.2 / 2, 1.08, 0.85, 0.4) are exact   *)
(* fractions, and a conversion to an integer type truncates.               *)
(***************************************************************************)
EXTENDS Integers, Sequences, FiniteSetsExt, Functions

CONSTANTS
    RTT_LIST_MAX, BW_LIST_MAX, STATE_LIST_MAX,    \* 6 each
    RTT_INIT, RTT_MIN,                            \* 100 and 35 ms
    SRT_CHECK_INTERVAL, VIDEO_UPDATE_INTERVAL,
    Rtts, Rates, Flights,   \* samples: ms, bits/s, packets in flight
    StreamBitrate,          \* video_stream_bitrate, the same in every call
    StartBitrates,          \* bitrates the encoder may start from
    IntHalf,                \* 2^31: an int holds -IntHalf .. IntHalf - 1
    SizeRange,              \* 2^64: what size_t counts up to
    MaxClock, MaxWindows,   \* bounds on the clock and on state_array_
    MaxCalls                \* bound on the calls before a task fires

ASSUME ListAssumption == /\ RTT_LIST_MAX \in Nat \ {0}
                         /\ BW_LIST_MAX \in Nat \ {0}
                         /\ STATE_LIST_MAX \in Nat \ {0}
                         /\ RTT_INIT \in Nat /\ RTT_MIN \in Nat
ASSUME SampleAssumption == Rtts \subseteq Nat /\ Rates \subseteq Nat /\ Flights \subseteq Nat
ASSUME BitrateAssumption == StreamBitrate \in Nat /\ StartBitrates \subseteq Nat
ASSUME WidthAssumption == IntHalf \in Nat \ {0} /\ SizeRange \in Nat /\ SizeRange >= 2 * IntHalf
ASSUME BoundAssumption == MaxClock \in Nat /\ MaxWindows \in Nat /\ MaxCalls \in Nat

VARIABLES
    clock,                         \* steady_clock
    ctl_count, ctl_time, ctl_start,\* srt_congestion_ctrl_task_
    upd_count, upd_time, upd_start,\* update_vencode_bitrate_task_
    rtt_array, rtt_min, rtt_ready,
    bw_array, bw_max, avg_bw, bw_ready,
    state_cnt, state_sum,          \* size and sum of state_array_
    congestion_state,
    bitrate,                       \* the caller's current_vencode_bitrate
    window                         \* history: the last full bw_array_

ctlvars == <<ctl_count, ctl_time, ctl_start>>
updvars == <<upd_count, upd_time, upd_start>>
estvars == <<rtt_array, rtt_min, rtt_ready, bw_array, bw_max, avg_bw, bw_ready,
             state_cnt, state_sum, congestion_state, window>>
vars    == <<clock, ctlvars, updvars, estvars, bitrate>>

ctl == INSTANCE RunTask WITH run_max_time <- SRT_CHECK_INTERVAL,
          run_max_count <- 1, run_count <- ctl_count, run_time <- ctl_time,
          start <- ctl_start
upd == INSTANCE RunTask WITH run_max_time <- VIDEO_UPDATE_INTERVAL,
          run_max_count <- 1, run_count <- upd_count, run_time <- upd_time,
          start <- upd_start

States == {"INCR", "DECR", "KEEP"}

(* The one type invariant of the module.                                   *)
TypeOK ==
    /\ clock \in Nat
    /\ ctl!TaskType
    /\ upd!TaskType
    /\ rtt_array \in Seq(Nat) /\ rtt_min \in Nat /\ rtt_ready \in BOOLEAN
    /\ bw_array \in Seq(Nat) /\ bw_max \in Nat /\ avg_bw \in Nat
    /\ bw_ready \in BOOLEAN
    /\ state_cnt \in Nat /\ state_sum \in Int
    /\ congestion_state \in States
    /\ bitrate \in Nat
    /\ window \in Seq(Nat)

Init ==
    /\ clock = 0
    /\ ctl!TaskInit
    /\ upd!TaskInit
    /\ rtt_array = <<>> /\ rtt_min = RTT_INIT /\ rtt_ready = FALSE
    /\ bw_array = <<>> /\ bw_max = 0 /\ avg_bw = 0 /\ bw_ready = FALSE
    /\ state_cnt = 0 /\ state_sum = 0
    /\ congestion_state = "KEEP"
    /\ bitrate \in StartBitrates
    /\ window = <<>>

-----------------------------------------------------------------------------
(* std::accumulate(begin, end, 0) over a vector of uint64_t: the initial   *)
(* value makes the accumulator an int, cut back to int after every         *)
(* addition.                                                               *)
AsInt(x) == ((x + IntHalf) % (2 * IntHalf)) - IntHalf

accumulate(seq) ==
    LET sum[i \in 0..Len(seq)] == IF i = 0 THEN 0 ELSE AsInt(sum[i - 1] + seq[i])
    IN  sum[Len(seq)]

(* int / size_t: a negative int becomes a huge size_t, or uint64_t, first. *)
AsSize(x)    == x % SizeRange
Average(seq) == AsSize(accumulate(seq)) \div Len(seq)

(* Truncation towards zero of x / 10.                                      *)
Tenth(x) == IF x >= 0 THEN x \div 10 ELSE -((-x) \div 10)

updateRTT(rtt) ==
    LET a == Append(rtt_array, IF rtt < RTT_MIN THEN RTT_MIN ELSE rtt)
    IN  /\ rtt_ready' = (Len(a) >= RTT_LIST_MAX)
        /\ rtt_min' = IF rtt_ready' THEN Min(Range(a)) ELSE rtt_min
        /\ rtt_array' = IF rtt_ready' THEN <<>> ELSE a

\* Mutant: the division by 2 forgotten.
SumOfMaxAndAvg(a, avg) == ((Max(Range(a)) + avg) * 12) \div 10

(* 1.2 * (max + avg) / 2                                                   *)
MeanOfMaxAndAvg(a, avg) == ((Max(Range(a)) + avg) * 6) \div 10

\* Mutant: bw_array_.clear() forgotten.
BwListKept(a) == a

BwListLeft(a) == IF bw_ready' THEN <<>> ELSE a

updateMaxBW(bw) ==
    LET a == Append(bw_array, bw)
    IN  /\ bw_ready' = (Len(a) >= BW_LIST_MAX)
        /\ avg_bw' = IF bw_ready' THEN Average(a) ELSE avg_bw
        /\ bw_max' = IF bw_ready' THEN MeanOfMaxAndAvg(a, avg_bw') ELSE bw_max
        /\ bw_array' = BwListLeft(a)
        /\ window' = IF bw_ready' THEN a ELSE window

INCR == 1316 * 8 * 3
DECR == -(1316 * 8 * 6)

Verdict(n, sum) ==
    CASE n < STATE_LIST_MAX               -> "KEEP"
      [] n >= STATE_LIST_MAX /\ sum > INCR -> "INCR"
      [] n >= STATE_LIST_MAX /\ sum < DECR - 1 -> "DECR"
      [] OTHER                            -> "KEEP"

(* How far the congestion window exceeds the data in flight, in bits.  The *)
(* product of bandwidth and delay is a uint64_t.                           *)
Headroom(flight) ==
    Tenth(13 * (AsSize(bw_max' * rtt_min') \div 1000) - 10 * (flight * 188 * 7 * 8))

\* Mutant: the early return forgotten.
NeverWaits == TRUE

BothReady == rtt_ready' /\ bw_ready'

(* state_array_ is never cleared: the sum is over the whole history.       *)
srtBitrateGetState(flight) ==
    IF BothReady
    THEN /\ state_cnt' = state_cnt + 1
         /\ state_sum' = state_sum + Headroom(flight)
         /\ congestion_state' = Verdict(state_cnt', state_sum')
    ELSE /\ congestion_state' = "KEEP"
         /\ UNCHANGED <<state_cnt, state_sum>>

-----------------------------------------------------------------------------
(* A call of congestionCtrl() whose task fires and whose srt_bstats works. *)
congestionCtrl ==
    /\ ctl!FiresAnd(clock)
    /\ state_cnt < MaxWindows
    /\ ctl!doThenReset(clock)
    /\ \E rtt \in Rtts, bw \in Rates, flight \in Flights :
          /\ updateRTT(rtt)
          /\ updateMaxBW(bw)
          /\ srtBitrateGetState(flight)
    /\ UNCHANGED <<clock, updvars, bitrate>>

(* One whose srt_bstats fails.                                             *)
congestionCtrlNoStats ==
    /\ ctl!FiresAnd(clock)
    /\ ctl!doThenReset(clock)
    /\ UNCHANGED <<clock, updvars, estvars, bitrate>>

(* One whose task does not fire.                                           *)
congestionCtrlTooSoon ==
    /\ ~ctl!FiresAnd(clock)
    /\ ctl_count < MaxCalls
    /\ ctl!doByTimeAndCount(clock)
    /\ UNCHANGED <<clock, updvars, estvars, bitrate>>

\* Mutant: both limits forgotten.
AdjustedFreely(b) ==
    CASE congestion_state = "INCR" -> (b * 108) \div 100
      [] congestion_state = "DECR" -> (b * 85) \div 100
      [] OTHER -> b

(* The new bitrate: a step up only below 1.3 times, a step down only above *)
(* 0.4 times the bitrate of the stream.                                    *)
Adjusted(b) ==
    CASE congestion_state = "INCR" /\ 10 * b < 13 * StreamBitrate -> (b * 108) \div 100
      [] congestion_state = "DECR" /\ 10 * b > 4 * StreamBitrate  -> (b * 85) \div 100
      [] OTHER -> b

updateVideoEncodeBitate ==
    /\ upd!FiresAnd(clock)
    /\ upd!doThenReset(clock)
    /\ bitrate' = Adjusted(bitrate)
    /\ UNCHANGED <<clock, ctlvars, estvars>>

updateVideoEncodeBitateTooSoon ==
    /\ ~upd!FiresAnd(clock)
    /\ upd_count < MaxCalls
    /\ upd!doByTimeAndCount(clock)
    /\ UNCHANGED <<clock, ctlvars, estvars, bitrate>>

Tick ==
    /\ clock < MaxClock
    /\ clock' = clock + 1
    /\ UNCHANGED <<ctlvars, updvars, estvars, bitrate>>

Next == \/ congestionCtrl \/ congestionCtrlNoStats \/ congestionCtrlTooSoon
        \/ updateVideoEncodeBitate \/ updateVideoEncodeBitateTooSoon
        \/ Tick

Spec == Init /\ [][Next]_vars

-----------------------------------------------------------------------------
(* The two sample windows, each with its own list, size and ready flag,    *)
(* never drift apart, so some tick finds both ready.                       *)
WindowsAligned == Len(rtt_array) = Len(bw_array) /\ rtt_ready = bw_ready

(* A decision other than KEEP is only in force right after a full window   *)
(* of samples, and never before STATE_LIST_MAX windows; the next sample    *)
(* takes it back.                                                          *)
DecisionOnFullWindow ==
    congestion_state # "KEEP" =>
        rtt_ready /\ rtt_array = <<>> /\ state_cnt >= STATE_LIST_MAX

(* srt_cc.hpp:63-64: avg_bw_ is the "avg srt bandwidth", bw_max_ the "max  *)
(* srt bandwidth".  The average lies between the smallest and the largest  *)
(* sample of the window, and the estimate between the average and 1.2      *)
(* times the largest.                                                      *)
EstimateInRange ==
    window # <<>> =>
        /\ Min(Range(window)) <= avg_bw
        /\ avg_bw <= Max(Range(window))
        /\ avg_bw <= bw_max
        /\ 10 * bw_max <= 12 * Max(Range(window))

(* However the decisions fall, the encoder's bitrate stays between 0.34    *)
(* (less one bit) and 1.404 times the stream's, if it starts there.        *)
BitrateBounded ==
    /\ 1000 * bitrate <= 1404 * StreamBitrate
    /\ 100 * bitrate >= 34 * StreamBitrate - 100
=============================================================================
