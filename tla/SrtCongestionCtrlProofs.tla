---------------------- MODULE SrtCongestionCtrlProofs -----------------------
(***************************************************************************)
(* Proofs about SrtCongestionCtrl, for any samples, list sizes, intervals, *)
(* bitrates and integer widths.                                            *)
(***************************************************************************)
EXTENDS SrtCongestionCtrl, TLAPS, NaturalsInduction, WellFoundedInduction

USE DEF vars, ctlvars, updvars, estvars, BwListLeft, BothReady

(* The caller starts the encoder within the limits.                        *)
StartInRange ==
    \A b \in StartBitrates : /\ 1000 * b <= 1404 * StreamBitrate
                             /\ 100 * b >= 34 * StreamBitrate - 100

(* One adjustment keeps a bitrate that is within the limits within them:   *)
(* it grows by 8% only from below 1.3, and shrinks by 15% only from above  *)
(* 0.4 times the stream's bitrate.                                         *)
LEMMA AdjustedInRange ==
    ASSUME NEW b \in Nat,
           1000 * b <= 1404 * StreamBitrate,
           100 * b >= 34 * StreamBitrate - 100
    PROVE  /\ Adjusted(b) \in Nat
           /\ 1000 * Adjusted(b) <= 1404 * StreamBitrate
           /\ 100 * Adjusted(b) >= 34 * StreamBitrate - 100
<1> USE BitrateAssumption
<1>1. CASE congestion_state = "INCR" /\ 10 * b < 13 * StreamBitrate
  <2>1. Adjusted(b) = (b * 108) \div 100
    BY <1>1 DEF Adjusted
  <2> QED
    BY <1>1, <2>1
<1>2. CASE congestion_state = "DECR" /\ 10 * b > 4 * StreamBitrate
  <2>1. Adjusted(b) = (b * 85) \div 100
    BY <1>2 DEF Adjusted
  <2> QED
    BY <1>2, <2>1
<1>3. CASE /\ ~(congestion_state = "INCR" /\ 10 * b < 13 * StreamBitrate)
           /\ ~(congestion_state = "DECR" /\ 10 * b > 4 * StreamBitrate)
  <2>1. Adjusted(b) = b
    BY <1>3 DEF Adjusted
  <2> QED
    BY <2>1
<1> QED
  BY <1>1, <1>2, <1>3

(* However the decisions and the calls of the two threads fall, the        *)
(* encoder's bitrate never leaves its limits.                              *)
THEOREM BitrateStaysBounded ==
    ASSUME StartInRange PROVE Spec => []BitrateBounded
<1> DEFINE BInv == bitrate \in Nat /\ BitrateBounded
<1>1. Init => BInv
  BY StartInRange, BitrateAssumption DEF Init, StartInRange, BitrateBounded
<1>2. BInv /\ [Next]_vars => BInv'
  <2> SUFFICES ASSUME BInv, [Next]_vars PROVE BInv'
    OBVIOUS
  <2>1. CASE updateVideoEncodeBitate
    BY <2>1, AdjustedInRange DEF updateVideoEncodeBitate, BitrateBounded
  <2>2. CASE UNCHANGED bitrate
    BY <2>2 DEF BitrateBounded
  <2> QED
    BY <2>1, <2>2 DEF Next, congestionCtrl, congestionCtrlNoStats,
       congestionCtrlTooSoon, updateVideoEncodeBitateTooSoon, Tick
<1> QED
  BY <1>1, <1>2, PTL DEF Spec

-----------------------------------------------------------------------------
(* With lists of the same size, as in the code, the two windows fill and   *)
(* empty together.                                                         *)
THEOREM WindowsStayAligned ==
    ASSUME RTT_LIST_MAX = BW_LIST_MAX PROVE Spec => []WindowsAligned
<1> DEFINE WInv == /\ rtt_array \in Seq(Nat)
                   /\ bw_array \in Seq(Nat)
                   /\ WindowsAligned
<1>1. Init => WInv
  <2> SUFFICES ASSUME Init PROVE WInv
    OBVIOUS
  <2>1. rtt_array = <<>> /\ bw_array = <<>> /\ rtt_ready = bw_ready
    BY Zenon DEF Init
  <2> QED
    BY <2>1 DEF WindowsAligned
<1>2. WInv /\ [Next]_vars => WInv'
  <2> SUFFICES ASSUME WInv, [Next]_vars PROVE WInv'
    OBVIOUS
  <2>1. CASE congestionCtrl
    <3>1. PICK rtt \in Rtts, bw \in Rates : updateRTT(rtt) /\ updateMaxBW(bw)
      BY <2>1 DEF congestionCtrl
    <3> DEFINE ra == Append(rtt_array, IF rtt < RTT_MIN THEN RTT_MIN ELSE rtt)
               ba == Append(bw_array, bw)
    <3>2. ra \in Seq(Nat) /\ ba \in Seq(Nat) /\ Len(ra) = Len(ba)
      BY SampleAssumption, ListAssumption DEF WindowsAligned
    <3>3. /\ rtt_ready' = (Len(ra) >= RTT_LIST_MAX)
          /\ bw_ready' = (Len(ba) >= BW_LIST_MAX)
          /\ rtt_array' = IF rtt_ready' THEN <<>> ELSE ra
          /\ bw_array' = IF bw_ready' THEN <<>> ELSE ba
      BY <3>1, Zenon DEF updateRTT, updateMaxBW
    <3> HIDE DEF ra, ba
    <3> QED
      BY <3>2, <3>3 DEF WindowsAligned
  <2>2. CASE UNCHANGED <<rtt_array, rtt_ready, bw_array, bw_ready>>
    BY <2>2 DEF WindowsAligned
  <2> QED
    BY <2>1, <2>2 DEF Next, congestionCtrlNoStats, congestionCtrlTooSoon,
       updateVideoEncodeBitate, updateVideoEncodeBitateTooSoon, Tick
<1> QED
  BY <1>1, <1>2, PTL DEF Spec

(* A decision is in force only between the sample that completes a window  *)
(* and the next one, and not before STATE_LIST_MAX windows.                *)
THEOREM DecidesOnFullWindow == Spec => []DecisionOnFullWindow
<1> DEFINE DInv == state_cnt \in Nat /\ DecisionOnFullWindow
<1>1. Init => DInv
  BY DEF Init, DecisionOnFullWindow
<1>2. DInv /\ [Next]_vars => DInv'
  <2> SUFFICES ASSUME DInv, [Next]_vars PROVE DInv'
    OBVIOUS
  <2>1. CASE congestionCtrl
    <3>1. PICK rtt \in Rtts, flight \in Flights :
             updateRTT(rtt) /\ srtBitrateGetState(flight)
      BY <2>1 DEF congestionCtrl
    <3>2. rtt_ready' => rtt_array' = <<>>
      BY <3>1 DEF updateRTT
    <3>3. state_cnt' \in Nat
      BY <3>1 DEF srtBitrateGetState
    <3>4. congestion_state' # "KEEP" => rtt_ready' /\ state_cnt' >= STATE_LIST_MAX
      BY <3>1, <3>3, ListAssumption DEF srtBitrateGetState, Verdict
    <3> QED
      BY <3>2, <3>3, <3>4 DEF DecisionOnFullWindow
  <2>2. CASE UNCHANGED estvars
    BY <2>2 DEF DecisionOnFullWindow
  <2> QED
    BY <2>1, <2>2 DEF Next, congestionCtrlNoStats, congestionCtrlTooSoon,
       updateVideoEncodeBitate, updateVideoEncodeBitateTooSoon, Tick
<1> QED
  BY <1>1, <1>2, PTL DEF Spec

-----------------------------------------------------------------------------
(* The sums and averages.                                                  *)

(* A nonempty set of numbers has a least one.                              *)
LEMMA LeastNat ==
    ASSUME NEW T \in SUBSET Nat, T # {}
    PROVE  \E n \in T : \A m \in T : n <= m
<1>1. PICK n \in T : \A m \in T : ~(<<m, n>> \in OpToRel(<, Nat))
  BY NatLessThanWellFounded, WFMin, Zenon
<1>2. \A m \in T : ~(m < n)
  BY <1>1 DEF OpToRel
<1> QED  BY <1>2

(* What is true of 0 and goes from n to n + 1 is true of every number.     *)
LEMMA NatInductive ==
    ASSUME NEW T, 0 \in T, \A n \in Nat : n \in T => n + 1 \in T
    PROVE  Nat \subseteq T
<1> SUFFICES ASSUME Nat \ T # {} PROVE FALSE
  OBVIOUS
<1>1. PICK n \in Nat \ T : \A m \in Nat \ T : n <= m
  BY LeastNat
<1>2. n - 1 \in Nat /\ n - 1 \in T
  BY <1>1
<1> QED  BY <1>1, <1>2

(* The accumulator after i samples of s, given the one before.             *)
Sum(s, g, i) == IF i = 0 THEN 0 ELSE AsInt(g[i - 1] + s[i])

(* There is a function that gives the sums of the first k samples.         *)
LEMMA SumExists ==
    ASSUME NEW s, NEW k \in Nat
    PROVE  \E g : g = [i \in 0..k |-> Sum(s, g, i)]
<1> DEFINE T == {n \in Nat : \E g : g = [i \in 0..n |-> Sum(s, g, i)]}
<1>1. 0 \in T
  <2> DEFINE g == [i \in 0..0 |-> 0]
  <2>1. \A i \in 0..0 : Sum(s, g, i) = 0
    BY DEF Sum
  <2>2. g = [i \in 0..0 |-> Sum(s, g, i)]
    BY <2>1
  <2> QED  BY <2>2
<1>2. ASSUME NEW n \in Nat, n \in T PROVE n + 1 \in T
  <2>1. PICK g : g = [i \in 0..n |-> Sum(s, g, i)]
    BY <1>2
  <2> DEFINE x == AsInt(g[n] + s[n + 1])
             h == [i \in 0..(n + 1) |-> IF i = n + 1 THEN x ELSE g[i]]
  <2>2. \A i \in 0..n : h[i] = g[i] /\ g[i] = Sum(s, g, i)
    BY <2>1
  <2>3. h[n + 1] = x
    OBVIOUS
  <2> HIDE DEF h
  <2>4. \A i \in 0..n : Sum(s, g, i) = Sum(s, h, i)
    BY <2>2 DEF Sum
  <2>5. Sum(s, h, n + 1) = x
    <3>1. n + 1 - 1 = n /\ n + 1 # 0 /\ h[n] = g[n]
      BY <2>2
    <3> QED  BY <3>1 DEF Sum
  <2>6. \A i \in 0..(n + 1) : h[i] = Sum(s, h, i)
    <3>1. \A i \in 0..(n + 1) : i \in 0..n \/ i = n + 1
      OBVIOUS
    <3> QED  BY <2>2, <2>3, <2>4, <2>5, <3>1
  <2>7. h = [i \in 0..(n + 1) |-> h[i]]
    BY DEF h
  <2>8. h = [i \in 0..(n + 1) |-> Sum(s, h, i)]
    BY <2>6, <2>7
  <2> QED  BY <2>8
<1> HIDE DEF T
<1>3. k \in T
  BY <1>1, <1>2, NatInductive
<1> QED  BY <1>3 DEF T

(* accumulate adds one sample after the other.                             *)
LEMMA Accumulates ==
    ASSUME NEW s, Len(s) \in Nat
    PROVE  \E g : /\ accumulate(s) = g[Len(s)]
                  /\ g[0] = 0
                  /\ \A i \in 0..(Len(s) - 1) : g[i + 1] = AsInt(g[i] + s[i + 1])
<1> DEFINE g == CHOOSE g : g = [i \in 0..Len(s) |-> Sum(s, g, i)]
<1>1. g = [i \in 0..Len(s) |-> Sum(s, g, i)]
  BY SumExists
<1>2. accumulate(s) = g[Len(s)]
  BY DEF accumulate, Sum
<1> HIDE DEF g
<1>3. \A i \in 0..Len(s) : g[i] = Sum(s, g, i)
  BY <1>1
<1>4. g[0] = 0
  BY <1>3 DEF Sum
<1>5. ASSUME NEW i \in 0..(Len(s) - 1)
      PROVE  g[i + 1] = AsInt(g[i] + s[i + 1])
  <2>1. i + 1 \in 0..Len(s) /\ i + 1 # 0 /\ i + 1 - 1 = i
    OBVIOUS
  <2> QED  BY <1>3, <2>1 DEF Sum
<1> QED  BY <1>2, <1>4, <1>5

(* A number below m is its own remainder.                                  *)
LEMMA ModSmall ==
    ASSUME NEW m \in Nat \ {0}, NEW x \in 0..(m - 1)
    PROVE  x % m = x
OBVIOUS

(* The int conversion, and where it changes nothing.                       *)
LEMMA AsIntIs ==
    /\ \A x \in Int : AsInt(x) \in Int
    /\ \A x \in 0..(IntHalf - 1) : AsInt(x) = x
<1>1. 2 * IntHalf \in Nat \ {0}
  BY WidthAssumption
<1>2. \A x \in Int : AsInt(x) \in Int
  BY <1>1, WidthAssumption DEF AsInt
<1>3. ASSUME NEW x \in 0..(IntHalf - 1) PROVE AsInt(x) = x
  <2>1. x + IntHalf \in 0..(2 * IntHalf - 1)
    BY WidthAssumption
  <2>2. (x + IntHalf) % (2 * IntHalf) = x + IntHalf
    BY <1>1, <2>1, ModSmall
  <2> QED  BY <2>2, WidthAssumption DEF AsInt
<1> QED  BY <1>2, <1>3

(* Whatever the samples, the accumulator stays an int.                     *)
LEMMA SumIsInt ==
    ASSUME NEW s \in Seq(Nat)
    PROVE  accumulate(s) \in Int
<1>1. PICK g : /\ accumulate(s) = g[Len(s)]
               /\ g[0] = 0
               /\ \A i \in 0..(Len(s) - 1) : g[i + 1] = AsInt(g[i] + s[i + 1])
  BY Accumulates
<1> DEFINE T == {i \in Nat : i <= Len(s) => g[i] \in Int}
<1>2. 0 \in T
  BY <1>1
<1>3. ASSUME NEW i \in Nat, i \in T PROVE i + 1 \in T
  <2> SUFFICES ASSUME i + 1 <= Len(s) PROVE g[i + 1] \in Int
    OBVIOUS
  <2>1. g[i] \in Int /\ i \in 0..(Len(s) - 1) /\ s[i + 1] \in Nat
    BY <1>3
  <2>2. g[i] + s[i + 1] \in Int
    BY <2>1
  <2> QED  BY <1>1, <2>1, <2>2, AsIntIs
<1> HIDE DEF T
<1>4. Len(s) \in Nat
  OBVIOUS
<1>5. Len(s) \in T
  BY <1>2, <1>3, <1>4, NatInductive
<1> QED  BY <1>1, <1>4, <1>5 DEF T

(* Multiplication by one more, and by no less.                             *)
LEMMA Times ==
    ASSUME NEW a \in Nat, NEW b \in Nat, NEW r \in Nat
    PROVE  /\ a * r \in Nat
           /\ (a + 1) * r = a * r + r
           /\ a <= b => a * r <= b * r
<1>1. a * r \in Nat /\ (a + 1) * r = a * r + r
  OBVIOUS
<1>2. ASSUME a <= b PROVE a * r <= b * r
  <2>1. b - a \in Nat /\ b = a + (b - a)
    BY <1>2
  <2>2. PICK c \in Nat : b = a + c
    BY <2>1
  <2>3. (a + c) * r = a * r + c * r /\ c * r \in Nat
    OBVIOUS
  <2> QED  BY <1>1, <2>2, <2>3
<1> QED  BY <1>1, <1>2

(* Bounds of a sum.                                                        *)
LEMMA AddBounds ==
    ASSUME NEW u \in Nat, NEW v \in Nat, NEW a \in Nat, NEW b \in Nat, NEW c \in Nat,
           NEW d \in Nat, c <= u, u <= d, a <= v, v <= b
    PROVE  u + v \in Nat /\ c + a <= u + v /\ u + v <= d + b
OBVIOUS

(* As long as the sum fits an int, it is the sum of the samples: between   *)
(* Len(s) times the smallest and Len(s) times the largest.                 *)
LEMMA SumInRange ==
    ASSUME NEW s \in Seq(Nat), NEW a \in Nat, NEW b \in Nat,
           \A i \in 1..Len(s) : a <= s[i] /\ s[i] <= b, Len(s) * b < IntHalf
    PROVE  /\ accumulate(s) \in Nat
           /\ Len(s) * a <= accumulate(s) /\ accumulate(s) <= Len(s) * b
<1>1. PICK g : /\ accumulate(s) = g[Len(s)]
               /\ g[0] = 0
               /\ \A i \in 0..(Len(s) - 1) : g[i + 1] = AsInt(g[i] + s[i + 1])
  BY Accumulates
<1> DEFINE T == {i \in Nat : i <= Len(s) => g[i] \in Nat /\ i * a <= g[i] /\ g[i] <= i * b}
<1>2. 0 \in T
  BY <1>1
<1>3. ASSUME NEW i \in Nat, i \in T PROVE i + 1 \in T
  <2> SUFFICES ASSUME i + 1 <= Len(s)
               PROVE  g[i + 1] \in Nat /\ (i + 1) * a <= g[i + 1] /\ g[i + 1] <= (i + 1) * b
    OBVIOUS
  <2>1. /\ g[i] \in Nat /\ i * a <= g[i] /\ g[i] <= i * b
        /\ i \in 0..(Len(s) - 1) /\ i + 1 \in 1..Len(s)
        /\ s[i + 1] \in Nat /\ a <= s[i + 1] /\ s[i + 1] <= b
    BY <1>3
  <2>2. /\ i * a \in Nat /\ (i + 1) * a = i * a + a
        /\ i * b \in Nat /\ (i + 1) * b = i * b + b
    BY Times
  <2>3. (i + 1) * b <= Len(s) * b /\ Len(s) * b \in Nat
    BY Times
  <2>4. PICK x : x = g[i] + s[i + 1]
    OBVIOUS
  <2>5. x \in Nat /\ (i + 1) * a <= x /\ x <= (i + 1) * b
    <3>1. PICK ia \in Nat : ia = i * a
      BY <2>2
    <3>2. PICK ib \in Nat : ib = i * b
      BY <2>2
    <3>3. ia <= g[i] /\ g[i] <= ib
      BY <2>1, <3>1, <3>2
    <3>4. g[i] \in Nat /\ s[i + 1] \in Nat /\ a <= s[i + 1] /\ s[i + 1] <= b
      BY <2>1
    <3>5. x \in Nat /\ ia + a <= x /\ x <= ib + b
      BY <2>4, <3>3, <3>4, AddBounds
    <3> QED  BY <2>2, <3>1, <3>2, <3>5
  <2>6. x \in 0..(IntHalf - 1)
    <3>1. (i + 1) * b \in Nat
      BY <2>2
    <3> QED  BY <2>3, <2>5, <3>1, WidthAssumption
  <2>7. g[i + 1] = x
    BY <1>1, <2>1, <2>4, <2>6, AsIntIs
  <2> QED  BY <2>5, <2>7
<1> HIDE DEF T
<1>4. Len(s) \in Nat
  OBVIOUS
<1>5. Len(s) \in T
  BY <1>2, <1>3, <1>4, NatInductive
<1> QED  BY <1>1, <1>4, <1>5 DEF T

(* A quotient lies between the factors that the dividend lies between.     *)
LEMMA Quotient ==
    ASSUME NEW n \in Nat \ {0}, NEW x \in Nat, NEW a \in Nat, NEW b \in Nat,
           n * a <= x, x <= n * b
    PROVE  x \div n \in Nat /\ a <= x \div n /\ x \div n <= b
<1>1. PICK q : q = x \div n
  OBVIOUS
<1>2. PICK r : r = x % n
  OBVIOUS
<1>3. x = n * q + r /\ r \in 0..(n - 1) /\ q \in Nat
  BY <1>1, <1>2
<1>4. /\ n * a = a * n /\ n * b = b * n /\ n * q = q * n
      /\ a * n \in Nat /\ b * n \in Nat /\ q * n \in Nat
  BY <1>3
<1>5. ASSUME q + 1 <= a PROVE FALSE
  <2>1. (q + 1) * n <= a * n /\ (q + 1) * n = q * n + n
    BY <1>3, <1>5, Times
  <2> QED  BY <1>3, <1>4, <2>1
<1>6. ASSUME b + 1 <= q PROVE FALSE
  <2>1. (b + 1) * n <= q * n /\ (b + 1) * n = b * n + n
    BY <1>3, <1>6, Times
  <2> QED  BY <1>3, <1>4, <2>1
<1> QED  BY <1>1, <1>3, <1>5, <1>6

(* The smallest and the largest sample.                                    *)
LEMMA MinMax ==
    ASSUME NEW s \in Seq(Nat), Len(s) # 0
    PROVE  LET a == Min(Range(s))
               b == Max(Range(s))
           IN  /\ a \in Range(s) /\ b \in Range(s) /\ a \in Nat /\ b \in Nat
               /\ \A i \in 1..Len(s) : a <= s[i] /\ s[i] <= b
<1>1. /\ Range(s) = {s[i] : i \in 1..Len(s)} /\ Len(s) \in Nat
      /\ \A i \in 1..Len(s) : s[i] \in Nat
  BY DEF Range
<1>2. Range(s) \in SUBSET Nat /\ Range(s) # {}
  <2>1. s[1] \in Range(s)
    BY <1>1
  <2> QED  BY <1>1, <2>1
<1>3. PICK x \in Range(s) : \A y \in Range(s) : x <= y
  BY <1>2, LeastNat
<1>4. Min(Range(s)) \in Range(s) /\ \A y \in Range(s) : Min(Range(s)) <= y
  BY <1>3 DEF Min
<1> DEFINE T == {n \in Nat : n <= Len(s) => \E M \in Nat : \A i \in 1..n : s[i] <= M}
<1>5. 0 \in T
  OBVIOUS
<1>6. ASSUME NEW n \in Nat, n \in T PROVE n + 1 \in T
  <2> SUFFICES ASSUME n + 1 <= Len(s) PROVE \E M \in Nat : \A i \in 1..(n + 1) : s[i] <= M
    OBVIOUS
  <2>1. PICK M \in Nat : \A i \in 1..n : s[i] <= M
    BY <1>1, <1>6
  <2>2. s[n + 1] \in Nat
    BY <1>1
  <2>3. M + s[n + 1] \in Nat /\ \A i \in 1..(n + 1) : s[i] <= M + s[n + 1]
    <3>1. \A i \in 1..(n + 1) : i \in 1..n \/ i = n + 1
      OBVIOUS
    <3>2. \A i \in 1..(n + 1) : s[i] \in Nat
      BY <1>1
    <3> QED  BY <2>1, <2>2, <3>1, <3>2
  <2> QED  BY <2>3
<1> HIDE DEF T
<1>7. Len(s) \in T
  BY <1>1, <1>5, <1>6, NatInductive
<1> DEFINE U == {n \in Nat : \A y \in Range(s) : y <= n}
<1>8. U \in SUBSET Nat /\ U # {}
  <2>1. PICK M \in Nat : \A i \in 1..Len(s) : s[i] <= M
    BY <1>1, <1>7 DEF T
  <2>2. M \in U
    BY <1>1, <2>1
  <2> QED  BY <2>2
<1>9. PICK u \in U : \A v \in U : u <= v
  BY <1>8, LeastNat
<1>10. u \in Nat /\ \A y \in Range(s) : y <= u /\ y \in Nat
  BY <1>2, <1>9
<1>11. u \in Range(s)
  <2> SUFFICES ASSUME u \notin Range(s) PROVE FALSE
    OBVIOUS
  <2>1. \A y \in Range(s) : y <= u - 1
    BY <1>10
  <2>2. u - 1 \in Nat
    <3>1. PICK y \in Range(s) : TRUE
      BY <1>2
    <3> QED  BY <1>10, <2>1, <3>1
  <2>3. u - 1 \in U
    BY <2>1, <2>2
  <2> QED  BY <1>9, <1>10, <2>3
<1>12. Max(Range(s)) \in Range(s) /\ \A y \in Range(s) : Max(Range(s)) >= y
  BY <1>10, <1>11 DEF Max
<1>13. /\ \A i \in 1..Len(s) : s[i] \in Range(s)
       /\ Min(Range(s)) \in Nat /\ Max(Range(s)) \in Nat
  BY <1>1, <1>2, <1>4, <1>12
<1> HIDE DEF U
<1> QED  BY <1>1, <1>4, <1>12, <1>13

-----------------------------------------------------------------------------
(* Types.                                                                  *)

(* The average is a number even when the sum wrapped.                      *)
LEMMA AverageNat ==
    ASSUME NEW s \in Seq(Nat), Len(s) # 0
    PROVE  Average(s) \in Nat
<1>1. Len(s) \in Nat \ {0} /\ SizeRange \in Nat \ {0}
  BY WidthAssumption
<1>2. PICK x \in Int : x = accumulate(s)
  BY SumIsInt
<1>3. x % SizeRange \in Nat
  BY <1>1
<1>4. PICK y \in Nat : y = AsSize(accumulate(s))
  BY <1>2, <1>3 DEF AsSize
<1>5. y \div Len(s) \in Nat
  BY <1>1
<1> QED  BY <1>4, <1>5 DEF Average

(* A task that started did so before now: the time it has run is no        *)
(* negative number.                                                        *)
TypeInv == TypeOK /\ ctl_start <= clock /\ upd_start <= clock

EstTypes ==
    /\ rtt_array \in Seq(Nat) /\ rtt_min \in Nat /\ rtt_ready \in BOOLEAN
    /\ bw_array \in Seq(Nat) /\ bw_max \in Nat /\ avg_bw \in Nat
    /\ bw_ready \in BOOLEAN
    /\ state_cnt \in Nat /\ state_sum \in Int
    /\ congestion_state \in States
    /\ window \in Seq(Nat)

(* A sample keeps the types of the estimates.                              *)
LEMMA SampleTypes ==
    ASSUME EstTypes, NEW rtt \in Rtts, NEW bw \in Rates, NEW flight \in Flights,
           updateRTT(rtt), updateMaxBW(bw), srtBitrateGetState(flight)
    PROVE  EstTypes'
<1>1. rtt \in Nat /\ bw \in Nat /\ flight \in Nat /\ RTT_MIN \in Nat
  BY SampleAssumption, ListAssumption
<1>2. PICK a : a = Append(rtt_array, IF rtt < RTT_MIN THEN RTT_MIN ELSE rtt)
  OBVIOUS
<1>3. a \in Seq(Nat) /\ Len(a) # 0
  BY <1>1, <1>2 DEF EstTypes
<1>4. /\ rtt_ready' = (Len(a) >= RTT_LIST_MAX)
      /\ rtt_min' = IF rtt_ready' THEN Min(Range(a)) ELSE rtt_min
      /\ rtt_array' = IF rtt_ready' THEN <<>> ELSE a
  BY <1>2, Zenon DEF updateRTT
<1>5. rtt_ready' \in BOOLEAN /\ rtt_array' \in Seq(Nat) /\ rtt_min' \in Nat
  <2>1. Min(Range(a)) \in Nat
    BY <1>3, MinMax
  <2> QED  BY <1>3, <1>4, <2>1 DEF EstTypes
<1>6. PICK b : b = Append(bw_array, bw)
  OBVIOUS
<1>7. b \in Seq(Nat) /\ Len(b) # 0
  BY <1>1, <1>6 DEF EstTypes
<1>8. /\ bw_ready' = (Len(b) >= BW_LIST_MAX)
      /\ avg_bw' = IF bw_ready' THEN Average(b) ELSE avg_bw
      /\ bw_max' = IF bw_ready' THEN MeanOfMaxAndAvg(b, avg_bw') ELSE bw_max
      /\ bw_array' = IF bw_ready' THEN <<>> ELSE b
      /\ window' = IF bw_ready' THEN b ELSE window
  BY <1>6, Zenon DEF updateMaxBW
<1>9. bw_ready' \in BOOLEAN /\ avg_bw' \in Nat /\ bw_array' \in Seq(Nat) /\ window' \in Seq(Nat)
  <2>1. Average(b) \in Nat
    BY <1>7, AverageNat
  <2> QED  BY <1>7, <1>8, <2>1 DEF EstTypes
<1>10. bw_max' \in Nat
  <2>1. PICK m \in Nat : m = Max(Range(b))
    BY <1>7, MinMax
  <2>2. \A v \in Nat : ((m + v) * 6) \div 10 \in Nat
    OBVIOUS
  <2> QED  BY <1>8, <1>9, <2>1, <2>2 DEF MeanOfMaxAndAvg, EstTypes
<1>11. Headroom(flight) \in Int
  <2>0. bw_max' * rtt_min' \in Nat
    BY <1>5, <1>10, Times
  <2>1. PICK p \in Nat : p = AsSize(bw_max' * rtt_min')
    BY <2>0, WidthAssumption DEF AsSize
  <2>2. 13 * (p \div 1000) - 10 * (flight * 188 * 7 * 8) \in Int
    BY <1>1
  <2>3. \A x \in Int : Tenth(x) \in Int
    BY DEF Tenth
  <2> QED  BY <2>1, <2>2, <2>3 DEF Headroom
<1>12. /\ state_cnt' \in Nat /\ state_sum' \in Int /\ congestion_state' \in States
  <2>1. \A n, x : Verdict(n, x) \in States
    BY DEF Verdict, States
  <2>2. CASE BothReady
    BY <1>11, <2>1, <2>2 DEF srtBitrateGetState, EstTypes
  <2>3. CASE ~BothReady
    BY <2>3 DEF srtBitrateGetState, EstTypes, States
  <2> QED  BY <2>2, <2>3
<1> QED  BY <1>5, <1>9, <1>10, <1>12 DEF EstTypes, States

(* Type correctness, overflow included: a sum that goes past an int still  *)
(* makes an average of some kind, and no timer runs backwards.             *)
THEOREM CongestionTypes == Spec => []TypeOK
<1> USE DEF ctl!TaskType, upd!TaskType, ctl!NoStart, upd!NoStart
<1>0. TypeOK <=> /\ clock \in Nat /\ ctl!TaskType /\ upd!TaskType /\ EstTypes /\ bitrate \in Nat
  BY DEF TypeOK, EstTypes
<1>1. Init => TypeInv
  <2> SUFFICES ASSUME Init PROVE TypeInv
    OBVIOUS
  <2>1. EstTypes
    <3>1. /\ rtt_array = <<>> /\ rtt_min = RTT_INIT /\ rtt_ready = FALSE
          /\ bw_array = <<>> /\ bw_max = 0 /\ avg_bw = 0 /\ bw_ready = FALSE
          /\ state_cnt = 0 /\ state_sum = 0
          /\ congestion_state = "KEEP" /\ window = <<>>
      BY Zenon DEF Init
    <3>2. rtt_array \in Seq(Nat) /\ bw_array \in Seq(Nat) /\ window \in Seq(Nat)
      BY <3>1
    <3>3. /\ rtt_min \in Nat /\ bw_max \in Nat /\ avg_bw \in Nat
          /\ state_cnt \in Nat /\ state_sum \in Int
      BY <3>1, ListAssumption
    <3>4. congestion_state \in States /\ rtt_ready \in BOOLEAN /\ bw_ready \in BOOLEAN
      BY <3>1, Zenon DEF States
    <3> QED  BY <3>2, <3>3, <3>4 DEF EstTypes
  <2>2. bitrate \in Nat /\ clock = 0
    BY BitrateAssumption DEF Init
  <2>3. ctl!TaskType /\ upd!TaskType /\ ctl_start = -1 /\ upd_start = -1
    BY DEF Init, ctl!TaskInit, upd!TaskInit
  <2> QED  BY <1>0, <2>1, <2>2, <2>3 DEF TypeInv
<1>2. TypeInv /\ [Next]_vars => TypeInv'
  <2> SUFFICES ASSUME TypeInv, [Next]_vars PROVE TypeInv'
    OBVIOUS
  <2>0. /\ clock \in Nat /\ ctl!TaskType /\ upd!TaskType /\ EstTypes /\ bitrate \in Nat
        /\ ctl_start <= clock /\ upd_start <= clock
    BY <1>0 DEF TypeInv
  <2>a. EstTypes'
    <3>1. CASE UNCHANGED estvars
      BY <2>0, <3>1 DEF EstTypes, States
    <3>2. CASE congestionCtrl
      <4>1. PICK rtt \in Rtts, bw \in Rates, flight \in Flights :
               updateRTT(rtt) /\ updateMaxBW(bw) /\ srtBitrateGetState(flight)
        BY <3>2 DEF congestionCtrl
      <4> QED  BY <2>0, <4>1, SampleTypes
    <3> QED  BY <3>1, <3>2 DEF Next, congestionCtrlNoStats, congestionCtrlTooSoon,
                updateVideoEncodeBitate, updateVideoEncodeBitateTooSoon, Tick
  <2>b. bitrate' \in Nat
    <3>1. (bitrate * 108) \div 100 \in Nat /\ (bitrate * 85) \div 100 \in Nat
      BY <2>0
    <3>2. Adjusted(bitrate) \in Nat
      BY <2>0, <3>1 DEF Adjusted
    <3> QED  BY <2>0, <3>2 DEF Next, congestionCtrl, congestionCtrlNoStats, congestionCtrlTooSoon,
                updateVideoEncodeBitate, updateVideoEncodeBitateTooSoon, Tick
  <2>c. clock' \in Nat /\ clock <= clock'
    BY <2>0 DEF Next, congestionCtrl, congestionCtrlNoStats, congestionCtrlTooSoon,
       updateVideoEncodeBitate, updateVideoEncodeBitateTooSoon, Tick
  <2>d. ctl!TaskType' /\ ctl_start' <= clock'
    <3>1. CASE UNCHANGED ctlvars
      BY <2>0, <2>c, <3>1
    <3>2. CASE ctl!doThenReset(clock)
      BY <2>0, <2>c, <3>2 DEF ctl!doThenReset, ctl!IncStart
    <3>3. CASE ctl!doByTimeAndCount(clock)
      BY <2>0, <2>c, <3>3 DEF ctl!doByTimeAndCount, ctl!selfInc, ctl!IncCount, ctl!IncStart, ctl!IncTime
    <3> QED  BY <3>1, <3>2, <3>3 DEF Next, congestionCtrl, congestionCtrlNoStats, congestionCtrlTooSoon,
                updateVideoEncodeBitate, updateVideoEncodeBitateTooSoon, Tick
  <2>e. upd!TaskType' /\ upd_start' <= clock'
    <3>1. CASE UNCHANGED updvars
      BY <2>0, <2>c, <3>1
    <3>2. CASE upd!doThenReset(clock)
      BY <2>0, <2>c, <3>2 DEF upd!doThenReset, upd!IncStart
    <3>3. CASE upd!doByTimeAndCount(clock)
      BY <2>0, <2>c, <3>3 DEF upd!doByTimeAndCount, upd!selfInc, upd!IncCount, upd!IncStart, upd!IncTime
    <3> QED  BY <3>1, <3>2, <3>3 DEF Next, congestionCtrl, congestionCtrlNoStats, congestionCtrlTooSoon,
                updateVideoEncodeBitate, updateVideoEncodeBitateTooSoon, Tick
  <2> QED  BY <2>a, <2>b, <2>c, <2>d, <2>e DEF TypeInv, TypeOK, EstTypes, States
<1> QED  BY <1>1, <1>2, PTL DEF Spec, TypeInv

-----------------------------------------------------------------------------
(* The estimate.                                                           *)

(* The sum of a full list of bandwidth samples fits an int: below 357      *)
(* Mbit/s with six samples and 32 bits.                                    *)
SumsFit == \A r \in Rates : BW_LIST_MAX * r < IntHalf

(* The average of a full list and the estimate made from it.               *)
LEMMA EstimateIs ==
    ASSUME SumsFit, NEW s \in Seq(Rates), Len(s) = BW_LIST_MAX
    PROVE  LET avg == Average(s)
               est == MeanOfMaxAndAvg(s, avg)
           IN  /\ Min(Range(s)) <= avg /\ avg <= Max(Range(s))
               /\ avg <= est /\ 10 * est <= 12 * Max(Range(s))
<1>1. /\ s \in Seq(Nat) /\ Len(s) \in Nat \ {0}
      /\ IntHalf \in Nat /\ SizeRange \in Nat \ {0} /\ IntHalf <= SizeRange
  <2>1. s \in Seq(Nat)
    <3>1. Rates \subseteq Nat
      BY SampleAssumption
    <3>2. Len(s) \in Nat /\ s = [i \in 1..Len(s) |-> s[i]] /\ \A i \in 1..Len(s) : s[i] \in Rates
      OBVIOUS
    <3> QED  BY <3>1, <3>2
  <2>2. Len(s) \in Nat \ {0}
    BY ListAssumption
  <2>3. IntHalf \in Nat /\ SizeRange \in Nat \ {0} /\ IntHalf <= SizeRange
    BY WidthAssumption
  <2> QED  BY <2>1, <2>2, <2>3
<1>2. PICK a : a = Min(Range(s))
  OBVIOUS
<1>3. PICK b : b = Max(Range(s))
  OBVIOUS
<1>4. /\ a \in Nat /\ b \in Nat /\ b \in Range(s)
      /\ \A i \in 1..Len(s) : a <= s[i] /\ s[i] <= b
  BY <1>1, <1>2, <1>3, MinMax
<1>5. b \in Rates
  BY <1>4 DEF Range
<1>6. Len(s) * b < IntHalf /\ Len(s) * b \in Nat
  BY <1>1, <1>4, <1>5 DEF SumsFit
<1>7. PICK x : x = accumulate(s)
  OBVIOUS
<1>8. x \in Nat /\ Len(s) * a <= x /\ x <= Len(s) * b
  BY <1>1, <1>4, <1>6, <1>7, SumInRange
<1>9. AsSize(x) = x
  <2>1. x \in 0..(SizeRange - 1)
    BY <1>1, <1>6, <1>8
  <2> QED  BY <1>1, <2>1, ModSmall DEF AsSize
<1>10. PICK v : v = Average(s)
  OBVIOUS
<1>11. v \in Nat /\ a <= v /\ v <= b
  BY <1>1, <1>4, <1>7, <1>8, <1>9, <1>10, Quotient DEF Average
<1>12. PICK e : e = ((b + v) * 6) \div 10
  OBVIOUS
<1>13. v <= e /\ 10 * e <= 12 * b
  <2>1. /\ b \in Nat /\ v \in Nat /\ v <= b
    BY <1>4, <1>11
  <2> HIDE <1>6
  <2> QED  BY <1>12, <2>1
<1> QED  BY <1>2, <1>3, <1>10, <1>11, <1>12, <1>13 DEF MeanOfMaxAndAvg

(* The bandwidth estimate is what its name says: the average lies between  *)
(* the smallest and the largest sample, and bw_max_ between the average    *)
(* and 1.2 times the largest, for every number of samples, as long as      *)
(* their sum fits the int it is summed in.  (Without that, the run         *)
(* congestion_overflow shows it is not.)                                   *)
THEOREM EstimateStaysInRange ==
    ASSUME SumsFit PROVE Spec => []EstimateInRange
<1> DEFINE EInv == /\ bw_array \in Seq(Rates) /\ Len(bw_array) < BW_LIST_MAX
                   /\ EstimateInRange
<1>1. Init => EInv
  BY ListAssumption DEF Init, EstimateInRange
<1>2. EInv /\ [Next]_vars => EInv'
  <2> SUFFICES ASSUME EInv, [Next]_vars PROVE EInv'
    OBVIOUS
  <2>1. CASE congestionCtrl
    <3>1. PICK bw \in Rates : updateMaxBW(bw)
      BY <2>1 DEF congestionCtrl
    <3>2. PICK a : a = Append(bw_array, bw)
      OBVIOUS
    <3>3. a \in Seq(Rates) /\ Len(a) = Len(bw_array) + 1 /\ Len(bw_array) \in Nat /\ BW_LIST_MAX \in Nat \ {0}
      BY <3>2, ListAssumption
    <3>4. /\ bw_ready' = (Len(a) >= BW_LIST_MAX)
          /\ avg_bw' = IF bw_ready' THEN Average(a) ELSE avg_bw
          /\ bw_max' = IF bw_ready' THEN MeanOfMaxAndAvg(a, avg_bw') ELSE bw_max
          /\ bw_array' = IF bw_ready' THEN <<>> ELSE a
          /\ window' = IF bw_ready' THEN a ELSE window
      BY <3>1, <3>2, Zenon DEF updateMaxBW
    <3>5. CASE Len(a) >= BW_LIST_MAX
      <4>1. Len(a) = BW_LIST_MAX
        BY <3>3, <3>5
      <4>2. /\ avg_bw' = Average(a) /\ bw_max' = MeanOfMaxAndAvg(a, avg_bw')
            /\ bw_array' = <<>> /\ window' = a
        BY <3>4, <3>5
      <4>3. /\ Min(Range(a)) <= avg_bw' /\ avg_bw' <= Max(Range(a))
            /\ avg_bw' <= bw_max' /\ 10 * bw_max' <= 12 * Max(Range(a))
        BY <3>3, <4>1, <4>2, EstimateIs
      <4>4. EstimateInRange'
        BY <4>2, <4>3 DEF EstimateInRange, Min, Max, Range
      <4> QED  BY <3>3, <4>2, <4>4
    <3>6. CASE ~(Len(a) >= BW_LIST_MAX)
      <4>1. UNCHANGED <<avg_bw, bw_max, window>> /\ bw_array' = a
        BY <3>4, <3>6
      <4>2. EstimateInRange'
        BY <4>1 DEF EstimateInRange, Min, Max, Range
      <4> QED  BY <3>3, <3>6, <4>1, <4>2
    <3> QED  BY <3>5, <3>6
  <2>2. CASE UNCHANGED estvars
    BY <2>2 DEF EstimateInRange, Min, Max, Range
  <2> QED
    BY <2>1, <2>2 DEF Next, congestionCtrlNoStats, congestionCtrlTooSoon,
       updateVideoEncodeBitate, updateVideoEncodeBitateTooSoon, Tick
<1> QED
  BY <1>1, <1>2, PTL DEF Spec
=============================================================================
