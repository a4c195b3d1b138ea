------------------------ MODULE MpegTsLosslessProofs ------------------------
(***************************************************************************)
(* Proofs about MpegTsDemuxer::decode on a wire that loses nothing: what   *)
(* comes out of the demuxer is what went into the muxer, and nothing stays *)
(* behind.                                                                 *)
(*                                                                         *)
(* As in MpegTsDemuxerProofs, d is the demuxer in the middle of a call of  *)
(* decode() that began with the packets s on the wire and has read k.      *)
(***************************************************************************)
EXTENDS MpegTsDemuxerProofs

(* The tables are on the wire or have been read.                           *)
TablesOK(d, s, k) ==
    /\ \A j \in Ahead(s, k) :
          s[j].pid = PMT_PID => \/ d.mPmtId = PMT_PID
                                \/ \E i \in Ahead(s, k) : i < j /\ s[i].pid = PAT_PID
    /\ \A j \in Ahead(s, k) :
          Elementary(s[j]) =>
              (frames[s[j].id].shown <=>
                  \/ DOMAIN d.mEsFrames # {}
                  \/ \E i \in Ahead(s, k) : i < j /\ s[i].pid = PMT_PID)
    /\ (\E m \in DOMAIN frames : frames[m].tables) <=>
          \/ DOMAIN d.mEsFrames # {}
          \/ \E i \in Ahead(s, k) : s[i].pid = PMT_PID

(* The packet that comes next has the bytes of frame m from n on.          *)
GoesOn(s, k, m, n) ==
    /\ k + 1 \in Ahead(s, k) /\ Elementary(s[k + 1])
    /\ s[k + 1].id = m /\ s[k + 1].from = n

(* Nothing of frame m that is on the wire lies before n.                   *)
ReadTo(s, k, m, n) ==
    \A j \in Ahead(s, k) :
        Elementary(s[j]) => m < s[j].id \/ (m = s[j].id /\ n <= s[j].from)

(* No frame of type t that has been handed over is m or a later one.       *)
Older(o, t, m) == \A i \in DOMAIN o : o[i].type = t => o[i].id < m

(* What an EsFrame has gathered is the beginning of a frame that is to     *)
(* come out next on its PID, and the rest of it is what comes next.        *)
Beginning(e, pid) ==
    LET f == frames[e.id].frame
    IN  /\ e.id \in DOMAIN frames /\ Wanted(e.id) /\ f.pid = pid
        /\ e.intact
        /\ e.size <= f.size
        /\ e.mPts = f.pts % 4 /\ e.mDts = f.dts % 4 /\ e.mRandomAccess = f.key
        /\ e.mExpectedPayloadLength = IF Unbounded(f) THEN 0 ELSE f.size

HeldBy(e, pid, o, s, k) ==
    e.size > 0 =>
        /\ Beginning(e, pid)
        /\ e.size = frames[e.id].frame.size \/ GoesOn(s, k, e.id, e.size)
        /\ ReadTo(s, k, e.id, e.size)
        /\ Older(o, e.mStreamType, e.id)

Held(d, s, k) ==
    \A pid \in DOMAIN d.mEsFrames : HeldBy(d.mEsFrames[pid], pid, d.out, s, k)

(* The packet that comes next continues what has been gathered.            *)
NextContinues(d, s, k) ==
    k + 1 \in Ahead(s, k) /\ Elementary(s[k + 1]) /\ ~s[k + 1].pusi
       /\ s[k + 1].pid \in DOMAIN d.mEsFrames =>
          LET e == d.mEsFrames[s[k + 1].pid]
          IN  e.id = s[k + 1].id /\ e.size = s[k + 1].from

(* Every frame that is to come out before frame m of type t is in o.       *)
NoneSkipped(o, t, m) ==
    \A i \in 1..(m - 1) :
        Wanted(i) /\ frames[i].frame.type = t => \E j \in DOMAIN o : o[j].id = i

(* What has been handed over.                                              *)
HandedOver(o, s, k) ==
    \A i \in DOMAIN o :
        /\ Faithful(o[i])
        /\ \A j \in 1..(i - 1) : o[j].type = o[i].type => o[j].id < o[i].id
        /\ \A m \in 1..(o[i].id - 1) :
              Wanted(m) /\ frames[m].frame.type = o[i].type =>
                  \E j \in 1..(i - 1) : o[j].id = m
        /\ \A j \in Ahead(s, k) : Elementary(s[j]) => o[i].id < s[j].id

(* A frame that is to come out has come out, is being gathered, or is      *)
(* still on the wire from its first packet on.                             *)
Accounted(d, s, k) ==
    \A m \in DOMAIN frames :
        Wanted(m) =>
            \/ \E i \in DOMAIN d.out : d.out[i].id = m
            \/ \E pid \in DOMAIN d.mEsFrames :
                  d.mEsFrames[pid].size > 0 /\ d.mEsFrames[pid].id = m
            \/ \E j \in Ahead(s, k) : Elementary(s[j]) /\ s[j].pusi /\ s[j].id = m

Lossless(d, s, k) ==
    /\ TablesOK(d, s, k)
    /\ Held(d, s, k)
    /\ NextContinues(d, s, k)
    /\ HandedOver(d.out, s, k)
    /\ Accounted(d, s, k)

(* The inductive invariant.                                                *)
DemuxInv == HurtInv /\ (lost = 0 => Lossless(d0, wire, 0))

-----------------------------------------------------------------------------
(* One more frame is handed over.                                          *)

(* One more element at the end.                                            *)
LEMMA OneMore ==
    ASSUME NEW o \in Seq(Handed), NEW x \in Handed
    PROVE  /\ Len(o) \in Nat /\ DOMAIN o = 1..Len(o)
           /\ Append(o, x) \in Seq(Handed)
           /\ DOMAIN Append(o, x) = 1..(Len(o) + 1)
           /\ \A i \in 1..Len(o) : Append(o, x)[i] = o[i]
           /\ Append(o, x)[Len(o) + 1] = x
OBVIOUS

(* A faithful frame, newer than its stream's others and skipping none of   *)
(* them, may be handed over.                                               *)
LEMMA HandOne ==
    ASSUME NEW o \in Seq(Handed), NEW x \in Handed, NEW s, NEW k,
           HandedOver(o, s, k), Faithful(x), Older(o, x.type, x.id),
           NoneSkipped(o, x.type, x.id),
           \A j \in Ahead(s, k) : Elementary(s[j]) => x.id < s[j].id
    PROVE  HandedOver(Append(o, x), s, k)
<1> DEFINE q == Append(o, x)  n == Len(o) + 1
<1>1. /\ Len(o) \in Nat /\ DOMAIN o = 1..Len(o) /\ DOMAIN q = 1..n
      /\ \A i \in 1..Len(o) : q[i] = o[i]
      /\ q[n] = x
  BY OneMore
<1> HIDE DEF q
<1> SUFFICES ASSUME NEW i \in DOMAIN q
             PROVE  /\ Faithful(q[i])
                    /\ \A j \in 1..(i - 1) : q[j].type = q[i].type => q[j].id < q[i].id
                    /\ \A m \in 1..(q[i].id - 1) :
                          Wanted(m) /\ frames[m].frame.type = q[i].type =>
                              \E j \in 1..(i - 1) : q[j].id = m
                    /\ \A j \in Ahead(s, k) : Elementary(s[j]) => q[i].id < s[j].id
  BY DEF HandedOver, q
<1>2. CASE i = n
  <2>1. i - 1 = Len(o)
    BY <1>1, <1>2
  <2>2. Faithful(q[i]) /\ \A j \in Ahead(s, k) : Elementary(s[j]) => q[i].id < s[j].id
    BY <1>1, <1>2
  <2>3. \A j \in 1..(i - 1) : q[j].type = q[i].type => q[j].id < q[i].id
    BY <1>1, <1>2, <2>1 DEF Older
  <2>4. \A m \in 1..(q[i].id - 1) :
           Wanted(m) /\ frames[m].frame.type = q[i].type => \E j \in 1..(i - 1) : q[j].id = m
    BY <1>1, <1>2, <2>1 DEF NoneSkipped
  <2> QED  BY <2>2, <2>3, <2>4
<1>3. CASE i \in 1..Len(o)
  <2>1. q[i] = o[i] /\ i \in DOMAIN o
    BY <1>1, <1>3
  <2>2. \A j \in 1..(i - 1) : j \in 1..Len(o) /\ q[j] = o[j]
    BY <1>1, <1>3
  <2>3. /\ Faithful(o[i])
        /\ \A j \in 1..(i - 1) : o[j].type = o[i].type => o[j].id < o[i].id
        /\ \A m \in 1..(o[i].id - 1) :
              Wanted(m) /\ frames[m].frame.type = o[i].type =>
                  \E j \in 1..(i - 1) : o[j].id = m
        /\ \A j \in Ahead(s, k) : Elementary(s[j]) => o[i].id < s[j].id
    BY <2>1 DEF HandedOver
  <2>4. \A m \in 1..(q[i].id - 1) :
           Wanted(m) /\ frames[m].frame.type = q[i].type => \E j \in 1..(i - 1) : q[j].id = m
    BY <2>1, <2>2, <2>3
  <2> QED  BY <2>1, <2>2, <2>3, <2>4
<1> QED  BY <1>1, <1>2, <1>3

(* Reading on does not change what was handed over.                        *)
LEMMA HandedPass ==
    ASSUME NEW o, NEW s, NEW k \in Nat, Len(s) \in Nat, HandedOver(o, s, k)
    PROVE  HandedOver(o, s, k + 1)
<1>1. Ahead(s, k + 1) \subseteq Ahead(s, k)
  BY DEF Ahead
<1> QED  BY <1>1 DEF HandedOver

-----------------------------------------------------------------------------
(* What the invariant says of one EsFrame.                                 *)

(* What is known of every frame that was fed.                              *)
LEMMA FrameNumbers ==
    ASSUME OwnPids, FramesOK, NEW m \in DOMAIN frames
    PROVE  LET f == frames[m].frame
           IN  /\ m \in Nat \ {0}
               /\ f \in Frame /\ f.id = m /\ f.size \in Nat /\ f.key \in BOOLEAN
               /\ f.type \in config.types /\ f.pid = mStreamPidMap[f.type] /\ f.pid \in EsPids
               /\ (f.size > 0) = (f.size # 0)
               /\ frames[m].shown \in BOOLEAN /\ frames[m].tables \in BOOLEAN
<1>1. m \in Nat \ {0} /\ frames[m] \in Entry
  BY DEF FramesOK
<1>2. frames[m].frame \in Frame /\ frames[m].shown \in BOOLEAN /\ frames[m].tables \in BOOLEAN
  BY <1>1 DEF Entry
<1>3. frames[m].frame.size \in Nat /\ frames[m].frame.key \in BOOLEAN
  BY <1>2 DEF Frame
<1>4. /\ frames[m].frame.id = m /\ frames[m].frame.type \in config.types
      /\ frames[m].frame.pid = mStreamPidMap[frames[m].frame.type]
  BY DEF FramesOK
<1> QED  BY <1>1, <1>2, <1>3, <1>4, PidMap

(* The stream type of a frame is that of the EsFrame of its PID.           *)
LEMMA SameType ==
    ASSUME OwnPids, FramesOK, NEW d, DmxOK(d), NEW m \in DOMAIN frames, NEW pid \in DOMAIN d.mEsFrames
    PROVE  (frames[m].frame.pid = pid) <=> (frames[m].frame.type = d.mEsFrames[pid].mStreamType)
BY FrameNumbers, PidMap DEF DmxOK

(* A frame of its type before frame n has been handed over or is held.     *)
LEMMA Earlier ==
    ASSUME OwnPids, FramesOK, NEW d, NEW s, NEW k, DmxOK(d), Held(d, s, k), Accounted(d, s, k),
           NEW pid \in DOMAIN d.mEsFrames, NEW n \in Nat,
           n - 1 <= Len(frames),
           \A j \in Ahead(s, k) : Elementary(s[j]) /\ s[j].pusi => n <= s[j].id,
           NEW m \in 1..(n - 1), Wanted(m),
           frames[m].frame.type = d.mEsFrames[pid].mStreamType
    PROVE  \/ \E i \in DOMAIN d.out : d.out[i].id = m
           \/ d.mEsFrames[pid].size > 0 /\ d.mEsFrames[pid].id = m
<1>1. m \in DOMAIN frames
  BY DEF FramesOK
<1>2. ASSUME NEW q \in DOMAIN d.mEsFrames, d.mEsFrames[q].size > 0, d.mEsFrames[q].id = m
      PROVE  q = pid
  <2>1. frames[m].frame.pid = q
    BY <1>2 DEF Held, HeldBy, Beginning
  <2> QED  BY <1>1, <2>1, SameType
<1>3. ASSUME NEW j \in Ahead(s, k), Elementary(s[j]), s[j].pusi, s[j].id = m
      PROVE  FALSE
  <2>1. n <= m
    BY <1>3
  <2> QED  BY <2>1
<1> QED  BY <1>1, <1>2, <1>3 DEF Accounted

(* What is held of another stream when packet k + 1 is read.               *)
LEMMA HeldOther ==
    ASSUME OwnPids, FramesOK, NEW d, NEW s, NEW k \in Nat, Len(s) \in Nat, DmxOK(d), Held(d, s, k),
           NEW pid \in DOMAIN d.mEsFrames, NEW o,
           \/ ~Elementary(s[k + 1])
           \/ s[k + 1].pid = frames[s[k + 1].id].frame.pid /\ s[k + 1].pid # pid,
           \A i \in DOMAIN o : \/ i \in DOMAIN d.out /\ o[i] = d.out[i]
                               \/ o[i].type # d.mEsFrames[pid].mStreamType
    PROVE  HeldBy(d.mEsFrames[pid], pid, o, s, k + 1)
<1> DEFINE e == d.mEsFrames[pid]
<1> SUFFICES ASSUME e.size > 0
             PROVE  /\ Beginning(e, pid)
                    /\ e.size = frames[e.id].frame.size \/ GoesOn(s, k + 1, e.id, e.size)
                    /\ ReadTo(s, k + 1, e.id, e.size)
                    /\ Older(o, e.mStreamType, e.id)
  BY DEF HeldBy
<1>1. /\ Beginning(e, pid)
      /\ e.size = frames[e.id].frame.size \/ GoesOn(s, k, e.id, e.size)
      /\ ReadTo(s, k, e.id, e.size)
      /\ Older(d.out, e.mStreamType, e.id)
  BY DEF Held, HeldBy
<1>2. ~GoesOn(s, k, e.id, e.size)
  BY <1>1 DEF GoesOn, Beginning
<1>3. Ahead(s, k + 1) \subseteq Ahead(s, k)
  BY DEF Ahead
<1>4. ReadTo(s, k + 1, e.id, e.size)
  BY <1>1, <1>3 DEF ReadTo
<1>5. Older(o, e.mStreamType, e.id)
  BY <1>1 DEF Older
<1> HIDE DEF e
<1> QED  BY <1>1, <1>2, <1>4, <1>5

(* The packet after k + 1, unless it starts a frame, goes on where this    *)
(* one ends.                                                               *)
LEMMA NextJoined ==
    ASSUME OwnPids, FramesOK, NEW s, NEW k \in Nat, Len(s) \in Nat, k + 1 <= Len(s),
           WireOK(s, k), OthersWhole(s, k, 0),
           k + 1 + 1 \in Ahead(s, k + 1), Elementary(s[k + 1 + 1]), ~s[k + 1 + 1].pusi
    PROVE  Joined(s[k + 1], s[k + 1 + 1])
<1>1. k + 1 + 1 \in Ahead(s, k) /\ k + 1 + 1 # k + 1 /\ k + 1 + 1 - 1 = k + 1
  BY DEF Ahead
<1>2. s[k + 1 + 1].id \in DOMAIN frames
  BY <1>1 DEF WireOK, Packet, Pes
<1>3. s[k + 1 + 1].id # 0
  BY <1>2, FrameNumbers
<1> QED  BY <1>1, <1>3 DEF OthersWhole

-----------------------------------------------------------------------------
(* One turn of the loop: tables, and packets of unknown streams.           *)

(* The packet that comes next, and those behind it.                        *)
LEMMA AheadStep ==
    ASSUME NEW s, NEW k \in Nat, Len(s) \in Nat, k + 1 <= Len(s)
    PROVE  /\ k + 1 \in Ahead(s, k)
           /\ Ahead(s, k + 1) \subseteq Ahead(s, k)
           /\ \A j \in Ahead(s, k) : j = k + 1 \/ j \in Ahead(s, k + 1)
           /\ \A j \in Ahead(s, k + 1) : k + 1 < j
           /\ \A j \in Ahead(s, k) : ~(j < k + 1)
BY DEF Ahead

(* A packet that is no PMT keeps TablesOK.                                 *)
LEMMA TablesPass ==
    ASSUME NEW d, NEW r, NEW s, NEW k \in Nat, Len(s) \in Nat, k + 1 <= Len(s),
           TablesOK(d, s, k), s[k + 1].pid # PMT_PID,
           (DOMAIN r.mEsFrames = {}) <=> (DOMAIN d.mEsFrames = {}),
           s[k + 1].pid = PAT_PID \/ d.mPmtId = PMT_PID => r.mPmtId = PMT_PID
    PROVE  TablesOK(r, s, k + 1)
<1>1. ASSUME NEW j \in Ahead(s, k + 1), s[j].pid = PMT_PID
      PROVE  \/ r.mPmtId = PMT_PID
             \/ \E i \in Ahead(s, k + 1) : i < j /\ s[i].pid = PAT_PID
  BY <1>1, AheadStep DEF TablesOK
<1>2. ASSUME NEW j \in Ahead(s, k + 1), Elementary(s[j])
      PROVE  frames[s[j].id].shown <=>
                  \/ DOMAIN r.mEsFrames # {}
                  \/ \E i \in Ahead(s, k + 1) : i < j /\ s[i].pid = PMT_PID
  <2>1. frames[s[j].id].shown <=>
           \/ DOMAIN d.mEsFrames # {}
           \/ \E i \in Ahead(s, k) : i < j /\ s[i].pid = PMT_PID
    BY <1>2, AheadStep DEF TablesOK
  <2>2. (\E i \in Ahead(s, k) : i < j /\ s[i].pid = PMT_PID)
         <=> (\E i \in Ahead(s, k + 1) : i < j /\ s[i].pid = PMT_PID)
    BY AheadStep
  <2> QED  BY <2>1, <2>2
<1>3. (\E m \in DOMAIN frames : frames[m].tables) <=>
          \/ DOMAIN r.mEsFrames # {}
          \/ \E i \in Ahead(s, k + 1) : s[i].pid = PMT_PID
  <2>1. (\E m \in DOMAIN frames : frames[m].tables) <=>
          \/ DOMAIN d.mEsFrames # {}
          \/ \E i \in Ahead(s, k) : s[i].pid = PMT_PID
    BY DEF TablesOK
  <2>2. (\E i \in Ahead(s, k) : s[i].pid = PMT_PID) <=> (\E i \in Ahead(s, k + 1) : s[i].pid = PMT_PID)
    BY AheadStep
  <2> QED  BY <2>1, <2>2
<1> QED  BY <1>1, <1>2, <1>3 DEF TablesOK

(* What is read is no part of a frame, and nothing is gathered.            *)
LEMMA LosslessPass ==
    ASSUME OwnPids, FramesOK, NEW d, NEW r, NEW s, NEW k \in Nat, Len(s) \in Nat, k + 1 <= Len(s),
           Hurt(d, s, k, 0), Lossless(d, s, k), TablesOK(r, s, k + 1),
           r.mEsFrames = d.mEsFrames, r.out = d.out,
           ~Elementary(s[k + 1]) \/ (DOMAIN d.mEsFrames = {} /\ ~Wanted(s[k + 1].id))
    PROVE  Lossless(r, s, k + 1)
<1>1. Held(r, s, k + 1)
  <2> SUFFICES ASSUME NEW pid \in DOMAIN d.mEsFrames
               PROVE  HeldBy(d.mEsFrames[pid], pid, d.out, s, k + 1)
    BY DEF Held
  <2>1. ~Elementary(s[k + 1])
    OBVIOUS
  <2> QED  BY <2>1, HeldOther DEF Hurt, Lossless
<1>2. NextContinues(r, s, k + 1)
  <2> SUFFICES ASSUME k + 1 + 1 \in Ahead(s, k + 1), Elementary(s[k + 1 + 1]), ~s[k + 1 + 1].pusi,
                      s[k + 1 + 1].pid \in DOMAIN d.mEsFrames
               PROVE  FALSE
    BY DEF NextContinues
  <2>1. ~Elementary(s[k + 1])
    OBVIOUS
  <2>2. Joined(s[k + 1], s[k + 1 + 1])
    BY NextJoined DEF Hurt
  <2> QED  BY <2>1, <2>2 DEF Joined
<1>3. HandedOver(r.out, s, k + 1)
  BY HandedPass DEF Lossless
<1>4. Accounted(r, s, k + 1)
  BY AheadStep DEF Lossless, Accounted
<1> QED  BY <1>1, <1>2, <1>3, <1>4 DEF Lossless

(* A PAT keeps the invariant.                                              *)
LEMMA LosslessPat ==
    ASSUME OwnPids, FramesOK, NEW d, NEW s, NEW k \in Nat, Len(s) \in Nat, k + 1 <= Len(s),
           Hurt(d, s, k, 0), Lossless(d, s, k), NEW base \in Nat, s[k + 1].pid = PAT_PID
    PROVE  Lossless(DecodePacket(d, s[k + 1], base), s, k + 1)
<1> DEFINE p == s[k + 1]  r == DecodePacket(d, p, base)
<1>1. d \in Dmx /\ p.pmt = PMT_PID
  BY AheadStep DEF Hurt, DmxOK, WireOK, Packet
<1>2. r.mPmtId = PMT_PID /\ r.mEsFrames = d.mEsFrames /\ r.out = d.out
  BY <1>1, ReadPat
<1>3. ~Elementary(p) /\ p.pid # PMT_PID
  BY DEF Elementary, EsPids, PAT_PID, PMT_PID, VIDEO_PID, AUDIO_PID
<1> HIDE DEF r
<1>4. TablesOK(r, s, k + 1)
  BY <1>2, <1>3, TablesPass DEF Lossless
<1>5. Lossless(r, s, k + 1)
  BY <1>2, <1>3, <1>4, LosslessPass
<1> QED  BY <1>5 DEF r

(* So does a packet of a stream not announced yet: its frame is not to     *)
(* come out.                                                               *)
LEMMA LosslessUnknown ==
    ASSUME OwnPids, FramesOK, NEW d, NEW s, NEW k \in Nat, Len(s) \in Nat, k + 1 <= Len(s),
           Hurt(d, s, k, 0), Lossless(d, s, k), NEW base \in Nat,
           Elementary(s[k + 1]), s[k + 1].pid \notin DOMAIN d.mEsFrames
    PROVE  Lossless(DecodePacket(d, s[k + 1], base), s, k + 1)
<1> DEFINE p == s[k + 1]
<1>1. d \in Dmx /\ Pes(p) /\ k + 1 \in Ahead(s, k)
  BY AheadStep DEF Hurt, DmxOK, WireOK, Packet
<1>2. DecodePacket(d, p, base) = d
  BY <1>1, ReadOther DEF Elementary
<1>3. p.pid # PMT_PID /\ p.pid # PAT_PID
  BY DEF Elementary, EsPids, PAT_PID, PMT_PID, VIDEO_PID, AUDIO_PID
<1>4. DOMAIN d.mEsFrames = {}
  <2>1. p.id \in DOMAIN frames /\ p.pid = frames[p.id].frame.pid
    BY <1>1 DEF Pes, FrameOf
  <2>2. frames[p.id].frame.type \in config.types /\ p.pid = mStreamPidMap[frames[p.id].frame.type]
    BY <2>1, FrameNumbers
  <2> QED  BY <2>2 DEF Hurt, DmxOK
<1>5. ~Wanted(p.id)
  BY <1>1, <1>4, AheadStep DEF Lossless, TablesOK, Wanted
<1>6. TablesOK(d, s, k + 1)
  BY <1>3, TablesPass DEF Lossless
<1> QED  BY <1>2, <1>4, <1>5, <1>6, LosslessPass

(* So does a PMT.                                                          *)
LEMMA LosslessPmt ==
    ASSUME OwnPids, FramesOK, NEW d, NEW s, NEW k \in Nat, Len(s) \in Nat, k + 1 <= Len(s),
           Hurt(d, s, k, 0), Lossless(d, s, k), NEW base \in Nat, s[k + 1].pid = PMT_PID
    PROVE  Lossless(DecodePacket(d, s[k + 1], base), s, k + 1)
<1> DEFINE p == s[k + 1]  r == DecodePacket(d, p, base)
<1>1. d \in Dmx /\ p.infos = mStreamPidMap /\ k + 1 \in Ahead(s, k)
  BY AheadStep DEF Hurt, DmxOK, WireOK, Packet
<1>2. d.mPmtId = PMT_PID
  BY <1>1, AheadStep DEF Lossless, TablesOK
<1>3. /\ r.mPmtId = d.mPmtId /\ r.out = d.out
      /\ IF DOMAIN d.mEsFrames = {} THEN Fresh(r) ELSE r = d
  BY <1>1, <1>2, ReadPmt
<1>4. ~Elementary(p)
  BY DEF Elementary, EsPids, PAT_PID, PMT_PID, VIDEO_PID, AUDIO_PID
<1> HIDE DEF r
<1>5. DOMAIN r.mEsFrames # {}
  BY <1>3, PidMap DEF Fresh
<1>6. TablesOK(r, s, k + 1)
  <2>1. ASSUME NEW j \in Ahead(s, k + 1), Elementary(s[j]) PROVE frames[s[j].id].shown
    BY <1>1, <2>1, AheadStep DEF Lossless, TablesOK
  <2>2. \E m \in DOMAIN frames : frames[m].tables
    BY <1>1 DEF Lossless, TablesOK
  <2> QED  BY <1>2, <1>3, <1>5, <2>1, <2>2 DEF TablesOK
<1>7. CASE DOMAIN d.mEsFrames # {}
  BY <1>3, <1>4, <1>6, <1>7, LosslessPass DEF r
<1>8. CASE DOMAIN d.mEsFrames = {}
  <2>1. \A pid \in DOMAIN r.mEsFrames : r.mEsFrames[pid].size = 0
    <3> TAKE pid \in DOMAIN r.mEsFrames
    <3>1. PICK t \in config.types : r.mEsFrames[pid] = EsFrame(t)
      BY <1>3, <1>8 DEF Fresh
    <3> QED  BY <3>1 DEF EsFrame
  <2>2. Held(r, s, k + 1)
    BY <2>1 DEF Held, HeldBy
  <2>3. NextContinues(r, s, k + 1)
    <3> SUFFICES ASSUME k + 1 + 1 \in Ahead(s, k + 1), Elementary(s[k + 1 + 1]), ~s[k + 1 + 1].pusi
                 PROVE  FALSE
      BY DEF NextContinues
    <3>1. Joined(s[k + 1], s[k + 1 + 1])
      BY NextJoined DEF Hurt
    <3> QED  BY <1>4, <3>1 DEF Joined
  <2>4. HandedOver(r.out, s, k + 1)
    BY <1>3, HandedPass DEF Lossless
  <2>5. Accounted(r, s, k + 1)
    BY <1>3, <1>4, <1>8, AheadStep DEF Lossless, Accounted
  <2>6. Lossless(r, s, k + 1)
    BY <1>6, <2>2, <2>3, <2>4, <2>5 DEF Lossless
  <2> QED  BY <2>6 DEF r
<1> QED  BY <1>7, <1>8

-----------------------------------------------------------------------------
(* One turn of the loop: a packet of a stream.                             *)

(* o is what was handed over, and frames of stream type t.                 *)
AddsOnly(o, old, t) ==
    /\ \A i \in DOMAIN old : i \in DOMAIN o /\ o[i] = old[i]
    /\ \A i \in DOMAIN o : (i \in DOMAIN old /\ o[i] = old[i]) \/ o[i].type = t

(* The packet that comes next, if it is a frame's.                         *)
LEMMA PesNext ==
    ASSUME OwnPids, FramesOK, NEW s, NEW k \in Nat, Len(s) \in Nat, k + 1 <= Len(s),
           WireOK(s, k), Elementary(s[k + 1])
    PROVE  LET p == s[k + 1]
               f == frames[p.id].frame
           IN  /\ Pes(p) /\ p.id \in DOMAIN frames /\ p.id \in Nat \ {0}
               /\ f \in Frame /\ f.size \in Nat /\ f.size > 0 /\ f.pid = p.pid
               /\ p.from \in Nat /\ p.n \in Nat \ {0} /\ p.from + p.n <= f.size
               /\ p.pid # PMT_PID /\ p.pid # PAT_PID
               /\ (p.pusi <=> p.from = 0)
<1>1. Pes(s[k + 1]) /\ k + 1 \in Ahead(s, k)
  BY AheadStep DEF WireOK, Packet
<1>2. s[k + 1].pid # PMT_PID /\ s[k + 1].pid # PAT_PID
  BY DEF Elementary, EsPids, PAT_PID, PMT_PID, VIDEO_PID, AUDIO_PID
<1>3. s[k + 1].id \in DOMAIN frames
  BY <1>1 DEF Pes
<1>4. /\ s[k + 1].id \in Nat \ {0} /\ frames[s[k + 1].id].frame \in Frame
      /\ frames[s[k + 1].id].frame.size \in Nat
  BY <1>3, FrameNumbers
<1> QED  BY <1>1, <1>2, <1>3, <1>4, SMTT(30) DEF Pes, FrameOf

(* Every frame ahead is a later one, or lies behind this packet.           *)
LEMMA ReadOn ==
    ASSUME OwnPids, FramesOK, NEW s, NEW k \in Nat, Len(s) \in Nat, k + 1 <= Len(s),
           WireOK(s, k), Elementary(s[k + 1])
    PROVE  ReadTo(s, k + 1, s[k + 1].id, s[k + 1].from + s[k + 1].n)
BY AheadStep DEF WireOK, ReadTo

(* What has been read to its end is not ahead.                             *)
LEMMA AllRead ==
    ASSUME OwnPids, FramesOK, NEW s, NEW k, NEW a, WireOK(s, a), Ahead(s, k) \subseteq Ahead(s, a),
           NEW m \in DOMAIN frames, ReadTo(s, k, m, frames[m].frame.size)
    PROVE  \A j \in Ahead(s, k) : Elementary(s[j]) => m < s[j].id
<1> SUFFICES ASSUME NEW j \in Ahead(s, k), Elementary(s[j]), m = s[j].id,
                    frames[m].frame.size <= s[j].from
             PROVE  FALSE
  BY DEF ReadTo
<1>1. Pes(s[j])
  BY DEF WireOK, Packet
<1>2. s[j].from \in Nat /\ s[j].n \in Nat \ {0} /\ s[j].from + s[j].n <= frames[m].frame.size
  BY <1>1 DEF Pes, FrameOf
<1> QED  BY <1>2, FrameNumbers

(* What a packet of an announced stream has to do to keep the invariant.   *)
LEMMA LosslessEs ==
    ASSUME OwnPids, FramesOK, NEW d, NEW s, NEW k \in Nat, Len(s) \in Nat, k + 1 <= Len(s),
           Hurt(d, s, k, 0), Lossless(d, s, k),
           NEW p, p = s[k + 1], Elementary(p), p.pid \in DOMAIN d.mEsFrames,
           NEW e, e = d.mEsFrames[p.pid],
           NEW r, NEW x, NEW o, Becomes(r, d, p.pid, x, o),
           HeldBy(x, p.pid, o, s, k + 1),
           HandedOver(o, s, k + 1),
           AddsOnly(o, d.out, e.mStreamType),
           ~Ends(p) => x.id = p.id /\ x.size = p.from + p.n,
           e.size > 0 => \/ \E i \in DOMAIN o : o[i].id = e.id
                         \/ x.size > 0 /\ x.id = e.id,
           p.pusi => \/ \E i \in DOMAIN o : o[i].id = p.id
                     \/ x.size > 0 /\ x.id = p.id
    PROVE  Lossless(r, s, k + 1)
<1>0. /\ Pes(p) /\ p.id \in DOMAIN frames /\ frames[p.id].frame.pid = p.pid
      /\ p.pid # PMT_PID /\ p.pid # PAT_PID
      /\ DmxOK(d) /\ WireOK(s, k) /\ d \in Dmx
  BY PesNext DEF Hurt, DmxOK
<1>1. /\ r.mPmtId = d.mPmtId /\ r.out = o
      /\ r.mEsFrames = [d.mEsFrames EXCEPT ![p.pid] = x]
  BY DEF Becomes
<1>2. /\ DOMAIN r.mEsFrames = DOMAIN d.mEsFrames /\ r.mEsFrames[p.pid] = x
      /\ \A pid \in DOMAIN d.mEsFrames : pid # p.pid => r.mEsFrames[pid] = d.mEsFrames[pid]
  BY <1>0, <1>1, DmxFields
<1>3. TablesOK(r, s, k + 1)
  BY <1>0, <1>1, <1>2, TablesPass DEF Lossless
<1>4. Held(r, s, k + 1)
  <2> SUFFICES ASSUME NEW pid \in DOMAIN d.mEsFrames, pid # p.pid
               PROVE  HeldBy(d.mEsFrames[pid], pid, o, s, k + 1)
    BY <1>1, <1>2 DEF Held
  <2>1. d.mEsFrames[pid].mStreamType # e.mStreamType
    BY <1>0 DEF DmxOK
  <2>2. \A i \in DOMAIN o : \/ i \in DOMAIN d.out /\ o[i] = d.out[i]
                            \/ o[i].type # d.mEsFrames[pid].mStreamType
    BY <2>1 DEF AddsOnly
  <2>3. s[k + 1].pid = frames[s[k + 1].id].frame.pid /\ s[k + 1].pid # pid
    BY <1>0
  <2> QED  BY <1>0, <2>2, <2>3, HeldOther DEF Lossless
<1>5. NextContinues(r, s, k + 1)
  <2> DEFINE q == s[k + 1 + 1]
  <2> SUFFICES ASSUME k + 1 + 1 \in Ahead(s, k + 1), Elementary(q), ~q.pusi,
                      q.pid \in DOMAIN r.mEsFrames
               PROVE  r.mEsFrames[q.pid].id = q.id /\ r.mEsFrames[q.pid].size = q.from
    BY DEF NextContinues
  <2>1. p.id = q.id /\ p.from + p.n = q.from
    BY NextJoined DEF Hurt, Joined
  <2>2. Pes(q)
    BY <1>0, AheadStep DEF WireOK, Packet
  <2>3. q.pid = p.pid
    BY <1>0, <2>1, <2>2 DEF Pes, FrameOf
  <2>4. ~Ends(p)
    <3>1. q.from \in Nat /\ q.n \in Nat \ {0} /\ q.from + q.n <= frames[q.id].frame.size
      BY <2>2 DEF Pes, FrameOf
    <3> QED  BY <1>0, <2>1, <3>1, FrameNumbers DEF Ends, FrameOf
  <2> QED  BY <1>2, <2>1, <2>3, <2>4
<1>6. Accounted(r, s, k + 1)
  <2> SUFFICES ASSUME NEW m \in DOMAIN frames, Wanted(m)
               PROVE  \/ \E i \in DOMAIN o : o[i].id = m
                      \/ \E pid \in DOMAIN d.mEsFrames :
                            r.mEsFrames[pid].size > 0 /\ r.mEsFrames[pid].id = m
                      \/ \E j \in Ahead(s, k + 1) : Elementary(s[j]) /\ s[j].pusi /\ s[j].id = m
    BY <1>1, <1>2 DEF Accounted
  <2>1. CASE \E i \in DOMAIN d.out : d.out[i].id = m
    BY <2>1 DEF AddsOnly
  <2>2. ASSUME NEW pid \in DOMAIN d.mEsFrames, d.mEsFrames[pid].size > 0, d.mEsFrames[pid].id = m
        PROVE  \/ \E i \in DOMAIN o : o[i].id = m
               \/ \E q \in DOMAIN d.mEsFrames : r.mEsFrames[q].size > 0 /\ r.mEsFrames[q].id = m
    <3>1. CASE pid = p.pid
      BY <1>2, <2>2, <3>1
    <3>2. CASE pid # p.pid
      BY <1>2, <2>2, <3>2
    <3> QED  BY <3>1, <3>2
  <2>3. ASSUME NEW j \in Ahead(s, k), Elementary(s[j]), s[j].pusi, s[j].id = m
        PROVE  \/ \E i \in DOMAIN o : o[i].id = m
               \/ \E pid \in DOMAIN d.mEsFrames :
                     r.mEsFrames[pid].size > 0 /\ r.mEsFrames[pid].id = m
               \/ \E l \in Ahead(s, k + 1) : Elementary(s[l]) /\ s[l].pusi /\ s[l].id = m
    <3>1. CASE j = k + 1
      BY <1>2, <2>3, <3>1
    <3>2. CASE j \in Ahead(s, k + 1)
      BY <2>3, <3>2
    <3> QED  BY <3>1, <3>2, AheadStep
  <2> QED  BY <2>1, <2>2, <2>3 DEF Lossless, Accounted
<1> QED  BY <1>1, <1>3, <1>4, <1>5, <1>6 DEF Lossless

(* What esOutCallback is given when a frame has been gathered whole.       *)
LEMMA FaithfulMake ==
    ASSUME OwnPids, FramesOK, NEW d, DmxOK(d), NEW pid \in DOMAIN d.mEsFrames,
           NEW e, e.mStreamType = d.mEsFrames[pid].mStreamType, Beginning(e, pid),
           e.size = frames[e.id].frame.size,
           NEW x, x.id = e.id, x.size = e.size, x.intact = e.intact, x.type = e.mStreamType,
           x.pts = e.mPts, x.dts = e.mDts,
           x.broken <=> Unbounded(frames[e.id].frame),
           ~x.broken => x.key = e.mRandomAccess
    PROVE  Faithful(x)
<1>1. /\ e.id \in DOMAIN frames /\ Wanted(e.id) /\ frames[e.id].frame.pid = pid /\ e.intact
      /\ e.mPts = frames[e.id].frame.pts % 4 /\ e.mDts = frames[e.id].frame.dts % 4
      /\ e.mRandomAccess = frames[e.id].frame.key
  BY DEF Beginning
<1>2. frames[e.id].frame.type = e.mStreamType /\ frames[e.id].frame.id = e.id
  BY <1>1, SameType, FrameNumbers
<1>3. Whole(x, frames[x.id].frame)
  BY <1>1, <1>2 DEF Whole
<1> QED  BY <1>1, <1>2, <1>3 DEF Faithful

(* The packet after this one has the rest of the frame, if there is any.   *)
LEMMA RestFollows ==
    ASSUME OwnPids, FramesOK, NEW s, NEW k \in Nat, Len(s) \in Nat, k + 1 <= Len(s),
           WireOK(s, k), OthersWhole(s, k, 0), Elementary(s[k + 1])
    PROVE  \/ s[k + 1].from + s[k + 1].n = frames[s[k + 1].id].frame.size
           \/ GoesOn(s, k + 1, s[k + 1].id, s[k + 1].from + s[k + 1].n)
<1>1. k + 1 \in Ahead(s, k) /\ s[k + 1].id # 0
  BY AheadStep, PesNext
<1>2. Ends(s[k + 1]) \/ (k + 1 + 1 \in Ahead(s, k) /\ Joined(s[k + 1], s[k + 1 + 1]))
  BY <1>1 DEF OthersWhole
<1>3. k + 1 + 1 \in Ahead(s, k) => k + 1 + 1 \in Ahead(s, k + 1)
  BY DEF Ahead
<1> QED  BY <1>2, <1>3 DEF Ends, FrameOf, Joined, GoesOn

(* What append() makes of a frame that the packet continues.               *)
LEMMA GatheredIs ==
    ASSUME FramesOK, NEW e \in Es, NEW p, Pes(p), e.size > 0, e.id = p.id, e.size = p.from, e.intact
    PROVE  LET g == Gathered(e, p)
           IN  /\ g.id = p.id /\ g.size = p.from + p.n /\ g.intact
               /\ g.mStreamType = e.mStreamType /\ g.mRandomAccess = e.mRandomAccess
               /\ g.mPts = e.mPts /\ g.mDts = e.mDts
               /\ g.mExpectedPayloadLength = e.mExpectedPayloadLength
BY DEF Gathered, Es

(* reset() leaves an empty frame.                                          *)
LEMMA ResetIs ==
    ASSUME NEW e \in Es
    PROVE  reset(e).size = 0
BY DEF reset, Es

(* The fields that esOutCallback is given.                                 *)
LEMMA AsHandedIs ==
    ASSUME NEW e, NEW b
    PROVE  LET x == AsHanded(e, b)
           IN  /\ x.id = e.id /\ x.size = e.size /\ x.intact = e.intact
               /\ x.type = e.mStreamType /\ x.key = e.mRandomAccess
               /\ x.pts = e.mPts /\ x.dts = e.mDts /\ x.broken = b
BY DEF AsHanded

(* Handing over adds one frame, of one stream.                             *)
LEMMA AddsOne ==
    ASSUME NEW o \in Seq(Handed), NEW x \in Handed
    PROVE  /\ AddsOnly(Append(o, x), o, x.type)
           /\ \E i \in DOMAIN Append(o, x) : Append(o, x)[i] = x
<1> DEFINE q == Append(o, x)
<1>1. /\ Len(o) \in Nat /\ DOMAIN o = 1..Len(o) /\ DOMAIN q = 1..(Len(o) + 1)
      /\ \A i \in 1..Len(o) : q[i] = o[i]
      /\ q[Len(o) + 1] = x
  BY OneMore
<1> HIDE DEF q
<1>2. \A i \in DOMAIN q : i \in DOMAIN o \/ i = Len(o) + 1
  BY <1>1
<1>3. Len(o) + 1 \in DOMAIN q
  BY <1>1
<1>4. AddsOnly(q, o, x.type)
  BY <1>1, <1>2 DEF AddsOnly
<1> QED  BY <1>1, <1>3, <1>4 DEF q

(* A further packet of a frame keeps the invariant.                        *)
LEMMA LosslessMore ==
    ASSUME OwnPids, FramesOK, NEW d, NEW s, NEW k \in Nat, Len(s) \in Nat, k + 1 <= Len(s),
           Hurt(d, s, k, 0), Lossless(d, s, k), NEW base \in Nat,
           Elementary(s[k + 1]), s[k + 1].pid \in DOMAIN d.mEsFrames, ~s[k + 1].pusi
    PROVE  Lossless(DecodePacket(d, s[k + 1], base), s, k + 1)
<1>p. PICK p : p = s[k + 1]
  OBVIOUS
<1>e. PICK e : e = d.mEsFrames[p.pid]
  OBVIOUS
<1>f. PICK f : f = frames[p.id].frame
  OBVIOUS
<1>g. PICK g : g = Gathered(e, p)
  OBVIOUS
<1>r. PICK r : r = DecodePacket(d, p, base)
  OBVIOUS
<1>0. /\ d \in Dmx /\ DmxOK(d) /\ WireOK(s, k) /\ OthersWhole(s, k, 0) /\ Gathering(d, s, k, 0)
      /\ Held(d, s, k) /\ NextContinues(d, s, k) /\ HandedOver(d.out, s, k) /\ Accounted(d, s, k)
  BY DEF Hurt, DmxOK, Lossless
<1>1. /\ Pes(p) /\ p.id \in DOMAIN frames /\ p.id \in Nat \ {0}
      /\ f \in Frame /\ f.size \in Nat /\ f.pid = p.pid
      /\ p.from \in Nat \ {0} /\ p.n \in Nat \ {0} /\ p.from + p.n <= f.size
  BY <1>0, <1>p, <1>f, PesNext
<1>2. e \in Es /\ e.id = p.id /\ e.size = p.from /\ e.size > 0
  BY <1>0, <1>1, <1>p, <1>e, AheadStep, DmxFields DEF NextContinues
<1>3. /\ Beginning(e, p.pid) /\ ReadTo(s, k, e.id, e.size) /\ Older(d.out, e.mStreamType, e.id)
  BY <1>0, <1>2, <1>p, <1>e DEF Held, HeldBy
<1>4. /\ g.id = p.id /\ g.size = p.from + p.n /\ g.intact
      /\ g.mStreamType = e.mStreamType /\ g.mRandomAccess = e.mRandomAccess
      /\ g.mPts = e.mPts /\ g.mDts = e.mDts
      /\ g.mExpectedPayloadLength = e.mExpectedPayloadLength
  BY <1>1, <1>2, <1>3, <1>g, GatheredIs DEF Beginning
<1>5. \/ e.mExpectedPesPacketLength = 0
      \/ e.size + p.n <= e.mExpectedPesPacketLength
  <2>1. CASE e.mExpectedPayloadLength = 0
    BY <1>0, <1>p, <1>e, <2>1 DEF Gathering
  <2>2. CASE e.mExpectedPayloadLength # 0
    <3>1. e.mExpectedPesPacketLength > f.size
      BY <1>0, <1>2, <1>p, <1>e, <1>f, <2>2 DEF Gathering
    <3>2. e.mExpectedPesPacketLength \in Nat
      BY <1>2 DEF Es
    <3> QED  BY <1>1, <1>2, <3>1, <3>2
  <2> QED  BY <2>1, <2>2
<1>6. /\ g \in Es
      /\ IF g.size = g.mExpectedPayloadLength
         THEN Becomes(r, d, p.pid, reset(g), Append(d.out, AsHanded(g, FALSE)))
         ELSE Becomes(r, d, p.pid, g, d.out)
  BY <1>0, <1>1, <1>5, <1>p, <1>e, <1>g, <1>r, ReadMore
<1>7. Beginning(g, p.pid)
  BY <1>1, <1>2, <1>3, <1>4, <1>f DEF Beginning
<1>8. ReadTo(s, k + 1, p.id, p.from + p.n)
  BY <1>0, <1>p, ReadOn
<1>9. p.id \in Nat /\ p.id - 1 <= Len(frames) /\ frames[p.id].frame.size = f.size
  BY <1>1, <1>f DEF FramesOK
<1>10. CASE g.size = g.mExpectedPayloadLength
  <2>x. PICK x : x = AsHanded(g, FALSE)
    OBVIOUS
  <2>1. /\ x.id = g.id /\ x.size = g.size /\ x.intact = g.intact
        /\ x.type = g.mStreamType /\ x.key = g.mRandomAccess
        /\ x.pts = g.mPts /\ x.dts = g.mDts /\ x.broken = FALSE
        /\ x \in Handed
    BY <1>0, <1>6, <2>x, AsHandedIs, HandedMake, ZenonT(40)
  <2>2. g.size = f.size /\ ~Unbounded(f)
    BY <1>1, <1>4, <1>7, <1>10, <1>f DEF Beginning
  <2>3. Faithful(x)
    BY <1>0, <1>4, <1>7, <1>f, <1>e, <1>p, <2>1, <2>2, FaithfulMake, ZenonT(40)
  <2>4. NoneSkipped(d.out, x.type, x.id)
    <3> SUFFICES ASSUME NEW m \in 1..(p.id - 1), Wanted(m), frames[m].frame.type = e.mStreamType
                 PROVE  \E j \in DOMAIN d.out : d.out[j].id = m
      BY <1>4, <2>1 DEF NoneSkipped
    <3>1. \A j \in Ahead(s, k) : Elementary(s[j]) /\ s[j].pusi => p.id <= s[j].id
      <4> TAKE j \in Ahead(s, k)
      <4> HAVE Elementary(s[j]) /\ s[j].pusi
      <4>1. s[j].id \in Nat
        BY <1>0, FrameNumbers DEF WireOK, Packet, Pes
      <4> QED  BY <1>2, <1>3, <1>9, <4>1 DEF ReadTo
    <3>2. \/ \E i \in DOMAIN d.out : d.out[i].id = m
          \/ d.mEsFrames[p.pid].size > 0 /\ d.mEsFrames[p.pid].id = m
      <4>1. /\ p.pid \in DOMAIN d.mEsFrames
            /\ frames[m].frame.type = d.mEsFrames[p.pid].mStreamType
        BY <1>e, <1>p
      <4>2. PICK n \in Nat : n = p.id
        BY <1>9
      <4>3. /\ n - 1 <= Len(frames) /\ m \in 1..(n - 1)
            /\ \A j \in Ahead(s, k) : Elementary(s[j]) /\ s[j].pusi => n <= s[j].id
        BY <1>9, <3>1, <4>2
      <4> QED  BY <1>0, <4>1, <4>3, Earlier
    <3> QED  BY <1>2, <1>9, <1>e, <3>2
  <2>5. \A j \in Ahead(s, k + 1) : Elementary(s[j]) => x.id < s[j].id
    <3>1. ReadTo(s, k + 1, p.id, frames[p.id].frame.size)
      BY <1>4, <1>8, <1>f, <2>2
    <3> QED  BY <1>0, <1>1, <1>4, <2>1, <3>1, AllRead, AheadStep
  <2>6. d.out \in Seq(Handed) /\ HandedOver(d.out, s, k + 1)
    BY <1>0, DmxFields, HandedPass
  <2>7. HandedOver(Append(d.out, x), s, k + 1)
    <3>1. Older(d.out, x.type, x.id)
      BY <1>2, <1>3, <1>4, <2>1
    <3> QED  BY <2>1, <2>3, <2>4, <2>5, <2>6, <3>1, HandOne
  <2>8. /\ AddsOnly(Append(d.out, x), d.out, e.mStreamType)
        /\ \E i \in DOMAIN Append(d.out, x) : Append(d.out, x)[i].id = e.id
    BY <1>2, <1>4, <2>1, <2>6, AddsOne, SMTT(30)
  <2>9. HeldBy(reset(g), p.pid, Append(d.out, x), s, k + 1)
    BY <1>6, ResetIs DEF HeldBy
  <2>10. Ends(p)
    BY <1>4, <1>f, <2>2 DEF Ends, FrameOf
  <2>11. Becomes(r, d, p.pid, reset(g), Append(d.out, x))
    BY <1>6, <1>10, <2>x
  <2>12. Elementary(p) /\ p.pid \in DOMAIN d.mEsFrames /\ ~p.pusi
    BY <1>p
  <2>o. PICK o : o = Append(d.out, x)
    OBVIOUS
  <2> QED  BY <1>p, <1>e, <1>r, <2>7, <2>8, <2>9, <2>10, <2>11, <2>12, <2>o, LosslessEs
<1>11. CASE g.size # g.mExpectedPayloadLength
  <2>1. Becomes(r, d, p.pid, g, d.out)
    BY <1>6, <1>11
  <2>2. HeldBy(g, p.pid, d.out, s, k + 1)
    <3>1. g.size = frames[g.id].frame.size \/ GoesOn(s, k + 1, g.id, g.size)
      BY <1>0, <1>4, <1>p, RestFollows
    <3> QED  BY <1>2, <1>3, <1>4, <1>7, <1>8, <3>1 DEF HeldBy
  <2>3. HandedOver(d.out, s, k + 1)
    BY <1>0, HandedPass
  <2>4. AddsOnly(d.out, d.out, e.mStreamType)
    BY DEF AddsOnly
  <2>5. g.size > 0
    BY <1>1, <1>4
  <2>6. Elementary(p) /\ p.pid \in DOMAIN d.mEsFrames /\ ~p.pusi
    BY <1>p
  <2> QED  BY <1>2, <1>4, <1>p, <1>e, <1>r, <2>1, <2>2, <2>3, <2>4, <2>5, <2>6, LosslessEs
<1> QED  BY <1>10, <1>11

(* Adding twice for one stream is adding for that stream.                  *)
LEMMA AddsMore ==
    ASSUME NEW a, NEW b, NEW c, NEW t, AddsOnly(a, b, t), AddsOnly(b, c, t)
    PROVE  AddsOnly(a, c, t)
BY DEF AddsOnly

(* A frame starts: what had been gathered before it on its PID is a whole  *)
(* unbounded frame, and comes out now.                                     *)
LEMMA CutOutIs ==
    ASSUME OwnPids, FramesOK, NEW d, NEW s, NEW k \in Nat, Len(s) \in Nat, k + 1 <= Len(s),
           Hurt(d, s, k, 0), Lossless(d, s, k),
           NEW p, p = s[k + 1], Elementary(p), p.pid \in DOMAIN d.mEsFrames, p.pusi,
           NEW e, e = d.mEsFrames[p.pid], NEW o, o = CutOut(d, e, p)
    PROVE  /\ o \in Seq(Handed)
           /\ HandedOver(o, s, k + 1)
           /\ AddsOnly(o, d.out, e.mStreamType)
           /\ Older(o, e.mStreamType, p.id)
           /\ NoneSkipped(o, e.mStreamType, p.id)
           /\ e.size > 0 => \E i \in DOMAIN o : o[i].id = e.id
<1>0. /\ d \in Dmx /\ DmxOK(d) /\ WireOK(s, k) /\ Gathering(d, s, k, 0)
      /\ Held(d, s, k) /\ HandedOver(d.out, s, k) /\ Accounted(d, s, k)
  BY DEF Hurt, DmxOK, Lossless
<1>1. /\ Pes(p) /\ p.id \in DOMAIN frames /\ p.id \in Nat \ {0}
      /\ p.from = 0 /\ p.n \in Nat \ {0}
  BY <1>0, PesNext
<1>2. e \in Es /\ d.out \in Seq(Handed) /\ e.size \in Nat
  BY <1>0, DmxFields DEF Es
<1>3. HandedOver(d.out, s, k + 1)
  BY <1>0, HandedPass
<1>4. \A i \in DOMAIN d.out : d.out[i].id < p.id
  BY <1>0, AheadStep DEF HandedOver
<1>5. \A j \in Ahead(s, k) : Elementary(s[j]) /\ s[j].pusi => p.id <= s[j].id
  <2> TAKE j \in Ahead(s, k)
  <2> HAVE Elementary(s[j]) /\ s[j].pusi
  <2>1. s[j].id \in Nat
    BY <1>0, FrameNumbers DEF WireOK, Packet, Pes
  <2>2. CASE j = k + 1
    BY <1>1, <2>2
  <2>3. CASE j \in Ahead(s, k + 1)
    <3>1. ReadTo(s, k + 1, p.id, p.from + p.n)
      BY <1>0, ReadOn
    <3> QED  BY <1>1, <2>1, <2>3, <3>1 DEF ReadTo
  <2> QED  BY <2>2, <2>3, AheadStep
<1>6. ASSUME NEW n \in Nat, n <= p.id, NEW m \in 1..(n - 1), Wanted(m), frames[m].frame.type = e.mStreamType
      PROVE  (\E i \in DOMAIN d.out : d.out[i].id = m) \/ (e.size > 0 /\ e.id = m)
  <2>1. n - 1 <= Len(frames)
    BY <1>1, <1>6 DEF FramesOK
  <2>2. \A j \in Ahead(s, k) : Elementary(s[j]) /\ s[j].pusi => n <= s[j].id
    <3> TAKE j \in Ahead(s, k)
    <3> HAVE Elementary(s[j]) /\ s[j].pusi
    <3>1. s[j].id \in Nat
      BY <1>0, FrameNumbers DEF WireOK, Packet, Pes
    <3> QED  BY <1>1, <1>5, <1>6, <3>1
  <2>3. frames[m].frame.type = d.mEsFrames[p.pid].mStreamType
    BY <1>6
  <2> QED  BY <1>0, <1>6, <2>1, <2>2, <2>3, Earlier
<1>7. CASE ~(e.size > 0)
  <2>1. o = d.out
    BY <1>7 DEF CutOut
  <2>2. NoneSkipped(o, e.mStreamType, p.id)
    <3> SUFFICES ASSUME NEW m \in 1..(p.id - 1), Wanted(m), frames[m].frame.type = e.mStreamType
                 PROVE  \E j \in DOMAIN d.out : d.out[j].id = m
      BY <2>1, Zenon DEF NoneSkipped
    <3>1. p.id \in Nat /\ p.id <= p.id
      BY <1>1
    <3> QED  BY <1>6, <1>7, <3>1
  <2>3. AddsOnly(o, d.out, e.mStreamType) /\ Older(o, e.mStreamType, p.id)
    BY <1>4, <2>1 DEF AddsOnly, Older
  <2> QED  BY <1>2, <1>3, <1>7, <2>1, <2>2, <2>3
<1>8. CASE e.size > 0
  <2>old. PICK old : old = [e EXCEPT !.mRandomAccess = p.rai]
    OBVIOUS
  <2>x. PICK x : x = AsHanded(old, TRUE)
    OBVIOUS
  <2>1. o = Append(d.out, x)
    BY <1>8, <2>old, <2>x DEF CutOut
  <2>2. old \in Es
    BY <1>1, <1>2, <2>old, StartedEs
  <2>3. /\ old.id = e.id /\ old.size = e.size /\ old.intact = e.intact
        /\ old.mStreamType = e.mStreamType /\ old.mPts = e.mPts /\ old.mDts = e.mDts
    BY <1>2, <2>old DEF Es
  <2>4. /\ x.id = e.id /\ x.size = e.size /\ x.intact = e.intact
        /\ x.type = e.mStreamType /\ x.pts = e.mPts /\ x.dts = e.mDts /\ x.broken = TRUE
        /\ x \in Handed
    BY <1>0, <2>2, <2>3, <2>x, AsHandedIs, HandedMake
  <2>5. /\ Beginning(e, p.pid)
        /\ e.size = frames[e.id].frame.size \/ GoesOn(s, k, e.id, e.size)
        /\ ReadTo(s, k, e.id, e.size)
        /\ Older(d.out, e.mStreamType, e.id)
    BY <1>0, <1>8 DEF Held, HeldBy
  <2>6. e.id \in DOMAIN frames /\ e.id \in Nat \ {0} /\ frames[e.id].frame.size \in Nat
    BY <2>5, FrameNumbers DEF Beginning
  <2>7. e.size = frames[e.id].frame.size
    <3>1. ~GoesOn(s, k, e.id, e.size)
      BY <1>1, <1>2, <1>8 DEF GoesOn
    <3> QED  BY <2>5, <3>1
  <2>8. Unbounded(frames[e.id].frame)
    <3> SUFFICES ASSUME ~Unbounded(frames[e.id].frame) PROVE FALSE
      OBVIOUS
    <3>1. e.mExpectedPayloadLength = frames[e.id].frame.size
      BY <2>5 DEF Beginning
    <3>2. e.mExpectedPayloadLength # 0
      <4>1. e.size > 0 /\ e.size = e.mExpectedPayloadLength
        BY <1>8, <2>7, <3>1, Zenon
      <4>2. e.mExpectedPayloadLength = 0 => ~(e.size > 0)
        <5>1. ~(0 > 0)
          OBVIOUS
        <5> QED  BY <4>1, <5>1, Zenon
      <4> QED  BY <4>1, <4>2, Zenon
    <3>3. e.size < frames[e.id].frame.size
      BY <1>0, <3>2 DEF Gathering
    <3> QED  BY <2>6, <2>7, <3>3
  <2>9. Faithful(x)
    BY <1>0, <2>4, <2>5, <2>7, <2>8, FaithfulMake
  <2>10. e.id < p.id
    <3>1. k + 1 \in Ahead(s, k)
      BY AheadStep
    <3>2. e.id < p.id \/ (e.id = p.id /\ e.size <= p.from)
      BY <2>5, <3>1 DEF ReadTo
    <3> QED  BY <1>1, <1>2, <1>8, <3>2
  <2>11. NoneSkipped(d.out, x.type, x.id)
    BY <1>1, <1>6, <2>4, <2>6, <2>10, SMTT(30) DEF NoneSkipped
  <2>12. \A j \in Ahead(s, k + 1) : Elementary(s[j]) => x.id < s[j].id
    <3>1. ReadTo(s, k + 1, e.id, frames[e.id].frame.size)
      BY <2>5, <2>7, AheadStep DEF ReadTo
    <3> QED  BY <1>0, <2>4, <2>6, <3>1, AllRead, AheadStep
  <2>13. HandedOver(o, s, k + 1)
    <3>1. Older(d.out, x.type, x.id)
      BY <2>4, <2>5
    <3> QED  BY <1>2, <1>3, <2>1, <2>4, <2>9, <2>11, <2>12, <3>1, HandOne
  <2>14. /\ AddsOnly(o, d.out, e.mStreamType) /\ \E i \in DOMAIN o : o[i] = x
    BY <1>2, <2>1, <2>4, AddsOne
  <2>15. o \in Seq(Handed) /\ \A i \in DOMAIN o : (i \in DOMAIN d.out /\ o[i] = d.out[i]) \/ o[i] = x
    <3>1. /\ o \in Seq(Handed) /\ Len(d.out) \in Nat
          /\ DOMAIN o = 1..(Len(d.out) + 1) /\ DOMAIN d.out = 1..Len(d.out)
          /\ \A i \in 1..Len(d.out) : o[i] = d.out[i]
          /\ o[Len(d.out) + 1] = x
      BY <1>2, <2>1, <2>4, OneMore
    <3> QED  BY <3>1
  <2>16. Older(o, e.mStreamType, p.id)
    BY <1>4, <2>4, <2>10, <2>15 DEF Older
  <2>17. NoneSkipped(o, e.mStreamType, p.id)
    <3> SUFFICES ASSUME NEW m \in 1..(p.id - 1), Wanted(m), frames[m].frame.type = e.mStreamType
                 PROVE  \E j \in DOMAIN o : o[j].id = m
      BY DEF NoneSkipped
    <3>1. p.id \in Nat /\ p.id <= p.id
      BY <1>1
    <3>2. (\E i \in DOMAIN d.out : d.out[i].id = m) \/ (e.size > 0 /\ e.id = m)
      BY <1>6, <3>1
    <3>3. CASE \E i \in DOMAIN d.out : d.out[i].id = m
      BY <2>14, <3>3 DEF AddsOnly
    <3>4. CASE e.id = m
      BY <2>4, <2>14, <3>4, ZenonT(60)
    <3> QED  BY <3>2, <3>3, <3>4
  <2> QED  BY <2>4, <2>13, <2>14, <2>15, <2>16, <2>17, ZenonT(40)
<1> QED  BY <1>7, <1>8

(* What a first packet makes of a frame.                                   *)
LEMMA StartedIs ==
    ASSUME FramesOK, NEW e \in Es, NEW p, Pes(p), p.pusi
    PROVE  LET g == Started(e, p)
               f == frames[p.id].frame
           IN  /\ g.id = p.id /\ g.size = p.n /\ g.intact
               /\ g.mStreamType = e.mStreamType /\ g.mRandomAccess = f.key
               /\ g.mPts = f.pts % 4 /\ g.mDts = f.dts % 4
               /\ g.mExpectedPayloadLength = IF Unbounded(f) THEN 0 ELSE f.size
<1> DEFINE g == Started(e, p)  f == frames[p.id].frame
<1>1. f \in Frame /\ f.key \in BOOLEAN /\ p.len = mPesPacketLength(f) /\ p.rai = (p.pusi /\ f.key)
  BY FrameFields DEF Pes, FrameOf
<1>2. p.rai = f.key
  BY <1>1
<1>3. (p.len = 0) <=> Unbounded(f)
  BY <1>1, StatedLength
<1>4. /\ g.id = p.id /\ g.size = p.n /\ g.intact = TRUE
      /\ g.mStreamType = e.mStreamType /\ g.mRandomAccess = p.rai
      /\ g.mPts = f.pts % 4 /\ g.mDts = f.dts % 4
      /\ g.mExpectedPayloadLength = IF p.len = 0 THEN 0 ELSE f.size
  BY DEF Started, Es, FrameOf
<1> HIDE DEF g, f
<1> QED  BY <1>2, <1>3, <1>4 DEF g, f

(* The first packet of a frame keeps the invariant: an unbounded frame     *)
(* before it is handed over now.                                           *)
LEMMA LosslessStart ==
    ASSUME OwnPids, FramesOK, NEW d, NEW s, NEW k \in Nat, Len(s) \in Nat, k + 1 <= Len(s),
           Hurt(d, s, k, 0), Lossless(d, s, k), NEW base \in Nat,
           Elementary(s[k + 1]), s[k + 1].pid \in DOMAIN d.mEsFrames, s[k + 1].pusi
    PROVE  Lossless(DecodePacket(d, s[k + 1], base), s, k + 1)
<1>p. PICK p : p = s[k + 1]
  OBVIOUS
<1>e. PICK e : e = d.mEsFrames[p.pid]
  OBVIOUS
<1>f. PICK f : f = frames[p.id].frame
  OBVIOUS
<1>g. PICK g : g = Started(e, p)
  OBVIOUS
<1>r. PICK r : r = DecodePacket(d, p, base)
  OBVIOUS
<1>o. PICK o : o = CutOut(d, e, p)
  OBVIOUS
<1>0. /\ d \in Dmx /\ DmxOK(d) /\ WireOK(s, k) /\ OthersWhole(s, k, 0)
      /\ TablesOK(d, s, k)
      /\ Elementary(p) /\ p.pid \in DOMAIN d.mEsFrames /\ p.pusi
  BY <1>p DEF Hurt, DmxOK, Lossless
<1>1. /\ Pes(p) /\ p.id \in DOMAIN frames /\ p.id \in Nat \ {0}
      /\ f \in Frame /\ f.size \in Nat /\ f.size > 0 /\ f.pid = p.pid
      /\ p.from = 0 /\ p.n \in Nat \ {0} /\ p.from + p.n <= f.size
  BY <1>0, <1>p, <1>f, PesNext
<1>2. e \in Es
  BY <1>0, <1>e, DmxFields
<1>3. /\ o \in Seq(Handed)
      /\ HandedOver(o, s, k + 1)
      /\ AddsOnly(o, d.out, e.mStreamType)
      /\ Older(o, e.mStreamType, p.id)
      /\ NoneSkipped(o, e.mStreamType, p.id)
      /\ e.size > 0 => \E i \in DOMAIN o : o[i].id = e.id
  BY <1>0, <1>p, <1>e, <1>o, CutOutIs
<1>4. /\ g.id = p.id /\ g.size = p.n /\ g.intact
      /\ g.mStreamType = e.mStreamType /\ g.mRandomAccess = f.key
      /\ g.mPts = f.pts % 4 /\ g.mDts = f.dts % 4
      /\ g.mExpectedPayloadLength = IF Unbounded(f) THEN 0 ELSE f.size
  BY <1>0, <1>1, <1>2, <1>f, <1>g, StartedIs
<1>5. /\ g \in Es
      /\ IF g.size = g.mExpectedPayloadLength
         THEN Becomes(r, d, p.pid, reset(g), Append(o, AsHanded(g, FALSE)))
         ELSE Becomes(r, d, p.pid, g, o)
  BY <1>0, <1>1, <1>p, <1>e, <1>g, <1>r, <1>o, ReadStart
<1>6. Wanted(p.id)
  <2>1. frames[p.id].shown
    BY <1>0, <1>p, AheadStep DEF TablesOK
  <2> QED  BY <1>1, <1>f, <2>1 DEF Wanted
<1>7. Beginning(g, p.pid)
  BY <1>1, <1>4, <1>6, <1>f DEF Beginning
<1>8. ReadTo(s, k + 1, p.id, p.from + p.n) /\ p.from + p.n = p.n
  BY <1>0, <1>1, <1>p, ReadOn
<1>9. CASE g.size = g.mExpectedPayloadLength
  <2>x. PICK x : x = AsHanded(g, FALSE)
    OBVIOUS
  <2>1. /\ x.id = g.id /\ x.size = g.size /\ x.intact = g.intact
        /\ x.type = g.mStreamType /\ x.key = g.mRandomAccess
        /\ x.pts = g.mPts /\ x.dts = g.mDts /\ x.broken = FALSE
        /\ x \in Handed
    BY <1>0, <1>5, <2>x, AsHandedIs, HandedMake, ZenonT(40)
  <2>2. g.size = f.size /\ ~Unbounded(f)
    BY <1>1, <1>4, <1>9
  <2>3. Faithful(x)
    BY <1>0, <1>4, <1>7, <1>f, <1>e, <2>1, <2>2, FaithfulMake
  <2>4. \A j \in Ahead(s, k + 1) : Elementary(s[j]) => x.id < s[j].id
    <3>1. ReadTo(s, k + 1, p.id, frames[p.id].frame.size)
      BY <1>4, <1>8, <1>f, <2>2
    <3> QED  BY <1>0, <1>1, <1>4, <2>1, <3>1, AllRead, AheadStep
  <2>q. PICK q : q = Append(o, x)
    OBVIOUS
  <2>5. HandedOver(q, s, k + 1)
    <3>1. Older(o, x.type, x.id) /\ NoneSkipped(o, x.type, x.id)
      BY <1>3, <1>4, <2>1
    <3> QED  BY <1>3, <2>1, <2>3, <2>4, <2>q, <3>1, HandOne
  <2>6. AddsOnly(q, o, e.mStreamType) /\ \E i \in DOMAIN q : q[i] = x
    BY <1>3, <1>4, <2>1, <2>q, AddsOne
  <2>7. AddsOnly(q, d.out, e.mStreamType)
    BY <1>3, <2>6, AddsMore
  <2>8. e.size > 0 => \E i \in DOMAIN q : q[i].id = e.id
    BY <1>3, <2>6 DEF AddsOnly
  <2>9. \E i \in DOMAIN q : q[i].id = p.id
    BY <1>4, <2>1, <2>6
  <2>10. HeldBy(reset(g), p.pid, q, s, k + 1)
    BY <1>5, ResetIs DEF HeldBy
  <2>11. Ends(p)
    BY <1>4, <1>8, <1>f, <2>2 DEF Ends, FrameOf
  <2>12. Becomes(r, d, p.pid, reset(g), q)
    BY <1>5, <1>9, <2>x, <2>q
  <2> QED  BY <1>0, <1>p, <1>e, <1>r, <2>5, <2>7, <2>8, <2>9, <2>10, <2>11, <2>12, LosslessEs
<1>10. CASE g.size # g.mExpectedPayloadLength
  <2>1. Becomes(r, d, p.pid, g, o)
    BY <1>5, <1>10
  <2>2. HeldBy(g, p.pid, o, s, k + 1)
    <3>1. g.size = frames[g.id].frame.size \/ GoesOn(s, k + 1, g.id, g.size)
      BY <1>0, <1>4, <1>8, <1>p, RestFollows
    <3> QED  BY <1>3, <1>4, <1>7, <1>8, <3>1 DEF HeldBy
  <2>3. g.size > 0
    BY <1>1, <1>4
  <2> QED  BY <1>0, <1>3, <1>4, <1>8, <1>p, <1>e, <1>r, <2>1, <2>2, <2>3, LosslessEs
<1> QED  BY <1>9, <1>10

(* One turn of the loop.                                                   *)
LEMMA LosslessStep ==
    ASSUME OwnPids, FramesOK, NEW d, NEW s, NEW k \in Nat, Len(s) \in Nat, k + 1 <= Len(s),
           Hurt(d, s, k, 0), Lossless(d, s, k), NEW base \in Nat
    PROVE  Lossless(DecodePacket(d, s[k + 1], base), s, k + 1)
<1>1. s[k + 1].pid \in Pids
  BY AheadStep DEF Hurt, WireOK, Packet
<1>2. s[k + 1].pid \in {PAT_PID, PMT_PID} \/ Elementary(s[k + 1])
  BY <1>1 DEF Pids, Elementary, EsPids
<1>3. CASE s[k + 1].pid = PAT_PID
  BY <1>3, LosslessPat
<1>4. CASE s[k + 1].pid = PMT_PID
  BY <1>4, LosslessPmt
<1>5. CASE Elementary(s[k + 1])
  BY <1>5, LosslessUnknown, LosslessStart, LosslessMore
<1> QED  BY <1>2, <1>3, <1>4, <1>5

-----------------------------------------------------------------------------
(* decode().                                                               *)

(* The loop of decode() keeps the invariant.                               *)
LEMMA LosslessLoop ==
    ASSUME OwnPids, FramesOK, IsSeq(wire), Hurt(d0, wire, 0, 0), Lossless(d0, wire, 0),
           NEW k \in Nat, k <= Len(wire)
    PROVE  Hurt(DecodePackets(k), wire, k, 0) /\ Lossless(DecodePackets(k), wire, k)
<1>0. Len(wire) \in Nat
  BY IsSeqFields
<1>1. PICK g : /\ DecodePackets(k) = g[k]
               /\ g[0] = d0
               /\ \A i \in 0..(k - 1) : g[i + 1] = DecodePacket(g[i], wire[i + 1], i * PacketSize)
  BY Loop
<1> DEFINE T == {i \in Nat : i <= k => Hurt(g[i], wire, i, 0) /\ Lossless(g[i], wire, i)}
<1>2. 0 \in T
  BY <1>1
<1>3. ASSUME NEW i \in Nat, i \in T PROVE i + 1 \in T
  <2> SUFFICES ASSUME i + 1 <= k
               PROVE  Hurt(g[i + 1], wire, i + 1, 0) /\ Lossless(g[i + 1], wire, i + 1)
    OBVIOUS
  <2>1. /\ Hurt(g[i], wire, i, 0) /\ Lossless(g[i], wire, i)
        /\ i \in 0..(k - 1) /\ i + 1 <= Len(wire)
    BY <1>0, <1>3
  <2>2. i * PacketSize \in Nat
    BY PacketAssumption
  <2>3. Hurt(DecodePacket(g[i], wire[i + 1], i * PacketSize), wire, i + 1, 0)
    BY <1>0, <2>1, <2>2, HurtStep
  <2>4. Lossless(DecodePacket(g[i], wire[i + 1], i * PacketSize), wire, i + 1)
    BY <1>0, <2>1, <2>2, LosslessStep
  <2> QED  BY <1>1, <2>1, <2>3, <2>4
<1> HIDE DEF T
<1>4. k \in T
  BY <1>2, <1>3, NatInductive
<1> QED  BY <1>1, <1>4 DEF T

(* The invariant of the loop after k turns is the one of the system when   *)
(* the k packets are gone.                                                 *)
LEMMA LosslessShift ==
    ASSUME NEW d, NEW s, NEW w, NEW k \in Nat, Len(s) \in Nat, k <= Len(s), Rest(s, w, k),
           Lossless(d, s, k)
    PROVE  Lossless(d, w, 0)
<1>1. /\ TablesOK(d, s, k) /\ Held(d, s, k) /\ NextContinues(d, s, k)
      /\ HandedOver(d.out, s, k) /\ Accounted(d, s, k)
  BY DEF Lossless
<1>2. \A j \in Ahead(w, 0) : k + j \in Ahead(s, k) /\ w[j] = s[k + j] /\ j \in Nat /\ j >= 1
  BY RestIndex
<1>3. \A j \in Ahead(s, k) : j - k \in Ahead(w, 0) /\ w[j - k] = s[j]
  BY RestIndex
<1>4. k + 1 \in Ahead(s, k) <=> 0 + 1 \in Ahead(w, 0)
  BY RestIndex
<1>5. k + 1 \in Ahead(s, k) => w[0 + 1] = s[k + 1]
  BY <1>2, <1>4
<1>6. TablesOK(d, w, 0)
  <2>1. ASSUME NEW q, NEW j \in Ahead(w, 0)
        PROVE  (\E i \in Ahead(s, k) : i < k + j /\ s[i].pid = q) <=>
               (\E i \in Ahead(w, 0) : i < j /\ w[i].pid = q)
    <3>0. j \in Nat
      BY <1>2
    <3>1. ASSUME NEW i \in Ahead(s, k), i < k + j, s[i].pid = q
          PROVE  \E i1 \in Ahead(w, 0) : i1 < j /\ w[i1].pid = q
      <4>1. i - k \in Ahead(w, 0) /\ w[i - k] = s[i] /\ i \in Int
        BY <1>3 DEF Ahead
      <4>2. i - k < j
        BY <3>0, <3>1, <4>1
      <4> QED  BY <3>1, <4>1, <4>2
    <3>2. ASSUME NEW i \in Ahead(w, 0), i < j, w[i].pid = q
          PROVE  \E i1 \in Ahead(s, k) : i1 < k + j /\ s[i1].pid = q
      <4>1. k + i \in Ahead(s, k) /\ w[i] = s[k + i] /\ k + i < k + j
        BY <1>2, <3>0, <3>2
      <4> QED  BY <3>2, <4>1
    <3> QED  BY <3>1, <3>2
  <2>2. (\E i \in Ahead(s, k) : s[i].pid = PMT_PID) <=> (\E i \in Ahead(w, 0) : w[i].pid = PMT_PID)
    BY <1>2, <1>3
  <2>3. ASSUME NEW j \in Ahead(w, 0), w[j].pid = PMT_PID
        PROVE  d.mPmtId = PMT_PID \/ \E i \in Ahead(w, 0) : i < j /\ w[i].pid = PAT_PID
    <3>1. k + j \in Ahead(s, k) /\ s[k + j].pid = PMT_PID
      BY <1>2, <2>3
    <3>2. d.mPmtId = PMT_PID \/ \E i \in Ahead(s, k) : i < k + j /\ s[i].pid = PAT_PID
      BY <1>1, <3>1 DEF TablesOK
    <3> QED  BY <2>1, <3>2
  <2>4. ASSUME NEW j \in Ahead(w, 0), Elementary(w[j])
        PROVE  frames[w[j].id].shown <=>
                  \/ DOMAIN d.mEsFrames # {}
                  \/ \E i \in Ahead(w, 0) : i < j /\ w[i].pid = PMT_PID
    <3>1. k + j \in Ahead(s, k) /\ s[k + j] = w[j]
      BY <1>2
    <3>2. frames[w[j].id].shown <=>
              \/ DOMAIN d.mEsFrames # {}
              \/ \E i \in Ahead(s, k) : i < k + j /\ s[i].pid = PMT_PID
      BY <1>1, <2>4, <3>1 DEF TablesOK
    <3>3. (\E i \in Ahead(s, k) : i < k + j /\ s[i].pid = PMT_PID) <=>
          (\E i \in Ahead(w, 0) : i < j /\ w[i].pid = PMT_PID)
      BY <2>1
    <3> QED  BY <3>2, <3>3
  <2>5. (\E m \in DOMAIN frames : frames[m].tables) <=>
           \/ DOMAIN d.mEsFrames # {}
           \/ \E i \in Ahead(w, 0) : w[i].pid = PMT_PID
    BY <1>1, <2>2 DEF TablesOK
  <2> QED  BY <2>3, <2>4, <2>5 DEF TablesOK
<1>7. Held(d, w, 0)
  BY <1>1, <1>2, <1>4, <1>5 DEF Held, HeldBy, GoesOn, ReadTo
<1>8. NextContinues(d, w, 0)
  BY <1>1, <1>4, <1>5 DEF NextContinues
<1>9. HandedOver(d.out, w, 0)
  BY <1>1, <1>2 DEF HandedOver
<1>10. Accounted(d, w, 0)
  BY <1>1, <1>3 DEF Accounted
<1> QED  BY <1>6, <1>7, <1>8, <1>9, <1>10 DEF Lossless

(* The invariant of the next state, of that state's demuxer and wire.      *)
LEMMA LosslessPrime ==
    ASSUME NEW d, NEW w, Lossless(d, w, 0)', d = d0', w = wire'
    PROVE  Lossless(d0, wire, 0)'
<1>1. /\ TablesOK(d, w, 0)' /\ Held(d, w, 0)' /\ NextContinues(d, w, 0)'
      /\ HandedOver(d.out, w, 0)' /\ Accounted(d, w, 0)'
  BY DEF Lossless
<1>2. TablesOK(d0, wire, 0)'
  BY <1>1 DEF TablesOK, Ahead, Elementary, EsPids
<1>3. Held(d0, wire, 0)'
  <2> SUFFICES ASSUME NEW pid \in DOMAIN d.mEsFrames, d.mEsFrames[pid].size > 0
               PROVE  /\ Beginning(d0.mEsFrames[pid], pid)'
                      /\ (\/ d0.mEsFrames[pid].size = frames[d0.mEsFrames[pid].id].frame.size
                          \/ GoesOn(wire, 0, d0.mEsFrames[pid].id, d0.mEsFrames[pid].size))'
                      /\ ReadTo(wire, 0, d0.mEsFrames[pid].id, d0.mEsFrames[pid].size)'
                      /\ Older(d0.out, d0.mEsFrames[pid].mStreamType, d0.mEsFrames[pid].id)'
    BY DEF Held, HeldBy
  <2>1. /\ Beginning(d.mEsFrames[pid], pid)'
        /\ (\/ d.mEsFrames[pid].size = frames[d.mEsFrames[pid].id].frame.size
            \/ GoesOn(w, 0, d.mEsFrames[pid].id, d.mEsFrames[pid].size))'
        /\ ReadTo(w, 0, d.mEsFrames[pid].id, d.mEsFrames[pid].size)'
        /\ Older(d.out, d.mEsFrames[pid].mStreamType, d.mEsFrames[pid].id)'
    BY <1>1 DEF Held, HeldBy
  <2>2. Beginning(d0.mEsFrames[pid], pid)'
    BY <2>1 DEF Beginning, Wanted, Unbounded
  <2>3. (\/ d0.mEsFrames[pid].size = frames[d0.mEsFrames[pid].id].frame.size
         \/ GoesOn(wire, 0, d0.mEsFrames[pid].id, d0.mEsFrames[pid].size))'
    BY <2>1 DEF GoesOn, Ahead, Elementary, EsPids
  <2>4. ReadTo(wire, 0, d0.mEsFrames[pid].id, d0.mEsFrames[pid].size)'
    BY <2>1 DEF ReadTo, Ahead, Elementary, EsPids
  <2>5. Older(d0.out, d0.mEsFrames[pid].mStreamType, d0.mEsFrames[pid].id)'
    BY <2>1 DEF Older
  <2> QED  BY <2>2, <2>3, <2>4, <2>5
<1>4. NextContinues(d0, wire, 0)'
  BY <1>1 DEF NextContinues, Ahead, Elementary, EsPids
<1>5. HandedOver(d0.out, wire, 0)'
  <2> SUFFICES ASSUME NEW i \in DOMAIN d.out
               PROVE  /\ Faithful(d0.out[i])'
                      /\ (\A j \in 1..(i - 1) : d0.out[j].type = d0.out[i].type => d0.out[j].id < d0.out[i].id)'
                      /\ (\A m \in 1..(d0.out[i].id - 1) :
                             Wanted(m) /\ frames[m].frame.type = d0.out[i].type =>
                                \E j \in 1..(i - 1) : d0.out[j].id = m)'
                      /\ (\A j \in Ahead(wire, 0) : Elementary(wire[j]) => d0.out[i].id < wire[j].id)'
    BY DEF HandedOver
  <2>1. /\ Faithful(d.out[i])'
        /\ \A j \in 1..(i - 1) : d.out[j].type = d.out[i].type => d.out[j].id < d.out[i].id
        /\ (\A m \in 1..(d.out[i].id - 1) :
               Wanted(m) /\ frames[m].frame.type = d.out[i].type =>
                  \E j \in 1..(i - 1) : d.out[j].id = m)'
        /\ (\A j \in Ahead(w, 0) : Elementary(w[j]) => d.out[i].id < w[j].id)'
    BY <1>1 DEF HandedOver
  <2>2. Faithful(d0.out[i])'
    BY <2>1 DEF Faithful, Whole, Wanted, Unbounded
  <2>3. (\A j \in Ahead(wire, 0) : Elementary(wire[j]) => d0.out[i].id < wire[j].id)'
    BY <2>1 DEF Ahead, Elementary, EsPids
  <2> QED  BY <2>1, <2>2, <2>3
<1>6. Accounted(d0, wire, 0)'
  BY <1>1 DEF Accounted, Wanted, Ahead, Elementary, EsPids
<1> QED  BY <1>2, <1>3, <1>4, <1>5, <1>6 DEF Lossless

(* The invariant depends on the frames fed only.                           *)
LEMMA LosslessStays ==
    ASSUME NEW d, NEW w, Lossless(d, w, 0), UNCHANGED frames
    PROVE  Lossless(d, w, 0)'
<1>1. /\ TablesOK(d, w, 0) /\ Held(d, w, 0) /\ NextContinues(d, w, 0)
      /\ HandedOver(d.out, w, 0) /\ Accounted(d, w, 0)
  BY DEF Lossless
<1>2. TablesOK(d, w, 0)'
  BY <1>1 DEF TablesOK, Ahead, Elementary, EsPids
<1>3. Held(d, w, 0)'
  BY <1>1, ZenonT(60) DEF Held, HeldBy, Beginning, GoesOn, ReadTo, Older, Wanted, Unbounded, Ahead, Elementary, EsPids
<1>4. NextContinues(d, w, 0)'
  BY <1>1 DEF NextContinues, Ahead, Elementary, EsPids
<1>5. HandedOver(d.out, w, 0)'
  BY <1>1 DEF HandedOver, Faithful, Whole, Wanted, Unbounded, Ahead, Elementary, EsPids
<1>6. Accounted(d, w, 0)'
  BY <1>1 DEF Accounted, Wanted, Ahead, Elementary, EsPids
<1> QED  BY <1>2, <1>3, <1>4, <1>5, <1>6 DEF Lossless

-----------------------------------------------------------------------------
(* encode().                                                               *)

(* What encode() records of the tables: whether it sent them, and whether  *)
(* the receiver has seen some by the time it sees the frame.               *)
LEMMA EncodeEntry ==
    ASSUME OwnPids, FramesOK, NEW f, Fed(f), NEW ra \in BOOLEAN, encode(f, ra)
    PROVE  /\ frames'[f.id].tables = (output /\ Tables(ra))
           /\ frames'[f.id].shown =
                 (output /\ (Tables(ra) \/ \E i \in DOMAIN frames : frames[i].tables))
<1>1. frames \in Seq(Entry) /\ f.id = Len(frames) + 1 /\ DOMAIN frames = 1..Len(frames)
  BY DEF FramesOK, Fed
<1>2. PICK a : a = (output /\ (Tables(ra) \/ \E i \in 1..Len(frames) : frames[i].tables))
  OBVIOUS
<1>3. PICK b : b = (output /\ Tables(ra))
  OBVIOUS
<1>4. a \in BOOLEAN /\ b \in BOOLEAN
  BY <1>2, <1>3
<1>5. frames' = Append(frames, [frame |-> f, shown |-> a, tables |-> b])
  BY <1>2, <1>3 DEF encode
<1>6. [frame |-> f, shown |-> a, tables |-> b] \in Entry
  BY <1>4, FedPid DEF Entry
<1>7. frames'[f.id] = [frame |-> f, shown |-> a, tables |-> b]
  BY <1>1, <1>5, <1>6
<1> QED  BY <1>1, <1>2, <1>3, <1>7

(* What the call adds to the wire, to the demuxer's eyes.                  *)
Added(w0, w1, t, n, m) ==
    /\ \A j \in 1..Len(w0) : j \in 1..Len(w1) /\ w1[j] = w0[j]
    /\ \A j \in 1..Len(w1) :
          \/ j \in 1..Len(w0)
          \/ /\ Len(w0) < j /\ w1[j].pid = PAT_PID /\ t = 2 /\ j = Len(w0) + 1
          \/ /\ Len(w0) < j /\ w1[j].pid = PMT_PID /\ t = 2 /\ j = Len(w0) + 2
          \/ /\ Len(w0) + t < j /\ w1[j].pid \in EsPids /\ w1[j].id = m /\ n > 0
             /\ w1[j].pusi <=> j = Len(w0) + t + 1
    /\ t = 2 => /\ Len(w0) + 1 \in 1..Len(w1) /\ w1[Len(w0) + 1].pid = PAT_PID
                /\ Len(w0) + 2 \in 1..Len(w1) /\ w1[Len(w0) + 2].pid = PMT_PID
    /\ n > 0 => LET j == Len(w0) + t + 1
                IN  j \in 1..Len(w1) /\ w1[j].pid \in EsPids /\ w1[j].pusi /\ w1[j].id = m

(* encode() adds tables, if due, and then the packets of the new frame.    *)
LEMMA EncodeAdds ==
    ASSUME OwnPids, FramesOK, NEW f, Fed(f), NEW ra \in BOOLEAN, encode(f, ra), IsSeq(wire),
           NEW w1, w1 = wire'
    PROVE  \E t \in {0, 2}, n \in Nat :
              /\ t = IF output /\ Tables(ra) THEN 2 ELSE 0
              /\ n = IF output THEN Packets(f) ELSE 0
              /\ Added(wire, w1, t, n, Len(frames) + 1)
<1>0. PICK t \in {0, 2}, n \in {0, Packets(f)} :
         /\ Extended(wire, w1, f, t, n) /\ Origin(wire, w1, f, t, n)
         /\ n \in Nat /\ Len(wire) \in Nat /\ Packets(f) \in Nat
         /\ f \in Frame /\ f.pid \in EsPids
         /\ t = IF output /\ Tables(ra) THEN 2 ELSE 0
         /\ n = IF output THEN Packets(f) ELSE 0
  BY EncodeStep
<1>1. /\ Len(w1) = Len(wire) + t + n
      /\ \A j \in 1..Len(wire) : w1[j] = wire[j] /\ j \in 1..Len(w1)
      /\ t = 2 => w1[Len(wire) + 1] = Pat /\ w1[Len(wire) + 2] = Pmt
  BY <1>0 DEF Extended
<1>2. ASSUME NEW i \in 1..n
      PROVE  LET p == createPes(f, i)
             IN  p.pid \in EsPids /\ p.id = Len(frames) + 1 /\ (p.pusi <=> i = 1)
  <2>1. i \in 1..Packets(f)
    BY <1>0
  <2> QED  BY <2>1, NewPes
<1>3. ASSUME NEW j \in 1..Len(w1)
      PROVE  \/ j \in 1..Len(wire)
             \/ /\ Len(wire) < j /\ w1[j].pid = PAT_PID /\ t = 2 /\ j = Len(wire) + 1
             \/ /\ Len(wire) < j /\ w1[j].pid = PMT_PID /\ t = 2 /\ j = Len(wire) + 2
             \/ /\ Len(wire) + t < j /\ w1[j].pid \in EsPids /\ w1[j].id = Len(frames) + 1 /\ n > 0
                /\ w1[j].pusi <=> j = Len(wire) + t + 1
  <2>1. \/ j \in 1..Len(wire) /\ w1[j] = wire[j]
        \/ \E i \in 1..t : j = Len(wire) + i /\ w1[j] = IF i = 1 THEN Pat ELSE Pmt
        \/ \E i \in 1..n : j = Len(wire) + t + i /\ w1[j] = createPes(f, i)
    BY <1>0 DEF Origin
  <2>2. ASSUME NEW i \in 1..t, j = Len(wire) + i, w1[j] = IF i = 1 THEN Pat ELSE Pmt
        PROVE  \/ Len(wire) < j /\ w1[j].pid = PAT_PID /\ t = 2 /\ j = Len(wire) + 1
               \/ Len(wire) < j /\ w1[j].pid = PMT_PID /\ t = 2 /\ j = Len(wire) + 2
    BY <1>0, <2>2, PatPmt
  <2>3. ASSUME NEW i \in 1..n, j = Len(wire) + t + i, w1[j] = createPes(f, i)
        PROVE  /\ Len(wire) + t < j /\ w1[j].pid \in EsPids /\ w1[j].id = Len(frames) + 1 /\ n > 0
               /\ w1[j].pusi <=> j = Len(wire) + t + 1
    BY <1>0, <1>2, <2>3
  <2> QED  BY <2>1, <2>2, <2>3
<1>4. t = 2 => /\ Len(wire) + 1 \in 1..Len(w1) /\ w1[Len(wire) + 1].pid = PAT_PID
               /\ Len(wire) + 2 \in 1..Len(w1) /\ w1[Len(wire) + 2].pid = PMT_PID
  BY <1>0, <1>1, PatPmt
<1>5. n > 0 => LET j == Len(wire) + t + 1
               IN  j \in 1..Len(w1) /\ w1[j].pid \in EsPids /\ w1[j].pusi /\ w1[j].id = Len(frames) + 1
  <2> SUFFICES ASSUME n > 0
               PROVE  LET j == Len(wire) + t + 1
                      IN  j \in 1..Len(w1) /\ w1[j].pid \in EsPids /\ w1[j].pusi /\ w1[j].id = Len(frames) + 1
    OBVIOUS
  <2>1. 1 \in 1..n /\ Len(wire) + t + 1 \in 1..Len(w1)
    BY <1>0, <1>1
  <2>2. w1[Len(wire) + t + 1] = createPes(f, 1)
    BY <1>0, <2>1 DEF Extended
  <2> QED  BY <1>2, <2>1, <2>2
<1>6. Added(wire, w1, t, n, Len(frames) + 1)
  BY <1>1, <1>3, <1>4, <1>5 DEF Added
<1> QED  BY <1>0, <1>6

(* A frame more: what the demuxer makes of the others stays.               *)
LEMMA EncodeLossless ==
    ASSUME OwnPids, FramesOK, NEW f, Fed(f), NEW ra \in BOOLEAN, encode(f, ra), IsSeq(wire),
           NEW d, Hurt(d, wire, 0, 0), Lossless(d, wire, 0), NEW w1, w1 = wire'
    PROVE  Lossless(d, w1, 0)'
<1>0. PICK t \in {0, 2}, n \in Nat :
         /\ t = IF output /\ Tables(ra) THEN 2 ELSE 0
         /\ n = IF output THEN Packets(f) ELSE 0
         /\ Added(wire, w1, t, n, Len(frames) + 1)
  BY EncodeAdds
<1>1. /\ Len(frames) \in Nat /\ DOMAIN frames = 1..Len(frames)
      /\ DOMAIN frames' = 1..(Len(frames) + 1)
      /\ \A m \in DOMAIN frames : frames'[m] = frames[m]
      /\ f.id = Len(frames) + 1 /\ frames'[f.id].frame = f
      /\ Len(wire) \in Nat
  BY EncodeFrames, IsSeqFields
<1>2. PICK N : N = Len(frames) + 1
  OBVIOUS
<1>3. /\ N \in Nat /\ N \in DOMAIN frames' /\ frames'[N].frame = f
      /\ \A m \in DOMAIN frames : m < N /\ m \in Nat /\ m \in DOMAIN frames'
      /\ \A m \in DOMAIN frames' : m \in DOMAIN frames \/ m = N
  BY <1>1, <1>2
<1>4. /\ TablesOK(d, wire, 0) /\ Held(d, wire, 0) /\ NextContinues(d, wire, 0)
      /\ HandedOver(d.out, wire, 0) /\ Accounted(d, wire, 0)
      /\ d \in Dmx /\ WireOK(wire, 0)
  BY DEF Lossless, Hurt, DmxOK
<1>5. /\ frames'[N].tables <=> t = 2
      /\ n > 0 => (frames'[N].shown <=> t = 2 \/ \E i \in DOMAIN frames : frames[i].tables)
      /\ frames'[N].shown /\ f.size > 0 => n > 0
  <2>1. /\ frames'[N].tables = (output /\ Tables(ra))
        /\ frames'[N].shown =
              (output /\ (Tables(ra) \/ \E i \in DOMAIN frames : frames[i].tables))
    BY <1>1, <1>2, EncodeEntry
  <2>2. f.size > 0 => Packets(f) > 0
    BY FedPid, PacketRange
  <2>3. t = 2 <=> output /\ Tables(ra)
    BY <1>0
  <2>4. (n > 0 => output) /\ (output => n = Packets(f))
    BY <1>0
  <2> QED  BY <2>1, <2>2, <2>3, <2>4
<1>6. /\ \A j \in 1..Len(wire) : j \in 1..Len(w1) /\ w1[j] = wire[j]
      /\ \A j \in 1..Len(w1) :
            \/ j \in 1..Len(wire)
            \/ /\ Len(wire) < j /\ w1[j].pid = PAT_PID /\ t = 2 /\ j = Len(wire) + 1
            \/ /\ Len(wire) < j /\ w1[j].pid = PMT_PID /\ t = 2 /\ j = Len(wire) + 2
            \/ /\ Len(wire) + t < j /\ w1[j].pid \in EsPids /\ w1[j].id = N /\ n > 0
               /\ w1[j].pusi <=> j = Len(wire) + t + 1
      /\ t = 2 => /\ Len(wire) + 1 \in 1..Len(w1) /\ w1[Len(wire) + 1].pid = PAT_PID
                  /\ Len(wire) + 2 \in 1..Len(w1) /\ w1[Len(wire) + 2].pid = PMT_PID
      /\ n > 0 => LET j == Len(wire) + t + 1
                  IN  j \in 1..Len(w1) /\ w1[j].pid \in EsPids /\ w1[j].pusi /\ w1[j].id = N
  BY <1>0, <1>2 DEF Added
<1>7. ASSUME NEW j \in 1..Len(w1), w1[j].pid \in EsPids, j \notin 1..Len(wire)
      PROVE  /\ Len(wire) + t < j /\ w1[j].id = N /\ n > 0
             /\ w1[j].pusi <=> j = Len(wire) + t + 1
  BY <1>6, <1>7 DEF EsPids, PAT_PID, PMT_PID, VIDEO_PID, AUDIO_PID
<1>8. \A j \in 1..Len(wire) : wire[j].pid \in EsPids => /\ wire[j].id \in DOMAIN frames
                                                       /\ frames'[wire[j].id] = frames[wire[j].id]
  BY <1>1, <1>4 DEF WireOK, Ahead, Packet, Pes, Elementary
<1>9. TablesOK(d, w1, 0)'
  <2>1. ASSUME NEW j \in 1..Len(w1), w1[j].pid = PMT_PID
        PROVE  d.mPmtId = PMT_PID \/ \E i \in 1..Len(w1) : i < j /\ w1[i].pid = PAT_PID
    <3>1. CASE j \in 1..Len(wire)
      <4>1. d.mPmtId = PMT_PID \/ \E i \in 1..Len(wire) : i < j /\ wire[i].pid = PAT_PID
        BY <1>4, <1>6, <2>1, <3>1 DEF TablesOK, Ahead
      <4> QED  BY <1>6, <4>1
    <3>2. CASE j \notin 1..Len(wire)
      <4>1. t = 2 /\ j = Len(wire) + 2
        BY <1>6, <2>1, <3>2 DEF EsPids, PAT_PID, PMT_PID, VIDEO_PID, AUDIO_PID
      <4>2. Len(wire) + 1 \in 1..Len(w1) /\ w1[Len(wire) + 1].pid = PAT_PID /\ Len(wire) + 1 < j
        BY <1>1, <1>6, <4>1
      <4> QED  BY <4>2
    <3> QED  BY <3>1, <3>2
  <2>2. ASSUME NEW j \in 1..Len(w1), w1[j].pid \in EsPids
        PROVE  frames'[w1[j].id].shown <=>
                  \/ DOMAIN d.mEsFrames # {}
                  \/ \E i \in 1..Len(w1) : i < j /\ w1[i].pid = PMT_PID
    <3>1. CASE j \in 1..Len(wire)
      <4>1. frames[wire[j].id].shown <=>
               \/ DOMAIN d.mEsFrames # {}
               \/ \E i \in 1..Len(wire) : i < j /\ wire[i].pid = PMT_PID
        BY <1>4, <1>6, <2>2, <3>1 DEF TablesOK, Ahead, Elementary
      <4>2. \A i \in 1..Len(w1) : i < j => i \in 1..Len(wire)
        BY <1>1, <3>1
      <4>3. (\E i \in 1..Len(wire) : i < j /\ wire[i].pid = PMT_PID) <=>
            (\E i \in 1..Len(w1) : i < j /\ w1[i].pid = PMT_PID)
        BY <1>6, <4>2
      <4>4. frames'[w1[j].id] = frames[wire[j].id]
        BY <1>6, <1>8, <2>2, <3>1
      <4> QED  BY <4>1, <4>3, <4>4
    <3>2. CASE j \notin 1..Len(wire)
      <4>1. Len(wire) + t < j /\ w1[j].id = N /\ n > 0
        BY <1>7, <2>2, <3>2
      <4>2. frames'[N].shown <=> t = 2 \/ \E i \in DOMAIN frames : frames[i].tables
        BY <1>5, <4>1
      <4>3. CASE t = 2
        <5>1. Len(wire) + 2 \in 1..Len(w1) /\ Len(wire) + 2 < j /\ w1[Len(wire) + 2].pid = PMT_PID
          BY <1>1, <1>6, <4>1, <4>3
        <5> QED  BY <4>1, <4>2, <4>3, <5>1
      <4>4. CASE t # 2
        <5>1. (\E i \in DOMAIN frames : frames[i].tables) <=>
                 \/ DOMAIN d.mEsFrames # {}
                 \/ \E i \in 1..Len(wire) : wire[i].pid = PMT_PID
          BY <1>4 DEF TablesOK, Ahead
        <5>2. \A i \in 1..Len(w1) : w1[i].pid = PMT_PID => i \in 1..Len(wire)
          BY <1>6, <4>4 DEF EsPids, PAT_PID, PMT_PID, VIDEO_PID, AUDIO_PID
        <5>3. \A i \in 1..Len(wire) : i < j
          BY <1>0, <1>1, <4>1
        <5>4. (\E i \in 1..Len(wire) : wire[i].pid = PMT_PID) <=>
              (\E i \in 1..Len(w1) : i < j /\ w1[i].pid = PMT_PID)
          BY <1>6, <5>2, <5>3
        <5> QED  BY <4>1, <4>2, <4>4, <5>1, <5>4
      <4> QED  BY <4>3, <4>4
    <3> QED  BY <3>1, <3>2
  <2>3. (\E m \in DOMAIN frames' : frames'[m].tables) <=>
           \/ DOMAIN d.mEsFrames # {}
           \/ \E i \in 1..Len(w1) : w1[i].pid = PMT_PID
    <3>1. (\E m \in DOMAIN frames : frames[m].tables) <=>
             \/ DOMAIN d.mEsFrames # {}
             \/ \E i \in 1..Len(wire) : wire[i].pid = PMT_PID
      BY <1>4 DEF TablesOK, Ahead
    <3>2. (\E m \in DOMAIN frames' : frames'[m].tables) <=>
          t = 2 \/ \E m \in DOMAIN frames : frames[m].tables
      BY <1>1, <1>3, <1>5
    <3>3. (\E i \in 1..Len(w1) : w1[i].pid = PMT_PID) <=>
          t = 2 \/ \E i \in 1..Len(wire) : wire[i].pid = PMT_PID
      BY <1>6 DEF EsPids, PAT_PID, PMT_PID, VIDEO_PID, AUDIO_PID
    <3> QED  BY <3>1, <3>2, <3>3
  <2> QED  BY <2>1, <2>2, <2>3 DEF TablesOK, Ahead, Elementary, EsPids
<1>10. Held(d, w1, 0)'
  <2>1. ASSUME NEW pid \in DOMAIN d.mEsFrames, d.mEsFrames[pid].size > 0
        PROVE  LET e == d.mEsFrames[pid]
                   g == frames'[e.id].frame
               IN  /\ e.id \in DOMAIN frames' /\ frames'[e.id].shown /\ g.size > 0 /\ g.pid = pid
                   /\ e.intact
                   /\ e.size <= g.size
                   /\ e.mPts = g.pts % 4 /\ e.mDts = g.dts % 4 /\ e.mRandomAccess = g.key
                   /\ e.mExpectedPayloadLength = IF Unbounded(g) THEN 0 ELSE g.size
                   /\ \/ e.size = g.size
                      \/ /\ 0 + 1 \in (0 + 1)..Len(w1) /\ w1[0 + 1].pid \in EsPids
                         /\ w1[0 + 1].id = e.id /\ w1[0 + 1].from = e.size
                   /\ \A j \in (0 + 1)..Len(w1) :
                         w1[j].pid \in EsPids =>
                            e.id < w1[j].id \/ (e.id = w1[j].id /\ e.size <= w1[j].from)
                   /\ \A i \in DOMAIN d.out : d.out[i].type = e.mStreamType => d.out[i].id < e.id
    <3>e. PICK e : e = d.mEsFrames[pid]
      OBVIOUS
    <3>1. /\ Beginning(e, pid)
          /\ e.size = frames[e.id].frame.size \/ GoesOn(wire, 0, e.id, e.size)
          /\ ReadTo(wire, 0, e.id, e.size)
          /\ Older(d.out, e.mStreamType, e.id)
      BY <1>4, <2>1, <3>e DEF Held, HeldBy
    <3>2. e.id \in DOMAIN frames
      BY <3>1 DEF Beginning
    <3>g. PICK g : g = frames[e.id].frame
      OBVIOUS
    <3>3. frames'[e.id] = frames[e.id] /\ e.id \in DOMAIN frames' /\ e.id < N
      BY <1>1, <1>3, <3>2
    <3>4. /\ frames[e.id].shown /\ g.size > 0 /\ g.pid = pid
          /\ e.intact
          /\ e.size <= g.size
          /\ e.mPts = g.pts % 4 /\ e.mDts = g.dts % 4 /\ e.mRandomAccess = g.key
          /\ e.mExpectedPayloadLength = IF Unbounded(g) THEN 0 ELSE g.size
      BY <3>1, <3>g DEF Beginning, Wanted
    <3>5. \/ e.size = g.size
          \/ /\ 1 \in 1..Len(w1) /\ w1[1].pid \in EsPids
             /\ w1[1].id = e.id /\ w1[1].from = e.size
      BY <1>6, <3>1, <3>g DEF GoesOn, Ahead, Elementary
    <3>6. \A j \in 1..Len(w1) :
             w1[j].pid \in EsPids =>
                e.id < w1[j].id \/ (e.id = w1[j].id /\ e.size <= w1[j].from)
      <4> SUFFICES ASSUME NEW j \in 1..Len(w1), w1[j].pid \in EsPids
                   PROVE  e.id < w1[j].id \/ (e.id = w1[j].id /\ e.size <= w1[j].from)
        OBVIOUS
      <4>1. CASE j \in 1..Len(wire)
        BY <1>6, <3>1, <4>1 DEF ReadTo, Ahead, Elementary
      <4>2. CASE j \notin 1..Len(wire)
        BY <1>7, <3>3, <4>2
      <4> QED  BY <4>1, <4>2
    <3>7. \A i \in DOMAIN d.out : d.out[i].type = e.mStreamType => d.out[i].id < e.id
      BY <3>1 DEF Older
    <3>8. g = frames'[e.id].frame /\ frames'[e.id].shown = frames[e.id].shown
      BY <3>3, <3>g
    <3>9. 0 + 1 = 1
      OBVIOUS
    <3>10. e.id \in DOMAIN frames' /\ frames'[e.id].shown
      BY <3>3, <3>4
    <3> QED  BY <3>e, <3>4, <3>5, <3>6, <3>7, <3>8, <3>9, <3>10, Zenon
  <2> QED  BY <2>1, ZenonT(60) DEF Held, HeldBy, Beginning, GoesOn, ReadTo, Older, Wanted, Ahead, Elementary, EsPids, Unbounded
<1>11. NextContinues(d, w1, 0)'
  <2>1. ASSUME 1 \in 1..Len(w1), w1[1].pid \in EsPids, ~w1[1].pusi,
               w1[1].pid \in DOMAIN d.mEsFrames
        PROVE  LET e == d.mEsFrames[w1[1].pid]
               IN  e.id = w1[1].id /\ e.size = w1[1].from
    <3>1. CASE 1 \in 1..Len(wire)
      BY <1>4, <1>6, <2>1, <3>1 DEF NextContinues, Ahead, Elementary
    <3>2. CASE 1 \notin 1..Len(wire)
      BY <1>0, <1>1, <1>7, <2>1, <3>2
    <3> QED  BY <3>1, <3>2
  <2> QED  BY <2>1 DEF NextContinues, Ahead, Elementary, EsPids
<1>12. HandedOver(d.out, w1, 0)'
  <2> DEFINE o == d.out
  <2>1. ASSUME NEW i \in DOMAIN o
        PROVE  /\ o[i].id \in DOMAIN frames' /\ frames'[o[i].id] = frames[o[i].id]
               /\ Faithful(o[i])
               /\ \A j \in 1..(i - 1) : o[j].type = o[i].type => o[j].id < o[i].id
               /\ \A m \in 1..(o[i].id - 1) :
                     frames'[m].shown /\ frames'[m].frame.size > 0
                         /\ frames'[m].frame.type = o[i].type =>
                            \E j \in 1..(i - 1) : o[j].id = m
               /\ \A j \in 1..Len(w1) : w1[j].pid \in EsPids => o[i].id < w1[j].id
    <3>1. /\ Faithful(o[i])
          /\ \A j \in 1..(i - 1) : o[j].type = o[i].type => o[j].id < o[i].id
          /\ \A m \in 1..(o[i].id - 1) :
                Wanted(m) /\ frames[m].frame.type = o[i].type =>
                   \E j \in 1..(i - 1) : o[j].id = m
          /\ \A j \in 1..Len(wire) : wire[j].pid \in EsPids => o[i].id < wire[j].id
      BY <1>4 DEF HandedOver, Ahead, Elementary
    <3>2. o[i].id \in DOMAIN frames
      BY <3>1 DEF Faithful
    <3> HIDE DEF o
    <3>3. o[i].id \in DOMAIN frames' /\ frames'[o[i].id] = frames[o[i].id] /\ o[i].id < N
      BY <1>1, <1>3, <3>2
    <3>4. \A m \in 1..(o[i].id - 1) : m \in DOMAIN frames /\ frames'[m] = frames[m]
      BY <1>1, <3>2
    <3>5. ASSUME NEW j \in 1..Len(w1), w1[j].pid \in EsPids
          PROVE  o[i].id < w1[j].id
      <4>1. CASE j \in 1..Len(wire)
        BY <1>6, <3>1, <3>5, <4>1
      <4>2. CASE j \notin 1..Len(wire)
        BY <1>7, <3>3, <3>5, <4>2
      <4> QED  BY <4>1, <4>2
    <3>6. \A m \in 1..(o[i].id - 1) :
             frames'[m].shown /\ frames'[m].frame.size > 0
                 /\ frames'[m].frame.type = o[i].type =>
                    \E j \in 1..(i - 1) : o[j].id = m
      BY <3>1, <3>4 DEF Wanted
    <3> QED  BY <3>1, <3>3, <3>5, <3>6
  <2> HIDE DEF o
  <2>2. ASSUME NEW i \in DOMAIN o PROVE Faithful(o[i])'
    <3>1. /\ Faithful(o[i]) /\ frames'[o[i].id] = frames[o[i].id]
          /\ o[i].id \in DOMAIN frames'
      BY <2>1, <2>2
    <3> QED  BY <3>1 DEF Faithful, Whole, Wanted, Unbounded
  <2>3. ASSUME NEW i \in DOMAIN o
        PROVE  /\ \A j \in 1..(i - 1) : o[j].type = o[i].type => o[j].id < o[i].id
               /\ (\A m \in 1..(o[i].id - 1) :
                      Wanted(m) /\ frames[m].frame.type = o[i].type =>
                         \E j \in 1..(i - 1) : o[j].id = m)'
               /\ \A j \in Ahead(w1, 0) : Elementary(w1[j]) => o[i].id < w1[j].id
    BY <2>1, <2>3 DEF Wanted, Ahead, Elementary, EsPids
  <2> QED  BY <2>2, <2>3 DEF HandedOver, o
<1>13. Accounted(d, w1, 0)'
  <2>1. ASSUME NEW m \in DOMAIN frames', frames'[m].shown, frames'[m].frame.size > 0
        PROVE  \/ \E i \in DOMAIN d.out : d.out[i].id = m
               \/ \E pid \in DOMAIN d.mEsFrames :
                     d.mEsFrames[pid].size > 0 /\ d.mEsFrames[pid].id = m
               \/ \E j \in 1..Len(w1) : w1[j].pid \in EsPids /\ w1[j].pusi /\ w1[j].id = m
    <3>1. CASE m \in DOMAIN frames
      <4>1. frames[m].shown /\ frames[m].frame.size > 0
        BY <1>1, <2>1, <3>1
      <4>2. \/ \E i \in DOMAIN d.out : d.out[i].id = m
            \/ \E pid \in DOMAIN d.mEsFrames :
                  d.mEsFrames[pid].size > 0 /\ d.mEsFrames[pid].id = m
            \/ \E j \in 1..Len(wire) : wire[j].pid \in EsPids /\ wire[j].pusi /\ wire[j].id = m
        BY <1>4, <3>1, <4>1 DEF Accounted, Wanted, Ahead, Elementary
      <4> QED  BY <1>6, <4>2
    <3>2. CASE m = N
      BY <1>3, <1>5, <1>6, <2>1, <3>2
    <3> QED  BY <1>3, <3>1, <3>2
  <2> QED  BY <2>1 DEF Accounted, Wanted, Ahead, Elementary, EsPids
<1> QED  BY <1>9, <1>10, <1>11, <1>12, <1>13 DEF Lossless

-----------------------------------------------------------------------------
(* The invariant, and what follows from it.                                *)

(* The invariant holds initially.                                          *)
LEMMA DemuxInit ==
    ASSUME Init
    PROVE  DemuxInv
<1>1. HurtInv /\ Hurt(d0, wire, 0, 0)
  BY HurtInit DEF HurtInv, Init, DmxInit
<1>2. /\ frames = <<>> /\ wire = <<>>
      /\ d0 = [mPmtId |-> 0, mEsFrames |-> [pid \in {} |-> EsFrame(0)], out |-> <<>>]
  BY DEF Init, MuxInit, DmxInit, d0
<1>3. DOMAIN frames = {} /\ Ahead(wire, 0) = {} /\ 0 + 1 \notin Ahead(wire, 0)
  BY <1>2 DEF Ahead
<1>4. DOMAIN d0.mEsFrames = {} /\ DOMAIN d0.out = {}
  BY <1>2
<1>5. Lossless(d0, wire, 0)
  BY <1>3, <1>4 DEF Lossless, TablesOK, Held, NextContinues, HandedOver, Accounted
<1> QED  BY <1>1, <1>5 DEF DemuxInv

(* decode() keeps it.                                                      *)
LEMMA DemuxDecode ==
    ASSUME OwnPids, DemuxInv, NEW bytes \in Chunks, decode(bytes), lost = 0
    PROVE  Lossless(d0, wire, 0)'
<1>1. /\ FramesOK /\ IsSeq(wire) /\ Len(wire) \in Nat /\ mRestData \in Nat
      /\ Hurt(d0, wire, 0, 0) /\ Lossless(d0, wire, 0)
  BY PacketAssumption, IsSeqFields DEF DemuxInv, HurtInv
<1>2. PICK k \in Nat : Decoded(k)
  BY <1>1, DecodeIs
<1>3. k <= Len(wire) /\ Rest(wire, wire', k) /\ UNCHANGED frames
  BY <1>2 DEF Decoded, history
<1>4. PICK d : d = DecodePackets(k)
  OBVIOUS
<1>5. PICK w : w = wire'
  OBVIOUS
<1>6. Hurt(d, wire, k, 0) /\ Lossless(d, wire, k)
  BY <1>1, <1>3, <1>4, LosslessLoop
<1>7. Lossless(d, w, 0)
  BY <1>1, <1>3, <1>5, <1>6, LosslessShift
<1>8. d = d0'
  BY <1>2, <1>4, <1>6, DecodedDmx DEF Hurt, DmxOK
<1>9. Lossless(d, w, 0)'
  BY <1>3, <1>7, LosslessStays
<1> QED  BY <1>5, <1>8, <1>9, LosslessPrime

(* encode() keeps it, through either caller.                               *)
LEMMA DemuxEncode ==
    ASSUME OwnPids, DemuxInv, SimpleEncode \/ LibraryEncode, UNCHANGED dmxvars, lost = 0
    PROVE  Lossless(d0, wire, 0)'
<1>1. /\ FramesOK /\ IsSeq(wire) /\ config \in Configs /\ Len(frames) \in Nat
      /\ Hurt(d0, wire, 0, 0) /\ Lossless(d0, wire, 0)
  BY DEF DemuxInv, HurtInv, FramesOK
<1>2. PICK f \in Frame, ra \in BOOLEAN : Fed(f) /\ encode(f, ra)
  BY <1>1, Callers
<1>3. d0' = d0
  BY DEF dmxvars, d0
<1>4. PICK d : d = d0
  OBVIOUS
<1>5. PICK w : w = wire'
  OBVIOUS
<1>6. Lossless(d, w, 0)'
  BY <1>1, <1>2, <1>4, <1>5, EncodeLossless
<1> QED  BY <1>3, <1>4, <1>5, <1>6, LosslessPrime

(* Every step keeps it.                                                    *)
LEMMA DemuxNext ==
    ASSUME OwnPids, DemuxInv, [Next]_vars
    PROVE  DemuxInv'
<1>1. HurtInv'
  BY HurtNext DEF DemuxInv
<1> SUFFICES ASSUME lost' = 0 PROVE Lossless(d0, wire, 0)'
  BY <1>1 DEF DemuxInv
<1>2. CASE (SimpleEncode \/ LibraryEncode) /\ UNCHANGED dmxvars
  BY <1>2, DemuxEncode DEF dmxvars
<1>3. CASE \E bytes \in Chunks : decode(bytes)
  BY <1>3, DemuxDecode DEF decode
<1>4. CASE Lose
  BY <1>4 DEF Lose, DemuxInv, HurtInv
<1>5. CASE UNCHANGED <<frames, wire, dmxvars>>
  <2>1. UNCHANGED <<frames, wire, lost>> /\ d0' = d0
    BY <1>5 DEF dmxvars, d0
  <2>2. PICK d : d = d0
    OBVIOUS
  <2>3. PICK w : w = wire
    OBVIOUS
  <2>4. Lossless(d, w, 0)'
    BY <2>1, <2>2, <2>3, LosslessStays DEF DemuxInv
  <2> QED  BY <2>1, <2>2, <2>3, <2>4, LosslessPrime
<1>6. CASE SetOutputCallBack /\ UNCHANGED dmxvars
  BY <1>5, <1>6 DEF SetOutputCallBack, history
<1>7. CASE UNCHANGED vars
  BY <1>5, <1>7 DEF vars, muxvars, history
<1> QED  BY <1>2, <1>3, <1>4, <1>6, <1>7 DEF Next

(* Whatever the frames, their sizes and timestamps, and however the bytes  *)
(* are cut up: as long as no packet is lost, decode() hands over each      *)
(* stream's frames in the order in which encode() was given them, none     *)
(* twice and none skipped, each of them whole and with its stream type and *)
(* timestamps.                                                             *)
THEOREM RoundTripCorrect ==
    ASSUME OwnPids
    PROVE  Spec => []RoundTrip
<1>1. Init => DemuxInv
  BY DemuxInit
<1>2. DemuxInv /\ [Next]_vars => DemuxInv'
  BY DemuxNext
<1>3. DemuxInv => RoundTrip
  <2> SUFFICES ASSUME DemuxInv, lost = 0, HandedOver(out, wire, 0) PROVE RoundTrip
    BY DEF DemuxInv, Lossless, d0, RoundTrip
  <2> QED  BY DEF RoundTrip, HandedOver
<1> QED  BY <1>1, <1>2, <1>3, PTL DEF Spec

(* Once decode() has read everything on a wire that lost nothing, it has   *)
(* handed over every frame that can be expected of it, but for an          *)
(* unbounded one that its stream ends with: that one it keeps.             *)
THEOREM NothingIsWithheld ==
    ASSUME OwnPids
    PROVE  Spec => []NothingWithheld
<1>1. Init => DemuxInv
  BY DemuxInit
<1>2. DemuxInv /\ [Next]_vars => DemuxInv'
  BY DemuxNext
<1>3. DemuxInv => NothingWithheld
  <2> SUFFICES ASSUME DemuxInv, lost = 0, wire = <<>>,
                      NEW m \in DOMAIN frames, Wanted(m), ~Delivered(m)
               PROVE  /\ Unbounded(frames[m].frame)
                      /\ \A i \in (m + 1)..Len(frames) :
                            Wanted(i) => frames[i].frame.type # frames[m].frame.type
    BY DEF NothingWithheld
  <2>1. /\ FramesOK /\ Hurt(d0, wire, 0, 0) /\ Lossless(d0, wire, 0)
    BY DEF DemuxInv, HurtInv
  <2>2. /\ DmxOK(d0) /\ Gathering(d0, wire, 0, 0) /\ Held(d0, wire, 0)
        /\ HandedOver(d0.out, wire, 0) /\ Accounted(d0, wire, 0) /\ d0 \in Dmx
    BY <2>1 DEF Hurt, Lossless, DmxOK
  <2>3. Ahead(wire, 0) = {} /\ d0.out = out
    BY DEF Ahead, d0
  <2>4. PICK pid \in DOMAIN d0.mEsFrames :
           d0.mEsFrames[pid].size > 0 /\ d0.mEsFrames[pid].id = m
    BY <2>2, <2>3 DEF Accounted, Delivered
  <2>5. PICK e : e = d0.mEsFrames[pid]
    OBVIOUS
  <2>6. /\ Beginning(e, pid) /\ e.size = frames[m].frame.size
        /\ Older(out, e.mStreamType, m) /\ e.id = m /\ e.size > 0
    BY <2>2, <2>3, <2>4, <2>5 DEF Held, HeldBy, GoesOn
  <2>7. /\ m \in Nat \ {0} /\ frames[m].frame.size \in Nat
        /\ frames[m].frame.pid = pid /\ frames[m].frame.type \in config.types
        /\ frames[m].frame.pid = mStreamPidMap[frames[m].frame.type]
        /\ Len(frames) \in Nat /\ DOMAIN frames = 1..Len(frames)
    BY <2>1, <2>6, FrameNumbers DEF Beginning, FramesOK
  <2>8. Unbounded(frames[m].frame)
    <3> SUFFICES ASSUME ~Unbounded(frames[m].frame) PROVE FALSE
      OBVIOUS
    <3>1. e.mExpectedPayloadLength = frames[m].frame.size
      BY <2>6 DEF Beginning
    <3>2. e.mExpectedPayloadLength # 0
      BY <2>6, <2>7, <3>1
    <3>3. e.size < frames[m].frame.size
      BY <2>2, <2>5, <2>6, <3>2 DEF Gathering
    <3> QED  BY <2>6, <2>7, <3>3
  <2>9. ASSUME NEW i \in (m + 1)..Len(frames), Wanted(i), frames[i].frame.type = frames[m].frame.type
        PROVE  FALSE
    <3>1. i \in DOMAIN frames /\ i \in Nat /\ m < i
      BY <2>7
    <3>2. e.mStreamType = frames[m].frame.type
      <4>1. e.mStreamType \in config.types /\ mStreamPidMap[e.mStreamType] = pid
        BY <2>2, <2>5 DEF DmxOK
      <4> QED  BY <2>1, <2>7, <4>1, PidMap
    <3>3. CASE \E x \in DOMAIN out : out[x].id = i
      <4>1. PICK x \in DOMAIN out : out[x].id = i
        BY <3>3
      <4>2. out[x].type = frames[i].frame.type
        BY <2>2, <2>3, <4>1 DEF HandedOver, Faithful
      <4>3. out[x].id < m
        BY <2>6, <2>9, <3>2, <4>1, <4>2 DEF Older
      <4> QED  BY <2>7, <3>1, <4>1, <4>3
    <3>4. CASE \E q \in DOMAIN d0.mEsFrames : d0.mEsFrames[q].size > 0 /\ d0.mEsFrames[q].id = i
      <4>1. PICK q \in DOMAIN d0.mEsFrames : d0.mEsFrames[q].size > 0 /\ d0.mEsFrames[q].id = i
        BY <3>4
      <4>2. frames[i].frame.pid = q
        BY <2>2, <4>1 DEF Held, HeldBy, Beginning
      <4>3. frames[i].frame.pid = mStreamPidMap[frames[i].frame.type]
        BY <2>1, <3>1, FrameNumbers
      <4>4. q = pid
        BY <2>7, <2>9, <4>2, <4>3
      <4>5. i = m
        BY <2>4, <4>1, <4>4
      <4> QED  BY <2>7, <3>1, <4>5
    <3> QED  BY <2>2, <2>3, <2>9, <3>1, <3>3, <3>4 DEF Accounted
  <2> QED  BY <2>8, <2>9
<1> QED  BY <1>1, <1>2, <1>3, PTL DEF Spec
=============================================================================
