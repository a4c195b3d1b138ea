------------------------ MODULE MpegTsDemuxerProofs -------------------------
(***************************************************************************)
(* Proofs about MpegTsDemuxer::decode, for every packet size, frame size,  *)
(* set of frames and way of cutting up the bytes: what comes out of the    *)
(* demuxer is what went into the muxer, and a lost packet is noticed.      *)
(*                                                                         *)
(* d stands for the demuxer in the middle of a call of decode(), s for the *)
(* packets on the wire when the call began, and k of these have been read. *)
(***************************************************************************)
EXTENDS MpegTsProofs, NaturalsInduction, WellFoundedInduction

(* The stream types of a muxer have PIDs of their own, the ones they are   *)
(* sent on and the ones the PMT gives them: xrtc's wrapper, which sends    *)
(* everything on VIDEO_PID, has one video type; any other caller has at    *)
(* most one type per media type.                                           *)
OwnPids ==
    \A c \in Configs :
        IF c.simple THEN \E t \in {AVC, HEVC} : c.types = {t}
                    ELSE \A t, u \in c.types : (isVideo(t) <=> isVideo(u)) => t = u

(* What decode() works on.                                                 *)
Es == [mStreamType : Nat, id : Nat, size : Nat, intact : BOOLEAN,
       mRandomAccess : BOOLEAN, mPts : Nat, mDts : Nat,
       mExpectedPesPacketLength : Nat, mExpectedPayloadLength : Nat]
Handed == [id : Nat, size : Nat, intact : BOOLEAN, type : Nat, key : BOOLEAN,
           pts : Nat, dts : Nat, broken : BOOLEAN]
EsPids == {VIDEO_PID, AUDIO_PID}
Dmx == [mPmtId : {0, PMT_PID}, mEsFrames : UNION {[P -> Es] : P \in SUBSET EsPids},
        out : Seq(Handed)]

d0 == [mPmtId |-> mPmtId, mEsFrames |-> mEsFrames, out |-> out]

-----------------------------------------------------------------------------
(* The inductive invariant, part by part.                                  *)

FramesOK ==
    /\ config \in Configs
    /\ frames \in Seq(Entry)
    /\ \A m \in DOMAIN frames :
          LET f == frames[m].frame
          IN  /\ f.id = m /\ f.type \in config.types /\ f.pid = mStreamPidMap[f.type]
              /\ f.two \/ f.pts = f.dts

Elementary(p) == p.pid \in EsPids
FrameOf(p) == frames[p.id].frame
Ends(p) == p.from + p.n = FrameOf(p).size

(* Packet q goes on in the same frame where p ends.                        *)
Joined(p, q) == Elementary(p) /\ Elementary(q) /\ p.id = q.id /\ p.from + p.n = q.from

(* A packet as createPes leaves it: LayoutSound, without the packet's      *)
(* number.                                                                 *)
Pes(p) ==
    /\ p.id \in DOMAIN frames
    /\ p.pid = FrameOf(p).pid
    /\ p.pusi \in BOOLEAN /\ p.from \in Nat /\ p.n \in Nat \ {0} /\ p.at \in Nat
    /\ p.pusi <=> p.from = 0
    /\ p.from + p.n <= FrameOf(p).size
    /\ p.at = IF p.pusi THEN PesEnd(p) ELSE FieldEnd(p)
    /\ p.at + p.n = PacketSize
    /\ p.len = mPesPacketLength(FrameOf(p))
    /\ p.hdr = mHeaderDataLength(FrameOf(p))
    /\ p.pts = FrameOf(p).pts % 8 /\ p.dts = FrameOf(p).dts % 8
    /\ p.rai = (p.pusi /\ FrameOf(p).key)

Packet(p) ==
    /\ p.pid \in Pids
    /\ p.pid = PAT_PID => p.pmt = PMT_PID
    /\ p.pid = PMT_PID => p.infos = mStreamPidMap
    /\ Elementary(p) => Pes(p)

Ahead(s, k) == (k + 1)..Len(s)

(* Whatever is lost: the packets are well formed and in order.             *)
WireOK(s, k) ==
    /\ \A j \in Ahead(s, k) : Packet(s[j])
    /\ \A i, j \in Ahead(s, k) :
          i < j /\ Elementary(s[i]) /\ Elementary(s[j]) =>
              \/ s[i].id < s[j].id
              \/ s[i].id = s[j].id /\ s[i].from + s[i].n <= s[j].from

(* The demuxer knows each PID by the type of its stream.                   *)
DmxOK(d) ==
    /\ d \in Dmx
    /\ \A pid \in DOMAIN d.mEsFrames :
          LET t == d.mEsFrames[pid].mStreamType
          IN  t \in config.types /\ mStreamPidMap[t] = pid
    /\ \/ DOMAIN d.mEsFrames = {}
       \/ \A t \in config.types : mStreamPidMap[t] \in DOMAIN d.mEsFrames

(* No frame but h has lost a packet: its packets follow each other on the  *)
(* wire, or follow what the demuxer has gathered of it.                    *)
OthersWhole(s, k, h) ==
    \A j \in Ahead(s, k) :
        Elementary(s[j]) /\ s[j].id # h =>
            /\ s[j].pusi \/ j = k + 1 \/ Joined(s[j - 1], s[j])
            /\ Ends(s[j]) \/ (j + 1 \in Ahead(s, k) /\ Joined(s[j], s[j + 1]))

(* A frame of stated length that is being gathered, with h perhaps lacking *)
(* something in the middle.                                                *)
Gathering(d, s, k, h) ==
    \A pid \in DOMAIN d.mEsFrames :
        LET e == d.mEsFrames[pid]
            f == frames[e.id].frame
        IN  IF e.mExpectedPayloadLength = 0 THEN e.mExpectedPesPacketLength = 0
            ELSE /\ e.id \in DOMAIN frames
                 /\ f.pid = pid
                 /\ e.mExpectedPayloadLength = f.size
                 /\ e.mExpectedPesPacketLength > f.size
                 /\ 0 < e.size /\ e.size < f.size
                 /\ e.id # h => /\ e.intact
                                /\ k + 1 \in Ahead(s, k)
                                /\ Elementary(s[k + 1])
                                /\ s[k + 1].id = e.id /\ s[k + 1].from = e.size
                 /\ e.id = h => \A j \in Ahead(s, k) :
                                   Elementary(s[j]) /\ s[j].id = h =>
                                       \/ e.size < s[j].from
                                       \/ e.size = s[j].from /\ e.intact

(* What comes next does not belong to a frame other than the one that is   *)
(* being gathered.                                                         *)
NextFits(d, s, k, h) ==
    k + 1 \in Ahead(s, k) /\ Elementary(s[k + 1]) /\ ~s[k + 1].pusi
       /\ s[k + 1].id # h /\ s[k + 1].pid \in DOMAIN d.mEsFrames =>
          LET e == d.mEsFrames[s[k + 1].pid]
          IN  e.mExpectedPayloadLength # 0 => e.id = s[k + 1].id

UnbrokenWhole(d) ==
    \A i \in DOMAIN d.out :
        LET o == d.out[i]
        IN  ~o.broken => /\ o.id \in DOMAIN frames
                         /\ Whole(o, frames[o.id].frame)
                         /\ o.type = frames[o.id].frame.type

(* At most frame h has lost a packet.                                      *)
Hurt(d, s, k, h) ==
    /\ DmxOK(d)
    /\ WireOK(s, k)
    /\ OthersWhole(s, k, h)
    /\ Gathering(d, s, k, h)
    /\ NextFits(d, s, k, h)
    /\ UnbrokenWhole(d)

IsSeq(s) == s \in Seq({s[i] : i \in DOMAIN s})

(* No frame has the number 0: as long as nothing is lost nothing is hurt.  *)
HurtInv ==
    /\ FramesOK
    /\ IsSeq(wire)
    /\ lost \in Nat
    /\ mRestData \in 0..(PacketSize - 1)
    /\ lost = 0 => Hurt(d0, wire, 0, 0)
    /\ lost = 1 => \E h \in Nat : Hurt(d0, wire, 0, h)

-----------------------------------------------------------------------------
(* The loop of decode().                                                   *)

(* A nonempty set of numbers has a least one.                              *)
LEMMA LeastNat ==
    ASSUME NEW T \in SUBSET Nat, T # {}
    PROVE  \E n \in T : \A m \in T : n <= m
<1>1. PICK n \in T : \A m \in T : ~(<<m, n>> \in OpToRel(<, Nat))
  BY NatLessThanWellFounded, WFMin, Zenon
<1>2. \A m \in T : ~(m < n)
  BY <1>1 DEF OpToRel
<1> QED  BY <1>2

(* What is true of 0 and goes from n to n + 1 is true of every number: no  *)
(* number is the first one outside the set.                                *)
LEMMA NatInductive ==
    ASSUME NEW T, 0 \in T, \A n \in Nat : n \in T => n + 1 \in T
    PROVE  Nat \subseteq T
<1> SUFFICES ASSUME Nat \ T # {} PROVE FALSE
  OBVIOUS
<1>1. PICK n \in Nat \ T : \A m \in Nat \ T : n <= m
  BY LeastNat
<1>2. n - 1 \in Nat /\ n - 1 \in T
  BY <1>1
<1> QED  BY <1>1, <1>2

Turn(g, i) == IF i = 0 THEN d0 ELSE DecodePacket(g[i - 1], wire[i], (i - 1) * PacketSize)

(* There is a function that takes the first k turns of the loop.           *)
LEMMA LoopExists ==
    ASSUME NEW k \in Nat
    PROVE  \E g : g = [i \in 0..k |-> Turn(g, i)]
<1> DEFINE T == {n \in Nat : \E g : g = [i \in 0..n |-> Turn(g, i)]}
<1>1. 0 \in T
  <2> DEFINE g == [i \in 0..0 |-> d0]
  <2>1. \A i \in 0..0 : Turn(g, i) = d0
    BY DEF Turn
  <2>2. g = [i \in 0..0 |-> Turn(g, i)]
    BY <2>1
  <2> QED  BY <2>2
<1>2. ASSUME NEW n \in Nat, n \in T PROVE n + 1 \in T
  <2>1. PICK g : g = [i \in 0..n |-> Turn(g, i)]
    BY <1>2
  <2> DEFINE x == DecodePacket(g[n], wire[n + 1], n * PacketSize)
             h == [i \in 0..(n + 1) |-> IF i = n + 1 THEN x ELSE g[i]]
  <2>2. \A i \in 0..n : h[i] = g[i] /\ g[i] = Turn(g, i)
    BY <2>1
  <2>3. h[n + 1] = x
    OBVIOUS
  <2> HIDE DEF h
  <2>4. \A i \in 0..n : Turn(g, i) = Turn(h, i)
    BY <2>2 DEF Turn
  <2>5. Turn(h, n + 1) = x
    <3>1. n + 1 - 1 = n /\ n + 1 # 0 /\ h[n] = g[n]
      BY <2>2
    <3> QED  BY <3>1 DEF Turn
  <2>6. \A i \in 0..(n + 1) : h[i] = Turn(h, i)
    <3>1. \A i \in 0..(n + 1) : i \in 0..n \/ i = n + 1
      OBVIOUS
    <3> QED  BY <2>2, <2>3, <2>4, <2>5, <3>1
  <2>7. h = [i \in 0..(n + 1) |-> h[i]]
    BY DEF h
  <2>8. h = [i \in 0..(n + 1) |-> Turn(h, i)]
    BY <2>6, <2>7
  <2> QED  BY <2>8
<1> HIDE DEF T
<1>3. k \in T
  BY <1>1, <1>2, NatInductive
<1> QED  BY <1>3 DEF T

(* One turn of the loop after the other.                                   *)
LEMMA Loop ==
    ASSUME NEW k \in Nat
    PROVE  \E g : /\ DecodePackets(k) = g[k]
                  /\ g[0] = d0
                  /\ \A i \in 0..(k - 1) :
                        g[i + 1] = DecodePacket(g[i], wire[i + 1], i * PacketSize)
<1> DEFINE g == CHOOSE g : g = [i \in 0..k |-> Turn(g, i)]
<1>1. g = [i \in 0..k |-> Turn(g, i)]
  BY LoopExists
<1>2. DecodePackets(k) = g[k]
  BY DEF DecodePackets, Turn, d0
<1> HIDE DEF g
<1>3. \A i \in 0..k : g[i] = Turn(g, i)
  BY <1>1
<1>4. g[0] = d0
  BY <1>3 DEF Turn
<1>5. ASSUME NEW i \in 0..(k - 1)
      PROVE  g[i + 1] = DecodePacket(g[i], wire[i + 1], i * PacketSize)
  <2>1. i + 1 \in 0..k /\ i + 1 # 0 /\ i + 1 - 1 = i
    OBVIOUS
  <2> QED  BY <1>3, <2>1 DEF Turn
<1> QED  BY <1>2, <1>4, <1>5

-----------------------------------------------------------------------------
(* What one turn of the loop does, in the terms of the packet.             *)

(* What esOutCallback is given.                                            *)
AsHanded(e, broken) ==
    [id |-> e.id, size |-> e.size, intact |-> e.intact, type |-> e.mStreamType,
     key |-> e.mRandomAccess, pts |-> e.mPts, dts |-> e.mDts, broken |-> broken]

(* r is d with another EsFrame for a PID and other frames handed over.     *)
Becomes(r, d, pid, e, o) ==
    /\ r \in Dmx
    /\ r.mPmtId = d.mPmtId
    /\ r.mEsFrames = [d.mEsFrames EXCEPT ![pid] = e]
    /\ r.out = o

(* The fields of a demuxer.                                                *)
LEMMA DmxFields ==
    ASSUME NEW d \in Dmx
    PROVE  /\ d.mPmtId \in {0, PMT_PID} /\ d.out \in Seq(Handed)
           /\ DOMAIN d.mEsFrames \subseteq EsPids
           /\ d.mEsFrames \in [DOMAIN d.mEsFrames -> Es]
BY DEF Dmx

(* A demuxer with another EsFrame, or with more handed over, is a demuxer. *)
LEMMA DmxMake ==
    ASSUME NEW d \in Dmx, NEW pid \in DOMAIN d.mEsFrames, NEW e \in Es, NEW o \in Seq(Handed)
    PROVE  /\ [d EXCEPT !.mEsFrames[pid] = e] \in Dmx
           /\ [d EXCEPT !.out = o] \in Dmx
           /\ [[d EXCEPT !.out = o] EXCEPT !.mEsFrames[pid] = e] \in Dmx
           /\ Becomes([d EXCEPT !.mEsFrames[pid] = e], d, pid, e, d.out)
           /\ Becomes([[d EXCEPT !.out = o] EXCEPT !.mEsFrames[pid] = e], d, pid, e, o)
<1> DEFINE m == [d.mEsFrames EXCEPT ![pid] = e]
<1>1. m \in [DOMAIN d.mEsFrames -> Es] /\ DOMAIN d.mEsFrames \subseteq EsPids
  BY DmxFields
<1>2. m \in UNION {[P -> Es] : P \in SUBSET EsPids}
  BY <1>1
<1>3. /\ [d EXCEPT !.mEsFrames = m] \in Dmx
      /\ [d EXCEPT !.out = o] \in Dmx
      /\ [[d EXCEPT !.out = o] EXCEPT !.mEsFrames = m] \in Dmx
  BY <1>2 DEF Dmx
<1>4. /\ [d EXCEPT !.mEsFrames = m].mPmtId = d.mPmtId
      /\ [d EXCEPT !.mEsFrames = m].mEsFrames = m
      /\ [d EXCEPT !.mEsFrames = m].out = d.out
      /\ [[d EXCEPT !.out = o] EXCEPT !.mEsFrames = m].mPmtId = d.mPmtId
      /\ [[d EXCEPT !.out = o] EXCEPT !.mEsFrames = m].mEsFrames = m
      /\ [[d EXCEPT !.out = o] EXCEPT !.mEsFrames = m].out = o
      /\ [d EXCEPT !.out = o].mEsFrames = d.mEsFrames
  BY DEF Dmx
<1>5. /\ [d EXCEPT !.mEsFrames[pid] = e] = [d EXCEPT !.mEsFrames = m]
      /\ [[d EXCEPT !.out = o] EXCEPT !.mEsFrames[pid] = e]
            = [[d EXCEPT !.out = o] EXCEPT !.mEsFrames = m]
  BY <1>4
<1> QED  BY <1>3, <1>4, <1>5 DEF Becomes

(* What esOutCallback is given has its type.                               *)
LEMMA HandedMake ==
    ASSUME NEW d \in Dmx, NEW e \in Es, NEW b \in BOOLEAN
    PROVE  AsHanded(e, b) \in Handed /\ Append(d.out, AsHanded(e, b)) \in Seq(Handed)
<1>1. AsHanded(e, b) \in Handed
  BY DEF AsHanded, Handed, Es
<1> QED  BY <1>1, DmxFields

(* The end of a turn: the frame is handed over once it has its stated      *)
(* length.                                                                 *)
LEMMA CompleteIs ==
    ASSUME NEW d \in Dmx, NEW pid \in DOMAIN d.mEsFrames, NEW e \in Es
    PROVE  IF e.size = e.mExpectedPayloadLength
           THEN Becomes(Complete(d, pid, e), d, pid, reset(e), Append(d.out, AsHanded(e, FALSE)))
           ELSE Becomes(Complete(d, pid, e), d, pid, e, d.out)
<1>1. reset(e) \in Es
  BY DEF reset, Es, NoFrame
<1> DEFINE o == Append(d.out, AsHanded(e, FALSE))
<1>2. o \in Seq(Handed)
  BY HandedMake
<1>3. Deliver(d, pid, e, FALSE) = [d EXCEPT !.out = o]
  BY DEF Deliver, AsHanded
<1> HIDE DEF o
<1>4. CASE e.size = e.mExpectedPayloadLength
  <2>1. Complete(d, pid, e) = [[d EXCEPT !.out = o] EXCEPT !.mEsFrames[pid] = reset(e)]
    BY <1>3, <1>4 DEF Complete, Enough, Store
  <2>2. Becomes([[d EXCEPT !.out = o] EXCEPT !.mEsFrames[pid] = reset(e)], d, pid, reset(e), o)
    <3> HIDE DEF reset
    <3> QED  BY <1>1, <1>2, DmxMake
  <2> QED  BY <1>4, <2>1, <2>2 DEF o
<1>5. CASE e.size # e.mExpectedPayloadLength
  <2>1. Complete(d, pid, e) = [d EXCEPT !.mEsFrames[pid] = e]
    BY <1>5 DEF Complete, Enough, Store
  <2>2. d.out \in Seq(Handed)
    BY DmxFields
  <2>3. Becomes(Complete(d, pid, e), d, pid, e, d.out)
    BY <2>1, <2>2, DmxMake, ZenonT(40)
  <2> QED  BY <1>5, <2>3
<1> QED  BY <1>4, <1>5

(* A packet that does not start a frame.                                   *)
Gathered(e, p) ==
    [e EXCEPT !.id = IF e.size = 0 THEN p.id ELSE e.id,
              !.size = e.size + p.n,
              !.intact = e.intact /\ (e.size > 0 => e.id = p.id) /\ p.from = e.size]

(* A packet that continues a frame, as long as it does not exceed the      *)
(* stated length: its payload is appended, wherever in the buffer it is.   *)
LEMMA ReadMore ==
    ASSUME FramesOK, NEW d \in Dmx, NEW p, Pes(p), ~p.pusi, NEW base \in Nat,
           p.pid \in DOMAIN d.mEsFrames,
           LET e == d.mEsFrames[p.pid]
           IN  \/ e.mExpectedPesPacketLength = 0
               \/ e.size + p.n <= e.mExpectedPesPacketLength
    PROVE  LET g == Gathered(d.mEsFrames[p.pid], p)
               r == DecodePacket(d, p, base)
           IN  /\ g \in Es
               /\ IF g.size = g.mExpectedPayloadLength
                  THEN Becomes(r, d, p.pid, reset(g), Append(d.out, AsHanded(g, FALSE)))
                  ELSE Becomes(r, d, p.pid, g, d.out)
<1> DEFINE e == d.mEsFrames[p.pid]  g == Gathered(e, p)
<1>1. p.pid \in EsPids /\ e \in Es
  BY DmxFields
<1>2. /\ p.id \in Nat /\ p.n \in Nat \ {0} /\ p.from \in Nat /\ PacketSize \in Nat
      /\ FieldEnd(p) = p.at /\ PacketSize - p.at = p.n /\ p.at \in Nat
  BY PacketAssumption DEF Pes, FramesOK
<1>3. DecodePacket(d, p, base) = Continue(d, p, e, FieldEnd(p))
  BY <1>1 DEF DecodePacket, EsPids, VIDEO_PID, AUDIO_PID, PAT_PID, PMT_PID
<1>4. /\ e.size \in Nat /\ e.id \in Nat /\ e.intact \in BOOLEAN
      /\ e.mExpectedPesPacketLength \in Nat
  BY <1>1 DEF Es
<1>5. g \in Es
  <2> DEFINE b == e.intact /\ (e.size > 0 => e.id = p.id) /\ p.from = e.size
             x == IF e.size = 0 THEN p.id ELSE e.id
             y == e.size + p.n
  <2>1. b \in BOOLEAN /\ x \in Nat /\ y \in Nat
    BY <1>2, <1>4
  <2>2. g = [e EXCEPT !.id = x, !.size = y, !.intact = b]
    BY DEF Gathered
  <2> HIDE DEF b, x, y
  <2> QED  BY <1>1, <2>1, <2>2 DEF Es
<1>6. append(e, p, p.at, p.n) = g
  <2>1. p.at - p.at = 0 /\ p.from + (p.at - p.at) = p.from /\ p.at >= p.at /\ ~(p.n <= 0)
    BY <1>2
  <2>2. (e.intact /\ (e.size > 0 => e.id = p.id) /\ p.at >= p.at /\ p.from + (p.at - p.at) = e.size)
         = (e.intact /\ (e.size > 0 => e.id = p.id) /\ p.from = e.size)
    BY <2>1
  <2> QED  BY <2>1, <2>2 DEF append, Gathered
<1>7. Continue(d, p, e, FieldEnd(p)) = Complete(d, p.pid, g)
  <2> DEFINE k == IF e.mExpectedPesPacketLength # 0
                        /\ e.size + (PacketSize - p.at) > e.mExpectedPesPacketLength
                  THEN e.mExpectedPesPacketLength - e.size ELSE PacketSize - p.at
  <2>1. k = p.n
    BY <1>2, <1>4
  <2>2. Continue(d, p, e, FieldEnd(p)) = Complete(d, p.pid, append(e, p, p.at, k))
    BY <1>2 DEF Continue
  <2> QED  BY <1>6, <2>1, <2>2
<1> HIDE DEF g, e
<1> QED  BY <1>3, <1>5, <1>7, CompleteIs DEF g, e

(* A packet that starts a frame.                                           *)
Started(e, p) ==
    [e EXCEPT !.id = p.id, !.size = p.n, !.intact = TRUE, !.mRandomAccess = p.rai,
              !.mPts = FrameOf(p).pts % 4, !.mDts = FrameOf(p).dts % 4,
              !.mExpectedPesPacketLength = p.len,
              !.mExpectedPayloadLength = IF p.len = 0 THEN 0 ELSE FrameOf(p).size]

(* What is handed over when a frame is cut off by one that starts.         *)
CutOut(d, e, p) ==
    IF e.size > 0 THEN Append(d.out, AsHanded([e EXCEPT !.mRandomAccess = p.rai], TRUE))
                  ELSE d.out

(* readPts loses the highest of the three bits that createPes wrote.       *)
LEMMA Mod84 == ASSUME NEW x \in Nat PROVE (x % 8) % 4 = x % 4 /\ x % 4 \in Nat /\ x % 8 \in Nat
OBVIOUS

(* The frame a packet is of.                                               *)
LEMMA FrameFields ==
    ASSUME FramesOK, NEW p, Pes(p)
    PROVE  /\ p.id \in DOMAIN frames /\ p.id \in Nat \ {0}
           /\ FrameOf(p) \in Frame
           /\ FrameOf(p).id = p.id
           /\ FrameOf(p).two \/ FrameOf(p).pts = FrameOf(p).dts
           /\ FrameOf(p).size \in Nat /\ FrameOf(p).pts \in Nat /\ FrameOf(p).dts \in Nat
           /\ FrameOf(p).key \in BOOLEAN /\ FrameOf(p).two \in BOOLEAN
<1>1. p.id \in DOMAIN frames /\ DOMAIN frames = 1..Len(frames) /\ Len(frames) \in Nat
  BY DEF Pes, FramesOK
<1>2. frames[p.id] \in Entry
  BY <1>1 DEF FramesOK
<1>3. FrameOf(p) \in Frame
  BY <1>2 DEF Entry, FrameOf
<1>4. FrameOf(p).id = p.id /\ (FrameOf(p).two \/ FrameOf(p).pts = FrameOf(p).dts)
  BY <1>1 DEF FramesOK, FrameOf
<1> QED  BY <1>1, <1>3, <1>4 DEF Frame

(* PES_packet_length states the length of the frame, or is 0.              *)
LEMMA StatedLength ==
    ASSUME NEW f \in Frame
    PROVE  /\ mPesPacketLength(f) \in Nat /\ mHeaderDataLength(f) \in {5, 10}
           /\ (mPesPacketLength(f) = 0) <=> Unbounded(f)
           /\ mPesPacketLength(f) # 0 =>
                 /\ mPesPacketLength(f) - 3 - mHeaderDataLength(f) = f.size
                 /\ mPesPacketLength(f) > f.size
BY PesAssumption DEF Frame, mPesPacketLength, mHeaderDataLength, Unbounded

(* A frame that starts has its type.                                       *)
LEMMA StartedEs ==
    ASSUME FramesOK, NEW p, Pes(p), NEW e \in Es
    PROVE  /\ Started(e, p) \in Es
           /\ p.rai \in BOOLEAN /\ p.n \in Nat \ {0}
           /\ [e EXCEPT !.mRandomAccess = p.rai] \in Es
<1> DEFINE f == FrameOf(p)
           x == IF p.len = 0 THEN 0 ELSE f.size
           a == f.pts % 4
           b == f.dts % 4
<1>1. /\ f \in Frame /\ p.id \in Nat /\ f.size \in Nat /\ a \in Nat /\ b \in Nat
      /\ p.n \in Nat \ {0}
      /\ f.key \in BOOLEAN /\ p.rai = (p.pusi /\ f.key) /\ p.len = mPesPacketLength(f)
  BY FrameFields, Mod84 DEF Pes
<1>2. p.rai \in BOOLEAN /\ p.len \in Nat /\ x \in Nat
  BY <1>1, StatedLength
<1>3. Started(e, p) = [e EXCEPT !.id = p.id, !.size = p.n, !.intact = TRUE,
                                !.mRandomAccess = p.rai, !.mPts = a, !.mDts = b,
                                !.mExpectedPesPacketLength = p.len,
                                !.mExpectedPayloadLength = x]
  BY DEF Started
<1> HIDE DEF f, x, a, b
<1> QED  BY <1>1, <1>2, <1>3 DEF Es

(* A packet that starts a frame: what was gathered before is handed over   *)
(* as broken, if there was something, and the new frame begins.            *)
LEMMA ReadStart ==
    ASSUME FramesOK, NEW d \in Dmx, NEW p, Pes(p), p.pusi, NEW base \in Nat,
           p.pid \in DOMAIN d.mEsFrames
    PROVE  LET e == d.mEsFrames[p.pid]
               g == Started(e, p)
               r == DecodePacket(d, p, base)
           IN  /\ g \in Es
               /\ IF g.size = g.mExpectedPayloadLength
                  THEN Becomes(r, d, p.pid, reset(g),
                               Append(CutOut(d, e, p), AsHanded(g, FALSE)))
                  ELSE Becomes(r, d, p.pid, g, CutOut(d, e, p))
<1> DEFINE e   == d.mEsFrames[p.pid]
           g   == Started(e, p)
           f   == FrameOf(p)
           old == [e EXCEPT !.mRandomAccess = p.rai]
           d1  == CutOff(d, p.pid, old)
           new == [reset(old) EXCEPT !.mExpectedPesPacketLength = p.len,
                                     !.mPts = readPts(p.pts),
                                     !.mDts = readPts(IF p.hdr = 10 THEN p.dts ELSE p.pts)]
           pl  == p.len - 3 - p.hdr
           k   == IF pl + base + p.at > PacketSize \/ pl < 0 THEN PacketSize - p.at ELSE pl
<1>1. p.pid \in EsPids /\ e \in Es
  BY DmxFields
<1>2. /\ p.n \in Nat \ {0} /\ p.from = 0 /\ PacketSize \in Nat /\ p.n <= f.size
      /\ PesEnd(p) = p.at /\ p.at + p.n = PacketSize /\ p.at \in Nat
      /\ p.len = mPesPacketLength(f) /\ p.hdr = mHeaderDataLength(f)
      /\ p.pts = f.pts % 8 /\ p.dts = f.dts % 8
  BY PacketAssumption DEF Pes
<1>3. /\ f \in Frame /\ f.size \in Nat /\ f.pts \in Nat /\ f.dts \in Nat
      /\ f.two \/ f.pts = f.dts
  BY FrameFields
<1>4. g \in Es /\ p.rai \in BOOLEAN /\ old \in Es
  BY <1>1, StartedEs
<1>5. /\ d1 \in Dmx /\ d1.mPmtId = d.mPmtId /\ d1.mEsFrames = d.mEsFrames
      /\ d1.out = CutOut(d, e, p)
  <2>1. old.size = e.size
    BY <1>1 DEF Es
  <2>2. CASE e.size > 0
    <3> DEFINE o == Append(d.out, AsHanded(old, TRUE))
    <3>1. o \in Seq(Handed)
      BY <1>4, HandedMake
    <3>2. d1 = [d EXCEPT !.out = o]
      BY <2>1, <2>2 DEF CutOff, Deliver, AsHanded
    <3>3. o = CutOut(d, e, p)
      BY <2>2 DEF CutOut
    <3> HIDE DEF o, d1
    <3> QED  BY <3>1, <3>2, <3>3 DEF Dmx
  <2>3. CASE ~(e.size > 0)
    BY <2>1, <2>3 DEF CutOff, CutOut
  <2> QED  BY <2>2, <2>3
<1>6. /\ readPts(p.pts) = f.pts % 4
      /\ readPts(IF p.hdr = 10 THEN p.dts ELSE p.pts) = f.dts % 4
  <2>1. p.hdr = 10 <=> f.two
    BY <1>2 DEF mHeaderDataLength
  <2> QED  BY <1>2, <1>3, <2>1, Mod84 DEF readPts
<1>7. p.len # 0 => pl = f.size
  BY <1>2, <1>3, StatedLength
<1>8. p.len # 0 => k = p.n
  BY <1>2, <1>3, <1>7
<1>9. DecodePacket(d, p, base) = Start(d, p, base)
  BY <1>1 DEF DecodePacket, EsPids, VIDEO_PID, AUDIO_PID, PAT_PID, PMT_PID
<1>10. new = [e EXCEPT !.id = 0, !.size = 0, !.intact = TRUE, !.mRandomAccess = p.rai,
                       !.mPts = f.pts % 4, !.mDts = f.dts % 4,
                       !.mExpectedPesPacketLength = p.len, !.mExpectedPayloadLength = 0]
  BY <1>1, <1>6 DEF reset, NoFrame, Es
<1>11. ASSUME DecodePacket(d, p, base) = Complete(d1, p.pid, g)
       PROVE  IF g.size = g.mExpectedPayloadLength
              THEN Becomes(DecodePacket(d, p, base), d, p.pid, reset(g),
                           Append(CutOut(d, e, p), AsHanded(g, FALSE)))
              ELSE Becomes(DecodePacket(d, p, base), d, p.pid, g, CutOut(d, e, p))
  <2> HIDE DEF d1, g
  <2>1. p.pid \in DOMAIN d1.mEsFrames
    BY <1>5
  <2>2. IF g.size = g.mExpectedPayloadLength
        THEN Becomes(Complete(d1, p.pid, g), d1, p.pid, reset(g), Append(d1.out, AsHanded(g, FALSE)))
        ELSE Becomes(Complete(d1, p.pid, g), d1, p.pid, g, d1.out)
    BY <1>4, <1>5, <2>1, CompleteIs
  <2> HIDE DEF e
  <2> QED  BY <1>5, <1>11, <2>2 DEF Becomes
<1>12. CASE p.len = 0
  <2>1. append(new, p, p.at, p.n) = g
    <3>1. ~(p.n <= 0) /\ p.at >= p.at /\ p.from + (p.at - p.at) = 0 /\ 0 + p.n = p.n /\ ~(0 > 0)
      BY <1>2
    <3>2. new.size = 0 /\ new.intact = TRUE /\ new.mExpectedPayloadLength = 0
      BY <1>1, <1>10 DEF Es
    <3> HIDE DEF new
    <3>3. append(new, p, p.at, p.n) = [new EXCEPT !.id = p.id, !.size = p.n, !.intact = TRUE]
      BY <3>1, <3>2 DEF append
    <3> QED  BY <1>1, <1>10, <1>12, <3>3, ZenonT(40) DEF Started, Es
  <2>2. Start(d, p, base) = Continue(d1, p, new, p.at)
    BY <1>2, <1>12 DEF Start
  <2>3. new.mExpectedPesPacketLength = 0
    BY <1>1, <1>10, <1>12 DEF Es
  <2> HIDE DEF new, d1
  <2>4. Continue(d1, p, new, p.at) = Complete(d1, p.pid, append(new, p, p.at, PacketSize - p.at))
    BY <2>3 DEF Continue
  <2>5. PacketSize - p.at = p.n
    BY <1>2
  <2>6. DecodePacket(d, p, base) = Complete(d1, p.pid, g)
    BY <1>9, <2>1, <2>2, <2>4, <2>5
  <2> QED  BY <1>4, <1>11, <2>6
<1>13. CASE p.len # 0
  <2> DEFINE new1 == [new EXCEPT !.mExpectedPayloadLength = pl]
  <2>1. append(new1, p, p.at, p.n) = g
    <3>1. ~(p.n <= 0) /\ p.at >= p.at /\ p.from + (p.at - p.at) = 0 /\ 0 + p.n = p.n /\ ~(0 > 0)
      BY <1>2
    <3>2. new1 = [e EXCEPT !.id = 0, !.size = 0, !.intact = TRUE, !.mRandomAccess = p.rai,
                       !.mPts = f.pts % 4, !.mDts = f.dts % 4,
                       !.mExpectedPesPacketLength = p.len, !.mExpectedPayloadLength = f.size]
      <4> HIDE DEF new, pl
      <4> QED  BY <1>1, <1>7, <1>10, <1>13 DEF Es
    <3>3. new1.size = 0 /\ new1.intact = TRUE
      BY <1>1, <3>2 DEF Es
    <3> HIDE DEF new, new1
    <3>4. append(new1, p, p.at, p.n) = [new1 EXCEPT !.id = p.id, !.size = p.n, !.intact = TRUE]
      BY <3>1, <3>3 DEF append
    <3> QED  BY <1>1, <1>13, <3>2, <3>4, ZenonT(40) DEF Started, Es
  <2>2. Start(d, p, base) = Complete(d1, p.pid, append(new1, p, p.at, k))
    BY <1>2, <1>13 DEF Start
  <2> HIDE DEF new, d1, new1, k
  <2>3. DecodePacket(d, p, base) = Complete(d1, p.pid, g)
    BY <1>8, <1>9, <1>13, <2>1, <2>2
  <2> QED  BY <1>4, <1>11, <2>3
<1> QED  BY <1>12, <1>13

(* The packets of the tables, and of a stream the demuxer does not know.   *)
LEMMA ReadPat ==
    ASSUME NEW d \in Dmx, NEW p, p.pid = PAT_PID, p.pmt = PMT_PID, NEW base
    PROVE  LET r == DecodePacket(d, p, base)
           IN  /\ r \in Dmx
               /\ r.mPmtId = PMT_PID /\ r.mEsFrames = d.mEsFrames /\ r.out = d.out
<1>1. DecodePacket(d, p, base) = IF d.mPmtId = 0 THEN [d EXCEPT !.mPmtId = PMT_PID] ELSE d
  BY DmxFields DEF DecodePacket, EsPids, PAT_PID, PMT_PID, VIDEO_PID, AUDIO_PID
<1>2. CASE d.mPmtId = 0
  BY <1>1, <1>2 DEF Dmx
<1>3. CASE d.mPmtId # 0
  BY <1>1, <1>3 DEF Dmx
<1> QED  BY <1>2, <1>3

(* A packet of a stream the demuxer does not know yet is ignored.          *)
LEMMA ReadOther ==
    ASSUME NEW d \in Dmx, NEW p, NEW base, p.pid \in EsPids, p.pid \notin DOMAIN d.mEsFrames
    PROVE  DecodePacket(d, p, base) = d
BY DEF DecodePacket, EsPids, PAT_PID, PMT_PID, VIDEO_PID, AUDIO_PID

(* With PIDs of their own, PID and stream type determine each other.       *)
LEMMA PidMap ==
    ASSUME OwnPids, FramesOK
    PROVE  /\ config.types \subseteq StreamTypes
           /\ DOMAIN mStreamPidMap = config.types
           /\ \A t \in config.types : /\ t \in Nat
                                      /\ mStreamPidMap[t] \in EsPids
                                      /\ PidOf(t) = mStreamPidMap[t]
           /\ \A t, u \in config.types : mStreamPidMap[t] = mStreamPidMap[u] => t = u
           /\ config.types # {}
<1>1. config \in Configs /\ config.types \in (SUBSET StreamTypes) \ {{}}
  BY ConfigAssumption DEF FramesOK
<1>2. IF config.simple THEN \E t \in {AVC, HEVC} : config.types = {t}
      ELSE \A t, u \in config.types : (isVideo(t) <=> isVideo(u)) => t = u
  BY <1>1 DEF OwnPids
<1> USE DEF VIDEO_PID, AUDIO_PID, EsPids, StreamTypes, AVC, HEVC, AAC, OPUS
<1>3. \A t \in config.types : mStreamPidMap[t] = IF isVideo(t) THEN VIDEO_PID ELSE AUDIO_PID
  BY DEF mStreamPidMap
<1>4. CASE config.simple
  BY <1>1, <1>2, <1>3, <1>4 DEF mStreamPidMap, PidOf, isVideo
<1>5. CASE ~config.simple
  BY <1>1, <1>2, <1>3, <1>5 DEF mStreamPidMap, PidOf
<1> QED  BY <1>4, <1>5

(* What the PMT gives the demuxer: an empty EsFrame for each stream.       *)
LEMMA FromPmtIs ==
    ASSUME OwnPids, FramesOK
    PROVE  LET m == FromPmt(mStreamPidMap)
           IN  /\ DOMAIN m = {mStreamPidMap[t] : t \in config.types}
               /\ \A t \in config.types : m[mStreamPidMap[t]] = EsFrame(t)
<1>1. DOMAIN FromPmt(mStreamPidMap) = {mStreamPidMap[t] : t \in config.types}
  BY PidMap DEF FromPmt
<1>2. ASSUME NEW t \in config.types
      PROVE  FromPmt(mStreamPidMap)[mStreamPidMap[t]] = EsFrame(t)
  <2> DEFINE T == {u \in DOMAIN mStreamPidMap : mStreamPidMap[u] = mStreamPidMap[t]}
  <2>1. T = {t} /\ t \in Nat
    BY PidMap
  <2>2. Max(T) = t
    BY <2>1 DEF Max
  <2> HIDE DEF T
  <2>3. mStreamPidMap[t] \in {mStreamPidMap[u] : u \in DOMAIN mStreamPidMap}
    BY PidMap
  <2>4. FromPmt(mStreamPidMap)[mStreamPidMap[t]] = EsFrame(Max(T))
    BY <2>3 DEF FromPmt, T
  <2> QED  BY <2>2, <2>4
<1> QED  BY <1>1, <1>2

(* The first PMT: an empty EsFrame for each stream.                        *)
Fresh(d) ==
    /\ \A t \in config.types : mStreamPidMap[t] \in DOMAIN d.mEsFrames
    /\ \A pid \in DOMAIN d.mEsFrames :
          \E t \in config.types : mStreamPidMap[t] = pid /\ d.mEsFrames[pid] = EsFrame(t)

(* A PMT changes something only after a PAT, and only the first time.      *)
LEMMA ReadPmt ==
    ASSUME OwnPids, FramesOK, NEW d \in Dmx, NEW p, NEW base,
           p.pid = PMT_PID, p.infos = mStreamPidMap
    PROVE  LET r == DecodePacket(d, p, base)
           IN  /\ r \in Dmx
               /\ r.mPmtId = d.mPmtId /\ r.out = d.out
               /\ IF d.mPmtId = PMT_PID /\ DOMAIN d.mEsFrames = {}
                  THEN Fresh(r) ELSE r = d
<1> DEFINE m == FromPmt(mStreamPidMap)
<1>1. DecodePacket(d, p, base) = IF d.mPmtId = PMT_PID /\ DOMAIN d.mEsFrames = {}
                                 THEN [d EXCEPT !.mEsFrames = m] ELSE d
  <2>1. p.pid # PAT_PID /\ p.pid \notin DOMAIN d.mEsFrames
    BY DmxFields DEF EsPids, PAT_PID, PMT_PID, VIDEO_PID, AUDIO_PID
  <2> QED  BY <2>1 DEF DecodePacket
<1>2. /\ DOMAIN m = {mStreamPidMap[t] : t \in config.types}
      /\ \A t \in config.types : m[mStreamPidMap[t]] = EsFrame(t)
  BY FromPmtIs
<1>3. \A t \in config.types : EsFrame(t) \in Es /\ mStreamPidMap[t] \in EsPids
  BY PidMap DEF EsFrame, Es, NoFrame
<1>4. m = [pid \in DOMAIN m |-> m[pid]]
  BY DEF FromPmt
<1> HIDE DEF m
<1>5. \A pid \in DOMAIN m : m[pid] \in Es /\ pid \in EsPids
  BY <1>2, <1>3
<1>6. m \in [DOMAIN m -> Es] /\ DOMAIN m \in SUBSET EsPids
  BY <1>4, <1>5
<1>7. m \in UNION {[P -> Es] : P \in SUBSET EsPids}
  BY <1>6
<1>8. CASE d.mPmtId = PMT_PID /\ DOMAIN d.mEsFrames = {}
  <2> DEFINE r == DecodePacket(d, p, base)
  <2>1. r = [d EXCEPT !.mEsFrames = m]
    BY <1>1, <1>8
  <2> HIDE DEF r
  <2>2. r \in Dmx /\ r.mPmtId = d.mPmtId /\ r.out = d.out /\ r.mEsFrames = m
    BY <1>7, <2>1 DEF Dmx
  <2>3. Fresh(r)
    BY <1>2, <2>2 DEF Fresh
  <2> QED  BY <1>8, <2>2, <2>3 DEF r
<1>9. CASE ~(d.mPmtId = PMT_PID /\ DOMAIN d.mEsFrames = {})
  BY <1>1, <1>9
<1> QED  BY <1>8, <1>9

-----------------------------------------------------------------------------
(* One packet read, with at most frame h damaged.                          *)

(* The packets behind the first one are still a wire.                      *)
LEMMA WireStep ==
    ASSUME NEW s, NEW k \in Nat, NEW h, Len(s) \in Nat, WireOK(s, k), OthersWhole(s, k, h)
    PROVE  WireOK(s, k + 1) /\ OthersWhole(s, k + 1, h)
<1>1. \A j : j \in Ahead(s, k + 1) <=> j \in Ahead(s, k) /\ j # k + 1
  BY DEF Ahead
<1>2. WireOK(s, k + 1)
  BY <1>1 DEF WireOK
<1>3. OthersWhole(s, k + 1, h)
  <2> SUFFICES ASSUME NEW j \in Ahead(s, k + 1), Elementary(s[j]), s[j].id # h
               PROVE  /\ s[j].pusi \/ j = k + 1 + 1 \/ Joined(s[j - 1], s[j])
                      /\ Ends(s[j]) \/ (j + 1 \in Ahead(s, k + 1) /\ Joined(s[j], s[j + 1]))
    BY DEF OthersWhole
  <2>1. j \in Ahead(s, k) /\ j # k + 1 /\ j + 1 # k + 1
    BY <1>1 DEF Ahead
  <2> QED  BY <1>1, <2>1 DEF OthersWhole
<1> QED  BY <1>2, <1>3

(* The packets of a frame are all on its PID.                              *)
LEMMA SamePid ==
    ASSUME NEW s, NEW k \in Nat, WireOK(s, k), NEW i \in Ahead(s, k), NEW j \in Ahead(s, k),
           Elementary(s[i]), Elementary(s[j]), s[i].id = s[j].id
    PROVE  s[i].pid = s[j].pid
BY DEF WireOK, Packet, Pes, FrameOf

(* After a packet that the demuxer has no EsFrame for.                     *)
LEMMA HurtPass ==
    ASSUME FramesOK, NEW s, NEW k \in Nat, NEW h, Len(s) \in Nat, NEW d, Hurt(d, s, k, h),
           k + 1 <= Len(s),
           ~(Elementary(s[k + 1]) /\ s[k + 1].pid \in DOMAIN d.mEsFrames),
           NEW r \in Dmx, r.mEsFrames = d.mEsFrames, r.out = d.out
    PROVE  Hurt(r, s, k + 1, h)
<1>1. WireOK(s, k + 1) /\ OthersWhole(s, k + 1, h)
  BY WireStep DEF Hurt
<1>2. DmxOK(r) /\ UnbrokenWhole(r)
  BY DEF Hurt, DmxOK, UnbrokenWhole
<1>3. \A j : j \in Ahead(s, k + 1) => j \in Ahead(s, k)
  BY DEF Ahead
<1>4. k + 1 \in Ahead(s, k)
  BY DEF Ahead
<1>5. Gathering(r, s, k + 1, h)
  <2> SUFFICES ASSUME NEW pid \in DOMAIN d.mEsFrames,
                      d.mEsFrames[pid].mExpectedPayloadLength # 0,
                      d.mEsFrames[pid].id # h
               PROVE  FALSE
    BY <1>3 DEF Hurt, Gathering
  <2>1. /\ Elementary(s[k + 1]) /\ s[k + 1].id = d.mEsFrames[pid].id
        /\ frames[d.mEsFrames[pid].id].frame.pid = pid
    BY DEF Hurt, Gathering
  <2>2. s[k + 1].pid = pid
    BY <1>4, <2>1 DEF Hurt, WireOK, Packet, Pes, FrameOf
  <2> QED  BY <2>1, <2>2
<1>6. NextFits(r, s, k + 1, h)
  <2> SUFFICES ASSUME k + 1 + 1 \in Ahead(s, k + 1), Elementary(s[k + 1 + 1]),
                      ~s[k + 1 + 1].pusi, s[k + 1 + 1].id # h,
                      s[k + 1 + 1].pid \in DOMAIN d.mEsFrames
               PROVE  FALSE
    BY DEF NextFits
  <2>1. k + 1 + 1 \in Ahead(s, k) /\ k + 1 + 1 # k + 1 /\ k + 1 + 1 - 1 = k + 1
    BY <1>3
  <2>2. Joined(s[k + 1], s[k + 1 + 1])
    BY <2>1 DEF Hurt, OthersWhole
  <2>3. s[k + 1].pid = s[k + 1 + 1].pid
    BY <1>4, <2>1, <2>2, SamePid DEF Joined, Hurt
  <2> QED  BY <2>2, <2>3 DEF Joined
<1> QED  BY <1>1, <1>2, <1>5, <1>6 DEF Hurt

(* After a packet p of a stream the demuxer knows, for whose PID it now    *)
(* has e.                                                                  *)
Progress(e, p, h) ==
    IF e.mExpectedPayloadLength = 0 THEN e.mExpectedPesPacketLength = 0
    ELSE /\ e.id = p.id
         /\ e.mExpectedPayloadLength = FrameOf(p).size
         /\ e.mExpectedPesPacketLength > FrameOf(p).size
         /\ 0 < e.size /\ e.size < FrameOf(p).size
         /\ \/ e.size = p.from + p.n /\ e.intact
            \/ e.size < p.from + p.n /\ p.id = h

(* A packet of a known stream that makes progress in its frame keeps the   *)
(* invariant; the other streams' frames are not touched.                   *)
LEMMA HurtProgress ==
    ASSUME FramesOK, NEW s, NEW k \in Nat, NEW h, Len(s) \in Nat, NEW d, Hurt(d, s, k, h),
           k + 1 <= Len(s),
           Elementary(s[k + 1]), s[k + 1].pid \in DOMAIN d.mEsFrames,
           NEW r, NEW e \in Es, NEW o, Becomes(r, d, s[k + 1].pid, e, o),
           Progress(e, s[k + 1], h),
           e.mStreamType = d.mEsFrames[s[k + 1].pid].mStreamType,
           UnbrokenWhole(r)
    PROVE  Hurt(r, s, k + 1, h)
<1> DEFINE p == s[k + 1]
<1>1. WireOK(s, k + 1) /\ OthersWhole(s, k + 1, h)
  BY WireStep DEF Hurt
<1>2. \A j : j \in Ahead(s, k + 1) => j \in Ahead(s, k) /\ k + 1 < j
  BY DEF Ahead
<1>3. k + 1 \in Ahead(s, k) /\ Pes(p)
  BY DEF Ahead, Hurt, WireOK, Packet
<1>4. /\ p.from \in Nat /\ p.n \in Nat \ {0} /\ p.id \in DOMAIN frames /\ FrameOf(p).size \in Nat
      /\ FrameOf(p).pid = p.pid
  BY <1>3, FrameFields DEF Pes
<1>5. /\ r \in Dmx /\ r.out = o /\ DOMAIN r.mEsFrames = DOMAIN d.mEsFrames
      /\ r.mEsFrames[p.pid] = e
      /\ \A q \in DOMAIN d.mEsFrames : q # p.pid => r.mEsFrames[q] = d.mEsFrames[q]
      /\ e.size \in Nat
  BY DEF Becomes, Es
<1>6. DmxOK(r)
  <2>1. \A pid \in DOMAIN r.mEsFrames :
           r.mEsFrames[pid].mStreamType = d.mEsFrames[pid].mStreamType
    BY <1>5
  <2> QED  BY <1>5, <2>1 DEF Hurt, DmxOK
<1>7. ASSUME p.id # h, e.mExpectedPayloadLength # 0
      PROVE  k + 1 + 1 \in Ahead(s, k + 1) /\ Joined(p, s[k + 1 + 1])
  <2>1. ~Ends(p)
    BY <1>4, <1>5, <1>7 DEF Progress, Ends
  <2>2. k + 1 + 1 \in Ahead(s, k) /\ Joined(p, s[k + 1 + 1])
    BY <1>3, <1>7, <2>1 DEF Hurt, OthersWhole
  <2> QED  BY <2>2 DEF Ahead
<1>8. ASSUME p.id = h, e.mExpectedPayloadLength # 0,
             NEW j \in Ahead(s, k + 1), Elementary(s[j]), s[j].id = h
      PROVE  e.size < s[j].from \/ (e.size = s[j].from /\ e.intact)
  <2>1. s[j].from \in Nat /\ p.from + p.n <= s[j].from
    <3>1. j \in Ahead(s, k) /\ k + 1 < j
      BY <1>2
    <3>2. Pes(s[j]) /\ ~(p.id < s[j].id)
      BY <1>3, <1>4, <1>8, <3>1 DEF Hurt, WireOK, Packet, Pes, FramesOK
    <3>3. p.from + p.n <= s[j].from
      BY <1>3, <3>1, <3>2, <1>8 DEF Hurt, WireOK
    <3> QED  BY <3>2, <3>3 DEF Pes
  <2> QED  BY <1>4, <1>5, <1>8, <2>1 DEF Progress
<1>9. Gathering(r, s, k + 1, h)
  <2> SUFFICES ASSUME NEW pid \in DOMAIN d.mEsFrames
               PROVE  LET x == r.mEsFrames[pid]
                          f == frames[x.id].frame
                      IN  IF x.mExpectedPayloadLength = 0 THEN x.mExpectedPesPacketLength = 0
                          ELSE /\ x.id \in DOMAIN frames
                               /\ f.pid = pid
                               /\ x.mExpectedPayloadLength = f.size
                               /\ x.mExpectedPesPacketLength > f.size
                               /\ 0 < x.size /\ x.size < f.size
                               /\ x.id # h => /\ x.intact
                                              /\ k + 1 + 1 \in Ahead(s, k + 1)
                                              /\ Elementary(s[k + 1 + 1])
                                              /\ s[k + 1 + 1].id = x.id
                                              /\ s[k + 1 + 1].from = x.size
                               /\ x.id = h => \A j \in Ahead(s, k + 1) :
                                                 Elementary(s[j]) /\ s[j].id = h =>
                                                     \/ x.size < s[j].from
                                                     \/ x.size = s[j].from /\ x.intact
    BY <1>5 DEF Gathering
  <2>1. CASE pid = p.pid
    <3>1. CASE e.mExpectedPayloadLength = 0
      BY <1>5, <2>1, <3>1 DEF Progress
    <3>2. CASE e.mExpectedPayloadLength # 0
      <4>1. /\ e.id = p.id /\ e.mExpectedPayloadLength = FrameOf(p).size
            /\ e.mExpectedPesPacketLength > FrameOf(p).size
            /\ 0 < e.size /\ e.size < FrameOf(p).size
            /\ p.id # h => e.size = p.from + p.n /\ e.intact
        BY <3>2 DEF Progress
      <4>2. p.id # h => /\ k + 1 + 1 \in Ahead(s, k + 1)
                        /\ Elementary(s[k + 1 + 1])
                        /\ s[k + 1 + 1].id = e.id
                        /\ s[k + 1 + 1].from = e.size
        BY <1>7, <3>2, <4>1 DEF Joined
      <4>3. p.id = h => \A j \in Ahead(s, k + 1) :
                           Elementary(s[j]) /\ s[j].id = h =>
                               \/ e.size < s[j].from
                               \/ e.size = s[j].from /\ e.intact
        BY <1>8, <3>2
      <4> HIDE DEF p
      <4> QED  BY <1>4, <1>5, <2>1, <3>2, <4>1, <4>2, <4>3 DEF FrameOf
    <3> QED  BY <3>1, <3>2
  <2>2. CASE pid # p.pid
    <3>1. r.mEsFrames[pid] = d.mEsFrames[pid]
      BY <1>5, <2>2
    <3>2. CASE d.mEsFrames[pid].mExpectedPayloadLength = 0
      BY <3>1, <3>2 DEF Hurt, Gathering
    <3>3. CASE d.mEsFrames[pid].mExpectedPayloadLength # 0
      <4>1. d.mEsFrames[pid].id = h
        <5> SUFFICES ASSUME d.mEsFrames[pid].id # h PROVE FALSE
          OBVIOUS
        <5>1. p.id = d.mEsFrames[pid].id /\ frames[d.mEsFrames[pid].id].frame.pid = pid
          BY <3>3 DEF Hurt, Gathering
        <5> QED  BY <1>4, <2>2, <5>1 DEF FrameOf
      <4> QED  BY <1>2, <3>1, <3>3, <4>1 DEF Hurt, Gathering
    <3> QED  BY <3>2, <3>3
  <2> QED  BY <2>1, <2>2
<1>10. NextFits(r, s, k + 1, h)
  <2> SUFFICES ASSUME k + 1 + 1 \in Ahead(s, k + 1), Elementary(s[k + 1 + 1]),
                      ~s[k + 1 + 1].pusi, s[k + 1 + 1].id # h,
                      s[k + 1 + 1].pid \in DOMAIN r.mEsFrames,
                      r.mEsFrames[s[k + 1 + 1].pid].mExpectedPayloadLength # 0
               PROVE  r.mEsFrames[s[k + 1 + 1].pid].id = s[k + 1 + 1].id
    BY DEF NextFits
  <2>1. k + 1 + 1 \in Ahead(s, k) /\ k + 1 + 1 # k + 1 /\ k + 1 + 1 - 1 = k + 1
    BY <1>2
  <2>2. Joined(p, s[k + 1 + 1])
    BY <2>1 DEF Hurt, OthersWhole
  <2>3. p.pid = s[k + 1 + 1].pid
    BY <1>3, <2>1, <2>2, SamePid DEF Joined, Hurt
  <2> QED  BY <1>5, <2>2, <2>3 DEF Joined, Progress
<1> QED  BY <1>1, <1>6, <1>9, <1>10 DEF Hurt

(* The stream type of a frame is the one the demuxer has for its PID.      *)
LEMMA TypeKnown ==
    ASSUME OwnPids, FramesOK, NEW d, DmxOK(d), NEW p, Pes(p), p.pid \in DOMAIN d.mEsFrames
    PROVE  d.mEsFrames[p.pid].mStreamType = FrameOf(p).type
<1> DEFINE t == d.mEsFrames[p.pid].mStreamType
<1>1. t \in config.types /\ mStreamPidMap[t] = p.pid
  BY DEF DmxOK
<1>2. FrameOf(p).type \in config.types /\ mStreamPidMap[FrameOf(p).type] = p.pid
  BY DEF Pes, FramesOK, FrameOf
<1> HIDE DEF t
<1> QED  BY <1>1, <1>2, PidMap DEF t

(* One more frame may be handed over if it is broken or whole.             *)
LEMMA UnbrokenMore ==
    ASSUME NEW d \in Dmx, UnbrokenWhole(d), NEW o \in Handed,
           ~o.broken => /\ o.id \in DOMAIN frames
                        /\ Whole(o, frames[o.id].frame)
                        /\ o.type = frames[o.id].frame.type,
           NEW r, r.out = Append(d.out, o)
    PROVE  UnbrokenWhole(r)
<1>1. d.out \in Seq(Handed)
  BY DmxFields
<1>2. /\ DOMAIN d.out = 1..Len(d.out) /\ Len(d.out) \in Nat
      /\ DOMAIN r.out = 1..(Len(d.out) + 1)
      /\ r.out[Len(d.out) + 1] = o
      /\ \A i \in 1..Len(d.out) : r.out[i] = d.out[i]
  BY <1>1
<1>3. \A i \in DOMAIN r.out : i \in DOMAIN d.out \/ i = Len(d.out) + 1
  BY <1>2
<1> QED  BY <1>2, <1>3 DEF UnbrokenWhole

(* The first packet of a frame keeps the invariant.                        *)
LEMMA HurtStart ==
    ASSUME OwnPids, FramesOK, NEW s, NEW k \in Nat, NEW h, Len(s) \in Nat, NEW d,
           Hurt(d, s, k, h), k + 1 <= Len(s), NEW base \in Nat,
           Elementary(s[k + 1]), s[k + 1].pid \in DOMAIN d.mEsFrames, s[k + 1].pusi
    PROVE  Hurt(DecodePacket(d, s[k + 1], base), s, k + 1, h)
<1> DEFINE p == s[k + 1]
           e == d.mEsFrames[p.pid]
           g == Started(e, p)
           r == DecodePacket(d, p, base)
           f == FrameOf(p)
<1>1. Pes(p) /\ d \in Dmx /\ DmxOK(d) /\ UnbrokenWhole(d)
  <2>1. k + 1 \in Ahead(s, k)
    BY DEF Ahead
  <2> QED  BY <2>1 DEF Hurt, WireOK, Packet, DmxOK
<1>2. /\ p.from = 0 /\ p.n \in Nat \ {0} /\ p.n <= f.size /\ f.size \in Nat
      /\ p.id \in DOMAIN frames /\ f \in Frame /\ f.id = p.id
      /\ p.len = mPesPacketLength(f)
  <2>1. /\ f.size \in Nat /\ p.id \in DOMAIN frames /\ f \in Frame /\ f.id = p.id
    BY <1>1, FrameFields
  <2> HIDE DEF p, f
  <2> QED  BY <1>1, <2>1 DEF Pes, f, p
<1>3. e \in Es /\ e.mStreamType = f.type
  BY <1>1, DmxFields, TypeKnown
<1>4. /\ g \in Es
      /\ IF g.size = g.mExpectedPayloadLength
         THEN Becomes(r, d, p.pid, reset(g), Append(CutOut(d, e, p), AsHanded(g, FALSE)))
         ELSE Becomes(r, d, p.pid, g, CutOut(d, e, p))
  BY <1>1, ReadStart
<1>5. /\ g.id = p.id /\ g.size = p.n /\ g.intact = TRUE /\ g.mStreamType = f.type
      /\ g.mExpectedPesPacketLength = p.len
      /\ g.mExpectedPayloadLength = IF p.len = 0 THEN 0 ELSE f.size
  BY <1>3 DEF Started, Es
<1>6. /\ CutOut(d, e, p) \in Seq(Handed)
      /\ \A x : x = [d EXCEPT !.out = CutOut(d, e, p)] =>
            x \in Dmx /\ x.out = CutOut(d, e, p) /\ UnbrokenWhole(x)
  <2> DEFINE old == [e EXCEPT !.mRandomAccess = p.rai]
  <2>1. CASE e.size > 0
    <3>1. old \in Es
      BY <1>1, <1>3, StartedEs
    <3>2. /\ AsHanded(old, TRUE) \in Handed
          /\ Append(d.out, AsHanded(old, TRUE)) \in Seq(Handed)
      BY <1>1, <3>1, HandedMake
    <3>3. CutOut(d, e, p) = Append(d.out, AsHanded(old, TRUE))
      BY <2>1 DEF CutOut
    <3>4. AsHanded(old, TRUE).broken
      BY DEF AsHanded
    <3> SUFFICES ASSUME NEW x, x = [d EXCEPT !.out = CutOut(d, e, p)]
                 PROVE  x \in Dmx /\ x.out = CutOut(d, e, p) /\ UnbrokenWhole(x)
      BY <3>2, <3>3
    <3>5. x \in Dmx /\ x.out = CutOut(d, e, p)
      BY <1>1, <3>2, <3>3 DEF Dmx
    <3> HIDE DEF old, e, p
    <3> QED  BY <1>1, <3>2, <3>3, <3>4, <3>5, UnbrokenMore
  <2>2. CASE ~(e.size > 0)
    BY <1>1, <2>2, DmxFields DEF CutOut, UnbrokenWhole, Dmx
  <2> QED  BY <2>1, <2>2
<1> DEFINE x == [d EXCEPT !.out = CutOut(d, e, p)]
<1>7. x \in Dmx /\ x.out = CutOut(d, e, p) /\ UnbrokenWhole(x)
  BY <1>6
<1> HIDE DEF x
<1>8. CASE g.size = g.mExpectedPayloadLength
  <2> DEFINE o == AsHanded(g, FALSE)
  <2>1. Becomes(r, d, p.pid, reset(g), Append(x.out, o))
    BY <1>4, <1>7, <1>8
  <2>2. o \in Handed
    BY <1>1, <1>4, HandedMake
  <2>3. /\ o.id = p.id /\ o.size = f.size /\ o.intact /\ o.type = f.type
    BY <1>2, <1>5, <1>8 DEF AsHanded
  <2>4. Whole(o, f)
    BY <1>2, <2>3 DEF Whole
  <2> HIDE DEF o, g, r
  <2>5. UnbrokenWhole(r)
    <3>1. r.out = Append(x.out, o)
      BY <2>1 DEF Becomes
    <3>2. ~o.broken => /\ o.id \in DOMAIN frames
                       /\ Whole(o, frames[o.id].frame)
                       /\ o.type = frames[o.id].frame.type
      BY <1>2, <2>3, <2>4 DEF FrameOf
    <3> QED  BY <1>7, <2>2, <3>1, <3>2, UnbrokenMore
  <2>6. /\ reset(g) \in Es /\ reset(g).mExpectedPayloadLength = 0
        /\ reset(g).mExpectedPesPacketLength = 0
        /\ reset(g).mStreamType = e.mStreamType
    BY <1>3, <1>4, <1>5 DEF reset, Es, NoFrame
  <2>7. Progress(reset(g), p, h)
    BY <2>6 DEF Progress
  <2> HIDE DEF p, e
  <2> QED  BY <2>1, <2>5, <2>6, <2>7, HurtProgress DEF r, p, e
<1>9. CASE g.size # g.mExpectedPayloadLength
  <2>1. Becomes(r, d, p.pid, g, x.out)
    BY <1>4, <1>7, <1>9
  <2>2. UnbrokenWhole(r)
    BY <1>7, <2>1 DEF Becomes, UnbrokenWhole
  <2>3. Progress(g, p, h)
    <3>1. CASE p.len = 0
      BY <1>5, <3>1 DEF Progress
    <3>2. CASE p.len # 0
      <4>1. p.len > f.size
        BY <1>2, <3>2, StatedLength
      <4> HIDE DEF g, p, f
      <4> QED  BY <1>2, <1>5, <1>9, <3>2, <4>1 DEF Progress, f
    <3> QED  BY <3>1, <3>2
  <2>4. g.mStreamType = e.mStreamType
    BY <1>3, <1>5
  <2> HIDE DEF g, r, p, e
  <2> QED  BY <1>4, <2>1, <2>2, <2>3, <2>4, HurtProgress DEF r, p, e
<1> QED  BY <1>8, <1>9

(* A further packet of a frame keeps the invariant.                        *)
LEMMA HurtMore ==
    ASSUME OwnPids, FramesOK, NEW s, NEW k \in Nat, NEW h, Len(s) \in Nat, NEW d,
           Hurt(d, s, k, h), k + 1 <= Len(s), NEW base \in Nat,
           Elementary(s[k + 1]), s[k + 1].pid \in DOMAIN d.mEsFrames, ~s[k + 1].pusi
    PROVE  Hurt(DecodePacket(d, s[k + 1], base), s, k + 1, h)
<1> DEFINE p == s[k + 1]
           e == d.mEsFrames[p.pid]
           g == Gathered(e, p)
           r == DecodePacket(d, p, base)
           f == FrameOf(p)
<1>0. k + 1 \in Ahead(s, k)
  BY DEF Ahead
<1>1. Pes(p) /\ d \in Dmx /\ DmxOK(d) /\ UnbrokenWhole(d)
  BY <1>0 DEF Hurt, WireOK, Packet, DmxOK
<1>2. /\ f.size \in Nat /\ p.id \in DOMAIN frames /\ p.id \in Nat /\ f.id = p.id
  BY <1>1, FrameFields
<1>3. p.from \in Nat /\ p.n \in Nat \ {0} /\ p.from + p.n <= f.size
  BY <1>1 DEF Pes
<1>4. /\ e \in Es /\ e.mStreamType = f.type
      /\ e.size \in Nat /\ e.mExpectedPesPacketLength \in Nat /\ e.intact \in BOOLEAN
  BY <1>1, DmxFields, TypeKnown DEF Es
<1>5. e.mExpectedPayloadLength = 0 => e.mExpectedPesPacketLength = 0
  BY DEF Hurt, Gathering
<1>6. ASSUME e.mExpectedPayloadLength # 0
      PROVE  /\ e.id = p.id
             /\ e.mExpectedPayloadLength = f.size
             /\ e.mExpectedPesPacketLength > f.size
             /\ 0 < e.size /\ e.size < f.size
             /\ \/ e.size = p.from /\ e.intact
                \/ e.size < p.from /\ p.id = h
  <2>1. /\ e.id # h => /\ e.intact /\ p.id = e.id /\ p.from = e.size
        /\ e.id = h => \A j \in Ahead(s, k) :
                           Elementary(s[j]) /\ s[j].id = h =>
                               \/ e.size < s[j].from
                               \/ e.size = s[j].from /\ e.intact
        /\ e.mExpectedPayloadLength = frames[e.id].frame.size
        /\ e.mExpectedPesPacketLength > frames[e.id].frame.size
        /\ 0 < e.size /\ e.size < frames[e.id].frame.size
    BY <1>6 DEF Hurt, Gathering
  <2>2. e.id = p.id
    BY <1>0, <1>6, <2>1 DEF Hurt, NextFits
  <2>3. \/ e.size = p.from /\ e.intact
        \/ e.size < p.from /\ p.id = h
    BY <1>0, <2>1, <2>2
  <2> QED  BY <2>1, <2>2, <2>3 DEF FrameOf
<1> HIDE DEF p, e, f
<1>7. \/ e.mExpectedPesPacketLength = 0
      \/ e.size + p.n <= e.mExpectedPesPacketLength
  BY <1>2, <1>3, <1>4, <1>5, <1>6
<1>8. /\ g \in Es
      /\ IF g.size = g.mExpectedPayloadLength
         THEN Becomes(r, d, p.pid, reset(g), Append(d.out, AsHanded(g, FALSE)))
         ELSE Becomes(r, d, p.pid, g, d.out)
  BY <1>1, <1>7, ReadMore DEF e, p
<1>9. /\ g.id = (IF e.size = 0 THEN p.id ELSE e.id) /\ g.size = e.size + p.n
      /\ g.intact = (e.intact /\ (e.size > 0 => e.id = p.id) /\ p.from = e.size)
      /\ g.mStreamType = e.mStreamType
      /\ g.mExpectedPesPacketLength = e.mExpectedPesPacketLength
      /\ g.mExpectedPayloadLength = e.mExpectedPayloadLength
  BY <1>4 DEF Gathered, Es
<1> HIDE DEF g
<1>10. CASE g.size = g.mExpectedPayloadLength
  <2> DEFINE o == AsHanded(g, FALSE)
  <2>0. e.mExpectedPayloadLength # 0
    BY <1>3, <1>4, <1>9, <1>10
  <2>1. /\ e.id = p.id /\ e.size > 0 /\ e.size + p.n = f.size
        /\ e.size = p.from /\ e.intact
    BY <1>2, <1>3, <1>4, <1>6, <1>9, <1>10, <2>0
  <2>2. o \in Handed
    BY <1>1, <1>8, HandedMake
  <2>3. /\ o.id = p.id /\ o.size = f.size /\ o.intact /\ o.type = f.type
    BY <1>4, <1>9, <2>1 DEF AsHanded
  <2>4. Whole(o, f)
    BY <1>2, <2>3 DEF Whole
  <2>5. Becomes(r, d, p.pid, reset(g), Append(d.out, o))
    BY <1>8, <1>10
  <2> HIDE DEF o, r
  <2>6. UnbrokenWhole(r)
    <3>1. r.out = Append(d.out, o)
      BY <2>5 DEF Becomes
    <3>2. ~o.broken => /\ o.id \in DOMAIN frames
                       /\ Whole(o, frames[o.id].frame)
                       /\ o.type = frames[o.id].frame.type
      BY <1>2, <2>3, <2>4 DEF FrameOf, f
    <3> QED  BY <1>1, <2>2, <3>1, <3>2, UnbrokenMore
  <2>7. /\ reset(g) \in Es /\ reset(g).mExpectedPayloadLength = 0
        /\ reset(g).mExpectedPesPacketLength = 0
        /\ reset(g).mStreamType = e.mStreamType
    BY <1>8, <1>9 DEF reset, Es, NoFrame
  <2>8. Progress(reset(g), p, h)
    BY <2>7 DEF Progress
  <2> QED  BY <2>5, <2>6, <2>7, <2>8, HurtProgress DEF r, p, e
<1>11. CASE g.size # g.mExpectedPayloadLength
  <2>1. Becomes(r, d, p.pid, g, d.out)
    BY <1>8, <1>11
  <2>2. UnbrokenWhole(r)
    BY <1>1, <2>1 DEF Becomes, UnbrokenWhole
  <2>3. Progress(g, p, h)
    <3>1. CASE e.mExpectedPayloadLength = 0
      BY <1>5, <1>9, <3>1 DEF Progress
    <3>2. CASE e.mExpectedPayloadLength # 0
      <4>1. /\ e.id = p.id /\ 0 < e.size /\ e.mExpectedPayloadLength = f.size
            /\ e.mExpectedPesPacketLength > f.size
            /\ (e.size = p.from /\ e.intact) \/ (e.size < p.from /\ p.id = h)
        BY <1>6, <3>2
      <4>2. g.id = p.id /\ g.mExpectedPayloadLength = f.size /\ g.mExpectedPesPacketLength > f.size
        BY <1>4, <1>9, <4>1
      <4>3. 0 < g.size /\ g.size < f.size
        BY <1>2, <1>3, <1>4, <1>9, <1>11, <4>1, SMTT(30)
      <4>4. CASE e.size = p.from /\ e.intact
        <5>1. g.size = p.from + p.n /\ g.intact
          BY <1>9, <4>1, <4>4
        <5> QED  BY <1>9, <3>2, <4>2, <4>3, <5>1 DEF Progress, f
      <4>5. CASE e.size < p.from /\ p.id = h
        <5>1. g.size < p.from + p.n
          BY <1>3, <1>4, <1>9, <4>5
        <5> QED  BY <1>9, <3>2, <4>2, <4>3, <4>5, <5>1 DEF Progress, f
      <4> QED  BY <4>1, <4>4, <4>5
    <3> QED  BY <3>1, <3>2
  <2>4. g.mStreamType = e.mStreamType
    BY <1>9
  <2> HIDE DEF r
  <2> QED  BY <1>8, <2>1, <2>2, <2>3, <2>4, HurtProgress DEF r, p, e
<1> QED  BY <1>10, <1>11

(* One turn of decode's loop.                                              *)
LEMMA HurtStep ==
    ASSUME OwnPids, FramesOK, NEW s, NEW k \in Nat, NEW h, Len(s) \in Nat, NEW d,
           Hurt(d, s, k, h), k + 1 <= Len(s), NEW base \in Nat
    PROVE  Hurt(DecodePacket(d, s[k + 1], base), s, k + 1, h)
<1> DEFINE p == s[k + 1]
           r == DecodePacket(d, p, base)
<1>1. Packet(p) /\ d \in Dmx /\ DmxOK(d)
  <2>1. k + 1 \in Ahead(s, k)
    BY DEF Ahead
  <2> QED  BY <2>1 DEF Hurt, WireOK, DmxOK
<1>2. CASE Elementary(p) /\ p.pid \in DOMAIN d.mEsFrames
  BY <1>2, HurtStart, HurtMore
<1>3. CASE Elementary(p) /\ p.pid \notin DOMAIN d.mEsFrames
  <2>1. r = d
    BY <1>1, <1>3, ReadOther DEF Elementary
  <2> QED  BY <1>1, <1>3, <2>1, HurtPass
<1>4. CASE p.pid = PAT_PID
  <2>1. ~Elementary(p)
    BY <1>4 DEF Elementary, EsPids, PAT_PID, VIDEO_PID, AUDIO_PID
  <2>2. r \in Dmx /\ r.mEsFrames = d.mEsFrames /\ r.out = d.out
    BY <1>1, <1>4, ReadPat DEF Packet
  <2> HIDE DEF r
  <2> QED  BY <2>1, <2>2, HurtPass DEF r
<1>5. CASE p.pid = PMT_PID
  <2>1. ~Elementary(p)
    BY <1>5 DEF Elementary, EsPids, PMT_PID, VIDEO_PID, AUDIO_PID
  <2>2. /\ r \in Dmx /\ r.mPmtId = d.mPmtId /\ r.out = d.out
        /\ IF d.mPmtId = PMT_PID /\ DOMAIN d.mEsFrames = {} THEN Fresh(r) ELSE r = d
    BY <1>1, <1>5, ReadPmt DEF Packet
  <2> HIDE DEF r, p
  <2>3. CASE r = d
    BY <1>1, <2>1, <2>3, HurtPass DEF r, p
  <2>4. CASE Fresh(r)
    <3>1. WireOK(s, k + 1) /\ OthersWhole(s, k + 1, h)
      BY WireStep DEF Hurt
    <3>2. \A pid \in DOMAIN r.mEsFrames :
             /\ r.mEsFrames[pid].mExpectedPayloadLength = 0
             /\ r.mEsFrames[pid].mExpectedPesPacketLength = 0
             /\ r.mEsFrames[pid].mStreamType \in config.types
             /\ mStreamPidMap[r.mEsFrames[pid].mStreamType] = pid
      <4> SUFFICES ASSUME NEW pid \in DOMAIN r.mEsFrames
                   PROVE  /\ r.mEsFrames[pid].mExpectedPayloadLength = 0
                          /\ r.mEsFrames[pid].mExpectedPesPacketLength = 0
                          /\ r.mEsFrames[pid].mStreamType \in config.types
                          /\ mStreamPidMap[r.mEsFrames[pid].mStreamType] = pid
        OBVIOUS
      <4>1. PICK t \in config.types : mStreamPidMap[t] = pid /\ r.mEsFrames[pid] = EsFrame(t)
        BY <2>4 DEF Fresh
      <4>2. /\ EsFrame(t).mExpectedPayloadLength = 0
            /\ EsFrame(t).mExpectedPesPacketLength = 0
            /\ EsFrame(t).mStreamType = t
        BY DEF EsFrame
      <4> QED  BY <4>1, <4>2
    <3>3. DmxOK(r)
      BY <2>2, <2>4, <3>2 DEF DmxOK, Fresh
    <3>4. UnbrokenWhole(r)
      BY <2>2 DEF UnbrokenWhole, Hurt
    <3>5. Gathering(r, s, k + 1, h) /\ NextFits(r, s, k + 1, h)
      BY <3>2 DEF Gathering, NextFits
    <3>6. Hurt(r, s, k + 1, h)
      BY <3>1, <3>3, <3>4, <3>5 DEF Hurt
    <3> QED  BY <3>6 DEF r, p
  <2> QED  BY <2>2, <2>3, <2>4
<1>6. Elementary(p) \/ p.pid = PAT_PID \/ p.pid = PMT_PID
  BY <1>1 DEF Packet, Pids, Elementary, EsPids
<1> QED  BY <1>2, <1>3, <1>4, <1>5, <1>6

-----------------------------------------------------------------------------
(* The packets of one frame.                                               *)

(* Multiplication is monotonic.                                            *)
LEMMA MulLess ==
    ASSUME NEW a \in Nat, NEW b \in Nat, a <= b, NEW r \in Nat
    PROVE  a * r <= b * r /\ a * r \in Nat /\ b * r \in Nat
<1>1. PICK c \in Nat : b = a + c
  <2>1. b - a \in Nat /\ b = a + (b - a)
    OBVIOUS
  <2> QED  BY <2>1
<1>2. a * r \in Nat /\ b * r \in Nat /\ c * r \in Nat
  OBVIOUS
<1>3. (a + c) * r = a * r + c * r
  OBVIOUS
<1> QED  BY <1>1, <1>2, <1>3

(* Later packets carry later bytes.                                        *)
LEMMA OffsetGrows ==
    ASSUME NEW f \in Frame, NEW i \in Nat \ {0}, NEW j \in Nat \ {0}, i <= j
    PROVE  Offset(f, i) <= Offset(f, j)
<1> DEFINE b == lBodySize(f, 1)  r == lBodySize(f, 2)
<1>1. b \in Nat /\ r \in Nat
  BY HeaderFits
<1>2. CASE i = 1
  <2>1. Offset(f, i) = 0 /\ Offset(f, j) \in Nat
    BY <1>2, OffsetNext DEF Offset
  <2> QED  BY <2>1
<1>3. CASE i # 1
  <2>1. Offset(f, i) = b + (i - 2) * r /\ Offset(f, j) = b + (j - 2) * r
    BY <1>3 DEF Offset
  <2>2. i - 2 \in Nat /\ j - 2 \in Nat /\ i - 2 <= j - 2
    BY <1>3
  <2> HIDE DEF b, r
  <2>3. (i - 2) * r <= (j - 2) * r /\ (i - 2) * r \in Nat /\ (j - 2) * r \in Nat
    BY <1>1, <2>2, MulLess
  <2> QED  BY <1>1, <2>1, <2>3
<1> QED  BY <1>2, <1>3

(* createPes goes through the loop until the frame is used up, no longer.  *)
LEMMA PacketRange ==
    ASSUME NEW f \in Frame, f.size > 0
    PROVE  /\ Packets(f) \in Nat \ {0}
           /\ Offset(f, Packets(f)) < f.size
           /\ f.size <= Offset(f, Packets(f) + 1)
<1> DEFINE b == lBodySize(f, 1)  r == lBodySize(f, 2)  n == Packets(f)
<1>1. b \in Nat \ {0} /\ r \in Nat \ {0} /\ f.size \in Nat \ {0}
  BY HeaderFits DEF Frame
<1>2. CASE f.size <= b
  <2>1. n = 1
    BY <1>1, <1>2 DEF Packets
  <2>2. Offset(f, 1) = 0 /\ Offset(f, 1 + 1) = 0 + b
    BY OffsetNext DEF Offset
  <2> QED  BY <1>1, <1>2, <2>1, <2>2
<1>3. CASE f.size > b
  <2> DEFINE x == f.size - b + r - 1  q == x \div r
  <2>1. x \in Nat /\ x >= r
    BY <1>1, <1>3
  <2>2. x = r * q + (x % r) /\ x % r \in 0..(r - 1) /\ q \in Nat
    BY <1>1, <2>1, DivMod
  <2>3. n = 1 + q
    BY <1>1, <1>3 DEF Packets
  <2> HIDE DEF q, x, b, r, n
  <2>4. q # 0
    BY <1>1, <2>1, <2>2
  <2>5. q * r = r * q /\ r * q \in Nat /\ (q - 1) * r = r * q - r
    BY <1>1, <2>2
  <2>6. x = f.size - b + r - 1
    BY DEF x
  <2>7. Offset(f, n) < f.size
    <3>1. CASE q = 0
      BY <2>4, <3>1
    <3>2. CASE q # 0
      <4>1. Offset(f, n) = b + (q - 1) * r
        <5>1. n # 1 /\ n - 2 = q - 1
          BY <2>2, <2>3, <3>2
        <5> QED  BY <5>1 DEF Offset, b, r
      <4>2. r * q <= f.size - b + r - 1
        BY <1>1, <2>2, <2>5, <2>6
      <4> QED  BY <1>1, <2>5, <4>1, <4>2
    <3> QED  BY <3>1, <3>2
  <2>8. Offset(f, n + 1) = b + q * r
    <3> DEFINE y == n + 1
    <3>1. y # 1 /\ y - 2 = q
      BY <2>2, <2>3, <2>4
    <3> HIDE DEF y
    <3>2. Offset(f, y) = b + (y - 2) * r
      BY <3>1 DEF Offset, b, r
    <3> QED  BY <3>1, <3>2 DEF y
  <2>9. f.size <= Offset(f, n + 1)
    <3>1. f.size - b + r - 1 < r * q + r
      BY <1>1, <2>2, <2>5, <2>6
    <3> QED  BY <1>1, <2>5, <2>8, <3>1
  <2> QED  BY <2>2, <2>3, <2>7, <2>9 DEF n
<1> QED  BY <1>1, <1>2, <1>3

(* LayoutSound, for a packet of createPes field by field.                  *)
LEMMA PacketIs ==
    ASSUME NEW f \in Frame, NEW i \in 1..Packets(f), NEW cc
    PROVE  LET p == PesPacket(f, i, cc)
           IN  /\ p.pid = f.pid /\ p.id = f.id
               /\ p.pusi \in BOOLEAN /\ (p.pusi <=> i = 1)
               /\ p.from = Offset(f, i)
               /\ p.from \in Nat /\ p.n \in Nat \ {0} /\ p.at \in Nat
               /\ p.pusi <=> p.from = 0
               /\ p.from + p.n <= f.size
               /\ p.at = IF p.pusi THEN PesEnd(p) ELSE FieldEnd(p)
               /\ p.at + p.n = PacketSize
               /\ p.len = mPesPacketLength(f) /\ p.hdr = mHeaderDataLength(f)
               /\ p.pts = f.pts % 8 /\ p.dts = f.dts % 8
               /\ p.rai = (p.pusi /\ f.key)
               /\ IF i < Packets(f) THEN p.from + p.n = Offset(f, i + 1) /\ p.from + p.n < f.size
                                    ELSE p.from + p.n = f.size
<1> DEFINE p == PesPacket(f, i, cc)  p0 == PesPacket(f, i, 0)
<1>1. f.size \in Nat /\ f.size > 0 /\ Packets(f) \in Nat /\ i \in Nat \ {0} /\ f.key \in BOOLEAN
  BY PacketsNat DEF Frame, Packets
<1>2. /\ Offset(f, Packets(f)) < f.size /\ f.size <= Offset(f, Packets(f) + 1)
      /\ Offset(f, Packets(f)) \in Nat /\ Offset(f, Packets(f) + 1) \in Nat
  BY <1>1, PacketRange, OffsetNext
<1>3. Offset(f, i) <= Offset(f, Packets(f)) /\ Offset(f, i) \in Nat /\ Offset(f, i + 1) \in Nat
  BY <1>1, OffsetGrows, OffsetNext
<1>4. Offset(f, i) < f.size
  BY <1>1, <1>2, <1>3
<1>5. Sound(f, i)
  BY <1>1, <1>4, LayoutSound
<1>6. /\ p0.at = IF p0.pusi THEN PesEnd(p0) ELSE FieldEnd(p0)
      /\ p0.n \in Nat \ {0} /\ p0.at + p0.n = PacketSize
      /\ \/ p0.from + p0.n = Offset(f, i + 1) /\ Offset(f, i + 1) <= f.size
         \/ p0.from + p0.n = f.size /\ f.size < Offset(f, i + 1)
  BY <1>5 DEF Sound
<1>7. /\ p.pid = f.pid /\ p.id = f.id
      /\ p.pusi = (i = 1)
      /\ p.from = Offset(f, i)
      /\ p.len = mPesPacketLength(f) /\ p.hdr = mHeaderDataLength(f)
      /\ p.pts = f.pts % 8 /\ p.dts = f.dts % 8
      /\ p.rai = (i = 1 /\ f.key)
      /\ p.at = p0.at /\ p.n = p0.n /\ p.from = p0.from /\ p.pusi = p0.pusi
      /\ p.afl = p0.afl /\ p.pcr = p0.pcr /\ p.hdr = p0.hdr
      /\ p.at = HeaderSize(f, i) + lStuffSize(f, i)
  BY DEF PesPacket
<1>8. PesEnd(p) = PesEnd(p0) /\ FieldEnd(p) = FieldEnd(p0)
  <2> HIDE DEF p, p0
  <2> QED  BY <1>7 DEF PesEnd, FieldEnd
<1>9. p.at \in Nat
  <2>1. HeaderSize(f, i) \in Nat /\ lStuffSize(f, i) \in Nat
    BY <1>1, <1>3, HeaderFits DEF lStuffSize, lInSize
  <2> QED  BY <1>7, <2>1
<1> HIDE DEF p, p0
<1>10. p.pusi <=> p.from = 0
  <2>1. CASE i = 1
    BY <1>7, <2>1 DEF Offset
  <2>2. CASE i # 1
    <3>1. /\ lBodySize(f, 1) \in Nat \ {0} /\ Offset(f, 1) \in Nat
          /\ Offset(f, 1 + 1) = Offset(f, 1) + lBodySize(f, 1)
      BY HeaderFits, OffsetNext
    <3>2. Offset(f, 1 + 1) <= Offset(f, i)
      BY <1>1, <2>2, OffsetGrows
    <3>3. Offset(f, i) # 0
      BY <1>3, <3>1, <3>2
    <3> QED  BY <1>7, <2>2, <3>3
  <2> QED  BY <2>1, <2>2
<1>11. /\ p.pid = f.pid /\ p.id = f.id
       /\ p.pusi \in BOOLEAN /\ (p.pusi <=> i = 1)
       /\ p.from = Offset(f, i)
       /\ p.from \in Nat /\ p.n \in Nat \ {0} /\ p.at \in Nat
       /\ p.at = IF p.pusi THEN PesEnd(p) ELSE FieldEnd(p)
       /\ p.at + p.n = PacketSize
       /\ p.len = mPesPacketLength(f) /\ p.hdr = mHeaderDataLength(f)
       /\ p.pts = f.pts % 8 /\ p.dts = f.dts % 8
       /\ p.rai = (p.pusi /\ f.key)
  BY <1>3, <1>6, <1>7, <1>8, <1>9
<1>12. CASE i < Packets(f)
  <2>1. i + 1 \in Nat \ {0} /\ i + 1 <= Packets(f) /\ Packets(f) \in Nat \ {0}
    BY <1>1, <1>12
  <2>2. Offset(f, i + 1) <= Offset(f, Packets(f))
    BY <2>1, OffsetGrows
  <2>3. p.from + p.n = Offset(f, i + 1) /\ p.from + p.n < f.size
    BY <1>1, <1>2, <1>3, <1>6, <1>7, <2>2
  <2>4. p.from + p.n <= f.size
    BY <1>1, <1>11, <2>3
  <2> QED  BY <1>10, <1>12, <1>11, <2>3, <2>4 DEF p
<1>13. CASE i = Packets(f)
  <2>1. p.from + p.n = f.size
    BY <1>1, <1>2, <1>3, <1>6, <1>7, <1>13
  <2>2. p.from + p.n <= f.size /\ ~(i < Packets(f))
    BY <1>1, <1>13, <2>1
  <2> QED  BY <1>10, <1>11, <2>1, <2>2 DEF p
<1> QED  BY <1>1, <1>12, <1>13

-----------------------------------------------------------------------------
(* Sequences.                                                              *)

(* A sequence is a sequence of its own elements.                           *)
LEMMA SeqIsSeq ==
    ASSUME NEW S, NEW s \in Seq(S)
    PROVE  IsSeq(s) /\ Len(s) \in Nat /\ DOMAIN s = 1..Len(s)
<1>1. Len(s) \in Nat /\ DOMAIN s = 1..Len(s) /\ s \in [1..Len(s) -> S]
  OBVIOUS
<1> DEFINE T == {s[i] : i \in DOMAIN s}
<1>2. s \in [1..Len(s) -> T]
  BY <1>1
<1>3. s \in Seq(T)
  <2> HIDE DEF T
  <2> QED  BY <1>1, <1>2
<1> QED  BY <1>1, <1>3 DEF IsSeq

(* Length and domain of a sequence whose elements have no common type.     *)
LEMMA IsSeqFields ==
    ASSUME NEW s, IsSeq(s)
    PROVE  Len(s) \in Nat /\ DOMAIN s = 1..Len(s)
<1> DEFINE T == {s[i] : i \in DOMAIN s}
<1>1. s \in Seq(T)
  BY DEF IsSeq
<1> HIDE DEF T
<1> QED  BY <1>1

(* Appending n elements to such a sequence.                                *)
LEMMA ConcatIs ==
    ASSUME NEW s, IsSeq(s), NEW n \in Nat, NEW t, t = [i \in 1..n |-> t[i]]
    PROVE  /\ IsSeq(s \o t)
           /\ Len(s \o t) = Len(s) + n
           /\ \A j \in 1..Len(s) : (s \o t)[j] = s[j]
           /\ \A i \in 1..n : (s \o t)[Len(s) + i] = t[i]
<1> DEFINE S == {s[i] : i \in DOMAIN s}  T == {t[i] : i \in 1..n}
<1>1. s \in Seq(S)
  BY DEF IsSeq
<1>2. t \in [1..n -> T]
  BY Zenon
<1> HIDE DEF S, T
<1>3. t \in Seq(T) /\ Len(t) = n
  BY <1>2
<1>4. s \in Seq(S \cup T) /\ t \in Seq(S \cup T)
  BY <1>1, <1>3
<1>5. s \o t \in Seq(S \cup T)
  BY <1>4
<1>6. IsSeq(s \o t)
  BY <1>5, SeqIsSeq
<1> QED  BY <1>3, <1>4, <1>6

-----------------------------------------------------------------------------
(* encode(): nothing changes for what is on the wire already, and what is  *)
(* added is whole.                                                         *)

(* After encode(f): w1 is the wire, with t packets of tables and n packets *)
(* of the frame more than w0.                                              *)
Extended(w0, w1, f, t, n) ==
    /\ IsSeq(w1)
    /\ Len(w1) = Len(w0) + t + n
    /\ \A j \in 1..Len(w0) : w1[j] = w0[j]
    /\ \A i \in 1..t : w1[Len(w0) + i] = IF i = 1 THEN Pat ELSE Pmt
    /\ \A i \in 1..n : w1[Len(w0) + t + i] = createPes(f, i)

(* A fed frame is sent on the PID that the PMT gives its type.             *)
LEMMA FedPid ==
    ASSUME OwnPids, FramesOK, NEW f, Fed(f)
    PROVE  f \in Frame /\ f.pid = mStreamPidMap[f.type] /\ f.pid \in EsPids
BY PidMap DEF Fed

(* encode() records the frame and changes no earlier record.               *)
LEMMA EncodeFrames ==
    ASSUME OwnPids, FramesOK, NEW f, Fed(f), NEW ra \in BOOLEAN, encode(f, ra)
    PROVE  /\ config' = config /\ mStreamPidMap' = mStreamPidMap
           /\ Len(frames) \in Nat /\ DOMAIN frames = 1..Len(frames)
           /\ DOMAIN frames' = 1..(Len(frames) + 1)
           /\ \A m \in DOMAIN frames : frames'[m] = frames[m]
           /\ f.id = Len(frames) + 1 /\ frames'[f.id].frame = f
           /\ FramesOK'
<1>1. config' = config /\ mStreamPidMap' = mStreamPidMap
  BY DEF encode, mStreamPidMap
<1>2. \E shown \in BOOLEAN, tables \in BOOLEAN :
         frames' = Append(frames, [frame |-> f, shown |-> shown, tables |-> tables])
  BY DEF encode
<1>3. PICK x \in Entry : frames' = Append(frames, x) /\ x.frame = f
  BY <1>2, FedPid DEF Entry
<1>4. frames \in Seq(Entry) /\ f.id = Len(frames) + 1
  BY DEF FramesOK, Fed
<1>5. /\ Len(frames) \in Nat /\ DOMAIN frames = 1..Len(frames)
      /\ DOMAIN frames' = 1..(Len(frames) + 1)
      /\ \A m \in DOMAIN frames : frames'[m] = frames[m]
      /\ frames'[f.id] = x
      /\ frames' \in Seq(Entry)
  BY <1>3, <1>4
<1>6. FramesOK'
  <2>1. ASSUME NEW m \in DOMAIN frames'
        PROVE  LET g == frames'[m].frame
               IN  /\ g.id = m /\ g.type \in config'.types /\ g.pid = mStreamPidMap'[g.type]
                   /\ g.two \/ g.pts = g.dts
    <3>1. CASE m \in DOMAIN frames
      BY <1>1, <1>5, <3>1 DEF FramesOK
    <3>2. CASE m = f.id
      BY <1>1, <1>3, <1>5, <3>2, FedPid DEF Fed
    <3> QED  BY <1>4, <1>5, <2>1, <3>1, <3>2
  <2> QED  BY <1>1, <1>5, <2>1 DEF FramesOK
<1> QED  BY <1>1, <1>3, <1>4, <1>5, <1>6

(* encode() extends the wire by the tables, if due, and the frame's        *)
(* packets, if there is somebody to give them to.                          *)
LEMMA EncodeWire ==
    ASSUME NEW f, Fed(f), NEW ra \in BOOLEAN, encode(f, ra), IsSeq(wire)
    PROVE  LET t == IF output /\ Tables(ra) THEN 2 ELSE 0
               n == IF output THEN Packets(f) ELSE 0
           IN  Extended(wire, wire', f, t, n) /\ t \in {0, 2} /\ n \in {0, Packets(f)}
<1>1. Packets(f) \in Nat /\ Len(wire) \in Nat
  BY PacketsNat, IsSeqFields DEF Fed
<1>2. CASE output
  <2> DEFINE t == IF Tables(ra) THEN 2 ELSE 0
             s == Output(f, t)
  <2>1. wire' = wire \o s
    BY <1>2 DEF encode
  <2>2. s = [i \in 1..(t + Packets(f)) |-> s[i]] /\ t + Packets(f) \in Nat /\ t \in {0, 2}
    BY <1>1 DEF Output
  <2>3. /\ \A i \in 1..t : s[i] = IF i = 1 THEN Pat ELSE Pmt
        /\ \A i \in 1..Packets(f) : s[t + i] = createPes(f, i)
    <3>1. ASSUME NEW i \in 1..t PROVE s[i] = IF i = 1 THEN Pat ELSE Pmt
      BY <1>1 DEF Output
    <3>2. ASSUME NEW i \in 1..Packets(f) PROVE s[t + i] = createPes(f, i)
      <4>1. t + i \in 1..(t + Packets(f)) /\ t + i > t /\ t + i - t = i
        BY <1>1
      <4> QED  BY <4>1 DEF Output
    <3> QED  BY <3>1, <3>2
  <2> HIDE DEF s
  <2>4. /\ IsSeq(wire') /\ Len(wire') = Len(wire) + (t + Packets(f))
        /\ \A j \in 1..Len(wire) : wire'[j] = wire[j]
        /\ \A i \in 1..(t + Packets(f)) : wire'[Len(wire) + i] = s[i]
    <3> HIDE DEF t
    <3> QED  BY <2>1, <2>2, ConcatIs, SMTT(30)
  <2>5. /\ \A i \in 1..t : i \in 1..(t + Packets(f))
        /\ \A i \in 1..Packets(f) : /\ t + i \in 1..(t + Packets(f))
                                    /\ Len(wire) + t + i = Len(wire) + (t + i)
        /\ Len(wire) + (t + Packets(f)) = Len(wire) + t + Packets(f)
    BY <1>1, <2>2
  <2> HIDE DEF t
  <2>6. Extended(wire, wire', f, t, Packets(f))
    BY <2>3, <2>4, <2>5 DEF Extended
  <2> QED  BY <1>2, <2>2, <2>6 DEF t
<1>3. CASE ~output
  <2>1. wire' = wire
    BY <1>3 DEF encode
  <2>2. Extended(wire, wire', f, 0, 0)
    BY <1>1, <2>1 DEF Extended
  <2> QED  BY <1>3, <2>2
<1> QED  BY <1>2, <1>3

(* Where the packets of w1 come from.                                      *)
Origin(w0, w1, f, t, n) ==
    \A j \in 1..Len(w1) :
        \/ j \in 1..Len(w0) /\ w1[j] = w0[j]
        \/ \E i \in 1..t : j = Len(w0) + i /\ w1[j] = IF i = 1 THEN Pat ELSE Pmt
        \/ \E i \in 1..n : j = Len(w0) + t + i /\ w1[j] = createPes(f, i)

(* A packet of the extended wire is old, a table or one of the frame's.    *)
LEMMA NewIndex ==
    ASSUME NEW w0, NEW w1, NEW f, NEW t \in {0, 2}, NEW n \in Nat, Len(w0) \in Nat,
           Extended(w0, w1, f, t, n)
    PROVE  Origin(w0, w1, f, t, n)
<1> SUFFICES ASSUME NEW j \in 1..Len(w1)
             PROVE  \/ j \in 1..Len(w0) /\ w1[j] = w0[j]
                    \/ \E i \in 1..t : j = Len(w0) + i /\ w1[j] = IF i = 1 THEN Pat ELSE Pmt
                    \/ \E i \in 1..n : j = Len(w0) + t + i /\ w1[j] = createPes(f, i)
  BY Zenon DEF Origin
<1>1. Len(w1) = Len(w0) + t + n
  BY DEF Extended
<1>2. CASE j \in 1..Len(w0)
  BY <1>2 DEF Extended
<1>3. CASE j > Len(w0) /\ j <= Len(w0) + t
  <2>1. j - Len(w0) \in 1..t /\ j = Len(w0) + (j - Len(w0))
    BY <1>3
  <2> QED  BY <2>1 DEF Extended
<1>4. CASE j > Len(w0) + t
  <2>1. j - Len(w0) - t \in 1..n /\ j = Len(w0) + t + (j - Len(w0) - t)
    BY <1>1, <1>4
  <2> QED  BY <2>1 DEF Extended
<1> QED  BY <1>2, <1>3, <1>4

(* The tables are on PIDs of their own.                                    *)
LEMMA PatPmt ==
    /\ Pat.pid = PAT_PID /\ Pat.pmt = PMT_PID /\ Pat.pid \notin EsPids
    /\ Pmt.pid = PMT_PID /\ Pmt.infos = mStreamPidMap /\ Pmt.pid \notin EsPids
    /\ Pat.pid # PMT_PID /\ Pmt.pid # PAT_PID
BY DEF Pat, Pmt, EsPids, PAT_PID, PMT_PID, VIDEO_PID, AUDIO_PID

(* A packet that is new on the wire.                                       *)
LEMMA NewPes ==
    ASSUME OwnPids, FramesOK, NEW f, Fed(f), NEW i \in 1..Packets(f), NEW p, p = createPes(f, i)
    PROVE  /\ p.pid \in EsPids /\ p.id = f.id /\ p.id = Len(frames) + 1
           /\ p.pusi \in BOOLEAN /\ p.from \in Nat /\ p.n \in Nat \ {0} /\ p.at \in Nat
           /\ p.pusi <=> i = 1
           /\ p.pusi <=> p.from = 0
           /\ p.from = Offset(f, i)
           /\ p.from + p.n <= f.size
           /\ IF i < Packets(f) THEN p.from + p.n = Offset(f, i + 1)
                                ELSE p.from + p.n = f.size
           /\ p.at = IF p.pusi THEN PesEnd(p) ELSE FieldEnd(p)
           /\ p.at + p.n = PacketSize
           /\ p.len = mPesPacketLength(f) /\ p.hdr = mHeaderDataLength(f)
           /\ p.pts = f.pts % 8 /\ p.dts = f.dts % 8
           /\ p.rai = (p.pusi /\ f.key)
           /\ p.pid = f.pid
<1>1. f \in Frame /\ f.pid \in EsPids /\ f.id = Len(frames) + 1
  BY FedPid DEF Fed
<1>2. PICK c : p = PesPacket(f, i, c)
  BY DEF createPes
<1>3. /\ p.pid = f.pid /\ p.id = f.id
      /\ p.pusi \in BOOLEAN /\ (p.pusi <=> i = 1)
      /\ p.from = Offset(f, i)
      /\ p.from \in Nat /\ p.n \in Nat \ {0} /\ p.at \in Nat
      /\ p.pusi <=> p.from = 0
      /\ p.from + p.n <= f.size
      /\ p.at = IF p.pusi THEN PesEnd(p) ELSE FieldEnd(p)
      /\ p.at + p.n = PacketSize
      /\ p.len = mPesPacketLength(f) /\ p.hdr = mHeaderDataLength(f)
      /\ p.pts = f.pts % 8 /\ p.dts = f.dts % 8
      /\ p.rai = (p.pusi /\ f.key)
      /\ IF i < Packets(f) THEN p.from + p.n = Offset(f, i + 1) /\ p.from + p.n < f.size
                           ELSE p.from + p.n = f.size
  BY <1>1, <1>2, PacketIs
<1>4. IF i < Packets(f) THEN p.from + p.n = Offset(f, i + 1)
                        ELSE p.from + p.n = f.size
  BY <1>3
<1> QED  BY <1>1, <1>3, <1>4

(* What is known of the next state of a step of encode(): a wire w1 and    *)
(* the old frames unchanged.                                               *)
LEMMA EncodeStep ==
    ASSUME OwnPids, FramesOK, NEW f, Fed(f), NEW ra \in BOOLEAN, encode(f, ra), IsSeq(wire)
    PROVE  \E t \in {0, 2}, n \in {0, Packets(f)} :
              /\ Extended(wire, wire', f, t, n) /\ Origin(wire, wire', f, t, n)
              /\ n \in Nat /\ Len(wire) \in Nat /\ Packets(f) \in Nat
              /\ f \in Frame /\ f.pid \in EsPids
              /\ t = IF output /\ Tables(ra) THEN 2 ELSE 0
              /\ n = IF output THEN Packets(f) ELSE 0
<1> DEFINE t == IF output /\ Tables(ra) THEN 2 ELSE 0
           n == IF output THEN Packets(f) ELSE 0
<1>1. Extended(wire, wire', f, t, n) /\ t \in {0, 2} /\ n \in {0, Packets(f)}
  BY EncodeWire
<1>2. /\ Len(wire) \in Nat /\ Packets(f) \in Nat
      /\ f \in Frame /\ f.pid \in EsPids
  BY PacketsNat, IsSeqFields, FedPid
<1>3. n \in Nat
  BY <1>2
<1>4. Origin(wire, wire', f, t, n)
  <2> HIDE DEF t, n
  <2> QED  BY <1>1, <1>2, <1>3, NewIndex, Zenon
<1> QED  BY <1>1, <1>2, <1>3, <1>4, Zenon

(* What encode() adds is well formed and in order.                         *)
LEMMA EncodePackets ==
    ASSUME OwnPids, FramesOK, NEW f, Fed(f), NEW ra \in BOOLEAN, encode(f, ra),
           IsSeq(wire), WireOK(wire, 0), NEW w1, w1 = wire'
    PROVE  WireOK(w1, 0)'
<1>0. PICK t \in {0, 2}, n \in {0, Packets(f)} :
         /\ Extended(wire, w1, f, t, n) /\ Origin(wire, w1, f, t, n)
         /\ n \in Nat /\ Len(wire) \in Nat /\ Packets(f) \in Nat
         /\ f \in Frame /\ f.pid \in EsPids
  BY EncodeStep
<1>1. /\ config' = config /\ mStreamPidMap' = mStreamPidMap
      /\ Len(frames) \in Nat /\ DOMAIN frames = 1..Len(frames)
      /\ DOMAIN frames' = 1..(Len(frames) + 1)
      /\ \A m \in DOMAIN frames : frames'[m] = frames[m]
      /\ f.id = Len(frames) + 1 /\ frames'[f.id].frame = f
  BY EncodeFrames
<1>2. ASSUME NEW j \in 1..Len(w1), NEW p, p = w1[j]
      PROVE  Packet(p)'
  <2>1. CASE j \in 1..Len(wire) /\ w1[j] = wire[j]
    <3>1. Packet(p)
      BY <1>2, <2>1 DEF WireOK, Ahead
    <3>2. Elementary(p) => /\ p.id \in DOMAIN frames /\ p.id \in DOMAIN frames'
                           /\ frames'[p.id] = frames[p.id]
      BY <1>1, <3>1 DEF Packet, Pes
    <3>3. Elementary(p) => Pes(p)'
      BY <3>1, <3>2 DEF Packet, Pes, FrameOf
    <3> QED  BY <1>1, <3>1, <3>3 DEF Packet, Elementary, EsPids
  <2>2. ASSUME NEW i \in 1..t, w1[j] = IF i = 1 THEN Pat ELSE Pmt
        PROVE  Packet(p)'
    <3>1. p.pid \in {PAT_PID, PMT_PID} /\ p.pid \notin EsPids
      BY <1>2, <2>2, PatPmt
    <3>2. /\ p.pid = PAT_PID => p.pmt = PMT_PID
          /\ p.pid = PMT_PID => p.infos = mStreamPidMap'
      BY <1>1, <1>2, <2>2, PatPmt
    <3> QED  BY <3>1, <3>2 DEF Packet, Elementary, EsPids, Pids
  <2>3. ASSUME NEW i \in 1..n, w1[j] = createPes(f, i)
        PROVE  Packet(p)'
    <3>1. i \in 1..Packets(f) /\ p = createPes(f, i)
      BY <1>0, <1>2, <2>3
    <3>2. /\ p.pid \in EsPids /\ p.pid = f.pid /\ p.id = f.id
          /\ p.pusi \in BOOLEAN
          /\ p.from \in Nat /\ p.n \in Nat \ {0} /\ p.at \in Nat
          /\ p.pusi <=> p.from = 0
          /\ p.from + p.n <= f.size
          /\ p.at = IF p.pusi THEN PesEnd(p) ELSE FieldEnd(p)
          /\ p.at + p.n = PacketSize
          /\ p.len = mPesPacketLength(f) /\ p.hdr = mHeaderDataLength(f)
          /\ p.pts = f.pts % 8 /\ p.dts = f.dts % 8
          /\ p.rai = (p.pusi /\ f.key)
      BY <3>1, NewPes, SMTT(30)
    <3>3. f.id \in DOMAIN frames'
      BY <1>1
    <3>4. Pes(p)'
      BY <1>1, <3>2, <3>3 DEF Pes, FrameOf
    <3> QED  BY <3>2, <3>4 DEF Packet, Pids, EsPids, PAT_PID, PMT_PID, VIDEO_PID, AUDIO_PID
  <2> QED  BY <1>0, <1>2, <2>1, <2>2, <2>3 DEF Origin
<1>3. ASSUME NEW i \in 1..Len(w1), NEW j \in 1..Len(w1), i < j,
             w1[i].pid \in EsPids, w1[j].pid \in EsPids
      PROVE  \/ w1[i].id < w1[j].id
             \/ w1[i].id = w1[j].id /\ w1[i].from + w1[i].n <= w1[j].from
  <2>0. /\ \/ i \in 1..Len(wire) /\ w1[i] = wire[i]
           \/ \E a \in 1..n : i = Len(wire) + t + a /\ w1[i] = createPes(f, a)
        /\ \/ j \in 1..Len(wire) /\ w1[j] = wire[j]
           \/ \E a \in 1..n : j = Len(wire) + t + a /\ w1[j] = createPes(f, a)
    BY <1>0, <1>3, PatPmt DEF Origin
  <2>1. CASE i \in 1..Len(wire) /\ w1[i] = wire[i] /\ j \in 1..Len(wire) /\ w1[j] = wire[j]
    BY <1>3, <2>1 DEF WireOK, Ahead, Elementary
  <2>2. ASSUME i \in 1..Len(wire), w1[i] = wire[i], NEW m \in 1..n, w1[j] = createPes(f, m)
        PROVE  w1[i].id < w1[j].id
    <3>1. wire[i].id \in DOMAIN frames
      BY <1>3, <2>2 DEF WireOK, Ahead, Packet, Pes, Elementary
    <3>3. w1[j].id = Len(frames) + 1
      BY <1>0, <2>2, NewPes
    <3> QED  BY <1>1, <2>2, <3>1, <3>3
  <2>3. ASSUME NEW a \in 1..n, i = Len(wire) + t + a, w1[i] = createPes(f, a),
               NEW b \in 1..n, j = Len(wire) + t + b, w1[j] = createPes(f, b)
        PROVE  w1[i].id = w1[j].id /\ w1[i].from + w1[i].n <= w1[j].from
    <3>4. a < b /\ a \in 1..Packets(f) /\ b \in 1..Packets(f) /\ a < Packets(f)
      BY <1>0, <1>3, <2>3
    <3>5. /\ w1[i].id = w1[j].id
          /\ w1[i].from + w1[i].n = Offset(f, a + 1)
          /\ w1[j].from = Offset(f, b)
      BY <2>3, <3>4, NewPes, SMTT(30)
    <3>6. Offset(f, a + 1) <= Offset(f, b)
      BY <1>0, <3>4, OffsetGrows
    <3> QED  BY <3>5, <3>6
  <2> QED  BY <1>0, <1>3, <2>0, <2>1, <2>2, <2>3
<1> QED  BY <1>2, <1>3 DEF WireOK, Ahead, Elementary, EsPids

(* encode() leaves what is hurt as it is.                                  *)
LEMMA EncodeHurt ==
    ASSUME OwnPids, FramesOK, NEW f, Fed(f), NEW ra \in BOOLEAN, encode(f, ra),
           IsSeq(wire), NEW d, NEW h \in Nat, Hurt(d, wire, 0, h), NEW w1, w1 = wire'
    PROVE  Hurt(d, w1, 0, h)'
<1>0. PICK t \in {0, 2}, n \in {0, Packets(f)} :
         /\ Extended(wire, w1, f, t, n) /\ Origin(wire, w1, f, t, n)
         /\ n \in Nat /\ Len(wire) \in Nat /\ Packets(f) \in Nat
         /\ f \in Frame /\ f.pid \in EsPids
  BY EncodeStep
<1>1. /\ config' = config /\ mStreamPidMap' = mStreamPidMap
      /\ Len(frames) \in Nat /\ DOMAIN frames = 1..Len(frames)
      /\ DOMAIN frames' = 1..(Len(frames) + 1)
      /\ \A m \in DOMAIN frames : frames'[m] = frames[m]
      /\ f.id = Len(frames) + 1 /\ frames'[f.id].frame = f
  BY EncodeFrames
<1>2. WireOK(w1, 0)'
  BY EncodePackets DEF Hurt
<1>3. /\ DmxOK(d) /\ WireOK(wire, 0) /\ OthersWhole(wire, 0, h)
      /\ Gathering(d, wire, 0, h) /\ NextFits(d, wire, 0, h) /\ UnbrokenWhole(d)
  BY DEF Hurt
<1>4. /\ Len(w1) = Len(wire) + t + n
      /\ \A j \in 1..Len(wire) : w1[j] = wire[j] /\ j \in 1..Len(w1)
  BY <1>0 DEF Extended
<1>5. \A j \in 1..Len(wire) : wire[j].pid \in EsPids => /\ wire[j].id \in DOMAIN frames
                                                       /\ frames'[wire[j].id] = frames[wire[j].id]
  BY <1>1, <1>3 DEF WireOK, Ahead, Packet, Pes, Elementary
<1>6. DmxOK(d)'
  BY <1>1, <1>3 DEF DmxOK, Dmx, Es, Handed, EsPids, VIDEO_PID, AUDIO_PID, PMT_PID
<1>7. ASSUME NEW j \in 1..Len(w1), w1[j].pid \in EsPids, w1[j].id # h
      PROVE  /\ w1[j].pusi \/ j = 1 \/ Joined(w1[j - 1], w1[j])
             /\ \/ w1[j].from + w1[j].n = frames'[w1[j].id].frame.size
                \/ j + 1 \in 1..Len(w1) /\ Joined(w1[j], w1[j + 1])
  <2>1. CASE j \in 1..Len(wire) /\ w1[j] = wire[j]
    <3>1. /\ wire[j].pusi \/ j = 0 + 1 \/ Joined(wire[j - 1], wire[j])
          /\ Ends(wire[j]) \/ (j + 1 \in 1..Len(wire) /\ Joined(wire[j], wire[j + 1]))
      BY <1>3, <1>7, <2>1 DEF OthersWhole, Ahead, Elementary
    <3>2. j # 1 => j - 1 \in 1..Len(wire)
      BY <1>0, <2>1
    <3> QED  BY <1>4, <1>5, <1>7, <2>1, <3>1, <3>2 DEF Ends, FrameOf
  <2>2. ASSUME NEW i \in 1..n, j = Len(wire) + t + i, w1[j] = createPes(f, i)
        PROVE  /\ w1[j].pusi \/ j = 1 \/ Joined(w1[j - 1], w1[j])
               /\ \/ w1[j].from + w1[j].n = frames'[w1[j].id].frame.size
                  \/ j + 1 \in 1..Len(w1) /\ Joined(w1[j], w1[j + 1])
    <3>1. i \in 1..Packets(f)
      BY <1>0
    <3>2. /\ w1[j].id = f.id /\ (w1[j].pusi <=> i = 1)
          /\ w1[j].from = Offset(f, i)
          /\ IF i < Packets(f) THEN w1[j].from + w1[j].n = Offset(f, i + 1)
                               ELSE w1[j].from + w1[j].n = f.size
      BY <2>2, <3>1, NewPes, SMTT(30)
    <3>3. i # 1 => Joined(w1[j - 1], w1[j])
      <4> SUFFICES ASSUME i # 1 PROVE Joined(w1[j - 1], w1[j])
        OBVIOUS
      <4>1. i - 1 \in 1..n /\ i - 1 \in 1..Packets(f) /\ j - 1 = Len(wire) + t + (i - 1) /\ i - 1 < Packets(f)
        BY <1>0, <2>2, <3>1
      <4>2. w1[j - 1] = createPes(f, i - 1)
        BY <1>0, <4>1 DEF Extended
      <4>3. /\ w1[j - 1].pid \in EsPids /\ w1[j - 1].id = f.id
            /\ w1[j - 1].from + w1[j - 1].n = Offset(f, i - 1 + 1)
        BY <4>1, <4>2, NewPes, SMTT(30)
      <4> QED  BY <1>0, <1>7, <3>1, <3>2, <4>3 DEF Joined, Elementary
    <3>4. i < Packets(f) => j + 1 \in 1..Len(w1) /\ Joined(w1[j], w1[j + 1])
      <4> SUFFICES ASSUME i < Packets(f) PROVE j + 1 \in 1..Len(w1) /\ Joined(w1[j], w1[j + 1])
        OBVIOUS
      <4>1. i + 1 \in 1..n /\ i + 1 \in 1..Packets(f) /\ j + 1 = Len(wire) + t + (i + 1)
        BY <1>0, <2>2, <3>1
      <4>2. w1[j + 1] = createPes(f, i + 1) /\ j + 1 \in 1..Len(w1)
        BY <1>0, <1>4, <4>1 DEF Extended
      <4>3. w1[j + 1].pid \in EsPids /\ w1[j + 1].id = f.id /\ w1[j + 1].from = Offset(f, i + 1)
        BY <4>1, <4>2, NewPes
      <4> QED  BY <1>7, <3>2, <4>2, <4>3 DEF Joined, Elementary
    <3> QED  BY <1>0, <1>1, <3>1, <3>2, <3>3, <3>4
  <2> QED  BY <1>0, <1>7, <2>1, <2>2, PatPmt DEF Origin
<1>8. OthersWhole(w1, 0, h)'
  BY <1>7 DEF OthersWhole, Ahead, Elementary, EsPids, Joined, Ends, FrameOf
<1>9. ASSUME NEW j \in 1..Len(w1), w1[j].pid \in EsPids, w1[j].id \in DOMAIN frames
      PROVE  j \in 1..Len(wire)
  <2>1. ASSUME NEW i \in 1..n, w1[j] = createPes(f, i) PROVE FALSE
    <3>1. w1[j].id = Len(frames) + 1
      BY <1>0, <2>1, NewPes
    <3> QED  BY <1>1, <1>9, <3>1
  <2> QED  BY <1>0, <1>9, <2>1, PatPmt DEF Origin
<1>10. ASSUME NEW pid \in DOMAIN d.mEsFrames
       PROVE  LET e == d.mEsFrames[pid]
                  g == frames'[e.id].frame
              IN  IF e.mExpectedPayloadLength = 0 THEN e.mExpectedPesPacketLength = 0
                  ELSE /\ e.id \in DOMAIN frames'
                       /\ g.pid = pid
                       /\ e.mExpectedPayloadLength = g.size
                       /\ e.mExpectedPesPacketLength > g.size
                       /\ 0 < e.size /\ e.size < g.size
                       /\ e.id # h => /\ e.intact
                                      /\ 0 + 1 \in (0 + 1)..Len(w1)
                                      /\ w1[0 + 1].pid \in EsPids
                                      /\ w1[0 + 1].id = e.id /\ w1[0 + 1].from = e.size
                       /\ e.id = h => \A j \in (0 + 1)..Len(w1) :
                                         w1[j].pid \in EsPids /\ w1[j].id = h =>
                                             \/ e.size < w1[j].from
                                             \/ e.size = w1[j].from /\ e.intact
  <2> DEFINE e == d.mEsFrames[pid]
  <2>1. CASE e.mExpectedPayloadLength = 0
    BY <1>3, <2>1 DEF Gathering
  <2>2. CASE e.mExpectedPayloadLength # 0
    <3>1. /\ e.id \in DOMAIN frames /\ frames[e.id].frame.pid = pid
          /\ e.mExpectedPayloadLength = frames[e.id].frame.size
          /\ e.mExpectedPesPacketLength > frames[e.id].frame.size
          /\ 0 < e.size /\ e.size < frames[e.id].frame.size
          /\ e.id # h => /\ e.intact
                         /\ 1 \in 1..Len(wire)
                         /\ wire[1].pid \in EsPids
                         /\ wire[1].id = e.id /\ wire[1].from = e.size
          /\ e.id = h => \A j \in 1..Len(wire) :
                            wire[j].pid \in EsPids /\ wire[j].id = h =>
                               \/ e.size < wire[j].from
                               \/ e.size = wire[j].from /\ e.intact
      BY <1>3, <2>2 DEF Gathering, Ahead, Elementary
    <3>2. e.id \in DOMAIN frames' /\ frames'[e.id] = frames[e.id]
      BY <1>1, <3>1
    <3>3. e.id # h => /\ 1 \in 1..Len(w1)
                      /\ w1[1].pid \in EsPids
                      /\ w1[1].id = e.id /\ w1[1].from = e.size
      BY <1>4, <3>1
    <3>4. e.id = h => \A j \in 1..Len(w1) :
                         w1[j].pid \in EsPids /\ w1[j].id = h =>
                             \/ e.size < w1[j].from
                             \/ e.size = w1[j].from /\ e.intact
      BY <1>4, <1>9, <3>1
    <3> HIDE DEF e
    <3> QED  BY <2>2, <3>1, <3>2, <3>3, <3>4 DEF e
  <2> QED  BY <2>1, <2>2
<1>11. Gathering(d, w1, 0, h)'
  BY <1>10 DEF Gathering, Ahead, Elementary, EsPids
<1>12. ASSUME 1 \in 1..Len(w1), w1[1].pid \in EsPids, ~w1[1].pusi, w1[1].id # h,
              w1[1].pid \in DOMAIN d.mEsFrames
       PROVE  LET e == d.mEsFrames[w1[1].pid]
              IN  e.mExpectedPayloadLength # 0 => e.id = w1[1].id
  <2>1. CASE 1 \in 1..Len(wire) /\ w1[1] = wire[1]
    BY <1>3, <1>12, <2>1 DEF NextFits, Ahead, Elementary
  <2>2. ASSUME NEW i \in 1..n, 1 = Len(wire) + t + i, w1[1] = createPes(f, i) PROVE FALSE
    <3>1. i = 1 /\ i \in 1..Packets(f)
      BY <1>0, <2>2
    <3>2. w1[1].pusi
      BY <2>2, <3>1, NewPes
    <3> QED  BY <1>12, <3>2
  <2> QED  BY <1>0, <1>12, <2>1, <2>2, PatPmt DEF Origin
<1>13. NextFits(d, w1, 0, h)'
  BY <1>12 DEF NextFits, Ahead, Elementary, EsPids
<1>14. UnbrokenWhole(d)'
  BY <1>1, <1>3 DEF UnbrokenWhole, Whole
<1> QED  BY <1>2, <1>6, <1>8, <1>11, <1>13, <1>14 DEF Hurt

-----------------------------------------------------------------------------
(* A packet is lost.                                                       *)

(* A piece of a sequence.                                                  *)
LEMMA SubSeqIs ==
    ASSUME NEW s, IsSeq(s), NEW a \in Nat \ {0}, NEW b \in Nat, b <= Len(s)
    PROVE  LET n == IF a <= b THEN b - a + 1 ELSE 0
           IN  /\ IsSeq(SubSeq(s, a, b))
               /\ Len(SubSeq(s, a, b)) = n
               /\ n \in Nat
               /\ \A i \in 1..n : SubSeq(s, a, b)[i] = s[a + i - 1]
<1> DEFINE T == {s[i] : i \in DOMAIN s}  n == IF a <= b THEN b - a + 1 ELSE 0
<1>1. s \in Seq(T) /\ Len(s) \in Nat
  BY IsSeqFields DEF IsSeq
<1> HIDE DEF T
<1>2. SubSeq(s, a, b) \in Seq(T) /\ Len(SubSeq(s, a, b)) = n
  BY <1>1
<1>3. \A i \in 1..n : SubSeq(s, a, b)[i] = s[a + i - 1]
  BY <1>1
<1>4. IsSeq(SubSeq(s, a, b)) /\ DOMAIN SubSeq(s, a, b) = 1..n
  BY <1>2, SeqIsSeq
<1>5. n \in Nat
  OBVIOUS
<1> QED  BY <1>2, <1>3, <1>4, <1>5

(* Two sequences, one after the other.                                     *)
LEMMA ConcatSeq ==
    ASSUME NEW s, IsSeq(s), NEW t, IsSeq(t)
    PROVE  /\ IsSeq(s \o t)
           /\ Len(s \o t) = Len(s) + Len(t)
           /\ \A j \in 1..Len(s) : (s \o t)[j] = s[j]
           /\ \A i \in 1..Len(t) : (s \o t)[Len(s) + i] = t[i]
<1> DEFINE S == {s[i] : i \in DOMAIN s}  T == {t[i] : i \in DOMAIN t}
<1>1. s \in Seq(S) /\ t \in Seq(T)
  BY DEF IsSeq
<1> HIDE DEF S, T
<1>2. s \in Seq(S \cup T) /\ t \in Seq(S \cup T)
  BY <1>1
<1>3. s \o t \in Seq(S \cup T)
  BY <1>2
<1>4. IsSeq(s \o t)
  BY <1>3, SeqIsSeq
<1> QED  BY <1>2, <1>4

(* w1 is w0 without its packet x.                                          *)
Without(w0, w1, x) ==
    /\ IsSeq(w1)
    /\ Len(w1) = Len(w0) - 1
    /\ \A j \in 1..(x - 1) : w1[j] = w0[j]
    /\ \A j \in x..(Len(w0) - 1) : w1[j] = w0[j + 1]

(* A sequence with one element taken out.                                  *)
LEMMA RemoveIs ==
    ASSUME NEW s, IsSeq(s), NEW x \in 1..Len(s)
    PROVE  Without(s, SubSeq(s, 1, x - 1) \o SubSeq(s, x + 1, Len(s)), x)
<1>a. PICK a : a = SubSeq(s, 1, x - 1)
  OBVIOUS
<1>b. PICK b : b = SubSeq(s, x + 1, Len(s))
  OBVIOUS
<1> DEFINE n == Len(s) - x
<1>1. Len(s) \in Nat /\ x \in Nat \ {0} /\ x <= Len(s) /\ x - 1 \in Nat /\ n \in Nat
  BY IsSeqFields
<1>2. /\ IsSeq(a) /\ Len(a) = x - 1
      /\ \A i \in 1..(x - 1) : a[i] = s[i]
  <2>1. /\ IsSeq(a) /\ Len(a) = IF 1 <= x - 1 THEN x - 1 - 1 + 1 ELSE 0
        /\ \A i \in 1..(IF 1 <= x - 1 THEN x - 1 - 1 + 1 ELSE 0) : a[i] = s[1 + i - 1]
    BY <1>a, <1>1, SubSeqIs
  <2>2. (IF 1 <= x - 1 THEN x - 1 - 1 + 1 ELSE 0) = x - 1
    BY <1>1
  <2>3. \A i \in 1..(x - 1) : 1 + i - 1 = i
    BY <1>1
  <2> QED  BY <2>1, <2>2, <2>3
<1>3. /\ IsSeq(b) /\ Len(b) = n
      /\ \A i \in 1..n : b[i] = s[x + i]
  <2>1. (IF x + 1 <= Len(s) THEN Len(s) - (x + 1) + 1 ELSE 0) = n
    BY <1>1
  <2>2. /\ IsSeq(b) /\ Len(b) = IF x + 1 <= Len(s) THEN Len(s) - (x + 1) + 1 ELSE 0
        /\ \A i \in 1..(IF x + 1 <= Len(s) THEN Len(s) - (x + 1) + 1 ELSE 0) : b[i] = s[x + 1 + i - 1]
    BY <1>b, <1>1, SubSeqIs
  <2>3. \A i \in 1..n : x + 1 + i - 1 = x + i
    BY <1>1
  <2> QED  BY <2>1, <2>2, <2>3
<1>4. /\ IsSeq(a \o b) /\ Len(a \o b) = Len(a) + n
      /\ \A j \in 1..Len(a) : (a \o b)[j] = a[j]
      /\ \A i \in 1..n : (a \o b)[Len(a) + i] = b[i]
  <2>1. /\ IsSeq(a \o b) /\ Len(a \o b) = Len(a) + Len(b)
        /\ \A j \in 1..Len(a) : (a \o b)[j] = a[j]
        /\ \A i \in 1..Len(b) : (a \o b)[Len(a) + i] = b[i]
    <3>1. IsSeq(a) /\ IsSeq(b)
      BY <1>2, <1>3
    <3> HIDE <1>a, <1>b
    <3> QED  BY <3>1, ConcatSeq
  <2> QED  BY <1>3, <2>1
<1>5. ASSUME NEW j \in x..(Len(s) - 1) PROVE (a \o b)[j] = s[j + 1]
  <2>1. j - (x - 1) \in 1..n /\ x - 1 + (j - (x - 1)) = j /\ x + (j - (x - 1)) = j + 1
    BY <1>1
  <2>2. (a \o b)[Len(a) + (j - (x - 1))] = b[j - (x - 1)]
    BY <1>4, <2>1
  <2>3. b[j - (x - 1)] = s[x + (j - (x - 1))]
    BY <1>3, <2>1
  <2> QED  BY <1>2, <2>1, <2>2, <2>3
<1>6. Len(a \o b) = Len(s) - 1
  BY <1>1, <1>2, <1>4
<1> QED  BY <1>a, <1>b, <1>2, <1>4, <1>5, <1>6 DEF Without

(* After the loss of one packet, the frame it is of is the hurt one (or    *)
(* none, if it was a table's).                                             *)
LEMMA LoseHurt ==
    ASSUME FramesOK, NEW d, NEW s, IsSeq(s), Hurt(d, s, 0, 0), NEW x \in 1..Len(s), NEW w1, Without(s, w1, x)
    PROVE  \E h \in Nat : Hurt(d, w1, 0, h)
<1> DEFINE h == IF s[x].pid \in EsPids THEN s[x].id ELSE 0
<1>1. /\ DmxOK(d) /\ WireOK(s, 0) /\ OthersWhole(s, 0, 0)
      /\ Gathering(d, s, 0, 0) /\ NextFits(d, s, 0, 0) /\ UnbrokenWhole(d)
  BY DEF Hurt
<1>2. Len(s) \in Nat /\ DOMAIN frames \subseteq Nat \ {0}
  BY IsSeqFields DEF FramesOK
<1>3. \A j \in 1..Len(s) : s[j].pid \in EsPids => s[j].id \in DOMAIN frames /\ s[j].id \in Nat \ {0}
  BY <1>1, <1>2 DEF WireOK, Ahead, Packet, Pes, Elementary
<1>4. h \in Nat
  BY <1>3
<1> HIDE DEF h
<1> DEFINE O(j) == IF j < x THEN j ELSE j + 1
<1>5. \A j \in 1..Len(w1) : O(j) \in 1..Len(s) /\ O(j) # x /\ w1[j] = s[O(j)]
  BY <1>2 DEF Without
<1>6. WireOK(w1, 0)
  <2>1. \A i, j \in 1..Len(w1) : i < j => O(i) < O(j)
    BY <1>2
  <2> HIDE DEF O
  <2>2. \A j \in 1..Len(w1) : Packet(w1[j])
    BY <1>1, <1>5 DEF WireOK, Ahead
  <2>3. ASSUME NEW i \in 1..Len(w1), NEW j \in 1..Len(w1), i < j, Elementary(w1[i]), Elementary(w1[j])
        PROVE  \/ w1[i].id < w1[j].id
               \/ w1[i].id = w1[j].id /\ w1[i].from + w1[i].n <= w1[j].from
    <3>1. O(i) \in 1..Len(s) /\ O(j) \in 1..Len(s) /\ O(i) < O(j) /\ w1[i] = s[O(i)] /\ w1[j] = s[O(j)]
      BY <1>5, <2>1, <2>3
    <3> QED  BY <1>1, <2>3, <3>1 DEF WireOK, Ahead
  <2> QED  BY <2>2, <2>3 DEF WireOK, Ahead
<1>7. ASSUME NEW j \in 1..Len(w1), w1[j].pid \in EsPids, w1[j].id # h
      PROVE  /\ w1[j].pusi \/ j = 1 \/ Joined(w1[j - 1], w1[j])
             /\ Ends(w1[j]) \/ (j + 1 \in 1..Len(w1) /\ Joined(w1[j], w1[j + 1]))
  <2> DEFINE J == O(j)
  <2>1. J \in 1..Len(s) /\ w1[j] = s[J]
    BY <1>5
  <2>2. /\ s[J].pusi \/ J = 1 \/ Joined(s[J - 1], s[J])
        /\ Ends(s[J]) \/ (J + 1 \in 1..Len(s) /\ Joined(s[J], s[J + 1]))
    <3>1. s[J].pid \in EsPids /\ s[J].id # 0
      BY <1>3, <1>7, <2>1
    <3> HIDE DEF J
    <3> QED  BY <1>1, <2>1, <3>1 DEF OthersWhole, Ahead, Elementary
  <2>3. ASSUME Joined(s[J - 1], s[J]), j # 1 PROVE Joined(w1[j - 1], w1[j])
    <3>1. J - 1 # x
      BY <1>7, <2>1, <2>3 DEF Joined, Elementary, h
    <3>2. j - 1 \in 1..Len(w1) /\ O(j - 1) = J - 1
      BY <1>2, <2>3, <3>1 DEF Without
    <3> QED  BY <1>5, <2>1, <2>3, <3>2
  <2>4. ASSUME J + 1 \in 1..Len(s), Joined(s[J], s[J + 1])
        PROVE  j + 1 \in 1..Len(w1) /\ Joined(w1[j], w1[j + 1])
    <3>1. J + 1 # x
      BY <1>7, <2>1, <2>4 DEF Joined, Elementary, h
    <3>2. j + 1 \in 1..Len(w1) /\ O(j + 1) = J + 1
      BY <1>2, <2>4, <3>1 DEF Without
    <3> QED  BY <1>5, <2>1, <2>4, <3>2
  <2>5. J = 1 => j = 1
    BY <1>2
  <2> HIDE DEF J
  <2> QED  BY <2>1, <2>2, <2>3, <2>4, <2>5
<1>8. OthersWhole(w1, 0, h)
  BY <1>7 DEF OthersWhole, Ahead, Elementary
<1>9. ASSUME NEW pid \in DOMAIN d.mEsFrames, d.mEsFrames[pid].mExpectedPayloadLength # 0
      PROVE  LET e == d.mEsFrames[pid]
             IN  /\ e.id # h => /\ 1 \in 1..Len(w1)
                                /\ w1[1].pid \in EsPids
                                /\ w1[1].id = e.id /\ w1[1].from = e.size
                 /\ e.id = h => \A j \in 1..Len(w1) :
                                   w1[j].pid \in EsPids /\ w1[j].id = h =>
                                       \/ e.size < w1[j].from
                                       \/ e.size = w1[j].from /\ e.intact
  <2> DEFINE e == d.mEsFrames[pid]
  <2>1. e.id \in DOMAIN frames /\ e.id # 0
    BY <1>1, <1>2, <1>9 DEF Gathering
  <2>2. /\ e.intact /\ 1 \in 1..Len(s) /\ s[1].pid \in EsPids
        /\ s[1].id = e.id /\ s[1].from = e.size
    BY <1>1, <1>9, <2>1 DEF Gathering, Ahead, Elementary
  <2>3. ASSUME e.id # h
        PROVE  /\ 1 \in 1..Len(w1)
               /\ w1[1].pid \in EsPids
               /\ w1[1].id = e.id /\ w1[1].from = e.size
    <3>1. x # 1
      BY <2>2, <2>3 DEF h
    <3>2. 1 \in 1..Len(w1) /\ 1 \in 1..(x - 1)
      BY <1>2, <3>1 DEF Without
    <3>3. w1[1] = s[1]
      BY <3>2 DEF Without
    <3> QED  BY <2>2, <3>2, <3>3
  <2>4. ASSUME NEW j \in 1..Len(w1), w1[j].pid \in EsPids, w1[j].id = e.id
        PROVE  e.size < w1[j].from \/ (e.size = w1[j].from /\ e.intact)
    <3>1. CASE O(j) = 1
      <4> HIDE DEF O
      <4> QED  BY <1>5, <2>2, <3>1
    <3>2. CASE O(j) # 1
      <4>1. O(j) \in 1..Len(s) /\ 1 < O(j) /\ w1[j] = s[O(j)]
        BY <1>2, <1>5, <3>2
      <4> HIDE DEF O
      <4>2. Pes(s[1]) /\ Pes(s[O(j)])
        BY <1>1, <2>2, <2>4, <4>1 DEF WireOK, Ahead, Packet, Elementary
      <4>3. s[1].id \in Nat /\ s[1].from \in Nat /\ s[1].n \in Nat \ {0} /\ s[O(j)].from \in Nat
        BY <1>3, <2>2, <4>2 DEF Pes
      <4>4. s[1].from + s[1].n <= s[O(j)].from
        BY <1>1, <2>2, <2>4, <4>1, <4>3 DEF WireOK, Ahead, Elementary
      <4> QED  BY <2>2, <4>1, <4>3, <4>4
    <3> QED  BY <3>1, <3>2
  <2> HIDE DEF e
  <2> QED  BY <2>3, <2>4 DEF e
<1>10. Gathering(d, w1, 0, h)
  <2> SUFFICES ASSUME NEW pid \in DOMAIN d.mEsFrames
               PROVE  LET e == d.mEsFrames[pid]
                          f == frames[e.id].frame
                      IN  IF e.mExpectedPayloadLength = 0 THEN e.mExpectedPesPacketLength = 0
                          ELSE /\ e.id \in DOMAIN frames
                               /\ f.pid = pid
                               /\ e.mExpectedPayloadLength = f.size
                               /\ e.mExpectedPesPacketLength > f.size
                               /\ 0 < e.size /\ e.size < f.size
                               /\ e.id # h => /\ e.intact
                                              /\ 0 + 1 \in Ahead(w1, 0)
                                              /\ Elementary(w1[0 + 1])
                                              /\ w1[0 + 1].id = e.id /\ w1[0 + 1].from = e.size
                               /\ e.id = h => \A j \in Ahead(w1, 0) :
                                                 Elementary(w1[j]) /\ w1[j].id = h =>
                                                     \/ e.size < w1[j].from
                                                     \/ e.size = w1[j].from /\ e.intact
    BY DEF Gathering
  <2> DEFINE e == d.mEsFrames[pid]
  <2>1. CASE e.mExpectedPayloadLength = 0
    BY <1>1, <2>1 DEF Gathering
  <2>2. CASE e.mExpectedPayloadLength # 0
    <3>1. /\ e.id \in DOMAIN frames /\ e.id # 0
          /\ frames[e.id].frame.pid = pid
          /\ e.mExpectedPayloadLength = frames[e.id].frame.size
          /\ e.mExpectedPesPacketLength > frames[e.id].frame.size
          /\ 0 < e.size /\ e.size < frames[e.id].frame.size
      BY <1>1, <1>2, <2>2 DEF Gathering
    <3>2. e.intact
      BY <1>1, <2>2, <3>1 DEF Gathering
    <3>3. /\ e.id # h => /\ 1 \in 1..Len(w1)
                         /\ w1[1].pid \in EsPids
                         /\ w1[1].id = e.id /\ w1[1].from = e.size
          /\ e.id = h => \A j \in 1..Len(w1) :
                            w1[j].pid \in EsPids /\ w1[j].id = h =>
                                \/ e.size < w1[j].from
                                \/ e.size = w1[j].from /\ e.intact
      BY <1>9, <2>2
    <3> HIDE DEF e
    <3> QED  BY <2>2, <3>1, <3>2, <3>3 DEF Ahead, Elementary, e
  <2> QED  BY <2>1, <2>2
<1>11. NextFits(d, w1, 0, h)
  <2> SUFFICES ASSUME 1 \in 1..Len(w1), w1[1].pid \in EsPids, ~w1[1].pusi, w1[1].id # h,
                      w1[1].pid \in DOMAIN d.mEsFrames
               PROVE  LET e == d.mEsFrames[w1[1].pid]
                      IN  e.mExpectedPayloadLength # 0 => e.id = w1[1].id
    BY DEF NextFits, Ahead, Elementary
  <2>1. CASE x = 1
    <3>1. 2 \in 1..Len(s) /\ w1[1] = s[2] /\ 1 \in 1..Len(s)
      BY <1>2, <2>1 DEF Without
    <3>2. s[2].id # 0
      BY <1>3, <3>1
    <3>3. Joined(s[2 - 1], s[2])
      BY <1>1, <3>1, <3>2 DEF OthersWhole, Ahead, Elementary
    <3> QED  BY <2>1, <3>1, <3>3 DEF Joined, Elementary, h
  <2>2. CASE x # 1
    <3>1. 1 \in 1..Len(s) /\ w1[1] = s[1]
      BY <1>2, <2>2 DEF Without
    <3>2. s[1].id # 0
      BY <1>3, <3>1
    <3> QED  BY <1>1, <3>1, <3>2 DEF NextFits, Ahead, Elementary
  <2> QED  BY <2>1, <2>2
<1> QED  BY <1>1, <1>4, <1>6, <1>8, <1>10, <1>11 DEF Hurt

-----------------------------------------------------------------------------
(* decode().                                                               *)

(* w1 is w0 without its first k packets.                                   *)
Rest(w0, w1, k) ==
    /\ IsSeq(w1)
    /\ Len(w1) = Len(w0) - k
    /\ \A j \in 1..Len(w1) : w1[j] = w0[k + j]

(* What is left of the wire behind its first k packets.                    *)
LEMMA RestIs ==
    ASSUME NEW s, IsSeq(s), NEW k \in Nat, k <= Len(s)
    PROVE  Rest(s, SubSeq(s, k + 1, Len(s)), k)
<1> DEFINE n == Len(s) - k
<1>1. Len(s) \in Nat /\ n \in Nat /\ k + 1 \in Nat \ {0}
  BY IsSeqFields
<1>a. PICK w : w = SubSeq(s, k + 1, Len(s))
  OBVIOUS
<1>2. (IF k + 1 <= Len(s) THEN Len(s) - (k + 1) + 1 ELSE 0) = n
  BY <1>1
<1>3. /\ IsSeq(w) /\ Len(w) = IF k + 1 <= Len(s) THEN Len(s) - (k + 1) + 1 ELSE 0
      /\ \A i \in 1..(IF k + 1 <= Len(s) THEN Len(s) - (k + 1) + 1 ELSE 0) : w[i] = s[k + 1 + i - 1]
  BY <1>a, <1>1, SubSeqIs
<1>4. \A i \in 1..n : k + 1 + i - 1 = k + i
  BY <1>1
<1>5. Rest(s, w, k)
  BY <1>2, <1>3, <1>4 DEF Rest
<1> QED  BY <1>a, <1>5

(* The same packets under their old and their new numbers.                 *)
LEMMA RestIndex ==
    ASSUME NEW s, NEW w, NEW k \in Nat, Len(s) \in Nat, k <= Len(s), Rest(s, w, k)
    PROVE  /\ \A j \in Ahead(w, 0) : k + j \in Ahead(s, k) /\ w[j] = s[k + j] /\ j \in Nat /\ j >= 1
           /\ \A j \in Ahead(s, k) : j - k \in Ahead(w, 0) /\ w[j - k] = s[j]
           /\ \A j \in Nat : k + j \in Ahead(s, k) => j \in Ahead(w, 0)
<1>1. Len(w) = Len(s) - k /\ Len(w) \in Nat
  BY DEF Rest
<1>2. \A j \in Ahead(w, 0) : k + j \in Ahead(s, k) /\ w[j] = s[k + j] /\ j \in Nat /\ j >= 1
  BY <1>1 DEF Rest, Ahead
<1>3. \A j \in Ahead(s, k) : j - k \in Ahead(w, 0) /\ k + (j - k) = j
  BY <1>1 DEF Ahead
<1>4. \A j \in Nat : k + j \in Ahead(s, k) => j \in Ahead(w, 0)
  BY <1>1 DEF Ahead
<1>5. \A j \in Ahead(s, k) : w[j - k] = s[j]
  <2> TAKE j \in Ahead(s, k)
  <2>1. w[j - k] = s[k + (j - k)]
    BY <1>2, <1>3
  <2> QED  BY <1>3, <2>1
<1> QED  BY <1>2, <1>3, <1>4, <1>5

(* The invariant of the loop after k turns is the one of the system when   *)
(* the k packets are gone.                                                 *)
LEMMA HurtShift ==
    ASSUME NEW d, NEW s, NEW w, NEW k \in Nat, NEW h, Len(s) \in Nat, k <= Len(s), Rest(s, w, k),
           Hurt(d, s, k, h)
    PROVE  Hurt(d, w, 0, h)
<1>1. /\ DmxOK(d) /\ WireOK(s, k) /\ OthersWhole(s, k, h)
      /\ Gathering(d, s, k, h) /\ NextFits(d, s, k, h) /\ UnbrokenWhole(d)
  BY DEF Hurt
<1>2. \A j \in Ahead(w, 0) : k + j \in Ahead(s, k) /\ w[j] = s[k + j] /\ j \in Nat /\ j >= 1
  BY RestIndex
<1>3. \A j \in Nat : k + j \in Ahead(s, k) => j \in Ahead(w, 0)
  BY RestIndex
<1>4. k + 1 \in Ahead(s, k) => 0 + 1 \in Ahead(w, 0) /\ w[0 + 1] = s[k + 1]
  BY <1>2, <1>3
<1>5. WireOK(w, 0)
  <2>1. \A j \in Ahead(w, 0) : Packet(w[j])
    BY <1>1, <1>2 DEF WireOK
  <2>2. ASSUME NEW i \in Ahead(w, 0), NEW j \in Ahead(w, 0), i < j, Elementary(w[i]), Elementary(w[j])
        PROVE  \/ w[i].id < w[j].id
               \/ w[i].id = w[j].id /\ w[i].from + w[i].n <= w[j].from
    <3>1. k + i < k + j /\ k + i \in Ahead(s, k) /\ k + j \in Ahead(s, k)
      BY <1>2, <2>2
    <3> QED  BY <1>1, <1>2, <2>2, <3>1 DEF WireOK
  <2> QED  BY <2>1, <2>2 DEF WireOK
<1>6. OthersWhole(w, 0, h)
  <2> SUFFICES ASSUME NEW j \in Ahead(w, 0), Elementary(w[j]), w[j].id # h
               PROVE  /\ w[j].pusi \/ j = 0 + 1 \/ Joined(w[j - 1], w[j])
                      /\ Ends(w[j]) \/ (j + 1 \in Ahead(w, 0) /\ Joined(w[j], w[j + 1]))
    BY DEF OthersWhole
  <2> DEFINE J == k + j
  <2>1. J \in Ahead(s, k) /\ w[j] = s[J] /\ j \in Nat /\ j >= 1 /\ j <= Len(w)
    BY <1>2 DEF Ahead, Rest
  <2>2. /\ s[J].pusi \/ J = k + 1 \/ Joined(s[J - 1], s[J])
        /\ Ends(s[J]) \/ (J + 1 \in Ahead(s, k) /\ Joined(s[J], s[J + 1]))
    <3> HIDE DEF J
    <3> QED  BY <1>1, <2>1 DEF OthersWhole
  <2>3. J = k + 1 => j = 0 + 1
    BY <2>1
  <2>4. j # 0 + 1 => w[j - 1] = s[J - 1]
    <3> SUFFICES ASSUME j # 0 + 1 PROVE w[j - 1] = s[J - 1]
      OBVIOUS
    <3>1. j - 1 \in Ahead(w, 0) /\ k + (j - 1) = J - 1
      BY <2>1 DEF Ahead, Rest
    <3> QED  BY <1>2, <3>1
  <2>5. J + 1 \in Ahead(s, k) => j + 1 \in Ahead(w, 0) /\ w[j + 1] = s[J + 1]
    <3> SUFFICES ASSUME J + 1 \in Ahead(s, k) PROVE j + 1 \in Ahead(w, 0) /\ w[j + 1] = s[J + 1]
      OBVIOUS
    <3>1. k + (j + 1) = J + 1 /\ j + 1 \in Nat
      BY <2>1
    <3> HIDE DEF J
    <3> QED  BY <1>2, <1>3, <3>1
  <2> HIDE DEF J
  <2> QED  BY <2>1, <2>2, <2>3, <2>4, <2>5
<1>7. Gathering(d, w, 0, h)
  BY <1>1, <1>2, <1>4 DEF Gathering
<1>8. NextFits(d, w, 0, h)
  <2>1. 0 + 1 \in Ahead(w, 0) => k + 1 \in Ahead(s, k) /\ w[0 + 1] = s[k + 1]
    BY <1>2
  <2> QED  BY <1>1, <2>1 DEF NextFits
<1> QED  BY <1>1, <1>5, <1>6, <1>7, <1>8 DEF Hurt

(* The loop of decode() keeps the invariant.                               *)
LEMMA HurtLoop ==
    ASSUME OwnPids, FramesOK, NEW h, IsSeq(wire), Hurt(d0, wire, 0, h), NEW k \in Nat, k <= Len(wire)
    PROVE  Hurt(DecodePackets(k), wire, k, h)
<1>0. Len(wire) \in Nat
  BY IsSeqFields
<1>1. PICK g : /\ DecodePackets(k) = g[k]
               /\ g[0] = d0
               /\ \A i \in 0..(k - 1) : g[i + 1] = DecodePacket(g[i], wire[i + 1], i * PacketSize)
  BY Loop
<1> DEFINE T == {i \in Nat : i <= k => Hurt(g[i], wire, i, h)}
<1>2. 0 \in T
  BY <1>1
<1>3. ASSUME NEW i \in Nat, i \in T PROVE i + 1 \in T
  <2> SUFFICES ASSUME i + 1 <= k PROVE Hurt(g[i + 1], wire, i + 1, h)
    OBVIOUS
  <2>1. Hurt(g[i], wire, i, h) /\ i \in 0..(k - 1) /\ i + 1 <= Len(wire)
    BY <1>0, <1>3
  <2>2. i * PacketSize \in Nat
    BY PacketAssumption
  <2>3. Hurt(DecodePacket(g[i], wire[i + 1], i * PacketSize), wire, i + 1, h)
    BY <1>0, <2>1, <2>2, HurtStep
  <2> QED  BY <1>1, <2>1, <2>3
<1> HIDE DEF T
<1>4. k \in T
  BY <1>2, <1>3, NatInductive
<1> QED  BY <1>1, <1>4 DEF T

(* The demuxer and the wire after a call of decode().                      *)
Decoded(k) ==
    LET d == DecodePackets(k)
    IN  /\ k <= Len(wire)
        /\ Rest(wire, wire', k)
        /\ mPmtId' = d.mPmtId /\ mEsFrames' = d.mEsFrames /\ out' = d.out
        /\ mRestData' \in 0..(PacketSize - 1)
        /\ mRestData' > 0 => k < Len(wire)
        /\ UNCHANGED <<config, mPidCcMap, mCurrentIndex, output, history, lost>>

(* decode() reads some number of whole packets off the wire.               *)
LEMMA DecodeIs ==
    ASSUME IsSeq(wire), mRestData \in Nat, NEW bytes \in Chunks, decode(bytes)
    PROVE  \E k \in Nat : Decoded(k)
<1> DEFINE there == PacketSize * Len(wire)
           n == IF mRestData + bytes < there THEN mRestData + bytes ELSE there
           k == n \div PacketSize
<1>1. Len(wire) \in Nat /\ PacketSize \in Nat \ {0} /\ there \in Nat /\ n \in Nat /\ n <= there
  BY IsSeqFields, PacketAssumption, ChannelAssumption
<1>2. k \in Nat /\ n = PacketSize * k + (n % PacketSize) /\ n % PacketSize \in 0..(PacketSize - 1)
  BY <1>1, DivMod
<1> HIDE DEF k, n
<1>3. k <= Len(wire) /\ (n % PacketSize > 0 => k < Len(wire))
  <2>0. PacketSize * k <= PacketSize * Len(wire) /\ (n % PacketSize > 0 => PacketSize * k < PacketSize * Len(wire))
    <3>1. PacketSize * k \in Nat
      BY <1>1, <1>2
    <3> QED  BY <1>1, <1>2, <3>1
  <2>1. k * PacketSize = PacketSize * k /\ Len(wire) * PacketSize = PacketSize * Len(wire)
    BY <1>1, <1>2
  <2>2. ASSUME Len(wire) + 1 <= k PROVE FALSE
    <3>1. (Len(wire) + 1) * PacketSize <= k * PacketSize
      BY <1>1, <1>2, <2>2, MulLess
    <3>2. (Len(wire) + 1) * PacketSize = Len(wire) * PacketSize + PacketSize
      BY <1>1
    <3> QED  BY <1>1, <1>2, <2>0, <2>1, <3>1, <3>2
  <2>3. ASSUME Len(wire) <= k, n % PacketSize > 0 PROVE FALSE
    <3>1. Len(wire) * PacketSize <= k * PacketSize
      BY <1>1, <1>2, <2>3, MulLess
    <3> QED  BY <1>1, <1>2, <2>0, <2>1, <2>3, <3>1
  <2> QED  BY <1>1, <1>2, <2>2, <2>3
<1> DEFINE d == DecodePackets(k)
<1>4. /\ mPmtId' = d.mPmtId /\ mEsFrames' = d.mEsFrames /\ out' = d.out
      /\ wire' = SubSeq(wire, k + 1, Len(wire))
      /\ mRestData' = n % PacketSize
      /\ UNCHANGED <<config, mPidCcMap, mCurrentIndex, output, history, lost>>
  BY DEF decode, k, n
<1>5. Rest(wire, wire', k)
  BY <1>2, <1>3, <1>4, RestIs
<1>6. Decoded(k)
  BY <1>1, <1>2, <1>3, <1>4, <1>5 DEF Decoded
<1> QED  BY <1>2, <1>6

(* After decode() the demuxer is as its loop left it.                      *)
LEMMA DecodedDmx ==
    ASSUME NEW k \in Nat, Decoded(k), DecodePackets(k) \in Dmx
    PROVE  d0' = DecodePackets(k)
<1> DEFINE d == DecodePackets(k)
<1>1. mPmtId' = d.mPmtId /\ mEsFrames' = d.mEsFrames /\ out' = d.out
  BY DEF Decoded
<1> HIDE DEF d
<1>2. d \in Dmx
  BY DEF d
<1>3. d = [mPmtId |-> d.mPmtId, mEsFrames |-> d.mEsFrames, out |-> d.out]
  BY <1>2 DEF Dmx
<1>4. d0' = d
  BY <1>1, <1>3 DEF d0
<1> QED  BY <1>4 DEF d

-----------------------------------------------------------------------------
(* The invariant of what a lost packet can do.                             *)

(* What is hurt in the next state, and what stays hurt.                    *)
LEMMA HurtPrime ==
    ASSUME NEW d, NEW w, NEW h, Hurt(d, w, 0, h)', d = d0', w = wire'
    PROVE  Hurt(d0, wire, 0, h)'
<1>1. /\ DmxOK(d)' /\ WireOK(w, 0)' /\ OthersWhole(w, 0, h)'
      /\ Gathering(d, w, 0, h)' /\ NextFits(d, w, 0, h)' /\ UnbrokenWhole(d)'
  BY DEF Hurt
<1>2. DmxOK(d0)'
  BY <1>1 DEF DmxOK, Dmx, Es, Handed, EsPids
<1>3. WireOK(wire, 0)'
  BY <1>1 DEF WireOK, Ahead, Packet, Pes, Elementary, FrameOf, EsPids
<1>4. OthersWhole(wire, 0, h)'
  BY <1>1 DEF OthersWhole, Ahead, Elementary, Joined, Ends, FrameOf, EsPids
<1>5. Gathering(d0, wire, 0, h)'
  BY <1>1 DEF Gathering, Ahead, Elementary, EsPids
<1>6. NextFits(d0, wire, 0, h)'
  BY <1>1 DEF NextFits, Ahead, Elementary, EsPids
<1>7. UnbrokenWhole(d0)'
  BY <1>1 DEF UnbrokenWhole, Whole
<1> QED  BY <1>2, <1>3, <1>4, <1>5, <1>6, <1>7 DEF Hurt

(* The invariant depends on the frames fed and the configuration only.     *)
LEMMA HurtStays ==
    ASSUME NEW d, NEW w, NEW h, Hurt(d, w, 0, h), UNCHANGED <<config, frames>>
    PROVE  Hurt(d, w, 0, h)'
<1>1. /\ DmxOK(d) /\ WireOK(w, 0) /\ OthersWhole(w, 0, h)
      /\ Gathering(d, w, 0, h) /\ NextFits(d, w, 0, h) /\ UnbrokenWhole(d)
  BY DEF Hurt
<1>0. config' = config /\ frames' = frames /\ mStreamPidMap' = mStreamPidMap
  BY DEF mStreamPidMap
<1>2. DmxOK(d)'
  BY <1>0, <1>1 DEF DmxOK, Dmx, Es, Handed, EsPids
<1>3. WireOK(w, 0)'
  BY <1>0, <1>1 DEF WireOK, Ahead, Packet, Pes, Elementary, FrameOf, EsPids
<1>4. OthersWhole(w, 0, h)'
  BY <1>0, <1>1 DEF OthersWhole, Ahead, Elementary, Joined, Ends, FrameOf, EsPids
<1>5. Gathering(d, w, 0, h)'
  BY <1>0, <1>1 DEF Gathering, Ahead, Elementary, EsPids
<1>6. NextFits(d, w, 0, h)'
  BY <1>0, <1>1 DEF NextFits, Ahead, Elementary, EsPids
<1>7. UnbrokenWhole(d)'
  BY <1>0, <1>1 DEF UnbrokenWhole, Whole
<1> QED  BY <1>2, <1>3, <1>4, <1>5, <1>6, <1>7 DEF Hurt

(* So does FramesOK.                                                       *)
LEMMA FramesStay ==
    ASSUME FramesOK, UNCHANGED <<config, frames>>
    PROVE  FramesOK'
BY DEF FramesOK, mStreamPidMap, Entry

(* The steps of the receiver.                                              *)
LEMMA DecodeHurt ==
    ASSUME OwnPids, HurtInv, NEW bytes \in Chunks, decode(bytes)
    PROVE  HurtInv'
<1>1. FramesOK /\ IsSeq(wire) /\ lost \in Nat /\ Len(wire) \in Nat /\ mRestData \in Nat
  BY PacketAssumption, IsSeqFields DEF HurtInv
<1>2. PICK k \in Nat : Decoded(k)
  BY <1>1, DecodeIs
<1>3. /\ k <= Len(wire) /\ Rest(wire, wire', k) /\ mRestData' \in 0..(PacketSize - 1)
      /\ UNCHANGED <<config, frames, lost>>
  BY <1>2 DEF Decoded, history
<1>4. IsSeq(wire)' /\ FramesOK'
  BY <1>1, <1>3, FramesStay DEF Rest, IsSeq
<1>5. ASSUME NEW h \in Nat, Hurt(d0, wire, 0, h)
      PROVE  Hurt(d0, wire, 0, h)'
  <2>1. PICK d : d = DecodePackets(k)
    OBVIOUS
  <2>2. PICK w : w = wire'
    OBVIOUS
  <2>3. Hurt(d, wire, k, h)
    BY <1>1, <1>3, <1>5, <2>1, HurtLoop
  <2>4. Hurt(d, w, 0, h)
    BY <1>1, <1>3, <2>2, <2>3, HurtShift
  <2>5. d = d0'
    BY <1>2, <2>1, <2>3, DecodedDmx DEF Hurt, DmxOK
  <2>6. Hurt(d, w, 0, h)'
    BY <1>3, <2>4, HurtStays
  <2> QED  BY <2>2, <2>5, <2>6, HurtPrime
<1> QED  BY <1>1, <1>3, <1>4, <1>5 DEF HurtInv

(* Lose keeps the invariant.                                               *)
LEMMA LoseStep ==
    ASSUME HurtInv, Lose
    PROVE  HurtInv'
<1>1. FramesOK /\ IsSeq(wire) /\ lost \in Nat /\ Len(wire) \in Nat
  BY IsSeqFields DEF HurtInv
<1>2. PICK x \in 1..Len(wire) :
         wire' = SubSeq(wire, 1, x - 1) \o SubSeq(wire, x + 1, Len(wire))
  <2>1. PICK x \in (IF mRestData = 0 THEN 1 ELSE 2)..Len(wire) :
           wire' = SubSeq(wire, 1, x - 1) \o SubSeq(wire, x + 1, Len(wire))
    BY Zenon DEF Lose
  <2>2. x \in 1..Len(wire)
    BY <1>1
  <2> QED  BY <2>1, <2>2, Zenon
<1>3. Without(wire, wire', x)
  BY <1>1, <1>2, RemoveIs
<1>4. /\ lost' = lost + 1 /\ UNCHANGED <<config, frames, mPmtId, mEsFrames, mRestData, out>>
  BY DEF Lose, history
<1>5. IsSeq(wire)' /\ FramesOK'
  BY <1>1, <1>3, <1>4, FramesStay DEF Without, IsSeq
<1>6. ASSUME lost = 0
      PROVE  \E h \in Nat : Hurt(d0, wire, 0, h)'
  <2>1. PICK d : d = d0
    OBVIOUS
  <2>2. PICK w : w = wire'
    OBVIOUS
  <2>3. PICK h \in Nat : Hurt(d, w, 0, h)
    BY <1>1, <1>3, <1>6, <2>1, <2>2, LoseHurt DEF HurtInv
  <2>4. d = d0'
    BY <1>4, <2>1 DEF d0
  <2>5. Hurt(d, w, 0, h)'
    BY <1>4, <2>3, HurtStays
  <2>6. Hurt(d0, wire, 0, h)'
    BY <2>2, <2>4, <2>5, HurtPrime
  <2> QED  BY <2>6
<1>7. lost' # 0 /\ (lost' = 1 => lost = 0) /\ lost' \in Nat /\ mRestData' \in 0..(PacketSize - 1)
  BY <1>1, <1>4 DEF HurtInv
<1> QED  BY <1>5, <1>6, <1>7 DEF HurtInv

(* encode(), through either caller, keeps the invariant.                   *)
LEMMA EncodeInv ==
    ASSUME OwnPids, HurtInv, SimpleEncode \/ LibraryEncode, UNCHANGED dmxvars
    PROVE  HurtInv'
<1>1. FramesOK /\ IsSeq(wire) /\ lost \in Nat /\ config \in Configs /\ Len(frames) \in Nat
  BY DEF HurtInv, FramesOK
<1>2. PICK f \in Frame, ra \in BOOLEAN : Fed(f) /\ encode(f, ra)
  BY <1>1, Callers
<1>3. UNCHANGED <<lost, mRestData>> /\ d0' = d0
  BY DEF dmxvars, d0
<1>4. FramesOK' /\ IsSeq(wire)'
  <2>1. FramesOK'
    BY <1>1, <1>2, EncodeFrames
  <2>2. IsSeq(wire)'
    BY <1>1, <1>2, EncodeWire DEF Extended, IsSeq
  <2> QED  BY <2>1, <2>2
<1>5. ASSUME NEW h \in Nat, Hurt(d0, wire, 0, h)
      PROVE  Hurt(d0, wire, 0, h)'
  <2>1. PICK d : d = d0
    OBVIOUS
  <2>2. PICK w : w = wire'
    OBVIOUS
  <2>3. Hurt(d, w, 0, h)'
    BY <1>1, <1>2, <1>5, <2>1, <2>2, EncodeHurt
  <2> QED  BY <1>3, <2>1, <2>2, <2>3, HurtPrime
<1> QED  BY <1>1, <1>3, <1>4, <1>5 DEF HurtInv

(* The invariant holds initially.                                          *)
LEMMA HurtInit ==
    ASSUME Init
    PROVE  HurtInv
<1>1. /\ config \in Configs /\ frames = <<>> /\ wire = <<>> /\ lost = 0 /\ mRestData = 0
      /\ d0 = [mPmtId |-> 0, mEsFrames |-> [pid \in {} |-> EsFrame(0)], out |-> <<>>]
  BY DEF Init, MuxInit, DmxInit, d0
<1>2. FramesOK
  BY <1>1 DEF FramesOK
<1>3. IsSeq(wire) /\ Len(wire) = 0
  <2>1. wire \in Seq(Nat) /\ Len(wire) = 0
    BY <1>1
  <2> QED  BY <2>1, SeqIsSeq
<1>4. DmxOK(d0) /\ DOMAIN d0.mEsFrames = {} /\ DOMAIN d0.out = {}
  <2> DEFINE m == [pid \in {} |-> EsFrame(0)]
  <2>1. m \in [{} -> Es] /\ DOMAIN m = {}
    OBVIOUS
  <2> HIDE DEF m
  <2>2. m \in UNION {[P -> Es] : P \in SUBSET EsPids}
    BY <2>1
  <2>3. d0 \in Dmx /\ d0.mEsFrames = m /\ d0.out = <<>>
    <3>1. d0 = [mPmtId |-> 0, mEsFrames |-> m, out |-> <<>>] /\ <<>> \in Seq(Handed)
      BY <1>1 DEF m
    <3> QED  BY <2>2, <3>1 DEF Dmx
  <2> QED  BY <2>1, <2>3 DEF DmxOK
<1>5. Ahead(wire, 0) = {}
  BY <1>3 DEF Ahead
<1>6. Hurt(d0, wire, 0, 0)
  BY <1>4, <1>5 DEF Hurt, WireOK, OthersWhole, Gathering, NextFits, UnbrokenWhole
<1> QED  BY <1>1, <1>2, <1>3, <1>6, PacketAssumption DEF HurtInv

(* Every step keeps it.                                                    *)
LEMMA HurtNext ==
    ASSUME OwnPids, HurtInv, [Next]_vars
    PROVE  HurtInv'
<1>1. CASE (SimpleEncode \/ LibraryEncode) /\ UNCHANGED dmxvars
  BY <1>1, EncodeInv
<1>2. CASE \E bytes \in Chunks : decode(bytes)
  BY <1>2, DecodeHurt
<1>3. CASE Lose
  BY <1>3, LoseStep
<1>4. CASE UNCHANGED <<config, frames, wire, dmxvars>>
  <2>1. /\ UNCHANGED <<config, frames, wire, lost, mRestData>> /\ d0' = d0
    BY <1>4 DEF dmxvars, d0
  <2>2. FramesOK' /\ IsSeq(wire)'
    BY <2>1, FramesStay DEF HurtInv, IsSeq
  <2>3. ASSUME NEW h \in Nat, Hurt(d0, wire, 0, h)
        PROVE  Hurt(d0, wire, 0, h)'
    <3>1. PICK d : d = d0
      OBVIOUS
    <3>2. PICK w : w = wire
      OBVIOUS
    <3>3. Hurt(d, w, 0, h)'
      BY <2>1, <2>3, <3>1, <3>2, HurtStays
    <3> QED  BY <2>1, <3>1, <3>2, <3>3, HurtPrime
  <2> QED  BY <2>1, <2>2, <2>3 DEF HurtInv
<1>5. CASE SetOutputCallBack /\ UNCHANGED dmxvars
  BY <1>4, <1>5 DEF SetOutputCallBack, history
<1>6. CASE UNCHANGED vars
  BY <1>4, <1>6 DEF vars, muxvars, history
<1> QED  BY <1>1, <1>2, <1>3, <1>5, <1>6 DEF Next

(* The demuxer has only lengths to go by, and yet the loss of any one      *)
(* packet never goes unnoticed: decode() hands over no frame as not broken *)
(* that is not a whole frame of its stream, whatever the frames and however*)
(* the bytes are cut up.                                                   *)
THEOREM OneLossIsNoticed ==
    ASSUME OwnPids
    PROVE  Spec => []OneLossNoticed
<1>1. Init => HurtInv
  BY HurtInit
<1>2. HurtInv /\ [Next]_vars => HurtInv'
  BY HurtNext
<1>3. HurtInv => OneLossNoticed
  <2> SUFFICES ASSUME HurtInv, lost <= 1 PROVE UnbrokenWhole(d0)
    BY DEF OneLossNoticed, UnbrokenWhole, d0
  <2>1. lost = 0 \/ lost = 1
    BY DEF HurtInv
  <2> QED  BY <2>1 DEF HurtInv, Hurt
<1> QED  BY <1>1, <1>2, <1>3, PTL DEF Spec

-----------------------------------------------------------------------------
(* Types.  Nothing is assumed of the PIDs here.                            *)

Table(p) ==
    /\ p.pid = PAT_PID => p.pmt = PMT_PID
    /\ p.pid = PMT_PID => {p.infos[t] : t \in DOMAIN p.infos} \subseteq EsPids

Shape(d) ==
    /\ d = [mPmtId |-> d.mPmtId, mEsFrames |-> d.mEsFrames, out |-> d.out]
    /\ d.mPmtId \in {0, PMT_PID}
    /\ DOMAIN d.mEsFrames \subseteq EsPids

TypeInv ==
    /\ TypeOK
    /\ frames \in Seq(Entry)
    /\ IsSeq(wire)
    /\ \A j \in 1..Len(wire) : Table(wire[j])
    /\ DOMAIN mEsFrames \subseteq EsPids

(* Storing and delivering a frame keep the types.                          *)
LEMMA StoreShape ==
    ASSUME NEW d, Shape(d), NEW pid, NEW e, NEW b
    PROVE  Shape(Store(d, pid, e)) /\ Shape(Deliver(d, pid, e, b))
<1> DEFINE m == [d.mEsFrames EXCEPT ![pid] = e]
<1>1. DOMAIN m \subseteq EsPids
  BY DEF Shape
<1>2. Store(d, pid, e) = [mPmtId |-> d.mPmtId, mEsFrames |-> m, out |-> d.out]
  BY DEF Shape, Store
<1>3. PICK o : Deliver(d, pid, e, b) = [d EXCEPT !.out = o]
  BY DEF Deliver
<1>4. [d EXCEPT !.out = o] = [mPmtId |-> d.mPmtId, mEsFrames |-> d.mEsFrames, out |-> o]
  BY DEF Shape
<1> HIDE DEF m
<1> QED  BY <1>1, <1>2, <1>3, <1>4 DEF Shape

(* One turn of the loop keeps the types.                                   *)
LEMMA PacketShape ==
    ASSUME NEW d, Shape(d), NEW p, Table(p), NEW base
    PROVE  Shape(DecodePacket(d, p, base))
<1>1. ASSUME NEW c, Shape(c), NEW pid, NEW e
      PROVE  Shape(Complete(c, pid, e))
  <2>1. Shape(Store(c, pid, e))
    BY <1>1, StoreShape
  <2>2. Shape(Deliver(c, pid, e, FALSE))
    BY <1>1, StoreShape
  <2>3. Shape(Store(Deliver(c, pid, e, FALSE), pid, reset(e)))
    BY <2>2, StoreShape
  <2> QED  BY <2>1, <2>3 DEF Complete
<1>2. ASSUME NEW c, Shape(c), NEW e, NEW pos
      PROVE  Shape(Continue(c, p, e, pos))
  BY <1>1, <1>2 DEF Continue
<1>3. ASSUME NEW e PROVE Shape(CutOff(d, p.pid, e))
  BY StoreShape DEF CutOff
<1>4. Shape(Start(d, p, base))
  BY <1>1, <1>2, <1>3 DEF Start
<1>5. Shape(Continue(d, p, d.mEsFrames[p.pid], FieldEnd(p)))
  BY <1>2
<1>6. ASSUME p.pid = PMT_PID PROVE Shape([d EXCEPT !.mEsFrames = FromPmt(p.infos)])
  <2>1. PICK m : m = FromPmt(p.infos)
    OBVIOUS
  <2>2. DOMAIN m \subseteq EsPids
    BY <1>6, <2>1 DEF Table, FromPmt
  <2>3. [d EXCEPT !.mEsFrames = m] = [mPmtId |-> d.mPmtId, mEsFrames |-> m, out |-> d.out]
    BY DEF Shape
  <2> QED  BY <2>1, <2>2, <2>3 DEF Shape
<1>7. p.pid = PAT_PID => Shape([d EXCEPT !.mPmtId = p.pmt])
  BY DEF Shape, Table
<1>0. PAT_PID \notin DOMAIN d.mEsFrames /\ PMT_PID \notin DOMAIN d.mEsFrames
  BY DEF Shape, EsPids, PAT_PID, PMT_PID, VIDEO_PID, AUDIO_PID
<1>8. CASE p.pid = PAT_PID
  <2>1. DecodePacket(d, p, base) = IF d.mPmtId = 0 THEN [d EXCEPT !.mPmtId = p.pmt] ELSE d
    BY <1>0, <1>8 DEF DecodePacket, PAT_PID, PMT_PID
  <2> QED  BY <1>7, <1>8, <2>1
<1>9. CASE p.pid = PMT_PID
  <2>1. DecodePacket(d, p, base) =
           IF d.mPmtId = p.pid /\ DOMAIN d.mEsFrames = {}
           THEN [d EXCEPT !.mEsFrames = FromPmt(p.infos)] ELSE d
    BY <1>0, <1>9 DEF DecodePacket, PAT_PID, PMT_PID
  <2> QED  BY <1>6, <1>9, <2>1
<1>10. CASE p.pid # PAT_PID /\ p.pid # PMT_PID
  <2>1. DecodePacket(d, p, base) =
           IF p.pid \in DOMAIN d.mEsFrames
           THEN IF p.pusi THEN Start(d, p, base)
                          ELSE Continue(d, p, d.mEsFrames[p.pid], FieldEnd(p))
           ELSE d
    BY <1>10 DEF DecodePacket
  <2> QED  BY <1>4, <1>5, <2>1
<1> QED  BY <1>8, <1>9, <1>10

(* The loop of decode() keeps the types.                                   *)
LEMMA LoopShape ==
    ASSUME IsSeq(wire), \A j \in 1..Len(wire) : Table(wire[j]), mPmtId \in {0, PMT_PID},
           DOMAIN mEsFrames \subseteq EsPids, NEW k \in Nat, k <= Len(wire)
    PROVE  Shape(DecodePackets(k))
<1>0. Len(wire) \in Nat
  BY IsSeqFields
<1>1. PICK g : /\ DecodePackets(k) = g[k]
               /\ g[0] = d0
               /\ \A i \in 0..(k - 1) : g[i + 1] = DecodePacket(g[i], wire[i + 1], i * PacketSize)
  BY Loop
<1> DEFINE T == {i \in Nat : i <= k => Shape(g[i])}
<1>2. 0 \in T
  BY <1>1 DEF Shape, d0
<1>3. ASSUME NEW i \in Nat, i \in T PROVE i + 1 \in T
  <2> SUFFICES ASSUME i + 1 <= k PROVE Shape(g[i + 1])
    OBVIOUS
  <2>1. Shape(g[i]) /\ i \in 0..(k - 1) /\ i + 1 \in 1..Len(wire)
    BY <1>0, <1>3
  <2>2. Table(wire[i + 1])
    BY <2>1
  <2>3. Shape(DecodePacket(g[i], wire[i + 1], i * PacketSize))
    BY <2>1, <2>2, PacketShape
  <2> QED  BY <1>1, <2>1, <2>3
<1> HIDE DEF T
<1>4. k \in T
  BY <1>2, <1>3, NatInductive
<1> QED  BY <1>1, <1>4 DEF T

(* encode() keeps the types.                                               *)
LEMMA TypeEncode ==
    ASSUME TypeInv, SimpleEncode \/ LibraryEncode, UNCHANGED dmxvars
    PROVE  TypeInv'
<1>1. /\ config \in Configs /\ frames \in Seq(Entry) /\ IsSeq(wire)
      /\ \A j \in 1..Len(wire) : Table(wire[j])
      /\ Len(frames) \in Nat /\ Len(wire) \in Nat /\ CcMod \in Nat \ {0} /\ PatInterval \in Nat \ {0}
      /\ mPidCcMap \in [CcKeys -> {NoCc} \cup 0..(CcMod - 1)]
      /\ mCurrentIndex \in 0..PatInterval /\ output \in BOOLEAN
      /\ mRestData > 0 => wire # <<>>
  BY CounterAssumption, IsSeqFields DEF TypeInv, TypeOK
<1>2. PICK f \in Frame, ra \in BOOLEAN : Fed(f) /\ encode(f, ra)
  BY <1>1, Callers
<1>3. Packets(f) \in Nat /\ Packets(f) \in Int
  BY PacketsNat
<1>4. mPidCcMap' \in [CcKeys -> {NoCc} \cup 0..(CcMod - 1)]
  <2>1. \A k \in CcKeys, n \in Nat : getCc(k, n) \in 0..(CcMod - 1)
    BY <1>1 DEF getCc, NoCc
  <2>2. \A k \in CcKeys : getCc(k, Packets(f)) \in 0..(CcMod - 1)
    BY <1>3, <2>1
  <2>3. 0 \in CcKeys /\ getCc(0, 1) \in 0..(CcMod - 1)
    BY <2>1 DEF CcKeys
  <2>4. mPidCcMap' = [k \in CcKeys |->
               IF k = 0 /\ Tables(ra) THEN getCc(0, 1)
               ELSE IF k = f.type /\ Packets(f) > 0 THEN getCc(k, Packets(f))
               ELSE mPidCcMap[k]]
    BY <1>2 DEF encode
  <2> QED  BY <1>1, <2>2, <2>3, <2>4
<1>5. mCurrentIndex' \in 0..PatInterval
  <2>1. mCurrentIndex' = IF config.mux = "h222Type" THEN NextIndex ELSE mCurrentIndex
    BY <1>2 DEF encode
  <2>2. PatInterval % PatInterval = 0
    BY <1>1
  <2>3. NextIndex \in 0..PatInterval
    <3>1. CASE shouldCreatePat
      BY <1>1, <3>1 DEF NextIndex
    <3>2. CASE ~shouldCreatePat
      <4>1. mCurrentIndex # PatInterval
        BY <2>2, <3>2 DEF shouldCreatePat
      <4> QED  BY <1>1, <3>2, <4>1 DEF NextIndex
    <3> QED  BY <3>1, <3>2
  <2> QED  BY <1>1, <2>1, <2>3
<1>6. frames' \in Seq(Entry) /\ Len(frames') <= MaxFrames
  <2>1. \E shown \in BOOLEAN, tables \in BOOLEAN :
           frames' = Append(frames, [frame |-> f, shown |-> shown, tables |-> tables])
    BY <1>2 DEF encode
  <2>2. PICK x \in Entry : frames' = Append(frames, x)
    BY <2>1 DEF Entry
  <2>3. Len(frames) < MaxFrames /\ MaxFrames \in Nat
    BY <1>2, InputAssumption DEF encode
  <2> QED  BY <1>1, <2>2, <2>3
<1>w. PICK w : w = wire'
  OBVIOUS
<1>7. PICK t \in {0, 2}, n \in {0, Packets(f)} : Extended(wire, w, f, t, n)
  BY <1>1, <1>2, <1>w, EncodeWire
<1>8. IsSeq(wire)' /\ n \in Nat /\ Len(w) = Len(wire) + t + n
  BY <1>3, <1>7, <1>w DEF Extended, IsSeq
<1>9. mRestData > 0 => wire' # <<>>
  <2>1. wire # <<>> => Len(wire) # 0
    BY <1>1 DEF IsSeq
  <2>2. w = <<>> => Len(w) = 0
    OBVIOUS
  <2> QED  BY <1>1, <1>8, <1>w, <2>1, <2>2
<1>10. ASSUME NEW j \in 1..Len(w) PROVE Table(w[j])
  <2>1. Origin(wire, w, f, t, n)
    BY <1>1, <1>7, <1>8, NewIndex
  <2>2. CASE j \in 1..Len(wire) /\ w[j] = wire[j]
    BY <1>1, <2>2
  <2>3. ASSUME NEW i \in 1..n, w[j] = createPes(f, i) PROVE Table(w[j])
    <3>1. f.pid # PAT_PID /\ f.pid # PMT_PID
      BY <1>2 DEF Fed, PidOf, mStreamPidMap, PAT_PID, PMT_PID, VIDEO_PID, AUDIO_PID
    <3>2. w[j].pid = f.pid
      BY <2>3 DEF createPes, PesPacket
    <3> QED  BY <3>1, <3>2 DEF Table
  <2>4. Table(Pat) /\ Table(Pmt)
    <3>1. \A u \in DOMAIN mStreamPidMap : mStreamPidMap[u] \in EsPids
      BY DEF mStreamPidMap, EsPids
    <3> QED  BY <3>1, PatPmt DEF Table
  <2> QED  BY <2>1, <2>2, <2>3, <2>4 DEF Origin
<1>11. (\A j \in 1..Len(wire) : Table(wire[j]))'
  BY <1>w, <1>10 DEF Table, EsPids
<1>12. UNCHANGED <<config, output, mPmtId, mEsFrames, mRestData, lost>>
  BY <1>2 DEF encode, dmxvars
<1> QED  BY <1>4, <1>5, <1>6, <1>8, <1>9, <1>11, <1>12 DEF TypeInv, TypeOK, EsPids

(* decode() keeps the types.                                               *)
LEMMA TypeDecode ==
    ASSUME TypeInv, NEW bytes \in Chunks, decode(bytes)
    PROVE  TypeInv'
<1>1. /\ IsSeq(wire) /\ mRestData \in Nat /\ mPmtId \in {0, PMT_PID}
      /\ \A j \in 1..Len(wire) : Table(wire[j])
      /\ DOMAIN mEsFrames \subseteq EsPids /\ Len(wire) \in Nat
  BY PacketAssumption, IsSeqFields DEF TypeInv, TypeOK
<1>2. PICK k \in Nat : Decoded(k)
  BY <1>1, DecodeIs
<1>3. /\ k <= Len(wire) /\ Rest(wire, wire', k)
      /\ mPmtId' = DecodePackets(k).mPmtId /\ mEsFrames' = DecodePackets(k).mEsFrames
      /\ mRestData' \in 0..(PacketSize - 1) /\ (mRestData' > 0 => k < Len(wire))
      /\ UNCHANGED <<config, mPidCcMap, mCurrentIndex, output, frames, lost>>
  BY <1>2 DEF Decoded, history
<1>4. mPmtId' \in {0, PMT_PID} /\ DOMAIN mEsFrames' \subseteq EsPids
  BY <1>1, <1>3, LoopShape DEF Shape
<1>w. PICK w : w = wire'
  OBVIOUS
<1>5. IsSeq(wire)' /\ Len(w) = Len(wire) - k /\ \A j \in 1..Len(w) : w[j] = wire[k + j]
  BY <1>3, <1>w DEF Rest, IsSeq
<1>6. mRestData' > 0 => wire' # <<>>
  <2>1. w = <<>> => Len(w) = 0
    OBVIOUS
  <2> QED  BY <1>1, <1>3, <1>5, <1>w, <2>1
<1>7. (\A j \in 1..Len(wire) : Table(wire[j]))'
  <2>1. ASSUME NEW j \in 1..Len(w) PROVE Table(w[j])
    <3>1. k + j \in 1..Len(wire)
      BY <1>1, <1>3, <1>5
    <3> QED  BY <1>1, <1>5, <3>1
  <2> QED  BY <1>w, <2>1 DEF Table, EsPids
<1> QED  BY <1>3, <1>4, <1>5, <1>6, <1>7 DEF TypeInv, TypeOK, EsPids

(* Lose keeps the types.                                                   *)
LEMMA TypeLose ==
    ASSUME TypeInv, Lose
    PROVE  TypeInv'
<1>1. /\ IsSeq(wire) /\ (\A j \in 1..Len(wire) : Table(wire[j])) /\ Len(wire) \in Nat /\ mRestData \in Nat
      /\ MaxLoss \in Nat /\ lost \in 0..MaxLoss
  BY PacketAssumption, ChannelAssumption, IsSeqFields DEF TypeInv, TypeOK
<1>2. PICK x \in (IF mRestData = 0 THEN 1 ELSE 2)..Len(wire) :
         wire' = SubSeq(wire, 1, x - 1) \o SubSeq(wire, x + 1, Len(wire))
  BY Zenon DEF Lose
<1>3. x \in 1..Len(wire) /\ (mRestData > 0 => x >= 2)
  BY <1>1
<1>w. PICK w : w = wire'
  OBVIOUS
<1>4. Without(wire, w, x)
  BY <1>1, <1>2, <1>3, <1>w, RemoveIs
<1>5. /\ IsSeq(w) /\ Len(w) = Len(wire) - 1 /\ Len(w) \in Nat
      /\ \A j \in 1..Len(w) : \E i \in 1..Len(wire) : w[j] = wire[i]
  BY <1>1, <1>3, <1>4 DEF Without
<1>6. /\ lost' = lost + 1 /\ lost < MaxLoss
      /\ UNCHANGED <<config, mPidCcMap, mCurrentIndex, output, frames, mPmtId, mEsFrames, mRestData>>
  BY DEF Lose, history
<1>7. mRestData > 0 => wire' # <<>>
  <2>1. w = <<>> => Len(w) = 0
    OBVIOUS
  <2> QED  BY <1>1, <1>3, <1>5, <1>w, <2>1
<1>8. (\A j \in 1..Len(wire) : Table(wire[j]))' /\ IsSeq(wire)'
  <2>1. \A j \in 1..Len(w) : Table(w[j])
    BY <1>1, <1>5
  <2>2. (\A j \in 1..Len(wire) : Table(wire[j]))'
    BY <1>w, <2>1 DEF Table, EsPids
  <2> QED  BY <1>5, <1>w, <2>2 DEF IsSeq
<1>9. lost' \in 0..MaxLoss
  BY <1>1, <1>6
<1> QED  BY <1>6, <1>7, <1>8, <1>9 DEF TypeInv, TypeOK, EsPids

(* Type correctness.  What is left of a packet in mRestData is the front   *)
(* of one that is on the wire, and decode() takes the PMT's PID from       *)
(* nothing but a PAT, whatever is sent and whatever is lost.               *)
THEOREM MpegTsTypes == Spec => []TypeOK
<1>1. Init => TypeInv
  <2> SUFFICES ASSUME Init PROVE TypeInv
    OBVIOUS
  <2>1. wire \in Seq(Nat) /\ Len(wire) = 0 /\ frames \in Seq(Entry) /\ Len(frames) = 0
    BY DEF Init, MuxInit
  <2>2. IsSeq(wire) /\ DOMAIN mEsFrames = {}
    BY <2>1, SeqIsSeq DEF Init, DmxInit
  <2>3. /\ mCurrentIndex \in 0..PatInterval /\ Len(frames) <= MaxFrames
        /\ lost \in 0..MaxLoss /\ mRestData \in 0..(PacketSize - 1) /\ ~(mRestData > 0)
    BY <2>1, PacketAssumption, CounterAssumption, InputAssumption, ChannelAssumption
       DEF Init, MuxInit, DmxInit
  <2>4. TypeOK
    BY <2>3 DEF TypeOK, Init, MuxInit, DmxInit
  <2>5. 1..Len(wire) = {}
    BY <2>1
  <2> QED  BY <2>1, <2>2, <2>4, <2>5 DEF TypeInv
<1>2. TypeInv /\ [Next]_vars => TypeInv'
  <2> SUFFICES ASSUME TypeInv, [Next]_vars PROVE TypeInv'
    OBVIOUS
  <2>1. CASE (SimpleEncode \/ LibraryEncode) /\ UNCHANGED dmxvars
    BY <2>1, TypeEncode
  <2>2. CASE \E bytes \in Chunks : decode(bytes)
    BY <2>2, TypeDecode
  <2>3. CASE Lose
    BY <2>3, TypeLose
  <2>4. CASE /\ UNCHANGED <<config, mPidCcMap, mCurrentIndex, wire, frames, dmxvars>>
             /\ output' \in BOOLEAN
    BY <2>4 DEF TypeInv, TypeOK, IsSeq, Table, EsPids, dmxvars
  <2>5. CASE SetOutputCallBack /\ UNCHANGED dmxvars
    BY <2>4, <2>5 DEF SetOutputCallBack, history
  <2>6. CASE UNCHANGED vars
    BY <2>4, <2>6 DEF vars, muxvars, history, TypeInv, TypeOK
  <2> QED  BY <2>1, <2>2, <2>3, <2>5, <2>6 DEF Next
<1>3. TypeInv => TypeOK
  BY DEF TypeInv
<1> QED  BY <1>1, <1>2, <1>3, PTL DEF Spec
=============================================================================
