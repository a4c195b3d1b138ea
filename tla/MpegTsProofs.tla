---------------------------- MODULE MpegTsProofs ----------------------------
(***************************************************************************)
(* Proofs about the transport stream layout and the muxer, for every       *)
(* packet size, counter width, PAT interval and set of frames.             *)
(***************************************************************************)
EXTENDS MpegTsDemuxer, TLAPS

(* The frames that callers can build.                                      *)
Frame == [id : Nat, type : StreamTypes, pid : Nat, key : BOOLEAN, size : Nat,
          pts : Nat, dts : Nat, two : BOOLEAN]

-----------------------------------------------------------------------------
(* Layout.                                                                 *)

(* The i-th packet of a frame that is not used up: the reader finds the    *)
(* payload where the writer put it, be there an adaptation field or not,   *)
(* stuffing or not; the payload fills the packet to its last byte; and the *)
(* next packet goes on where this one ends, or the frame ends with it.     *)
Sound(f, i) ==
    LET p == PesPacket(f, i, 0)
    IN  /\ p.at = IF p.pusi THEN PesEnd(p) ELSE FieldEnd(p)
        /\ p.n \in Nat \ {0}
        /\ p.at + p.n = PacketSize
        /\ \/ p.from + p.n = Offset(f, i + 1) /\ Offset(f, i + 1) <= f.size
           \/ p.from + p.n = f.size /\ f.size < Offset(f, i + 1)

(* Headers have at most 31 bytes and leave room for the body; all packets  *)
(* but the first have headers of one size.                                 *)
LEMMA HeaderFits ==
    ASSUME NEW f \in Frame, NEW i \in Nat \ {0}
    PROVE  /\ HeaderSize(f, i) \in 4..31
           /\ lBodySize(f, i) \in Nat \ {0}
           /\ i # 1 => lBodySize(f, i) = lBodySize(f, 2)
BY PacketAssumption DEF Frame, HeaderSize, lBodySize, FirstField, mHeaderDataLength,
   TsHeader, PESHeader, NoField

(* A packet's bytes begin where the last one's ended.                      *)
LEMMA OffsetNext ==
    ASSUME NEW f \in Frame, NEW i \in Nat \ {0}
    PROVE  /\ Offset(f, i) \in Nat
           /\ Offset(f, i + 1) = Offset(f, i) + lBodySize(f, i)
<1> DEFINE b == lBodySize(f, 1)  r == lBodySize(f, 2)
<1>1. b \in Nat /\ r \in Nat
  BY HeaderFits
<1>2. CASE i = 1
  BY <1>1, <1>2 DEF Offset
<1>3. CASE i # 1
  <2>1. lBodySize(f, i) = r
    BY <1>3, HeaderFits
  <2>2. Offset(f, i) = b + (i - 2) * r /\ Offset(f, i + 1) = b + (i - 1) * r
    BY <1>3 DEF Offset
  <2> HIDE DEF b, r
  <2>3. (i - 1) * r = (i - 2) * r + r /\ (i - 2) * r \in Nat
    BY <1>1, <1>3
  <2> QED  BY <1>1, <2>1, <2>2, <2>3
<1> QED  BY <1>2, <1>3

(* For every frame, however long, and every packet of it.                  *)
THEOREM LayoutSound ==
    ASSUME NEW f \in Frame, NEW i \in Nat \ {0}, Offset(f, i) < f.size
    PROVE  Sound(f, i)
<1> DEFINE h == HeaderSize(f, i)  b == lBodySize(f, i)  o == Offset(f, i)
           st == lStuffSize(f, i)  p == PesPacket(f, i, 0)
<1>1. h \in 4..31 /\ b \in Nat \ {0} /\ b = PacketSize - h /\ PacketSize \in Nat
  BY HeaderFits, PacketAssumption DEF lBodySize
<1>2. o \in Nat /\ Offset(f, i + 1) = o + b /\ f.size \in Nat /\ o < f.size
  BY OffsetNext DEF Frame
<1>3. /\ st = IF b <= f.size - o THEN 0 ELSE b - (f.size - o)
      /\ st \in 0..(b - 1)
  BY <1>1, <1>2 DEF lStuffSize, lInSize
<1>4. /\ p.at = h + st /\ p.n = b - st /\ p.from = o
      /\ p.hdr = mHeaderDataLength(f)
      /\ p.pusi <=> i = 1
      /\ p.pcr <=> i = 1 /\ f.pid = PcrPid
      /\ p.afl = (IF i = 1 THEN FirstField(f) ELSE NoField) + st
  BY DEF PesPacket
<1>5. p.at = IF p.pusi THEN PesEnd(p) ELSE FieldEnd(p)
  <2> HIDE DEF p, st
  <2>1. CASE i = 1
    <3>1. h = TsHeader + 1 + FirstField(f) + PESHeader + mHeaderDataLength(f)
      BY <2>1 DEF HeaderSize, FirstField, NoField, TsHeader, PESHeader, mHeaderDataLength
    <3>2. FirstField(f) = IF f.pid = PcrPid THEN 7 ELSE IF f.key THEN 1 ELSE NoField
      BY DEF FirstField
    <3>3. FieldEnd(p) = TsHeader + 1 + FirstField(f) + st
      <4>1. CASE f.pid = PcrPid
        BY <1>1, <1>3, <1>4, <2>1, <3>2, <4>1 DEF FieldEnd, TsHeader, NoField
      <4>2. CASE f.pid # PcrPid
        BY <1>1, <1>3, <1>4, <2>1, <3>2, <4>2 DEF FieldEnd, TsHeader, NoField
      <4> QED  BY <4>1, <4>2
    <3> QED  BY <1>1, <1>3, <1>4, <2>1, <3>1, <3>2, <3>3
             DEF PesEnd, TsHeader, PESHeader, NoField, mHeaderDataLength
  <2>2. CASE i # 1
    <3>1. h = TsHeader
      BY <2>2 DEF HeaderSize
    <3> QED  BY <1>1, <1>3, <1>4, <2>2, <3>1 DEF FieldEnd, TsHeader, NoField
  <2> QED  BY <2>1, <2>2
<1>6. p.n \in Nat \ {0} /\ p.at + p.n = PacketSize
  BY <1>1, <1>3, <1>4
<1>7. \/ p.from + p.n = Offset(f, i + 1) /\ Offset(f, i + 1) <= f.size
      \/ p.from + p.n = f.size /\ f.size < Offset(f, i + 1)
  BY <1>1, <1>2, <1>3, <1>4
<1> QED  BY <1>5, <1>6, <1>7 DEF Sound

-----------------------------------------------------------------------------
(* Arithmetic.                                                             *)

(* Division with remainder.                                                *)
LEMMA DivMod ==
    ASSUME NEW m \in Nat \ {0}, NEW x \in Nat
    PROVE  /\ x = m * (x \div m) + (x % m)
           /\ x % m \in 0..(m - 1)
           /\ x \div m \in Nat
OBVIOUS

(* The remainder is the only number in its range that leaves a multiple.   *)
LEMMA ModUnique ==
    ASSUME NEW m \in Nat \ {0}, NEW q \in Nat, NEW r \in 0..(m - 1)
    PROVE  (m * q + r) % m = r
OBVIOUS

(* Counting modulo m.                                                      *)
LEMMA ModSucc ==
    ASSUME NEW m \in Nat \ {0}, NEW x \in Nat
    PROVE  ((x % m) + 1) % m = (x + 1) % m
<1> DEFINE q == x \div m  r == x % m
<1>1. x = m * q + r /\ r \in 0..(m - 1) /\ q \in Nat
  BY DivMod
<1> HIDE DEF q, r
<1>2. CASE r < m - 1
  <2>1. (r + 1) % m = r + 1
    BY <1>1, <1>2
  <2>2. (m * q + (r + 1)) % m = r + 1
    BY <1>1, <1>2, ModUnique
  <2>3. m * q \in Nat /\ x + 1 = m * q + (r + 1)
    BY <1>1
  <2> QED  BY <2>1, <2>2, <2>3 DEF r
<1>3. CASE r = m - 1
  <2>1. (r + 1) % m = 0
    BY <1>3
  <2>2. (m * (q + 1) + 0) % m = 0
    BY <1>1, ModUnique
  <2>3. x + 1 = m * (q + 1) + 0
    BY <1>1, <1>3
  <2> QED  BY <2>1, <2>2, <2>3 DEF r
<1> QED  BY <1>1, <1>2, <1>3

(* A frame has a number of packets.                                        *)
LEMMA PacketsNat == ASSUME NEW f \in Frame PROVE Packets(f) \in Nat
<1> DEFINE b == lBodySize(f, 1)  r == lBodySize(f, 2)
<1>1. b \in Nat \ {0} /\ r \in Nat \ {0} /\ f.size \in Nat
  BY HeaderFits DEF Frame
<1> HIDE DEF b, r
<1>2. CASE f.size <= b
  BY <1>1, <1>2 DEF Packets, b
<1>3. CASE f.size > b
  <2>1. f.size - b + r - 1 \in Nat
    BY <1>1, <1>3
  <2>2. (f.size - b + r - 1) \div r \in Nat
    BY <1>1, <2>1, DivMod
  <2> QED  BY <1>1, <1>3, <2>2 DEF Packets, b, r
<1> QED  BY <1>1, <1>2, <1>3

-----------------------------------------------------------------------------
(* What every caller of encode() passes.                                   *)

PidOf(t) == IF config.simple THEN VIDEO_PID ELSE mStreamPidMap[t]

Fed(f) ==
    /\ f \in Frame
    /\ f.id = Len(frames) + 1
    /\ f.type \in config.types
    /\ f.pid = PidOf(f.type)
    /\ f.two \/ f.pts = f.dts

(* Either caller gives encode() a frame as Fed describes it.               *)
LEMMA Callers ==
    ASSUME config \in Configs, Len(frames) \in Nat, SimpleEncode \/ LibraryEncode
    PROVE  \E f \in Frame, ra \in BOOLEAN : Fed(f) /\ encode(f, ra)
<1>1. config.types \subseteq StreamTypes /\ Len(frames) + 1 \in Nat
  BY ConfigAssumption
<1>2. CASE SimpleEncode
  <2>1. PICK t \in config.types, key \in BOOLEAN, dts \in Stamps :
            \E size \in Sizes[t] : encode(SimpleFrame(t, key, size, dts), FALSE)
    BY <1>2 DEF SimpleEncode
  <2>2. PICK size \in Sizes[t] : encode(SimpleFrame(t, key, size, dts), FALSE)
    BY <2>1
  <2>3. size \in Nat /\ dts \in Nat
    BY <1>1, ConfigAssumption, InputAssumption
  <2>4. Fed(SimpleFrame(t, key, size, dts))
    BY <1>1, <1>2, <2>3 DEF Fed, Frame, SimpleFrame, SimpleEncode, PidOf, VIDEO_PID
  <2> QED  BY <2>2, <2>4 DEF Fed
<1>3. CASE LibraryEncode
  <2>1. PICK t \in config.types, key \in BOOLEAN, two \in BOOLEAN, pts \in Stamps, dts \in Stamps :
            /\ two \/ pts = dts
            /\ \E size \in Sizes[t] :
                  encode([id |-> Len(frames) + 1, type |-> t, pid |-> mStreamPidMap[t],
                          key |-> key, size |-> size, pts |-> pts, dts |-> dts,
                          two |-> two], key)
    BY <1>3 DEF LibraryEncode
  <2>2. PICK size \in Sizes[t] :
               encode([id |-> Len(frames) + 1, type |-> t, pid |-> mStreamPidMap[t],
                       key |-> key, size |-> size, pts |-> pts, dts |-> dts,
                       two |-> two], key)
    BY <2>1
  <2>3. size \in Nat /\ pts \in Nat /\ dts \in Nat
    BY <1>1, ConfigAssumption, InputAssumption
  <2>4. mStreamPidMap[t] \in Nat
    BY DEF mStreamPidMap, VIDEO_PID, AUDIO_PID
  <2>5. Fed([id |-> Len(frames) + 1, type |-> t, pid |-> mStreamPidMap[t],
             key |-> key, size |-> size, pts |-> pts, dts |-> dts, two |-> two])
    BY <1>1, <1>3, <2>1, <2>3, <2>4 DEF Fed, Frame, LibraryEncode, PidOf
  <2> QED  BY <2>2, <2>5 DEF Fed
<1> QED  BY <1>2, <1>3

-----------------------------------------------------------------------------
(* PAT and PMT.                                                            *)

Entry == [frame : Frame, shown : BOOLEAN, tables : BOOLEAN]

(* mCurrentIndex is one more than the frames fed since the last tables.    *)
IndexInv ==
    /\ config \in Configs
    /\ frames \in Seq(Entry)
    /\ config.mux = "h222Type" =>
          IF frames = <<>> THEN mCurrentIndex = 0
          ELSE mCurrentIndex \in 1..PatInterval /\ since = mCurrentIndex - 1

(* encode() keeps IndexInv.                                                *)
LEMMA IndexStep ==
    ASSUME IndexInv, NEW f \in Frame, NEW ra \in BOOLEAN, encode(f, ra)
    PROVE  IndexInv'
<1>1. config' = config /\ config \in Configs /\ PatInterval \in Nat \ {0}
  BY CounterAssumption DEF IndexInv, encode
<1>2. /\ frames' \in Seq(Entry)
      /\ frames' # <<>>
  <2>1. \E shown \in BOOLEAN, tables \in BOOLEAN :
           frames' = Append(frames, [frame |-> f, shown |-> shown, tables |-> tables])
    BY DEF encode
  <2>2. PICK e \in Entry : frames' = Append(frames, e)
    BY <2>1 DEF Entry
  <2> QED  BY <2>2 DEF IndexInv
<1>3. ASSUME config.mux = "h222Type"
      PROVE  mCurrentIndex' \in 1..PatInterval /\ since' = mCurrentIndex' - 1
  <2>1. /\ mCurrentIndex' = (IF shouldCreatePat THEN 0 ELSE mCurrentIndex) + 1
        /\ since' = IF shouldCreatePat THEN 0 ELSE IF since = NoPat THEN NoPat ELSE since + 1
    BY <1>3 DEF encode, NextIndex, Tables
  <2>2. CASE shouldCreatePat
    BY <1>1, <2>1, <2>2
  <2>3. CASE ~shouldCreatePat
    <3>1. frames # <<>>
      BY <1>1, <1>3, <2>3 DEF IndexInv, shouldCreatePat
    <3>2. mCurrentIndex \in 1..PatInterval /\ since = mCurrentIndex - 1
      BY <1>3, <3>1 DEF IndexInv
    <3>3. mCurrentIndex # PatInterval
      BY <1>1, <2>3 DEF shouldCreatePat
    <3> QED  BY <1>1, <2>1, <2>3, <3>2, <3>3 DEF NoPat
  <2> QED  BY <2>2, <2>3
<1> QED  BY <1>1, <1>2, <1>3 DEF IndexInv

(* A PAT and a PMT go out before the first frame of an H.222 stream and at *)
(* least every PatInterval frames from then on (shouldCreatePat).          *)
THEOREM TablesKeepComing == Spec => []TablesRecur
<1>1. Init => IndexInv
  BY DEF Init, MuxInit, IndexInv, Entry
<1>2. IndexInv /\ [Next]_vars => IndexInv'
  <2> SUFFICES ASSUME IndexInv, [Next]_vars PROVE IndexInv'
    OBVIOUS
  <2>1. CASE SimpleEncode \/ LibraryEncode
    BY <2>1, Callers, IndexStep DEF IndexInv
  <2>2. CASE UNCHANGED <<config, mCurrentIndex, history>>
    BY <2>2 DEF IndexInv, history
  <2>3. CASE SetOutputCallBack
    BY <2>2, <2>3 DEF SetOutputCallBack
  <2>4. CASE \E bytes \in Chunks : decode(bytes)
    BY <2>2, <2>4 DEF decode
  <2>5. CASE Lose
    BY <2>2, <2>5 DEF Lose
  <2>6. CASE UNCHANGED vars
    BY <2>2, <2>6 DEF vars, muxvars
  <2> QED  BY <2>1, <2>3, <2>4, <2>5, <2>6 DEF Next
<1>3. IndexInv => TablesRecur
  BY CounterAssumption DEF IndexInv, TablesRecur
<1> QED  BY <1>1, <1>2, <1>3, PTL DEF Spec

-----------------------------------------------------------------------------
(* Continuity counters.                                                    *)

(* No two stream types of a muxer send on the same PID: xrtc's wrapper has *)
(* one stream type, any other caller at most one per media type.           *)
DistinctPids ==
    \A c \in Configs :
        IF c.simple THEN \E t \in StreamTypes : c.types = {t}
                    ELSE \A t, u \in c.types : (isVideo(t) <=> isVideo(u)) => t = u

Counters == {NoCc} \cup 0..(CcMod - 1)

(* The counter of a stream type, or of the tables, is the one last written *)
(* on its PID.                                                             *)
CcInv ==
    /\ config \in Configs
    /\ Len(frames) \in Nat
    /\ mPidCcMap \in [CcKeys -> Counters]
    /\ last \in [Pids -> Counters]
    /\ last[PAT_PID] = mPidCcMap[0]
    /\ last[PMT_PID] = mPidCcMap[0]
    /\ \A t \in config.types : last[PidOf(t)] = mPidCcMap[t]
    /\ ~gap

(* Counters that count up by one modulo CcMod follow each other.           *)
LEMMA CcValue ==
    ASSUME NEW c \in Counters, NEW n \in Nat \ {0}
    PROVE  /\ (c + n) % CcMod \in 0..(CcMod - 1)
           /\ Follows(c, (c + 1) % CcMod)
           /\ Follows((c + n) % CcMod, (c + (n + 1)) % CcMod)
<1>1. CcMod \in Nat \ {0} /\ c + n \in Nat
  BY CounterAssumption DEF Counters, NoCc
<1>2. (c + n) % CcMod \in 0..(CcMod - 1)
  BY <1>1, DivMod
<1>3. (((c + n) % CcMod) + 1) % CcMod = ((c + n) + 1) % CcMod
  BY <1>1, ModSucc
<1>4. (c + n) + 1 = c + (n + 1)
  BY DEF Counters, NoCc
<1> QED  BY <1>2, <1>3, <1>4 DEF Follows

(* The packets of one encode(), after t packets of tables.                 *)
LEMMA OutputIs ==
    ASSUME CcInv, NEW f, Fed(f), NEW t \in {0, 2},
           NEW i \in 1..(t + Packets(f))
    PROVE  LET s == Output(f, t)
           IN  /\ DOMAIN s = 1..(t + Packets(f))
               /\ i > t => /\ s[i].pid = f.pid
                           /\ s[i].cc = (mPidCcMap[f.type] + (i - t)) % CcMod
               /\ i <= t => /\ s[i].pid = IF i = 1 THEN PAT_PID ELSE PMT_PID
                            /\ s[i].cc = (mPidCcMap[0] + 1) % CcMod
BY PacketsNat DEF Output, createPes, PesPacket, Pat, Pmt, getCc, Fed

(* What CcInv says of the PID of a fed frame.                              *)
LEMMA PidFacts ==
    ASSUME CcInv, NEW f, Fed(f)
    PROVE  /\ f.pid \in {VIDEO_PID, AUDIO_PID}
           /\ f.type \in StreamTypes
           /\ mPidCcMap[f.type] \in Counters /\ mPidCcMap[0] \in Counters
           /\ last[f.pid] = mPidCcMap[f.type]
<1>1. f.type \in config.types /\ config.types \subseteq StreamTypes
  BY ConfigAssumption DEF CcInv, Fed
<1>2. f.pid \in {VIDEO_PID, AUDIO_PID}
  BY <1>1 DEF Fed, PidOf, mStreamPidMap
<1> QED  BY <1>1, <1>2 DEF CcInv, Fed, CcKeys

(* None of them skips a number.                                            *)
LEMMA NoSkip ==
    ASSUME CcInv, NEW f, Fed(f), NEW t \in {0, 2},
           NEW i \in 1..(t + Packets(f))
    PROVE  ~Skips(Output(f, t), i)
<1> DEFINE s == Output(f, t)  c == mPidCcMap[f.type]
<1>0. Packets(f) \in Nat
  BY PacketsNat DEF Fed
<1>1. \A j \in 1..(t + Packets(f)) :
         /\ j > t => s[j].pid = f.pid /\ s[j].cc = (c + (j - t)) % CcMod
         /\ j <= t => /\ s[j].pid = IF j = 1 THEN PAT_PID ELSE PMT_PID
                      /\ s[j].cc = (mPidCcMap[0] + 1) % CcMod
  BY OutputIs
<1>2. /\ f.pid \in {VIDEO_PID, AUDIO_PID} /\ last[f.pid] = c
      /\ c \in Counters /\ mPidCcMap[0] \in Counters
      /\ last[PAT_PID] = mPidCcMap[0] /\ last[PMT_PID] = mPidCcMap[0]
  BY PidFacts DEF CcInv
<1> HIDE DEF s, c
<1> USE DEF PAT_PID, PMT_PID, VIDEO_PID, AUDIO_PID
<1>3. CASE i <= t
  <2>1. Before(s, i) = {}
    BY <1>0, <1>1, <1>3 DEF Before
  <2>2. Follows(last[s[i].pid], s[i].cc)
    BY <1>0, <1>1, <1>2, <1>3, CcValue
  <2> QED  BY <2>1, <2>2 DEF Skips, s
<1>4. CASE i = t + 1
  <2>1. Before(s, i) = {}
    BY <1>0, <1>1, <1>2, <1>4 DEF Before
  <2>2. s[i].pid = f.pid /\ s[i].cc = (c + 1) % CcMod
    BY <1>0, <1>1, <1>4
  <2>3. Follows(last[s[i].pid], s[i].cc)
    BY <1>2, <2>2, CcValue
  <2> QED  BY <2>1, <2>3 DEF Skips, s
<1>5. CASE i > t + 1
  <2>1. i - 1 \in Before(s, i)
    BY <1>0, <1>1, <1>5 DEF Before
  <2>2. SUFFICES ASSUME NEW j \in Before(s, i), Before(s, i) \cap (j + 1)..(i - 1) = {}
                 PROVE  Follows(s[j].cc, s[i].cc)
    BY <2>1 DEF Skips, s
  <2>3. j = i - 1
    BY <2>1, <2>2, <1>0 DEF Before
  <2>4. s[j].cc = (c + (i - 1 - t)) % CcMod /\ s[i].cc = (c + ((i - 1 - t) + 1)) % CcMod
    BY <1>0, <1>1, <1>5, <2>3
  <2>5. i - 1 - t \in Nat \ {0}
    BY <1>5
  <2> QED  BY <1>2, <2>4, <2>5, CcValue
<1> QED  BY <1>3, <1>4, <1>5

(* And the last of them on each PID is the counter kept for it.            *)
LEMMA LastIs ==
    ASSUME CcInv, NEW f, Fed(f), NEW t \in {0, 2}
    PROVE  LET s == Output(f, t)
           IN  /\ Packets(f) > 0 =>
                     /\ \E i \in DOMAIN s : s[i].pid = f.pid
                     /\ s[LastOn(s, f.pid)].cc = (mPidCcMap[f.type] + Packets(f)) % CcMod
               /\ t = 2 => \A pid \in {PAT_PID, PMT_PID} :
                     /\ \E i \in DOMAIN s : s[i].pid = pid
                     /\ s[LastOn(s, pid)].cc = (mPidCcMap[0] + 1) % CcMod
               /\ \A i \in DOMAIN s : \/ s[i].pid = f.pid /\ Packets(f) > 0
                                      \/ s[i].pid \in {PAT_PID, PMT_PID} /\ t = 2
<1> DEFINE s == Output(f, t)  c == mPidCcMap[f.type]  n == Packets(f)
<1>0. n \in Nat
  BY PacketsNat DEF Fed
<1>1. /\ DOMAIN s = 1..(t + n)
      /\ \A j \in 1..(t + n) :
         /\ j > t => s[j].pid = f.pid /\ s[j].cc = (c + (j - t)) % CcMod
         /\ j <= t => /\ s[j].pid = IF j = 1 THEN PAT_PID ELSE PMT_PID
                      /\ s[j].cc = (mPidCcMap[0] + 1) % CcMod
  <2>1. DOMAIN s = 1..(t + n)
    BY DEF Output
  <2> QED  BY <2>1, OutputIs
<1>2. f.pid \in {VIDEO_PID, AUDIO_PID}
  BY PidFacts
<1> HIDE DEF s, c, n
<1> USE DEF PAT_PID, PMT_PID, VIDEO_PID, AUDIO_PID
<1>3. ASSUME n > 0
      PROVE  /\ \E i \in DOMAIN s : s[i].pid = f.pid
             /\ s[LastOn(s, f.pid)].cc = (c + n) % CcMod
  <2>1. t + n \in DOMAIN s /\ s[t + n].pid = f.pid /\ s[t + n].cc = (c + n) % CcMod
    BY <1>0, <1>1, <1>3
  <2>2. \A j \in DOMAIN s : ~(j > t + n)
    BY <1>0, <1>1
  <2>3. LastOn(s, f.pid) = t + n
    <3>1. \A i \in DOMAIN s : (s[i].pid = f.pid /\ \A j \in DOMAIN s : j > i => s[j].pid # f.pid)
                              <=> i = t + n
      <4> SUFFICES ASSUME NEW i \in DOMAIN s
                   PROVE  (s[i].pid = f.pid /\ \A j \in DOMAIN s : j > i => s[j].pid # f.pid)
                          <=> i = t + n
        OBVIOUS
      <4>1. CASE i = t + n
        BY <4>1, <2>1, <2>2
      <4>2. CASE i # t + n
        <5>1. t + n > i
          BY <4>2, <1>0, <1>1
        <5> QED  BY <4>2, <5>1, <2>1
      <4> QED  BY <4>1, <4>2
    <3> QED  BY <2>1, <3>1 DEF LastOn
  <2> QED  BY <2>1, <2>3
<1>4. ASSUME t = 2, NEW pid \in {PAT_PID, PMT_PID}
      PROVE  /\ \E i \in DOMAIN s : s[i].pid = pid
             /\ s[LastOn(s, pid)].cc = (mPidCcMap[0] + 1) % CcMod
  <2> DEFINE k == IF pid = PAT_PID THEN 1 ELSE 2
  <2>1. k \in DOMAIN s /\ s[k].pid = pid /\ s[k].cc = (mPidCcMap[0] + 1) % CcMod
    BY <1>0, <1>1, <1>4
  <2>2. \A j \in DOMAIN s : s[j].pid = pid => j = k
    BY <1>0, <1>1, <1>2, <1>4
  <2>3. LastOn(s, pid) = k
    <3>1. \A i \in DOMAIN s : (s[i].pid = pid /\ \A j \in DOMAIN s : j > i => s[j].pid # pid)
                              <=> i = k
      <4> SUFFICES ASSUME NEW i \in DOMAIN s
                   PROVE  (s[i].pid = pid /\ \A j \in DOMAIN s : j > i => s[j].pid # pid)
                          <=> i = k
        OBVIOUS
      <4>1. CASE i = k
        <5>1. k \in Nat /\ \A j \in DOMAIN s : j > k => s[j].pid # pid
          BY <2>2
        <5> QED  BY <4>1, <5>1, <2>1
      <4>2. CASE i # k
        BY <4>2, <2>2
      <4> QED  BY <4>1, <4>2
    <3> QED  BY <2>1, <3>1 DEF LastOn
  <2> QED  BY <2>1, <2>3
<1>5. \A i \in DOMAIN s : \/ s[i].pid = f.pid /\ n > 0
                          \/ s[i].pid \in {PAT_PID, PMT_PID} /\ t = 2
  <2> SUFFICES ASSUME NEW i \in 1..(t + n)
               PROVE  \/ s[i].pid = f.pid /\ n > 0
                      \/ s[i].pid \in {PAT_PID, PMT_PID} /\ t = 2
    BY <1>1
  <2>1. CASE i > t
    <3>1. s[i].pid = f.pid
      BY <1>1, <2>1
    <3> QED  BY <1>0, <2>1, <3>1
  <2>2. CASE i <= t
    <3>1. s[i].pid \in {PAT_PID, PMT_PID}
      BY <1>1, <2>2
    <3> QED  BY <2>2, <3>1
  <2> QED  BY <2>1, <2>2
<1> QED  BY <1>3, <1>4, <1>5 DEF s, c, n

(* encode() keeps CcInv.                                                   *)
LEMMA CcStep ==
    ASSUME DistinctPids, CcInv, NEW f, Fed(f), NEW ra \in BOOLEAN, encode(f, ra)
    PROVE  CcInv'
<1> DEFINE tables == Tables(ra)
           t == IF tables THEN 2 ELSE 0
           n == Packets(f)
           s == Output(f, t)
<1>0. t \in {0, 2} /\ n \in Nat /\ (t = 2 <=> tables) /\ DOMAIN s = 1..(t + n)
  BY PacketsNat DEF Fed, Output
<1>1. /\ config' = config /\ config \in Configs /\ Len(frames') \in Nat
      /\ mPidCcMap' = [k \in CcKeys |->
               IF k = 0 /\ tables THEN getCc(0, 1)
               ELSE IF k = f.type /\ n > 0 THEN getCc(k, n)
               ELSE mPidCcMap[k]]
      /\ last' = [pid \in Pids |-> IF \E i \in DOMAIN s : s[i].pid = pid
                                   THEN s[LastOn(s, pid)].cc ELSE last[pid]]
      /\ gap' = (gap \/ \E i \in DOMAIN s : Skips(s, i))
  BY DEF encode, Count, CcInv
<1>2. /\ f.pid \in {VIDEO_PID, AUDIO_PID} /\ f.type \in StreamTypes
      /\ mPidCcMap[f.type] \in Counters /\ mPidCcMap[0] \in Counters
      /\ f.type \in config.types /\ f.pid = PidOf(f.type)
  BY PidFacts DEF Fed
<1>3. /\ n > 0 => /\ \E i \in DOMAIN s : s[i].pid = f.pid
                  /\ s[LastOn(s, f.pid)].cc = (mPidCcMap[f.type] + n) % CcMod
      /\ tables => \A pid \in {PAT_PID, PMT_PID} :
             /\ \E i \in DOMAIN s : s[i].pid = pid
             /\ s[LastOn(s, pid)].cc = (mPidCcMap[0] + 1) % CcMod
      /\ \A i \in DOMAIN s : \/ s[i].pid = f.pid /\ n > 0
                             \/ s[i].pid \in {PAT_PID, PMT_PID} /\ tables
  BY <1>0, LastIs
<1>4. ~gap'
  <2>1. \A i \in DOMAIN s : ~Skips(s, i)
    BY <1>0, NoSkip
  <2> QED  BY <1>1, <2>1 DEF CcInv
<1> HIDE DEF s, t, n, tables
<1> USE DEF PAT_PID, PMT_PID, VIDEO_PID, AUDIO_PID, StreamTypes, AAC, OPUS, AVC, HEVC
<1>5. mPidCcMap' \in [CcKeys -> Counters]
  <2>1. getCc(0, 1) \in Counters
    BY <1>2, CcValue DEF getCc, Counters
  <2>2. ASSUME n > 0 PROVE getCc(f.type, n) \in Counters
    <3>1. n \in Nat \ {0}
      BY <1>0, <2>2
    <3>2. (mPidCcMap[f.type] + n) % CcMod \in 0..(CcMod - 1)
      BY <1>2, <3>1, CcValue
    <3> QED  BY <3>2 DEF getCc, Counters
  <2> QED  BY <1>1, <2>1, <2>2 DEF CcInv
<1>6. /\ mPidCcMap'[0] = IF tables THEN getCc(0, 1) ELSE mPidCcMap[0]
      /\ mPidCcMap'[f.type] = IF n > 0 THEN getCc(f.type, n) ELSE mPidCcMap[f.type]
      /\ \A k \in StreamTypes : k # f.type => mPidCcMap'[k] = mPidCcMap[k]
  BY <1>1, <1>2 DEF CcKeys
<1>7. /\ \A pid \in {PAT_PID, PMT_PID} :
            last'[pid] = IF tables THEN (mPidCcMap[0] + 1) % CcMod ELSE last[pid]
      /\ last'[f.pid] = IF n > 0 THEN (mPidCcMap[f.type] + n) % CcMod ELSE last[f.pid]
      /\ \A pid \in {VIDEO_PID, AUDIO_PID} : pid # f.pid => last'[pid] = last[pid]
  <2>1. \A pid \in {PAT_PID, PMT_PID} :
            last'[pid] = IF tables THEN (mPidCcMap[0] + 1) % CcMod ELSE last[pid]
    BY <1>1, <1>2, <1>3 DEF Pids
  <2>2. last'[f.pid] = IF n > 0 THEN (mPidCcMap[f.type] + n) % CcMod ELSE last[f.pid]
    BY <1>1, <1>2, <1>3 DEF Pids
  <2>3. \A pid \in {VIDEO_PID, AUDIO_PID} : pid # f.pid => last'[pid] = last[pid]
    BY <1>1, <1>2, <1>3 DEF Pids
  <2> QED  BY <2>1, <2>2, <2>3
<1>8. last'[PAT_PID] = mPidCcMap'[0] /\ last'[PMT_PID] = mPidCcMap'[0]
  BY <1>6, <1>7 DEF CcInv, getCc
<1>9. \A u \in config.types : last'[PidOf(u)] = mPidCcMap'[u]
  <2> SUFFICES ASSUME NEW u \in config.types PROVE last'[PidOf(u)] = mPidCcMap'[u]
    OBVIOUS
  <2>1. u \in StreamTypes /\ PidOf(u) \in {VIDEO_PID, AUDIO_PID}
    BY <1>1, ConfigAssumption DEF PidOf, mStreamPidMap
  <2>2. last[PidOf(u)] = mPidCcMap[u] /\ last[f.pid] = mPidCcMap[f.type]
    BY <1>2 DEF CcInv
  <2>3. CASE u = f.type
    BY <1>2, <1>6, <1>7, <2>2, <2>3 DEF getCc
  <2>4. CASE u # f.type
    <3>1. PidOf(u) # f.pid
      BY <1>1, <1>2, <2>4 DEF DistinctPids, PidOf, mStreamPidMap
    <3> QED  BY <1>6, <1>7, <2>1, <2>2, <2>4, <3>1
  <2> QED  BY <2>3, <2>4
<1>10. last' \in [Pids -> Counters]
  <2>1. \A pid \in Pids : last'[pid] \in Counters
    <3>1. mPidCcMap'[0] \in Counters /\ mPidCcMap'[f.type] \in Counters
      BY <1>2, <1>5 DEF CcKeys
    <3>2. \A pid \in Pids : last[pid] \in Counters
      BY DEF CcInv
    <3> QED  BY <1>2, <1>6, <1>7, <1>8, <3>1, <3>2 DEF Pids, getCc
  <2> QED  BY <1>1, <2>1
<1>11. \A u \in config.types : PidOf(u)' = PidOf(u)
  BY <1>1 DEF PidOf, mStreamPidMap
<1> QED  BY <1>1, <1>4, <1>5, <1>8, <1>9, <1>10, <1>11 DEF CcInv

(* On every PID of every stream the counters count up by one modulo CcMod, *)
(* whatever is fed and however often the callback is set or cleared, if no *)
(* two stream types of the muxer send on one PID.                          *)
THEOREM ContinuityHolds ==
    ASSUME DistinctPids
    PROVE  Spec => []Continuity
<1>1. Init => CcInv
  <2> SUFFICES ASSUME Init PROVE CcInv
    OBVIOUS
  <2>1. config \in Configs /\ config.types \subseteq StreamTypes
    BY ConfigAssumption DEF Init, MuxInit
  <2>2. \A t \in config.types : PidOf(t) \in Pids /\ t \in CcKeys
    BY <2>1 DEF PidOf, mStreamPidMap, Pids, CcKeys
  <2> QED  BY <2>1, <2>2 DEF Init, MuxInit, CcInv, Counters, Pids, CcKeys
<1>2. CcInv /\ [Next]_vars => CcInv'
  <2> SUFFICES ASSUME CcInv, [Next]_vars PROVE CcInv'
    OBVIOUS
  <2>1. CASE SimpleEncode \/ LibraryEncode
    BY <2>1, Callers, CcStep DEF CcInv
  <2>2. CASE UNCHANGED <<config, mPidCcMap, history>>
    BY <2>2 DEF CcInv, history, PidOf, mStreamPidMap
  <2>3. CASE SetOutputCallBack
    BY <2>2, <2>3 DEF SetOutputCallBack
  <2>4. CASE \E bytes \in Chunks : decode(bytes)
    BY <2>2, <2>4 DEF decode
  <2>5. CASE Lose
    BY <2>2, <2>5 DEF Lose
  <2>6. CASE UNCHANGED vars
    BY <2>2, <2>6 DEF vars, muxvars
  <2> QED  BY <2>1, <2>3, <2>4, <2>5, <2>6 DEF Next
<1>3. CcInv => Continuity
  BY DEF CcInv, Continuity
<1> QED  BY <1>1, <1>2, <1>3, PTL DEF Spec
=============================================================================
