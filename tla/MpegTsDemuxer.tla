--------------------------- MODULE MpegTsDemuxer ----------------------------
(***************************************************************************)
(* MpegTsDemuxer::decode (src/3rd/mpegts/mpegts_demuxer.cpp) at the far    *)
(* end of the wire, which may lose packets.                                *)
(*                                                                         *)
(* The bytes an EsFrame has gathered are represented by their number and   *)
(* by whether they are the first bytes of one frame.  The demuxer does not *)
(* look at continuity counters.                                            *)
(***************************************************************************)
EXTENDS MpegTsMuxer, FiniteSetsExt

CONSTANTS
    Chunks,  \* numbers of bytes that decode() is handed at a time
    MaxLoss  \* bound on the packets lost

ASSUME ChannelAssumption == Chunks \subseteq Nat \ {0} /\ MaxLoss \in Nat

VARIABLES
    mPmtId,     \* mPmtId, 0 before a PAT
    mEsFrames,  \* mEsFrames: one EsFrame per PID of the PMT
    mRestData,  \* size of mRestData
    out,        \* what esOutCallback has been given
    lost        \* packets lost

dmxvars == <<mPmtId, mEsFrames, mRestData, out, lost>>
vars    == <<muxvars, dmxvars>>

NoFrame == 0

EsFrame(t) ==
    [mStreamType |-> t, id |-> NoFrame, size |-> 0, intact |-> TRUE,
     mRandomAccess |-> FALSE, mPts |-> 0, mDts |-> 0,
     mExpectedPesPacketLength |-> 0, mExpectedPayloadLength |-> 0]

(* EsFrame::reset leaves mRandomAccess, mPts and mDts alone.               *)
reset(e) == [e EXCEPT !.id = NoFrame, !.size = 0, !.intact = TRUE,
                      !.mExpectedPesPacketLength = 0,
                      !.mExpectedPayloadLength = 0]

DmxInit ==
    /\ mPmtId = 0
    /\ mEsFrames = [pid \in {} |-> EsFrame(0)]
    /\ mRestData = 0
    /\ out = <<>>
    /\ lost = 0

-----------------------------------------------------------------------------
(* mData->append of k bytes at position pos of packet p; what lies before  *)
(* p.at is no part of a frame.                                             *)
append(e, p, pos, k) ==
    IF k <= 0 THEN e
    ELSE [e EXCEPT !.id = IF e.size = 0 THEN p.id ELSE e.id,
                   !.size = e.size + k,
                   !.intact = /\ e.intact
                              /\ e.size > 0 => e.id = p.id
                              /\ pos >= p.at
                              /\ p.from + (pos - p.at) = e.size]

(* The state of a decode() call: d.mEsFrames and the callbacks d.out.      *)
Store(d, pid, e) == [d EXCEPT !.mEsFrames[pid] = e]

Deliver(d, pid, e, broken) ==
    [d EXCEPT !.out = Append(@, [id |-> e.id, size |-> e.size, intact |-> e.intact,
                                 type |-> e.mStreamType, key |-> e.mRandomAccess,
                                 pts |-> e.mPts, dts |-> e.mDts,
                                 broken |-> broken])]

\* Mutant: off by one.
EnoughAndMore(e) == e.size = e.mExpectedPayloadLength + 1

(* "Enough data to deliver?"                                               *)
Enough(e) == e.size = e.mExpectedPayloadLength

Complete(d, pid, e) ==
    IF Enough(e)
    THEN Store(Deliver(d, pid, e, FALSE), pid, reset(e))
    ELSE Store(d, pid, e)

(* The payload of a packet that does not start a frame, and of one that    *)
(* starts a frame of unstated length.                                      *)
Continue(d, p, e, pos) ==
    LET here == PacketSize - pos
        k == IF e.mExpectedPesPacketLength # 0 /\ e.size + here > e.mExpectedPesPacketLength
             THEN e.mExpectedPesPacketLength - e.size
             ELSE here
    IN  Complete(d, p.pid, append(e, p, pos, k))

\* Mutant: a frame cut off is not marked.
CutOffUnmarked(d, pid, e) == IF e.size > 0 THEN Deliver(d, pid, e, FALSE) ELSE d

(* A frame that the next one cuts off is handed over as broken, with the   *)
(* random access flag of that next one.                                    *)
CutOff(d, pid, e) == IF e.size > 0 THEN Deliver(d, pid, e, TRUE) ELSE d

(* A packet that starts a frame.  rIn.pos() counts from the start of the   *)
(* buffer, not of the packet: base is the packet's place in the buffer.    *)
Start(d, p, base) ==
    LET old == [d.mEsFrames[p.pid] EXCEPT !.mRandomAccess = p.rai]
        d1  == CutOff(d, p.pid, old)
        e   == [reset(old) EXCEPT !.mExpectedPesPacketLength = p.len,
                                  !.mPts = readPts(p.pts),
                                  !.mDts = readPts(IF p.hdr = 10 THEN p.dts ELSE p.pts)]
        pos == PesEnd(p)
        payloadLength == p.len - 3 - p.hdr
        k   == IF payloadLength + base + pos > PacketSize \/ payloadLength < 0
               THEN PacketSize - pos
               ELSE payloadLength
    IN  IF p.len = 0
        THEN Continue(d1, p, e, pos)
        ELSE Complete(d1, p.pid, append([e EXCEPT !.mExpectedPayloadLength = payloadLength],
                                        p, pos, k))

(* The PMT: one EsFrame per PID, the last stream type of a PID staying.    *)
FromPmt(infos) ==
    [pid \in {infos[t] : t \in DOMAIN infos} |->
        EsFrame(Max({t \in DOMAIN infos : infos[t] = pid}))]

(* One turn of decode's loop.  The first PAT and the first PMT count.      *)
DecodePacket(d, p, base) ==
    CASE p.pid = PAT_PID ->
            IF d.mPmtId = 0 THEN [d EXCEPT !.mPmtId = p.pmt] ELSE d
      [] p.pid = PMT_PID ->
            IF d.mPmtId = p.pid /\ DOMAIN d.mEsFrames = {}
            THEN [d EXCEPT !.mEsFrames = FromPmt(p.infos)] ELSE d
      [] p.pid \in DOMAIN d.mEsFrames ->
            IF p.pusi THEN Start(d, p, base)
                      ELSE Continue(d, p, d.mEsFrames[p.pid], FieldEnd(p))
      [] OTHER -> d

(* The loop of decode(), over the first k packets on the wire: what turn i *)
(* leaves is d[i].                                                         *)
DecodePackets(k) ==
    LET d[i \in 0..k] ==
            IF i = 0 THEN [mPmtId |-> mPmtId, mEsFrames |-> mEsFrames, out |-> out]
                     ELSE DecodePacket(d[i - 1], wire[i], (i - 1) * PacketSize)
    IN  d[k]

(* decode(rIn): what was left over from the last call is put in front, and *)
(* the packets that are there in full are read.                            *)
decode(bytes) ==
    LET there == PacketSize * Len(wire)
        n == IF mRestData + bytes < there THEN mRestData + bytes ELSE there
        d == DecodePackets(n \div PacketSize)
    IN  /\ n > mRestData
        /\ mPmtId' = d.mPmtId
        /\ mEsFrames' = d.mEsFrames
        /\ out' = d.out
        /\ mRestData' = n % PacketSize
        /\ wire' = SubSeq(wire, n \div PacketSize + 1, Len(wire))
        /\ UNCHANGED <<config, mPidCcMap, mCurrentIndex, output, history, lost>>

(* External: the transport loses a packet.                                 *)
Lose ==
    /\ lost < MaxLoss
    /\ lost' = lost + 1
    /\ \E i \in (IF mRestData = 0 THEN 1 ELSE 2)..Len(wire) :
          wire' = SubSeq(wire, 1, i - 1) \o SubSeq(wire, i + 1, Len(wire))
    /\ UNCHANGED <<config, mPidCcMap, mCurrentIndex, output, history,
                   mPmtId, mEsFrames, mRestData, out>>

-----------------------------------------------------------------------------
Init == MuxInit /\ DmxInit

Next == \/ SimpleEncode /\ UNCHANGED dmxvars
        \/ LibraryEncode /\ UNCHANGED dmxvars
        \/ SetOutputCallBack /\ UNCHANGED dmxvars
        \/ \E bytes \in Chunks : decode(bytes)
        \/ Lose

Spec == Init /\ [][Next]_vars

-----------------------------------------------------------------------------
(* Properties.                                                             *)

(* The one type invariant of the module.                                   *)
TypeOK ==
    /\ config \in Configs
    /\ mPidCcMap \in [CcKeys -> {NoCc} \cup 0..(CcMod - 1)]
    /\ mCurrentIndex \in 0..PatInterval
    /\ output \in BOOLEAN
    /\ Len(frames) <= MaxFrames
    /\ lost \in 0..MaxLoss
    /\ mPmtId \in {0, PMT_PID}
    /\ mRestData \in 0..(PacketSize - 1)
    /\ mRestData > 0 => wire # <<>>

(* On every PID the continuity counters of the packets produced count up   *)
(* by one modulo CcMod, although getCc goes by stream type and the PAT and *)
(* the PMT share a counter: as long as no two types share a PID.           *)
Continuity == ~gap

(* From its first frame on, and however the frames come, an H.222 stream   *)
(* never has more than PatInterval frames to a PAT and PMT.                *)
TablesRecur ==
    config.mux = "h222Type" /\ frames # <<>> => since \in 0..(PatInterval - 1)

(* Can the receiver be asked to deliver the k-th frame?  And has it?       *)
Wanted(k) == frames[k].shown /\ frames[k].frame.size > 0
Delivered(k) == \E i \in DOMAIN out : out[i].id = k

(* A frame whose PES packet cannot state its length.                       *)
Unbounded(f) == f.size + (IF f.two THEN 10 ELSE 5) + 3 > PesMax

Whole(o, f) == o.intact /\ o.id = f.id /\ o.size = f.size

(* What a frame that was handed over says of the frame that was fed.       *)
Faithful(o) ==
    /\ o.id \in DOMAIN frames
    /\ Wanted(o.id)
    /\ LET f == frames[o.id].frame
       IN  /\ Whole(o, f)
           /\ o.type = f.type
           /\ o.pts = f.pts % 4 /\ o.dts = f.dts % 4
           /\ o.broken <=> Unbounded(f)
           /\ ~o.broken => o.key = f.key

(* On a wire that loses nothing, however the bytes are cut up, each        *)
(* stream's frames come out in order, none twice and none skipped, whole,  *)
(* with their stream type and with their timestamps modulo 2^32; marked    *)
(* broken, and without their random access flag, exactly if they are       *)
(* unbounded.                                                              *)
RoundTrip ==
    lost = 0 =>
        \A i \in DOMAIN out :
            /\ Faithful(out[i])
            /\ \A j \in 1..(i - 1) : out[j].type = out[i].type => out[j].id < out[i].id
            /\ \A k \in 1..(out[i].id - 1) :
                  Wanted(k) /\ frames[k].frame.type = out[i].type =>
                      \E j \in 1..(i - 1) : out[j].id = k

(* Once everything on a lossless wire has been read, only an unbounded     *)
(* frame that ends its stream is still withheld.                           *)
NothingWithheld ==
    lost = 0 /\ wire = <<>> =>
        \A k \in DOMAIN frames :
            Wanted(k) => \/ Delivered(k)
                         \/ /\ Unbounded(frames[k].frame)
                            /\ \A m \in (k + 1)..Len(frames) :
                                  Wanted(m) => frames[m].frame.type # frames[k].frame.type

(* The demuxer has only lengths to go by, yet after the loss of any one    *)
(* packet every frame it hands over as not broken is a whole frame of its  *)
(* stream.                                                                 *)
OneLossNoticed ==
    lost <= 1 =>
        \A i \in DOMAIN out :
            ~out[i].broken => /\ out[i].id \in DOMAIN frames
                              /\ Whole(out[i], frames[out[i].id].frame)
                              /\ out[i].type = frames[out[i].id].frame.type
=============================================================================
