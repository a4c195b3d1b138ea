---------------------------- MODULE MpegTsMuxer -----------------------------
(***************************************************************************)
(* MpegTsMuxer (src/3rd/mpegts/mpegts_muxer.cpp) and the wrapper through   *)
(* which xrtc uses it, SimpleMpegtsMuxer (src/simple).                     *)
(*                                                                         *)
(* Every operation holds a mutex from its first to its last line (mutex_,  *)
(* mMuxMtx), the output callback included, so each is one action.  wire is *)
(* what the output callback has been given and the receiver not yet.       *)
(***************************************************************************)
EXTENDS TsPacket, Sequences

CONSTANTS
    CcMod,        \* 16: continuity counters are masked with 0x0F
    PatInterval,  \* MPEGTS_PAT_INTERVAL, 20
    Configs,      \* constructor calls: [simple, types, mux]
    Sizes,        \* frame sizes that are fed, per stream type
    Stamps,       \* bits 30 and up of their timestamps
    MaxFrames     \* bound on the calls of encode

ASSUME CounterAssumption == CcMod \in Nat \ {0} /\ PatInterval \in Nat \ {0}
ASSUME InputAssumption == Stamps \subseteq Nat /\ MaxFrames \in Nat

VARIABLES
    config,         \* how the muxer was constructed
    mPidCcMap,      \* mPidCcMap, NoCc for a key that is not there yet
    mCurrentIndex,  \* mCurrentIndex
    output,         \* is output_ set?
    wire,           \* packets under way
    frames,         \* history: the frames fed, and what became of them
    since,          \* history: frames fed since the last PAT, or NoPat
    last,           \* history: the last counter written, per PID
    gap             \* history: has a counter not followed the one before?

history == <<frames, since, last, gap>>
muxvars == <<config, mPidCcMap, mCurrentIndex, output, wire, history>>

NoCc  == -1
NoPat == -1

-----------------------------------------------------------------------------
(* Stream types and PIDs.                                                  *)

AAC  == 15
OPUS == 18
AVC  == 27
HEVC == 36
StreamTypes == {AAC, OPUS, AVC, HEVC}

ASSUME ConfigAssumption ==
    /\ Sizes \in [StreamTypes -> SUBSET Nat]
    /\ Configs \subseteq [simple : BOOLEAN, types : (SUBSET StreamTypes) \ {{}},
                          mux : {"h222Type", "segmentType"}]

PAT_PID   == 0
PMT_PID   == 100
VIDEO_PID == 256
AUDIO_PID == 257
Pids == {PAT_PID, PMT_PID, VIDEO_PID, AUDIO_PID}

isVideo(t) == t \in {AVC, HEVC}     \* getMediaType

(* The constructor's stream_map; the muxer keeps it as mStreamPidMap.      *)
mStreamPidMap == [t \in config.types |-> IF isVideo(t) THEN VIDEO_PID ELSE AUDIO_PID]

CcKeys == {0} \cup StreamTypes

MuxInit ==
    /\ config \in Configs
    /\ mPidCcMap = [k \in CcKeys |-> NoCc]
    /\ mCurrentIndex = 0
    /\ output = FALSE
    /\ wire = <<>>
    /\ frames = <<>>
    /\ since = NoPat
    /\ last = [pid \in Pids |-> NoCc]
    /\ gap = FALSE

-----------------------------------------------------------------------------
\* Mutant: the counter is not masked.
getCcUnmasked(key, n) == mPidCcMap[key] + n

(* getCc, called n times in a row: the n-th result.  An absent counter     *)
(* starts at 0.                                                            *)
getCc(key, n) == (mPidCcMap[key] + n) % CcMod

\* Mutant: the first tables come a frame late.
createPatLate == mCurrentIndex % PatInterval = 1

(* shouldCreatePat(): its result, and mCurrentIndex afterwards.            *)
shouldCreatePat == mCurrentIndex % PatInterval = 0
NextIndex == (IF shouldCreatePat THEN 0 ELSE mCurrentIndex) + 1

(* encode() writes a PAT and a PMT, which share a counter, in front of a   *)
(* frame: in segment mode when the caller says so, in H.222 mode every     *)
(* PatInterval frames.                                                     *)
Tables(lRandomAccess) ==
    IF config.mux = "segmentType" THEN lRandomAccess ELSE shouldCreatePat

Pat == [pid |-> PAT_PID, cc |-> getCc(0, 1), pmt |-> PMT_PID]
Pmt == [pid |-> PMT_PID, cc |-> getCc(0, 1), infos |-> mStreamPidMap]

\* Mutant: every packet of a frame takes the counter of its first.
createPesOneCc(f, i) == PesPacket(f, i, getCc(f.type, 1))

(* The i-th packet of createPes.                                           *)
createPes(f, i) == PesPacket(f, i, getCc(f.type, i))

(* What encode() hands to tsOutCallback, after t table packets.            *)
Output(f, t) ==
    [i \in 1..(t + Packets(f)) |->
        IF i > t THEN createPes(f, i - t) ELSE IF i = 1 THEN Pat ELSE Pmt]

(* History: what the counters of the packets say to a receiver.            *)
Follows(a, b) == a = NoCc \/ b = (a + 1) % CcMod

Before(s, i) == {j \in 1..(i - 1) : s[j].pid = s[i].pid}

Skips(s, i) ==
    IF Before(s, i) = {} THEN ~Follows(last[s[i].pid], s[i].cc)
    ELSE \E j \in Before(s, i) : /\ Before(s, i) \cap (j + 1)..(i - 1) = {}
                                 /\ ~Follows(s[j].cc, s[i].cc)

LastOn(s, pid) ==
    CHOOSE i \in DOMAIN s : /\ s[i].pid = pid
                            /\ \A j \in DOMAIN s : j > i => s[j].pid # pid

Count(s) ==
    /\ last' = [pid \in Pids |-> IF \E i \in DOMAIN s : s[i].pid = pid
                                 THEN s[LastOn(s, pid)].cc ELSE last[pid]]
    /\ gap' = (gap \/ \E i \in DOMAIN s : Skips(s, i))

(* MpegTsMuxer::encode.  Without an output callback the counters move on   *)
(* all the same.  A frame of no bytes makes no packet.  A frame is shown   *)
(* if it goes out when a PMT has gone out before.                          *)
encode(f, lRandomAccess) ==
    LET tables == Tables(lRandomAccess)
        packets == Output(f, IF tables THEN 2 ELSE 0)
        shown == output /\ (tables \/ \E i \in 1..Len(frames) : frames[i].tables)
    IN  /\ Len(frames) < MaxFrames
        /\ mPidCcMap' = [k \in CcKeys |->
               IF k = 0 /\ tables THEN getCc(0, 1)
               ELSE IF k = f.type /\ Packets(f) > 0 THEN getCc(k, Packets(f))
               ELSE mPidCcMap[k]]
        /\ mCurrentIndex' = IF config.mux = "h222Type" THEN NextIndex
                                                       ELSE mCurrentIndex
        /\ wire' = IF output THEN wire \o packets ELSE wire
        /\ frames' = Append(frames, [frame |-> f, shown |-> shown,
                                     tables |-> output /\ tables])
        /\ Count(packets)
        /\ since' = IF tables THEN 0 ELSE IF since = NoPat THEN NoPat ELSE since + 1
        /\ UNCHANGED <<config, output>>

(* SimpleMpegtsMuxer::encode: pts is dts, and the PID is VIDEO_PID for     *)
(* every stream type.                                                      *)
SimpleFrame(t, key, size, dts) ==
    [id |-> Len(frames) + 1, type |-> t, pid |-> VIDEO_PID, key |-> key,
     size |-> size, pts |-> dts, dts |-> dts, two |-> FALSE]

SimpleEncode ==
    /\ config.simple
    /\ \E t \in config.types, key \in BOOLEAN, dts \in Stamps : \E size \in Sizes[t] :
          encode(SimpleFrame(t, key, size, dts), FALSE)

(* A caller that uses the library as its README shows: the frame's PID is  *)
(* the one the stream map has for its type.                                *)
LibraryEncode ==
    /\ ~config.simple
    /\ \E t \in config.types, key, two \in BOOLEAN, pts, dts \in Stamps : \E size \in Sizes[t] :
          /\ two => isVideo(t)
          /\ two \/ pts = dts
          /\ encode([id |-> Len(frames) + 1, type |-> t, pid |-> mStreamPidMap[t],
                     key |-> key, size |-> size, pts |-> pts, dts |-> dts,
                     two |-> two], key)

SetOutputCallBack ==
    /\ output' \in BOOLEAN
    /\ UNCHANGED <<config, mPidCcMap, mCurrentIndex, wire, history>>
=============================================================================
