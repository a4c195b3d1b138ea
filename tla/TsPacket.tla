------------------------------ MODULE TsPacket ------------------------------
(***************************************************************************)
(* The layout of transport stream packets, as MpegTsMuxer::createPes       *)
(* writes it and MpegTsDemuxer::decode reads it (src/3rd/mpegts).          *)
(*                                                                         *)
(* An elementary stream frame is a record                                  *)
(*   [id, type, pid, key, size, pts, dts, two]                             *)
(* whose bytes are told apart by their offsets; pts and dts are the bits   *)
(* 30 and up of mPts and mDts, and two says whether these differ.  A       *)
(* packet carries n bytes of frame id, from offset from on, at position at *)
(* of the packet; afl is the length byte of its adaptation field, NoField  *)
(* if it has none.                                                         *)
(***************************************************************************)
EXTENDS Integers

CONSTANTS
    PacketSize,  \* 188
    PesMax,      \* 0xffff, the largest PES_packet_length
    PcrPid       \* mPcrPid

ASSUME PacketAssumption == PacketSize \in Nat /\ PacketSize > 31
ASSUME PesAssumption == PesMax \in Nat

NoField   == -1
TsHeader  == 4
PESHeader == 9

-----------------------------------------------------------------------------
(* Writing: MpegTsMuxer::createPes.                                        *)

mHeaderDataLength(f) == IF f.two THEN 10 ELSE 5

mPesPacketLength(f) ==
    LET lPesSize == mHeaderDataLength(f) + f.size + 3
    IN  IF lPesSize > PesMax THEN 0 ELSE lPesSize

(* The adaptation field of a frame's first packet before any stuffing.     *)
FirstField(f) == IF f.pid = PcrPid THEN 7 ELSE IF f.key THEN 1 ELSE NoField

(* lPos: the bytes before the payload of a frame's i-th packet.            *)
HeaderSize(f, i) ==
    IF i = 1 THEN TsHeader + (1 + FirstField(f)) + PESHeader + mHeaderDataLength(f)
             ELSE TsHeader

lBodySize(f, i) == PacketSize - HeaderSize(f, i)

(* Where the i-th turn of the loop stands in the frame, and how many turns *)
(* there are until mData->empty().                                         *)
Offset(f, i) == IF i = 1 THEN 0 ELSE lBodySize(f, 1) + (i - 2) * lBodySize(f, 2)

Packets(f) ==
    IF f.size = 0 THEN 0
    ELSE IF f.size <= lBodySize(f, 1) THEN 1
    ELSE 1 + (f.size - lBodySize(f, 1) + lBodySize(f, 2) - 1) \div lBodySize(f, 2)

lInSize(f, i) == f.size - Offset(f, i)

\* Mutant: one stuffing byte too many.
StuffOneMore(f, i) ==
    IF lBodySize(f, i) <= lInSize(f, i) THEN 0 ELSE lBodySize(f, i) - lInSize(f, i) + 1

lStuffSize(f, i) ==
    IF lBodySize(f, i) <= lInSize(f, i) THEN 0 ELSE lBodySize(f, i) - lInSize(f, i)

(* Stuffing lengthens the adaptation field; without one it makes one, the  *)
(* first stuffing byte becoming the length byte.                           *)
PesPacket(f, i, cc) ==
    [pid  |-> f.pid,
     cc   |-> cc,
     pusi |-> i = 1,
     afl  |-> (IF i = 1 THEN FirstField(f) ELSE NoField) + lStuffSize(f, i),
     pcr  |-> i = 1 /\ f.pid = PcrPid,
     rai  |-> i = 1 /\ f.key,
     len  |-> mPesPacketLength(f),
     hdr  |-> mHeaderDataLength(f),
     pts  |-> f.pts % 8,              \* writePts: 33 bits
     dts  |-> f.dts % 8,
     id   |-> f.id,
     at   |-> HeaderSize(f, i) + lStuffSize(f, i),
     from |-> Offset(f, i),
     n    |-> lBodySize(f, i) - lStuffSize(f, i)]

-----------------------------------------------------------------------------
(* Reading: MpegTsDemuxer::decode.                                         *)

(* The position after the adaptation field: its length byte, its flags, a  *)
(* PCR, and what is left to skip.                                          *)
FieldEnd(p) ==
    IF p.afl = NoField THEN TsHeader
    ELSE LET pcr  == IF p.pcr THEN 6 ELSE 0
             left == p.afl - pcr
         IN  TsHeader + 1 + (IF p.afl # 0 THEN 1 ELSE 0) + pcr
                          + (IF left > 0 THEN left - 1 ELSE 0)

(* The position after the PES header and its timestamps.                   *)
PesEnd(p) == FieldEnd(p) + PESHeader + p.hdr

(* readPts shifts the three upper bits by 30 in a uint32_t: one is lost.   *)
readPts(bits) == bits % 4
=============================================================================
