------------------------------ MODULE MCMpegTs ------------------------------
(* Muxers to check: xrtc's wrapper with one stream, the library with two   *)
(* in either mode; and xrtc's wrapper with video and audio.                *)
EXTENDS MpegTsDemuxer

Muxer(simple, types, mux) == [simple |-> simple, types |-> types, mux |-> mux]

OneStream  == Muxer(TRUE, {AVC}, "h222Type")
TwoStreams == Muxer(FALSE, {AVC, AAC}, "h222Type")
Segments   == Muxer(FALSE, {AVC}, "segmentType")

FeedSizes == [t \in StreamTypes |-> IF isVideo(t) THEN {0, 345, 500} ELSE {168}]

SoundConfigs == {OneStream, TwoStreams, Segments}
AudioVideo   == {Muxer(TRUE, {AVC, AAC}, "h222Type")}
=============================================================================
