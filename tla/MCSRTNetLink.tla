---------------------------- MODULE MCSRTNetLink ----------------------------
(* SRTNetLink for TLC: the constants are given by the .cfg file.           *)
EXTENDS SRTNetLink
=============================================================================
