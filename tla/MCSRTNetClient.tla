--------------------------- MODULE MCSRTNetClient ---------------------------
(* The client and a thread that reads it without a lock; there are no      *)
(* constants and the state space is finite.                                *)
EXTENDS SRTNetReaders
=============================================================================
