--------------------------- MODULE MCSRTNetServer ---------------------------
(* SRTNetServer for TLC: the constants are given by the .cfg files.        *)
EXTENDS SRTNetServer, TLC

(* Connections are interchangeable; used by the safety runs only.          *)
Symmetry == Permutations(Sock)
=============================================================================
