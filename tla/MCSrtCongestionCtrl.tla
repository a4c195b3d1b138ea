------------------------ MODULE MCSrtCongestionCtrl -------------------------
(* SrtCongestionCtrl for TLC: the constants are given by the .cfg files.   *)
EXTENDS SrtCongestionCtrl
=============================================================================
