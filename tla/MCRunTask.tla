----------------------------- MODULE MCRunTask ------------------------------
(* RunTaskOwner for TLC: the constants are given by the .cfg file.         *)
EXTENDS RunTaskOwner
=============================================================================
