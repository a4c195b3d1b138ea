--------------------------- MODULE SRTNetReaders ----------------------------
(***************************************************************************)
(* The operations of an SRTNet client that take no mutex: sendData() and   *)
(* getConnectedServer() (src/srt_net/srt_net.cpp).  A thread in one of     *)
(* them reads current_mode_, client_active_, context_ and client_context_  *)
(* one after the other while others start and stop the client.             *)
(*                                                                         *)
(* In mode unknown both return at once; context_ is never 0 in mode        *)
(* client.  The application does not destroy the object under such a call. *)
(***************************************************************************)
EXTENDS SRTNetClient

VARIABLES
    rpc,       \* the reader: before its next read
    replaced,  \* history: context_, client_context_ assigned during the call
    overlaps   \* history: stop() was running, or called, during the call

reader == <<rpc, replaced, overlaps>>

ReaderInit == rpc = "idle" /\ replaced = FALSE /\ overlaps = FALSE

-----------------------------------------------------------------------------
(* current_mode_ == Mode::client                                           *)
Enter(next) ==
    /\ rpc = "idle"
    /\ mode = "client"
    /\ apc # "gone"
    /\ rpc' = next
    /\ replaced' = FALSE
    /\ overlaps' = (apc \in {"close", "join"})

Leave == rpc' = "idle" /\ replaced' = FALSE /\ overlaps' = FALSE

SendData == Enter("active")

SendDataActive ==
    /\ rpc = "active"
    /\ IF client_active THEN rpc' = "send" /\ UNCHANGED <<replaced, overlaps>> ELSE Leave

(* srt_sendmsg2 on the context_ of this moment.                            *)
SendDataSend == rpc = "send" /\ Leave

GetConnectedServer == Enter("pair")

(* The copy of context_ and client_context_.                               *)
GetConnectedServerReturn == rpc = "pair" /\ Leave

ReaderStep == \/ SendData \/ SendDataActive \/ SendDataSend
              \/ GetConnectedServer \/ GetConnectedServerReturn

-----------------------------------------------------------------------------
(* The client's own steps, as far as a reader can tell them apart.         *)
Assigns == StartClient \/ StartClientFails

ClientStep ==
    /\ UNCHANGED rpc
    /\ \/ Assigns /\ replaced' = (rpc # "idle") /\ UNCHANGED overlaps
       \/ Stop /\ (dying' => rpc = "idle") /\ overlaps' = (rpc # "idle") /\ UNCHANGED replaced
       \/ /\ Connected \/ ConnectFails \/ StopClose \/ StopJoin \/ WorkerStep \/ SrtStep
          /\ UNCHANGED <<replaced, overlaps>>

ReadersInit == Init /\ ReaderInit
ReadersNext == ClientStep \/ (ReaderStep /\ UNCHANGED vars)
ReadersSpec == ReadersInit /\ [][ReadersNext]_<<vars, reader>> /\ Fairness

-----------------------------------------------------------------------------
(* What an unlocked call reads is all of the connection that was current   *)
(* when the call began, unless a stop() overlaps it: startClient() on its  *)
(* own cannot replace context_ or client_context_ under the call, although *)
(* it shares no lock with it.                                              *)
OneConnection == rpc # "idle" /\ replaced => overlaps
=============================================================================
