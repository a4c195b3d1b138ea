------------------------- MODULE SRTNetClientProofs -------------------------
(***************************************************************************)
(* Proofs about SRTNetClient.                                              *)
(***************************************************************************)
EXTENDS SRTNetReaders, TLAPS

(* The phases of the object: a worker thread exists exactly in mode        *)
(* client, stop() clears client_active_ before it closes the socket, and   *)
(* nothing of a connection survives into mode unknown.                     *)
PhaseInv ==
    /\ apc \in {"close", "join"} => mode = "client"
    /\ apc = "connect" => mode = "unknown"
    /\ mode = "unknown" => ~client_active /\ sock \notin {"conn", "broken"}
    /\ mode = "unknown" <=> wpc = "none"
    /\ mode = "client" => sock \in {"conn", "broken", "closed"}
    /\ apc = "join" \/ (apc = "gone" /\ mode = "client") => sock = "closed"
    /\ ActiveMeansReceiving

(* The worker reports a connection on its way out, after it was lost; on   *)
(* its way out it is only then, or because stop() has begun.               *)
ReportInv ==
    /\ wpc \in {"test", "recv", "lost"} => disc = 0
    /\ wpc = "lost" => sock # "conn"
    /\ wpc \in {"finish", "done"} => sock # "conn" \/ apc \in {"close", "join"}
    /\ ReportedOnce

(* After a failed stop() in the destructor nothing more is called.         *)
FaultInv == fault = "terminate" => apc = "gone" /\ mode = "client" /\ stopped = "false"

Inv == TypeOK /\ PhaseInv /\ ReportInv /\ FaultInv

(* Init establishes Inv and every step keeps it.                           *)
LEMMA Invariance == Spec => []Inv
<1>1. Init => Inv
  <2> SUFFICES ASSUME Init PROVE Inv
    OBVIOUS
  <2>1. TypeOK
    BY DEF Init, TypeOK
  <2>2. PhaseInv /\ ReportInv /\ FaultInv
    BY DEF Init, Running, PhaseInv, ActiveMeansReceiving, ReportInv,
           ReportedOnce, FaultInv
  <2> QED
    BY <2>1, <2>2 DEF Inv
<1>2. Inv /\ [Next]_vars => Inv'
  <2> SUFFICES ASSUME Inv, [Next]_vars PROVE Inv'
    OBVIOUS
  <2> USE DEF Inv, TypeOK, Running, PhaseInv, ActiveMeansReceiving, ReportInv,
              ReportedOnce, FaultInv, ModeUnset, Closed, Joined, Report, Inactive
  <2>1. CASE StartClient
    BY <2>1 DEF StartClient
  <2>2. CASE StartClientFails
    BY <2>2 DEF StartClientFails
  <2>3. CASE Connected
    BY <2>3 DEF Connected
  <2>4. CASE ConnectFails
    BY <2>4 DEF ConnectFails
  <2>5. CASE Stop
    <3>1. client_active' \in BOOLEAN /\ dying' \in BOOLEAN
      BY <2>5, Zenon DEF Stop
    <3>2. ~client_active'
      BY <2>5 DEF Stop
    <3> QED
      BY <2>5, <3>1, <3>2 DEF Stop
  <2>6. CASE StopClose
    BY <2>6 DEF StopClose, Return
  <2>7. CASE StopJoin
    BY <2>7 DEF StopJoin, Return
  <2>8. CASE WorkerTest
    BY <2>8 DEF WorkerTest
  <2>9. CASE WorkerRecv
    BY <2>9 DEF WorkerRecv
  <2>10. CASE WorkerLost
    BY <2>10 DEF WorkerLost
  <2>11. CASE WorkerFinish
    BY <2>11 DEF WorkerFinish
  <2>12. CASE PeerSend
    BY <2>12 DEF PeerSend
  <2>13. CASE PeerBreak
    BY <2>13 DEF PeerBreak
  <2>14. CASE GcClose
    BY <2>14 DEF GcClose
  <2>15. CASE UNCHANGED vars
    BY <2>15 DEF vars
  <2> QED
    BY <2>1, <2>2, <2>3, <2>4, <2>5, <2>6, <2>7, <2>8, <2>9, <2>10, <2>11,
       <2>12, <2>13, <2>14, <2>15
    DEF Next, ApiStep, WorkerStep, SrtStep
<1> QED
  BY <1>1, <1>2, PTL DEF Spec

(* Type correctness.                                                       *)
THEOREM TypeCorrect == Spec => []TypeOK
<1>1. Inv => TypeOK
  BY DEF Inv
<1> QED
  BY <1>1, Invariance, PTL

(* client_active_ is set only while the current connection's worker runs:  *)
(* the unlocked check in sendData() never passes between connections.      *)
THEOREM ActiveOnlyWhileReceiving == Spec => []ActiveMeansReceiving
<1>1. Inv => ActiveMeansReceiving
  BY DEF Inv, PhaseInv
<1> QED
  BY <1>1, Invariance, PTL

(* clientDisconnected at most once per connection, and only once it is     *)
(* down.                                                                   *)
THEOREM LossReportedOnce == Spec => []ReportedOnce
<1>1. Inv => ReportedOnce
  BY DEF Inv, ReportInv
<1> QED
  BY <1>1, Invariance, PTL

(* A stop() that returns true leaves neither a thread nor an open socket.  *)
THEOREM StopCleans == Spec => []StoppedClean
<1>1. Inv => StoppedClean
  BY DEF Inv, PhaseInv, StoppedClean
<1> QED
  BY <1>1, Invariance, PTL

(* The destructor can only abort the program if its stop() failed.         *)
THEOREM AbortNeedsFailedStop == Spec => []TerminateOnlyAfterFailedStop
<1>1. Inv => TerminateOnlyAfterFailedStop
  BY DEF Inv, FaultInv, TerminateOnlyAfterFailedStop
<1> QED
  BY <1>1, Invariance, PTL

-----------------------------------------------------------------------------
(* Readers without a lock.                                                 *)

(* The client among its readers is the client: what is proved of Spec      *)
(* holds of ReadersSpec.                                                   *)
LEMMA ReadersClient == ReadersSpec => Spec
<1>1. ReadersInit => Init
  BY DEF ReadersInit
<1>2. [ReadersNext]_<<vars, reader>> => [Next]_vars
  BY DEF ReadersNext, ClientStep, Assigns, Next, ApiStep
<1> QED
  BY <1>1, <1>2, PTL DEF ReadersSpec, Spec

(* A call that no stop() overlaps runs in mode client, with net_mtx_ free: *)
(* startClient() returns at its test of current_mode_.                     *)
ReaderInv == rpc # "idle" /\ ~overlaps => mode = "client" /\ apc = "idle" /\ ~replaced

(* sendData() and getConnectedServer() see one connection unless a stop()  *)
(* overlaps them.                                                          *)
THEOREM UnlockedReadsConsistent == ReadersSpec => []OneConnection
<1>1. ReadersInit => ReaderInv
  BY DEF ReadersInit, ReaderInit, ReaderInv
<1>2. Inv /\ ReaderInv /\ [ReadersNext]_<<vars, reader>> => ReaderInv'
  <2> SUFFICES ASSUME Inv, ReaderInv, [ReadersNext]_<<vars, reader>> PROVE ReaderInv'
    OBVIOUS
  <2> USE DEF ReaderInv
  <2>1. CASE ReaderStep /\ UNCHANGED vars
    BY <2>1 DEF ReaderStep, SendData, SendDataActive, SendDataSend, GetConnectedServer,
       GetConnectedServerReturn, Enter, Leave, vars, Inv, TypeOK, PhaseInv
  <2>2. CASE ClientStep /\ Assigns
    BY <2>2 DEF ClientStep, Assigns, StartClient, StartClientFails, ModeUnset, Stop
  <2>3. CASE ClientStep /\ Stop
    BY <2>3 DEF ClientStep, Assigns, StartClient, StartClientFails, Stop, Connected,
       ConnectFails, StopClose, StopJoin, WorkerStep, WorkerTest, WorkerRecv,
       WorkerLost, WorkerFinish, SrtStep, PeerSend, PeerBreak, GcClose
  <2>4. CASE ClientStep /\ ~Assigns /\ ~Stop
    BY <2>4 DEF ClientStep, Connected, ConnectFails, StopClose, StopJoin, WorkerStep,
       WorkerTest, WorkerRecv, WorkerLost, WorkerFinish, SrtStep, PeerSend, PeerBreak,
       GcClose
  <2>5. CASE UNCHANGED <<vars, reader>>
    BY <2>5 DEF vars, reader
  <2> QED
    BY <2>1, <2>2, <2>3, <2>4, <2>5 DEF ReadersNext
<1>3. ReaderInv => OneConnection
  BY DEF ReaderInv, OneConnection
<1> QED
  BY <1>1, <1>2, <1>3, ReadersClient, Invariance, PTL DEF ReadersSpec
=============================================================================
