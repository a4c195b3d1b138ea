-------------------------- MODULE SRTNetLinkProofs --------------------------
(***************************************************************************)
(* Proofs about SRTNetLink: joined, the server and the client are still    *)
(* the server and the client that the other modules prove things about.    *)
(***************************************************************************)
EXTENDS SRTNetLink, SRTNetServerProofs, TLAPS

(* The client's theorems, for a client that nobody reads unlocked.         *)
ClientP == INSTANCE SRTNetClientProofs WITH
    mode <- c_mode, client_active <- c_active, sock <- c_sock, data <- c_data,
    apc <- c_apc, dying <- c_dying, wpc <- c_wpc, stopped <- c_stopped,
    disc <- c_disc, fault <- c_fault,
    rpc <- "idle", replaced <- FALSE, overlaps <- FALSE

(* The two instances of SRTNetClient are the same specification.           *)
LEMMA ClientInvariance == Client!Spec => []ClientP!Inv
<1>1. Client!Init => ClientP!Init
  BY DEF Client!Init, ClientP!Init
<1>2. [Client!Next]_Client!vars => [ClientP!Next]_ClientP!vars
  BY DEF Client!Next, ClientP!Next, Client!vars, ClientP!vars,
     Client!ApiStep, ClientP!ApiStep, Client!WorkerStep, ClientP!WorkerStep,
     Client!SrtStep, ClientP!SrtStep,
     Client!ModeUnset, ClientP!ModeUnset, Client!Closed, ClientP!Closed,
     Client!Return, ClientP!Return, Client!Joined, ClientP!Joined,
     Client!Report, ClientP!Report, Client!Inactive, ClientP!Inactive,
     Client!StartClient, ClientP!StartClient,
     Client!StartClientFails, ClientP!StartClientFails,
     Client!Connected, ClientP!Connected, Client!ConnectFails, ClientP!ConnectFails,
     Client!Stop, ClientP!Stop, Client!StopClose, ClientP!StopClose,
     Client!StopJoin, ClientP!StopJoin,
     Client!WorkerTest, ClientP!WorkerTest, Client!WorkerRecv, ClientP!WorkerRecv,
     Client!WorkerLost, ClientP!WorkerLost, Client!WorkerFinish, ClientP!WorkerFinish,
     Client!PeerSend, ClientP!PeerSend, Client!PeerBreak, ClientP!PeerBreak,
     Client!GcClose, ClientP!GcClose
<1> QED
  BY <1>1, <1>2, ClientP!Invariance, PTL DEF Client!Spec, ClientP!Spec

-----------------------------------------------------------------------------
(* The client's actions that the link uses are its own, and the others     *)
(* leave it alone.                                                         *)
THEOREM LinkRunsTheClient == LinkSpec => Client!Spec
<1>1. LinkInit => Client!Init
  BY DEF LinkInit
<1>2. [LinkNext]_linkvars => [Client!Next]_Client!vars
  <2> SUFFICES ASSUME [LinkNext]_linkvars PROVE Client!Next \/ UNCHANGED Client!vars
    OBVIOUS
  <2> USE DEF Client!Next, Client!ApiStep, Client!SrtStep
  <2>1. CASE ServerAlone
    BY <2>1 DEF ServerAlone, c_vars, Client!vars
  <2>2. CASE ClientAlone
    BY <2>2 DEF ClientAlone
  <2>3. CASE ClientSends
    BY <2>3 DEF ClientSends, c_vars, Client!vars
  <2>4. CASE ServerSends
    BY <2>4 DEF ServerSends
  <2>5. CASE ClientLoses
    BY <2>5 DEF ClientLoses
  <2>6. CASE \E s \in Sock : Connect(s)
    BY <2>6 DEF Connect
  <2>7. CASE \E s \in Sock : ServerLoses(s)
    BY <2>7 DEF ServerLoses, c_vars, Client!vars
  <2>8. CASE UNCHANGED linkvars
    BY <2>8 DEF linkvars, c_vars, Client!vars
  <2> QED
    BY <2>1, <2>2, <2>3, <2>4, <2>5, <2>6, <2>7, <2>8 DEF LinkNext
<1> QED
  BY <1>1, <1>2, PTL DEF LinkSpec, Client!Spec

(* The client has a connection of the server's once it was connected.      *)
PeerInv ==
    /\ peer \in Sock \cup {NoSock}
    /\ c_mode = "client" => peer \in Sock

(* Only Connect begins a connection.                                       *)
LEMMA PeerInvariance == LinkSpec => []PeerInv
<1>1. LinkInit => PeerInv
  BY DEF LinkInit, Client!Init, PeerInv
<1>2. PeerInv /\ [LinkNext]_linkvars => PeerInv'
  <2> SUFFICES ASSUME PeerInv, [LinkNext]_linkvars PROVE PeerInv'
    OBVIOUS
  <2> USE DEF PeerInv
  <2>1. CASE ServerAlone
    BY <2>1 DEF ServerAlone, c_vars
  <2>2. CASE ClientAlone
    BY <2>2 DEF ClientAlone, Client!StartClient, Client!ConnectFails, Client!Stop,
       Client!StopClose, Client!StopJoin, Client!WorkerStep, Client!WorkerTest,
       Client!WorkerRecv, Client!WorkerLost, Client!WorkerFinish, Client!GcClose
  <2>3. CASE ClientSends
    BY <2>3 DEF ClientSends, c_vars
  <2>4. CASE ServerSends
    BY <2>4 DEF ServerSends, Client!PeerSend
  <2>5. CASE ClientLoses
    BY <2>5 DEF ClientLoses, Client!PeerBreak
  <2>6. CASE \E s \in Sock : Connect(s)
    BY <2>6 DEF Connect, Client!Connected
  <2>7. CASE \E s \in Sock : ServerLoses(s)
    BY <2>7 DEF ServerLoses, c_vars
  <2>8. CASE UNCHANGED linkvars
    BY <2>8 DEF linkvars, c_vars
  <2> QED
    BY <2>1, <2>2, <2>3, <2>4, <2>5, <2>6, <2>7, <2>8 DEF LinkNext
<1> QED
  BY <1>1, <1>2, PTL DEF LinkSpec

(* The server's steps in the link are steps of SRTNetServer: a message or  *)
(* a connection from the client is one of its peers'.  A client that sends *)
(* has a connection of the server's to send on.                            *)
THEOREM LinkRunsTheServer == LinkSpec => Spec
<1>1. LinkInit => Init
  BY DEF LinkInit
<1>2. ClientP!Inv /\ PeerInv /\ [LinkNext]_linkvars => [Next]_vars
  <2> SUFFICES ASSUME ClientP!Inv, PeerInv, [LinkNext]_linkvars
               PROVE  Next \/ UNCHANGED vars
    OBVIOUS
  <2> USE DEF Next
  <2>1. CASE ServerAlone
    BY <2>1 DEF ServerAlone, ApiStep, SrtStep
  <2>2. CASE ClientAlone
    BY <2>2 DEF ClientAlone
  <2>3. CASE ClientSends
    <3>1. peer \in Sock
      BY <2>3 DEF ClientSends, PeerInv, ClientP!Inv, ClientP!TypeOK, ClientP!PhaseInv
    <3> QED
      BY <2>3, <3>1 DEF ClientSends, SrtStep
  <2>4. CASE ServerSends
    BY <2>4 DEF ServerSends
  <2>5. CASE ClientLoses
    BY <2>5 DEF ClientLoses
  <2>6. CASE \E s \in Sock : Connect(s)
    BY <2>6 DEF Connect, SrtStep
  <2>7. CASE \E s \in Sock : ServerLoses(s)
    BY <2>7 DEF ServerLoses, SrtStep
  <2>8. CASE UNCHANGED linkvars
    BY <2>8 DEF linkvars
  <2> QED
    BY <2>1, <2>2, <2>3, <2>4, <2>5, <2>6, <2>7, <2>8 DEF LinkNext
<1> QED
  BY <1>1, <1>2, LinkRunsTheClient, ClientInvariance, PeerInvariance, PTL
  DEF LinkSpec, Spec

-----------------------------------------------------------------------------
(* Why a connection ends.                                                  *)

(* A connection the server's SRT has seen does not become unseen.          *)
LEMMA SeenForGood ==
    ASSUME TypeOK, [Next]_vars, NEW s \in Sock, sock[s] # "none"
    PROVE  sock'[s] # "none"
<1> USE DEF TypeOK
<1>1. CASE \E t \in Sock : PeerConnect(t) \/ PeerBreak(t) \/ GcClose(t)
  BY <1>1 DEF PeerConnect, PeerBreak, GcClose
<1>2. CASE \E t \in Sock : PeerSend(t) \/ GcRemove(t)
  BY <1>2 DEF PeerSend, GcRemove
<1>3. CASE StopClose
  BY <1>3 DEF StopClose, SrtClose, CloseSockets, srt
<1>4. CASE StopCloseAllClientSockets \/ WorkerCloseAllClientSockets
  BY <1>4 DEF StopCloseAllClientSockets, WorkerCloseAllClientSockets,
     closeAllClientSockets, SrtClose, CloseSockets
<1>5. CASE WorkerAccept
  BY <1>5 DEF WorkerAccept, Queued
<1>6. CASE EventHandleError
  BY <1>6 DEF EventHandleError, RemoveClient, CloseSockets, srt
<1>7. CASE StartServer \/ StartServerFails \/ Stop \/ StopJoinWorker \/ StopJoinEvent
           \/ GetActiveClients \/ GetActiveClientsReturn
  BY <1>7 DEF StartServer, StartServerFails, Stop, StopJoinWorker, StopJoinEvent,
     GetActiveClients, GetActiveClientsReturn, srt
<1>8. CASE WorkerInit \/ WorkerTest \/ WorkerClientConnected \/ WorkerInsert
  BY <1>8 DEF WorkerInit, WorkerTest, WorkerClientConnected, WorkerInsert, srt
<1>9. CASE EventTest \/ EventUwait \/ EventRecv \/ EventLock \/ EventHandleData
  BY <1>9 DEF EventTest, EventUwait, EventRecv, EventLock, EventHandleData, srt
<1>10. CASE UNCHANGED vars
  BY <1>10 DEF vars, srt
<1> QED
  BY <1>1, <1>2, <1>3, <1>4, <1>5, <1>6, <1>7, <1>8, <1>9, <1>10
  DEF Next, ApiStep, WorkerStep, EventStep, SrtStep

USE DEF api, worker, event, clients, srt, history, vars

(* A stopped server has nothing in its backlog, and all it ever accepted   *)
(* belongs to earlier runs.                                                *)
DownInv ==
    /\ apc \in {"closeall", "join_worker", "join_event"} \/ mode = "unknown" => Queued = {}
    /\ mode = "unknown" => Accepted \subseteq retired

(* Nothing is accepted, and nobody connects, once the listener is closed.  *)
LEMMA DownInvariance == Spec => []DownInv
<1>1. Init => DownInv
  BY DEF Init, DownInv, Queued, Accepted
<1>2. Inv /\ DownInv /\ [Next]_vars => DownInv'
  <2> SUFFICES ASSUME Inv, DownInv, [Next]_vars PROVE DownInv'
    OBVIOUS
  <2> USE DEF Inv, TypeOK, Sockets, PhaseInv, DownInv, Queued, Accepted
  <2>1. CASE StopClose
    BY <2>1 DEF StopClose, SrtClose, CloseSockets
  <2>2. CASE StopCloseAllClientSockets \/ WorkerCloseAllClientSockets
    BY <2>2 DEF StopCloseAllClientSockets, WorkerCloseAllClientSockets,
       closeAllClientSockets, SrtClose, CloseSockets, RetiredInv, OwnerInv
  <2>3. CASE StopJoinEvent
    BY <2>3 DEF StopJoinEvent
  <2>4. CASE WorkerAccept
    BY <2>4 DEF WorkerAccept
  <2>5. CASE EventHandleError
    BY <2>5 DEF EventHandleError, RemoveClient, CloseSockets, AlreadyRemoved
  <2>6. CASE \E s \in Sock : PeerConnect(s) \/ PeerSend(s) \/ PeerBreak(s)
    BY <2>6 DEF PeerConnect, PeerSend, PeerBreak
  <2>7. CASE \E s \in Sock : GcClose(s) \/ GcRemove(s)
    BY <2>7 DEF GcClose, GcRemove
  <2>8. CASE StartServer \/ StartServerFails \/ Stop \/ StopJoinWorker
             \/ GetActiveClients \/ GetActiveClientsReturn
    BY <2>8 DEF StartServer, StartServerFails, Stop, StopJoinWorker,
       GetActiveClients, GetActiveClientsReturn
  <2>9. CASE WorkerInit \/ WorkerTest \/ WorkerClientConnected \/ WorkerInsert
    BY <2>9 DEF WorkerInit, WorkerTest, WorkerClientConnected, WorkerInsert
  <2>10. CASE EventTest \/ EventUwait \/ EventRecv \/ EventLock \/ EventHandleData
    BY <2>10 DEF EventTest, EventUwait, EventRecv, EventLock, EventHandleData
  <2>11. CASE UNCHANGED vars
    BY <2>11
  <2> QED
    BY <2>1, <2>2, <2>3, <2>4, <2>5, <2>6, <2>7, <2>8, <2>9, <2>10, <2>11
    DEF Next, ApiStep, WorkerStep, EventStep, SrtStep
<1> QED
  BY <1>1, <1>2, Invariance, PTL DEF Spec

(* A connection that counts for the current run of the server did so       *)
(* before the step, if it existed: a start brings no old one back.         *)
LEMMA SameRun ==
    ASSUME Inv, DownInv, [Next]_vars, NEW s \in Sock, sock[s] # "none",
           server_active', s \notin retired'
    PROVE  server_active /\ s \notin retired
<1> USE DEF Inv, TypeOK, Sockets, DownInv, Queued, Accepted
<1>1. CASE StartServer
  BY <1>1 DEF StartServer
<1>2. CASE StopJoinEvent
  BY <1>2 DEF StopJoinEvent
<1>3. CASE ~StartServer /\ ~StopJoinEvent
  <2>1. UNCHANGED retired
    BY <1>3 DEF Next, ApiStep, WorkerStep, EventStep, SrtStep,
       StartServerFails, Stop, StopClose, StopCloseAllClientSockets, StopJoinWorker,
       GetActiveClients, GetActiveClientsReturn, WorkerInit,
       WorkerCloseAllClientSockets, WorkerTest, WorkerAccept, WorkerClientConnected,
       WorkerInsert, EventTest, EventUwait, EventRecv, EventLock, EventHandleError,
       EventHandleData, PeerConnect, PeerSend, PeerBreak, GcClose, GcRemove
  <2>2. server_active' => server_active
    BY <1>3 DEF Next, ApiStep, WorkerStep, EventStep, SrtStep,
       StartServerFails, Stop, StopClose, StopCloseAllClientSockets, StopJoinWorker,
       GetActiveClients, GetActiveClientsReturn, WorkerInit,
       WorkerCloseAllClientSockets, WorkerTest, WorkerAccept, WorkerClientConnected,
       WorkerInsert, EventTest, EventUwait, EventRecv, EventLock, EventHandleError,
       EventHandleData, PeerConnect, PeerSend, PeerBreak, GcClose, GcRemove
  <2> QED
    BY <2>1, <2>2
<1> QED
  BY <1>1, <1>2, <1>3

(* While it is active, the server itself takes down no connection of the   *)
(* current run that is up: stop() and the first closeAllClientSockets() of *)
(* a run are not concerned with it, and the event thread only closes what  *)
(* was broken when it received.                                            *)
LEMMA ServerDropsOnlyBroken ==
    ASSUME Inv, PolledInv, [Next]_vars, NEW s \in Sock,
           server_active', s \notin retired', ServerEndDown(s)', ~PeerBreak(s)
    PROVE  ServerEndDown(s)
<1> USE DEF Inv, TypeOK, Sockets, ServerEndDown
<1>1. CASE StopClose
  BY <1>1 DEF StopClose, PhaseInv
<1>2. CASE StopCloseAllClientSockets
  BY <1>2 DEF StopCloseAllClientSockets, PhaseInv
<1>3. CASE WorkerCloseAllClientSockets
  BY <1>3 DEF WorkerCloseAllClientSockets, closeAllClientSockets, SrtClose,
     CloseSockets, RetiredInv
<1>4. CASE WorkerAccept
  BY <1>4 DEF WorkerAccept, Queued
<1>5. CASE EventHandleError
  BY <1>5 DEF EventHandleError, RemoveClient, CloseSockets, PolledInv, Accepted
<1>6. CASE \E t \in Sock : PeerConnect(t) \/ PeerSend(t) \/ PeerBreak(t)
  BY <1>6 DEF PeerConnect, PeerSend, PeerBreak
<1>7. CASE \E t \in Sock : GcClose(t) \/ GcRemove(t)
  BY <1>7 DEF GcClose, GcRemove
<1>8. CASE StartServer \/ StartServerFails \/ Stop \/ StopJoinWorker \/ StopJoinEvent
           \/ GetActiveClients \/ GetActiveClientsReturn
  BY <1>8 DEF StartServer, StartServerFails, Stop, StopJoinWorker, StopJoinEvent,
     GetActiveClients, GetActiveClientsReturn
<1>9. CASE WorkerInit \/ WorkerTest \/ WorkerClientConnected \/ WorkerInsert
  BY <1>9 DEF WorkerInit, WorkerTest, WorkerClientConnected, WorkerInsert
<1>10. CASE EventTest \/ EventUwait \/ EventRecv \/ EventLock \/ EventHandleData
  BY <1>10 DEF EventTest, EventUwait, EventRecv, EventLock, EventHandleData
<1>11. CASE UNCHANGED vars
  BY <1>11
<1> QED
  BY <1>1, <1>2, <1>3, <1>4, <1>5, <1>6, <1>7, <1>8, <1>9, <1>10, <1>11
  DEF Next, ApiStep, WorkerStep, EventStep, SrtStep

(* The inductive invariant: of a connection that network and server left   *)
(* alone, the server's end goes down only after the client's, and the      *)
(* client's only by its own srt_close(), which is followed by the join.    *)
(* Neither half is inductive without the other, since each end follows the *)
(* other down.                                                             *)
CauseInv ==
    /\ peer \in Sock => sock[peer] # "none"
    /\ \A s \in Sock : Undisturbed(s) /\ ServerEndDown(s) => ClientEndDown(s)
    /\ c_mode = "client" /\ c_apc # "join" /\ Undisturbed(peer) => c_sock = "conn"

(* Undisturbed(s) is never regained by a connection that exists.           *)
LEMMA StaysDisturbed ==
    ASSUME Inv, DownInv, [Next]_vars, cut \subseteq cut',
           NEW s \in Sock, sock[s] # "none", Undisturbed(s)'
    PROVE  Undisturbed(s)
  BY SameRun DEF Undisturbed

(* Every step of the pair keeps CauseInv.                                  *)
LEMMA CauseStep ==
    ASSUME Inv, PolledInv, DownInv, ClientP!Inv, PeerInv, CauseInv,
           [LinkNext]_linkvars, [Next]_vars
    PROVE  CauseInv'
<1>1. cut \subseteq cut'
  BY DEF LinkNext, linkvars, ServerAlone, ClientAlone, ClientSends, ServerSends,
     ClientLoses, Connect, ServerLoses
<1>2. ASSUME NEW s \in Sock, ServerEndDown(s)
      PROVE  sock[s] # "none"
  BY <1>2 DEF ServerEndDown
<1>3. \A s \in Sock : sock[s] # "none" => sock'[s] # "none"
  BY SeenForGood DEF Inv
<1>4. CASE UNCHANGED <<c_vars, peer>> /\ ~\E s \in Sock : PeerBreak(s)
  <2>1. peer' \in Sock => sock'[peer'] # "none"
    BY <1>3, <1>4 DEF CauseInv
  <2>2. ASSUME NEW s \in Sock, Undisturbed(s)', ServerEndDown(s)'
        PROVE  ClientEndDown(s)'
    <3>1. ServerEndDown(s)
      BY <1>4, <2>2, ServerDropsOnlyBroken DEF Undisturbed
    <3>2. Undisturbed(s)
      BY <1>1, <1>2, <2>2, <3>1, StaysDisturbed
    <3> QED
      BY <1>4, <3>1, <3>2 DEF CauseInv, ClientEndDown, c_vars
  <2>3. ASSUME c_mode' = "client", c_apc' # "join", Undisturbed(peer)'
        PROVE  c_sock' = "conn"
    <3>1. peer \in Sock /\ peer' = peer /\ c_mode = "client" /\ c_apc # "join"
      BY <1>4, <2>3 DEF PeerInv, c_vars
    <3>2. Undisturbed(peer)
      BY <1>1, <2>3, <3>1, StaysDisturbed DEF CauseInv, Undisturbed
    <3> QED
      BY <1>4, <3>1, <3>2 DEF CauseInv, c_vars
  <2> QED
    BY <2>1, <2>2, <2>3 DEF CauseInv
<1>5. CASE \E s \in Sock : ServerLoses(s)
  <2> PICK s \in Sock : ServerLoses(s)
    BY <1>5
  <2>1. /\ sock' = [sock EXCEPT ![s] = "broken"] /\ sock[s] = "conn"
        /\ UNCHANGED <<server_active, retired, c_vars, peer>>
        /\ cut' = IF ClientEndDown(s) THEN cut ELSE cut \cup {s}
    BY DEF ServerLoses, PeerBreak
  <2> QED
    BY <2>1 DEF CauseInv, Undisturbed, ServerEndDown, ClientEndDown, c_vars, Inv, TypeOK,
       PeerInv
<1>6. CASE ClientLoses
  <2>1. /\ UNCHANGED <<vars, peer, c_mode, c_apc>> /\ c_sock = "conn" /\ c_sock' = "broken"
        /\ cut' = IF ServerEndDown(peer) THEN cut ELSE cut \cup {peer}
    BY <1>6 DEF ClientLoses, Client!PeerBreak
  <2>2. c_mode = "client" => peer \in Sock
    BY DEF PeerInv
  <2>3. ServerEndDown(peer)' = ServerEndDown(peer)
    BY <2>1 DEF ServerEndDown
  <2> QED
    BY <2>1, <2>2, <2>3 DEF CauseInv, Undisturbed, ServerEndDown, ClientEndDown
<1>7. CASE \E s \in Sock : Connect(s)
  <2> PICK s \in Sock : Connect(s)
    BY <1>7
  <2>1. peer' = s /\ sock' = [sock EXCEPT ![s] = "queued"] /\ c_sock' = "conn"
    BY DEF Connect, PeerConnect, Client!Connected
  <2> QED
    BY <2>1 DEF CauseInv, ServerEndDown, ClientEndDown, Inv, TypeOK
<1>8. CASE ClientAlone
  <2>1. UNCHANGED <<vars, peer, cut>>
    BY <1>8 DEF ClientAlone
  <2>2. c_sock' = "conn" => c_sock = "conn"
    BY <1>8 DEF ClientAlone, Client!StartClient, Client!ConnectFails, Client!Closed,
       Client!Stop, Client!StopClose, Client!StopJoin, Client!WorkerStep,
       Client!WorkerTest, Client!WorkerRecv, Client!WorkerLost, Client!WorkerFinish,
       Client!GcClose
  <2>3. c_mode' = "client" /\ c_apc' # "join" =>
          c_mode = "client" /\ c_apc # "join" /\ (c_sock = "conn" => c_sock' = "conn")
    BY <1>8 DEF ClientAlone, Client!StartClient, Client!ConnectFails, Client!ModeUnset,
       Client!Stop, Client!StopClose, Client!Return, Client!StopJoin, Client!WorkerStep,
       Client!WorkerTest, Client!WorkerRecv, Client!WorkerLost, Client!WorkerFinish,
       Client!GcClose, ClientP!Inv, ClientP!PhaseInv
  <2> QED
    BY <2>1, <2>2, <2>3 DEF CauseInv, Undisturbed, ServerEndDown, ClientEndDown
<1>9. CASE ServerSends
  <2>1. UNCHANGED <<vars, peer, cut, c_mode, c_apc, c_sock>>
    BY <1>9 DEF ServerSends, Client!PeerSend
  <2> QED
    BY <2>1 DEF CauseInv, Undisturbed, ServerEndDown, ClientEndDown
<1>10. CASE ServerAlone \/ ClientSends \/ UNCHANGED linkvars
  <2>1. UNCHANGED <<c_vars, peer>>
    BY <1>10 DEF ServerAlone, ClientSends, linkvars
  <2>2. ASSUME NEW s \in Sock, PeerBreak(s)
        PROVE  FALSE
    <3>1. sock'[s] = "broken" /\ sock[s] = "conn" /\ UNCHANGED <<api, worker, event, data, watch>>
      BY <2>2 DEF PeerBreak, Inv, TypeOK
    <3> QED
      BY <1>10, <3>1 DEF ServerAlone, ClientSends, linkvars, PeerSend, WorkerStep, EventStep,
         StartServer, Stop, StopClose, StopCloseAllClientSockets, StopJoinWorker,
         StopJoinEvent, WorkerInit, WorkerCloseAllClientSockets, WorkerTest, WorkerAccept,
         WorkerClientConnected, WorkerInsert, EventTest, EventUwait, EventRecv, EventLock,
         EventHandleError, EventHandleData, NextTurn, GcClose, GcRemove, Inv, TypeOK
  <2> QED
    BY <1>4, <2>1, <2>2
<1> QED
  BY <1>5, <1>6, <1>7, <1>8, <1>9, <1>10 DEF LinkNext

(* CauseInv holds as long as no poll of the server is overfull.            *)
LEMMA CauseInvariance == LinkSpec /\ []PollFits => []CauseInv
<1>1. LinkInit => CauseInv
  BY SockAssumption DEF LinkInit, Init, Client!Init, CauseInv, ServerEndDown
<1> QED
  BY <1>1, CauseStep, LinkRunsTheServer, LinkRunsTheClient, ClientInvariance,
     PeerInvariance, Invariance, PolledInvariance, DownInvariance, PTL
  DEF LinkSpec, Spec

(* Over any number of connections and any starts, stops and destructions   *)
(* of both ends, neither end drops a connection that network and server's  *)
(* application left alone, as long as no poll of the server is overfull.   *)
THEOREM EndsHaveCauses == LinkSpec /\ []PollFits => []NoEndWithoutCause
<1>1. ClientP!Inv /\ CauseInv => NoEndWithoutCause
  <2> SUFFICES ASSUME ClientP!Inv, CauseInv, NEW s \in Sock, Undisturbed(s)
               PROVE  /\ ServerEndDown(s) => ClientEndDown(s)
                      /\ peer = s /\ c_mode = "client" /\ c_apc = "idle"
                            => c_sock = "conn" /\ c_active
    BY DEF NoEndWithoutCause
  <2>1. c_mode = "client" /\ c_apc = "idle" /\ c_sock = "conn" => c_active
    BY DEF ClientP!Inv, ClientP!PhaseInv, ClientP!ActiveMeansReceiving
  <2> QED
    BY <2>1 DEF CauseInv
<1> QED
  BY <1>1, CauseInvariance, LinkRunsTheClient, ClientInvariance, PTL

(* Destroying a client reaches std::terminate only if the network or the   *)
(* server had ended its connection, under the same condition.              *)
THEOREM AbortsHaveCauses == LinkSpec /\ []PollFits => []AbortHasCause
<1>1. ClientP!Inv /\ CauseInv => AbortHasCause
  <2> SUFFICES ASSUME ClientP!Inv, CauseInv, c_fault = "terminate"
               PROVE  ~Undisturbed(peer)
    BY DEF AbortHasCause
  <2>1. c_apc = "gone" /\ c_mode = "client" /\ c_sock = "closed"
    BY DEF ClientP!Inv, ClientP!FaultInv, ClientP!PhaseInv
  <2> QED
    BY <2>1 DEF CauseInv
<1> QED
  BY <1>1, CauseInvariance, LinkRunsTheClient, ClientInvariance, PTL
=============================================================================
