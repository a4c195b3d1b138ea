------------------------- MODULE SRTNetServerProofs -------------------------
(***************************************************************************)
(* Proofs about SRTNetServer for any set of connections and any sizes.     *)
(*                                                                         *)
(* Inv, the inductive invariant, has three parts besides the types:        *)
(* PhaseInv ties the program counters of the three threads to each other   *)
(* and to the mode, OwnerInv says who answers for each connection, and     *)
(* RetiredInv follows the connections of earlier runs of the server.       *)
(***************************************************************************)
EXTENDS SRTNetServer, TLAPS

(* How far the threads may be apart.  stop() joins the worker before it    *)
(* reads event_thread_, so the handle is assigned by then; the worker can  *)
(* only be done, and the event thread can only have released the epoll,    *)
(* once stop() has cleared server_active_.                                 *)
PhaseInv ==
    /\ apc # "idle" => mode = "server"
    /\ server_active <=> mode = "server" /\ apc = "idle"
    /\ mode = "unknown" => wpc = "none" /\ epc = "none" /\ listener # "listening"
    /\ mode = "server" /\ apc \in {"idle", "close"} => listener = "listening"
    /\ apc \in {"closeall", "join_worker", "join_event"} => listener = "closed"
    /\ mode = "server" => (wpc = "none" <=> apc = "join_event")
    /\ mode = "server" => (epc = "none" <=> wpc = "init")
    /\ wpc = "done" \/ epc = "done" => ~server_active
    /\ ~PollOpen => watch = {} /\ notice = {}
    /\ fault # "terminate"

(* Who answers for a connection: nobody before srt_accept, then the worker *)
(* until it lists or refuses it, then client_list_ until the disconnect    *)
(* callback.                                                               *)
OwnerInv ==
    /\ wpc \in {"callback", "insert"} =>
          /\ wsock \in Accepted
          /\ wsock \notin client_list
          /\ disc[wsock] = 0
    /\ client_list \subseteq Accepted
    /\ \A s \in Sock : disc[s] > 0 => s \in Accepted
    /\ Accounted

(* A connection of an earlier run is retired; while the server is stopped, *)
(* or has not yet run its first closeAllClientSockets(), every listed      *)
(* client is, and afterwards none is.                                      *)
RetiredInv ==
    /\ retired \subseteq Accepted
    /\ wpc \in {"callback", "insert"} => wsock \notin retired
    /\ wpc \in {"test", "accept", "callback", "insert", "done"}
          => client_list \cap retired = {}
    /\ mode = "unknown" \/ wpc \in {"init", "closeall"}
          => client_list \subseteq retired

Inv == TypeOK /\ PhaseInv /\ OwnerInv /\ RetiredInv

-----------------------------------------------------------------------------
USE DEF api, worker, event, clients, srt, history, vars, EventJoined, AcceptFailed, Refused,
        Locked

(* Every step keeps every variable in its type.                            *)
LEMMA TypeStep == Inv /\ [Next]_vars => TypeOK'
<1> SUFFICES ASSUME Inv, [Next]_vars PROVE TypeOK'
  OBVIOUS
<1> USE SockAssumption, SizeAssumption DEF Inv, TypeOK, Modes, Listeners, Sockets, ApiPC,
        WorkerPC, EventPC
<1>1. CASE StartServer
  BY <1>1 DEF StartServer
<1>2. CASE StartServerFails
  BY <1>2 DEF StartServerFails
<1>3. CASE Stop
  <2>1. server_active' \in BOOLEAN
    BY <1>3, Zenon DEF Stop
  <2> QED
    BY <1>3, <2>1 DEF Stop
<1>4. CASE StopClose
  <2>1. sock' \in [Sock -> Sockets] /\ data' \in [Sock -> BOOLEAN]
    BY <1>4 DEF StopClose, SrtClose, CloseSockets, Open, Queued
  <2> QED
    BY <1>4, <2>1 DEF StopClose, SrtClose, CloseSockets, Open, Queued
<1>5. CASE StopCloseAllClientSockets
  BY <1>5 DEF StopCloseAllClientSockets, closeAllClientSockets, SrtClose, CloseSockets, Open, Disconnected
<1>6. CASE StopJoinWorker
  BY <1>6 DEF StopJoinWorker
<1>7. CASE StopJoinEvent
  BY <1>7 DEF StopJoinEvent, Accepted
<1>8. CASE GetActiveClients
  BY <1>8 DEF GetActiveClients
<1>9. CASE GetActiveClientsReturn
  BY <1>9 DEF GetActiveClientsReturn
<1>10. CASE WorkerInit
  BY <1>10 DEF WorkerInit
<1>11. CASE WorkerCloseAllClientSockets
  BY <1>11 DEF WorkerCloseAllClientSockets, closeAllClientSockets, SrtClose, CloseSockets, Open, Disconnected
<1>12. CASE WorkerTest
  BY <1>12 DEF WorkerTest
<1>13. CASE WorkerAccept
  BY <1>13 DEF WorkerAccept, Queued
<1>14. CASE WorkerClientConnected
  BY <1>14 DEF WorkerClientConnected, OwnerInv, Accepted
<1>15. CASE WorkerInsert
  BY <1>15 DEF OwnerInv, Accepted, WorkerInsert, EpollAdd, PollOpen
<1>16. CASE EventTest
  BY <1>16 DEF EventTest
<1>17. CASE EventUwait
  BY <1>17 DEF EventUwait
<1>18. CASE EventRecv
  <2>1. PICK fd \in Sock \cup {NoSock} :
          /\ batch' = batch \ {fd}
          /\ extra' = IF batch = {} THEN {} ELSE extra
          /\ esock' = fd
          /\ \/ /\ fd \in Sock
                /\ eres' = "data"
                /\ data' = [data EXCEPT ![fd] = FALSE]
                /\ notice' \in {notice, notice \ {fd}}
             \/ eres' = "error" /\ UNCHANGED <<data, notice>>
    BY <1>18 DEF EventRecv, Receives, RecvFails
  <2>2. data' \in [Sock -> BOOLEAN] /\ notice' \in SUBSET Sock
    BY <2>1
  <2> QED
    BY <1>18, <2>1, <2>2 DEF EventRecv
<1>19. CASE EventLock
  BY <1>19 DEF EventLock
<1>20. CASE EventHandleError
  <2>1. /\ sock' \in [Sock -> Sockets]
        /\ data' \in [Sock -> BOOLEAN]
        /\ disc' \in [Sock -> Nat]
    <3>1. CASE AlreadyRemoved(esock)
      BY <1>20, <3>1 DEF EventHandleError
    <3>2. CASE ~AlreadyRemoved(esock)
      <4>1. CloseSockets({esock}, {esock}) /\ Disconnected({esock})
        BY <1>20, <3>2 DEF EventHandleError, RemoveClient
      <4>2. sock' \in [Sock -> Sockets] /\ data' \in [Sock -> BOOLEAN]
        BY <4>1 DEF CloseSockets
      <4>3. disc' \in [Sock -> Nat]
        BY <4>1 DEF Disconnected
      <4> QED
        BY <4>2, <4>3
    <3> QED
      BY <3>1, <3>2
  <2>2. /\ client_list' \in SUBSET Sock
        /\ watch' \in SUBSET Sock
        /\ notice' \in SUBSET Sock
    BY <1>20 DEF EventHandleError, RemoveClient, CloseSockets
  <2> QED
    BY <1>20, <2>1, <2>2 DEF EventHandleError, NextTurn
<1>21. CASE EventHandleData
  BY <1>21 DEF EventHandleData, NextTurn, RecvError, AlreadyRemoved
<1>22. ASSUME NEW s \in Sock, PeerConnect(s) PROVE TypeOK'
  BY <1>22 DEF PeerConnect, Queued
<1>23. ASSUME NEW s \in Sock, PeerSend(s) PROVE TypeOK'
  BY <1>23 DEF PeerSend
<1>24. ASSUME NEW s \in Sock, PeerBreak(s) PROVE TypeOK'
  BY <1>24 DEF PeerBreak
<1>25. ASSUME NEW s \in Sock, GcClose(s) PROVE TypeOK'
  BY <1>25 DEF GcClose
<1>26. ASSUME NEW s \in Sock, GcRemove(s) PROVE TypeOK'
  BY <1>26 DEF GcRemove
<1>27. CASE UNCHANGED vars
  BY <1>27
<1> QED
  BY <1>1, <1>2, <1>3, <1>4, <1>5, <1>6, <1>7, <1>8, <1>9, <1>10, <1>11,
     <1>12, <1>13, <1>14, <1>15, <1>16, <1>17, <1>18, <1>19, <1>20, <1>21,
     <1>22, <1>23, <1>24, <1>25, <1>26, <1>27 DEF Next, ApiStep, WorkerStep,
     EventStep, SrtStep

(* Every step keeps the threads in step with the mode.                     *)
LEMMA PhaseStep == Inv /\ [Next]_vars => PhaseInv'
<1> SUFFICES ASSUME Inv, [Next]_vars PROVE PhaseInv'
  OBVIOUS
<1> USE DEF Inv, TypeOK, Modes, Listeners, ApiPC, WorkerPC, EventPC, PhaseInv,
        PollOpen
<1>1. CASE StartServer
  BY <1>1 DEF StartServer
<1>2. CASE StartServerFails
  BY <1>2 DEF StartServerFails
<1>3. CASE Stop
  BY <1>3 DEF Stop
<1>4. CASE StopClose
  BY <1>4 DEF StopClose, SrtClose, CloseSockets, Open, Queued
<1>5. CASE StopCloseAllClientSockets
  BY <1>5 DEF StopCloseAllClientSockets, closeAllClientSockets, SrtClose, CloseSockets, Open,
         Disconnected
<1>6. CASE StopJoinWorker
  BY <1>6 DEF StopJoinWorker
<1>7. CASE StopJoinEvent
  BY <1>7 DEF StopJoinEvent, Accepted
<1>8. CASE GetActiveClients
  BY <1>8 DEF GetActiveClients
<1>9. CASE GetActiveClientsReturn
  BY <1>9 DEF GetActiveClientsReturn
<1>10. CASE WorkerInit
  BY <1>10 DEF WorkerInit
<1>11. CASE WorkerCloseAllClientSockets
  BY <1>11 DEF WorkerCloseAllClientSockets, closeAllClientSockets, SrtClose, CloseSockets, Open,
         Disconnected
<1>12. CASE WorkerTest
  BY <1>12 DEF WorkerTest
<1>13. CASE WorkerAccept
  BY <1>13 DEF WorkerAccept, Queued
<1>14. CASE WorkerClientConnected
  BY <1>14 DEF WorkerClientConnected
<1>15. CASE WorkerInsert
  BY <1>15 DEF WorkerInsert, EpollAdd
<1>16. CASE EventTest
  BY <1>16 DEF EventTest
<1>17. CASE EventUwait
  BY <1>17 DEF EventUwait
<1>18. CASE EventRecv
  BY <1>18 DEF EventRecv, Receives, RecvFails
<1>19. CASE EventLock
  BY <1>19 DEF EventLock
<1>20. CASE EventHandleError
  BY <1>20 DEF EventHandleError, NextTurn, RemoveClient, CloseSockets,
         Disconnected
<1>21. CASE EventHandleData
  BY <1>21 DEF EventHandleData, NextTurn
<1>22. ASSUME NEW s \in Sock, PeerConnect(s) PROVE PhaseInv'
  BY <1>22 DEF PeerConnect, Queued
<1>23. ASSUME NEW s \in Sock, PeerSend(s) PROVE PhaseInv'
  BY <1>23 DEF PeerSend
<1>24. ASSUME NEW s \in Sock, PeerBreak(s) PROVE PhaseInv'
  BY <1>24 DEF PeerBreak
<1>25. ASSUME NEW s \in Sock, GcClose(s) PROVE PhaseInv'
  BY <1>25 DEF GcClose
<1>26. ASSUME NEW s \in Sock, GcRemove(s) PROVE PhaseInv'
  BY <1>26 DEF GcRemove
<1>27. CASE UNCHANGED vars
  BY <1>27
<1> QED
  BY <1>1, <1>2, <1>3, <1>4, <1>5, <1>6, <1>7, <1>8, <1>9, <1>10, <1>11, <1>12,
     <1>13, <1>14, <1>15, <1>16, <1>17, <1>18, <1>19, <1>20, <1>21,
        <1>22, <1>23, <1>24, <1>25, <1>26, <1>27
  DEF Next, ApiStep, WorkerStep, EventStep, SrtStep

(* Every step keeps the connections of earlier runs apart.                 *)
LEMMA RetiredStep == Inv /\ [Next]_vars => RetiredInv'
<1> SUFFICES ASSUME Inv, [Next]_vars PROVE RetiredInv'
  OBVIOUS
<1> USE DEF Inv, TypeOK, PhaseInv, OwnerInv, RetiredInv, Accepted
<1>1. CASE StartServer
  BY <1>1 DEF StartServer
<1>2. CASE StartServerFails
  BY <1>2 DEF StartServerFails
<1>3. CASE Stop
  BY <1>3 DEF Stop
<1>4. CASE StopClose
  BY <1>4 DEF StopClose, SrtClose, CloseSockets, Open, Queued
<1>5. CASE StopCloseAllClientSockets
  BY <1>5 DEF StopCloseAllClientSockets, closeAllClientSockets, SrtClose, CloseSockets, Open,
         Disconnected
<1>6. CASE StopJoinWorker
  BY <1>6 DEF StopJoinWorker
<1>7. CASE StopJoinEvent
  BY <1>7 DEF StopJoinEvent, Accepted
<1>8. CASE GetActiveClients
  BY <1>8 DEF GetActiveClients
<1>9. CASE GetActiveClientsReturn
  BY <1>9 DEF GetActiveClientsReturn
<1>10. CASE WorkerInit
  BY <1>10 DEF WorkerInit
<1>11. CASE WorkerCloseAllClientSockets
  BY <1>11 DEF WorkerCloseAllClientSockets, closeAllClientSockets, SrtClose, CloseSockets, Open,
         Disconnected
<1>12. CASE WorkerTest
  BY <1>12 DEF WorkerTest
<1>13. CASE WorkerAccept
  BY <1>13 DEF WorkerAccept, Queued
<1>14. CASE WorkerClientConnected
  BY <1>14 DEF WorkerClientConnected
<1>15. CASE WorkerInsert
  BY <1>15 DEF WorkerInsert, EpollAdd
<1>16. CASE EventTest
  BY <1>16 DEF EventTest
<1>17. CASE EventUwait
  BY <1>17 DEF EventUwait
<1>18. CASE EventRecv
  BY <1>18 DEF EventRecv, Receives, RecvFails
<1>19. CASE EventLock
  BY <1>19 DEF EventLock
<1>20. CASE EventHandleError
  BY <1>20 DEF EventHandleError, NextTurn, RecvError, AlreadyRemoved,
         RemoveClient, CloseSockets, Disconnected
<1>21. CASE EventHandleData
  BY <1>21 DEF EventHandleData, NextTurn
<1>22. ASSUME NEW s \in Sock, PeerConnect(s) PROVE RetiredInv'
  BY <1>22 DEF PeerConnect, Queued
<1>23. ASSUME NEW s \in Sock, PeerSend(s) PROVE RetiredInv'
  BY <1>23 DEF PeerSend
<1>24. ASSUME NEW s \in Sock, PeerBreak(s) PROVE RetiredInv'
  BY <1>24 DEF PeerBreak
<1>25. ASSUME NEW s \in Sock, GcClose(s) PROVE RetiredInv'
  BY <1>25 DEF GcClose
<1>26. ASSUME NEW s \in Sock, GcRemove(s) PROVE RetiredInv'
  BY <1>26 DEF GcRemove
<1>27. CASE UNCHANGED vars
  BY <1>27
<1> QED
  BY <1>1, <1>2, <1>3, <1>4, <1>5, <1>6, <1>7, <1>8, <1>9, <1>10, <1>11, <1>12,
     <1>13, <1>14, <1>15, <1>16, <1>17, <1>18, <1>19, <1>20, <1>21,
        <1>22, <1>23, <1>24, <1>25, <1>26, <1>27
  DEF Next, ApiStep, WorkerStep, EventStep, SrtStep

(* Every step leaves exactly one party answering for each connection.      *)
LEMMA OwnerStep == Inv /\ [Next]_vars => OwnerInv'
<1> SUFFICES ASSUME Inv, [Next]_vars PROVE OwnerInv'
  OBVIOUS
<1> USE DEF Inv, TypeOK, Sockets, PhaseInv, OwnerInv, RetiredInv, Accepted, Accounted,
        InHand
<1>1. CASE StartServer
  BY <1>1 DEF StartServer
<1>2. CASE StartServerFails
  BY <1>2 DEF StartServerFails
<1>3. CASE Stop
  BY <1>3 DEF Stop
<1>4. CASE StopClose
  BY <1>4 DEF StopClose, SrtClose, CloseSockets, Open, Queued
<1>5. CASE StopCloseAllClientSockets
  BY <1>5 DEF StopCloseAllClientSockets, closeAllClientSockets, SrtClose, CloseSockets, Open,
         Disconnected
<1>6. CASE StopJoinWorker
  BY <1>6 DEF StopJoinWorker
<1>7. CASE StopJoinEvent
  BY <1>7 DEF StopJoinEvent, Accepted
<1>8. CASE GetActiveClients
  BY <1>8 DEF GetActiveClients
<1>9. CASE GetActiveClientsReturn
  BY <1>9 DEF GetActiveClientsReturn
<1>10. CASE WorkerInit
  BY <1>10 DEF WorkerInit
<1>11. CASE WorkerCloseAllClientSockets
  BY <1>11 DEF WorkerCloseAllClientSockets, closeAllClientSockets, SrtClose, CloseSockets, Open,
         Disconnected
<1>12. CASE WorkerTest
  BY <1>12 DEF WorkerTest
<1>13. CASE WorkerAccept
  BY <1>13 DEF WorkerAccept, Queued
<1>14. CASE WorkerClientConnected
  BY <1>14 DEF WorkerClientConnected
<1>15. CASE WorkerInsert
  BY <1>15 DEF WorkerInsert, EpollAdd
<1>16. CASE EventTest
  BY <1>16 DEF EventTest
<1>17. CASE EventUwait
  BY <1>17 DEF EventUwait
<1>18. CASE EventRecv
  BY <1>18 DEF EventRecv, Receives, RecvFails
<1>19. CASE EventLock
  BY <1>19 DEF EventLock
<1>20. CASE EventHandleError
  BY <1>20 DEF EventHandleError, NextTurn, RecvError, AlreadyRemoved,
         RemoveClient, CloseSockets, Disconnected
<1>21. CASE EventHandleData
  BY <1>21 DEF EventHandleData, NextTurn
<1>22. ASSUME NEW s \in Sock, PeerConnect(s) PROVE OwnerInv'
  BY <1>22 DEF PeerConnect, Queued
<1>23. ASSUME NEW s \in Sock, PeerSend(s) PROVE OwnerInv'
  BY <1>23 DEF PeerSend
<1>24. ASSUME NEW s \in Sock, PeerBreak(s) PROVE OwnerInv'
  BY <1>24 DEF PeerBreak
<1>25. ASSUME NEW s \in Sock, GcClose(s) PROVE OwnerInv'
  BY <1>25 DEF GcClose
<1>26. ASSUME NEW s \in Sock, GcRemove(s) PROVE OwnerInv'
  BY <1>26 DEF GcRemove
<1>27. CASE UNCHANGED vars
  BY <1>27
<1> QED
  BY <1>1, <1>2, <1>3, <1>4, <1>5, <1>6, <1>7, <1>8, <1>9, <1>10, <1>11, <1>12,
     <1>13, <1>14, <1>15, <1>16, <1>17, <1>18, <1>19, <1>20, <1>21,
        <1>22, <1>23, <1>24, <1>25, <1>26, <1>27
  DEF Next, ApiStep, WorkerStep, EventStep, SrtStep

-----------------------------------------------------------------------------
(* Inv is an invariant.                                                    *)
LEMMA Invariance == Spec => []Inv
<1>1. Init => Inv
  <2> SUFFICES ASSUME Init PROVE Inv
    OBVIOUS
  <2>1. TypeOK
    BY DEF Init, TypeOK, Modes, Listeners, Sockets, ApiPC, WorkerPC, EventPC
  <2>2. PhaseInv
    BY DEF Init, PhaseInv, PollOpen
  <2>3. OwnerInv /\ RetiredInv
    BY DEF Init, OwnerInv, Accounted, InHand, Accepted, RetiredInv
  <2> QED
    BY <2>1, <2>2, <2>3 DEF Inv
<1>2. Inv /\ [Next]_vars => Inv'
  BY TypeStep, PhaseStep, OwnerStep, RetiredStep DEF Inv
<1> QED
  BY <1>1, <1>2, PTL DEF Spec

(* Type correctness, for any number of connections and any sizes.          *)
THEOREM TypeCorrect == Spec => []TypeOK
<1>1. Inv => TypeOK
  BY DEF Inv
<1> QED
  BY <1>1, Invariance, PTL

(* startServer() and waitForSRTClient() never assign a std::thread that is *)
(* joinable: no sequence of starts and stops terminates the program there. *)
THEOREM NoThreadOverwritten == Spec => []NoTerminate
<1>1. Inv => NoTerminate
  BY DEF Inv, PhaseInv, NoTerminate
<1> QED
  BY <1>1, Invariance, PTL

(* When stop() has returned, both threads are joined, the listener is      *)
(* closed and the epoll is released.                                       *)
THEOREM StopQuiesces == Spec => []StoppedQuiescent
<1>1. Inv => StoppedQuiescent
  BY DEF Inv, PhaseInv, PollOpen, StoppedQuiescent
<1> QED
  BY <1>1, Invariance, PTL

(* clientDisconnected at most once per connection, and no open connection  *)
(* the application accepted is ever missing from client_list_.             *)
THEOREM ConnectionsAccounted == Spec => []Accounted
<1>1. Inv => Accounted
  BY DEF Inv, OwnerInv
<1> QED
  BY <1>1, Invariance, PTL

(* closeAllClientSockets() at the start of a run removes whatever the last *)
(* stop() left in client_list_, before the first srt_accept.               *)
THEOREM RestartShedsLeftovers == Spec => []RestartSheds
<1>1. Inv => RestartSheds
  BY DEF Inv, RetiredInv, RestartSheds
<1> QED
  BY <1>1, Invariance, PTL

-----------------------------------------------------------------------------
(* client_list_ only changes in steps that find its mutex free, or that    *)
(* end the event thread's own critical section.                            *)
THEOREM ListStableUnderLock == Spec => ListStable
<1> DEFINE Stable == list_mtx # "free" /\ list_mtx' = list_mtx
                        => client_list' = client_list
<1>1. [Next]_vars => [Stable]_vars
  BY DEF Next, ApiStep, WorkerStep, EventStep, SrtStep,
         StartServer, StartServerFails, Stop, StopClose,
         StopCloseAllClientSockets, closeAllClientSockets, StopJoinWorker,
         StopJoinEvent, GetActiveClients, GetActiveClientsReturn, WorkerInit,
         WorkerCloseAllClientSockets, WorkerTest, WorkerAccept,
         WorkerClientConnected, WorkerInsert, EventTest, EventUwait, EventRecv,
         EventLock, EventHandleError, EventHandleData, NextTurn,
         PeerConnect, PeerSend, PeerBreak, GcClose, GcRemove
<1> QED
  BY <1>1, PTL DEF Spec, ListStable

-----------------------------------------------------------------------------
(* A poll finds no more sockets ready than srt_epoll_uwait may write, and  *)
(* so the event thread reads no entry of ready[] that was not written.     *)
(* This says nothing of how many connections there are.                    *)
PollFits == epc = "uwait" => Cardinality(notice) <= FdsSize

(* What the event thread works on was accepted, and a receive error it is  *)
(* about to handle is for a connection that is dead and stays dead.        *)
PolledInv ==
    /\ watch \subseteq Accepted
    /\ notice \subseteq Accepted
    /\ batch \subseteq Accepted
    /\ extra = {}
    /\ epc \in {"lock", "handle"} /\ RecvError =>
          esock \in Accepted /\ sock[esock] # "conn"

(* Every step keeps PolledInv while no poll is overfull.                   *)
LEMMA PolledStep == PollFits /\ Inv /\ PolledInv /\ [Next]_vars => PolledInv'
<1> SUFFICES ASSUME PollFits, Inv, PolledInv, [Next]_vars PROVE PolledInv'
  OBVIOUS
<1> USE DEF Inv, TypeOK, Sockets, PolledInv, Accepted, RecvError
<1>1. CASE StartServer
  BY <1>1 DEF StartServer
<1>2. CASE StartServerFails
  BY <1>2 DEF StartServerFails
<1>3. CASE Stop
  BY <1>3 DEF Stop
<1>4. CASE StopClose
  BY <1>4 DEF StopClose, SrtClose, CloseSockets, Open, Queued
<1>5. CASE StopCloseAllClientSockets
  BY <1>5 DEF StopCloseAllClientSockets, closeAllClientSockets, SrtClose, CloseSockets, Open,
         Disconnected
<1>6. CASE StopJoinWorker
  BY <1>6 DEF StopJoinWorker
<1>7. CASE StopJoinEvent
  BY <1>7 DEF StopJoinEvent, Accepted
<1>8. CASE GetActiveClients
  BY <1>8 DEF GetActiveClients
<1>9. CASE GetActiveClientsReturn
  BY <1>9 DEF GetActiveClientsReturn
<1>10. CASE WorkerInit
  BY <1>10 DEF WorkerInit
<1>11. CASE WorkerCloseAllClientSockets
  BY <1>11 DEF WorkerCloseAllClientSockets, closeAllClientSockets, SrtClose, CloseSockets, Open,
         Disconnected
<1>12. CASE WorkerTest
  BY <1>12 DEF WorkerTest
<1>13. CASE WorkerAccept
  BY <1>13 DEF WorkerAccept, Queued
<1>14. CASE WorkerClientConnected
  BY <1>14 DEF WorkerClientConnected
<1>15. CASE WorkerInsert
  BY <1>15 DEF WorkerInsert, EpollAdd, OwnerInv
<1>16. CASE EventTest
  BY <1>16 DEF EventTest
<1>17. CASE EventUwait
  BY <1>17 DEF EventUwait, PollFits
<1>18. CASE EventRecv
  BY <1>18 DEF EventRecv, Receives, RecvFails
<1>19. CASE EventLock
  BY <1>19 DEF EventLock
<1>20. CASE EventHandleError
  BY <1>20 DEF EventHandleError, NextTurn, AlreadyRemoved, RemoveClient,
         SrtClose, CloseSockets, Open, Disconnected
<1>21. CASE EventHandleData
  BY <1>21 DEF EventHandleData, NextTurn
<1>22. ASSUME NEW s \in Sock, PeerConnect(s) PROVE PolledInv'
  BY <1>22 DEF PeerConnect, Queued
<1>23. ASSUME NEW s \in Sock, PeerSend(s) PROVE PolledInv'
  BY <1>23 DEF PeerSend
<1>24. ASSUME NEW s \in Sock, PeerBreak(s) PROVE PolledInv'
  BY <1>24 DEF PeerBreak
<1>25. ASSUME NEW s \in Sock, GcClose(s) PROVE PolledInv'
  BY <1>25 DEF GcClose
<1>26. ASSUME NEW s \in Sock, GcRemove(s) PROVE PolledInv'
  BY <1>26 DEF GcRemove
<1>27. CASE UNCHANGED vars
  BY <1>27
<1> QED
  BY <1>1, <1>2, <1>3, <1>4, <1>5, <1>6, <1>7, <1>8, <1>9, <1>10, <1>11, <1>12,
     <1>13, <1>14, <1>15, <1>16, <1>17, <1>18, <1>19, <1>20, <1>21,
        <1>22, <1>23, <1>24, <1>25, <1>26, <1>27
  DEF Next, ApiStep, WorkerStep, EventStep, SrtStep

(* The event thread handles only sockets it received from while they were  *)
(* subscribed.                                                             *)
LEMMA PolledInvariance == Spec /\ []PollFits => []PolledInv
<1>1. Init => PolledInv
  BY DEF Init, PolledInv, Accepted
<1> QED
  BY <1>1, PolledStep, Invariance, PTL DEF Spec

(* Over any number of connections, as long as no single poll finds more    *)
(* sockets ready than the array of 5 holds, an active server disconnects   *)
(* no live client of the current run: a receive error read before the lock *)
(* still holds when it is handled under it.                                *)
THEOREM OnlyDeadDisconnected == Spec /\ []PollFits => NoSpuriousDisconnect
<1> DEFINE OnlyDead == \A s \in Sock \ retired :
                          server_active /\ disc'[s] # disc[s] => sock[s] # "conn"
<1>1. Inv /\ PolledInv /\ [Next]_vars => [OnlyDead]_vars
  <2> SUFFICES ASSUME Inv, PolledInv, Next, server_active,
                      NEW s \in Sock \ retired, disc'[s] # disc[s]
               PROVE  sock[s] # "conn"
    OBVIOUS
  <2> USE DEF Inv, TypeOK
  <2>1. CASE StopCloseAllClientSockets
    BY <2>1 DEF StopCloseAllClientSockets, PhaseInv
  <2>2. CASE WorkerCloseAllClientSockets
    BY <2>2 DEF WorkerCloseAllClientSockets, closeAllClientSockets, Disconnected,
                RetiredInv
  <2>3. CASE EventHandleError
    BY <2>3 DEF EventHandleError, RemoveClient, Disconnected, PolledInv
  <2>4. \/ StopCloseAllClientSockets
        \/ WorkerCloseAllClientSockets
        \/ EventHandleError
    BY DEF Next, ApiStep, WorkerStep, EventStep, SrtStep,
         StartServer, StartServerFails, Stop, StopClose, StopJoinWorker,
         StopJoinEvent, GetActiveClients, GetActiveClientsReturn, WorkerInit,
         WorkerTest, WorkerAccept, WorkerClientConnected, WorkerInsert,
         EventTest, EventUwait, EventRecv, EventLock, EventHandleData,
         PeerConnect, PeerSend, PeerBreak, GcClose, GcRemove
  <2> QED
    BY <2>1, <2>2, <2>3, <2>4
<1> QED
  BY <1>1, PolledInvariance, Invariance, PTL DEF Spec, NoSpuriousDisconnect

-----------------------------------------------------------------------------
(* stop() and refusals, and the registry that the application sees.        *)

(* Once stop() has emptied the list, what it may still leave listed is     *)
(* what the worker has in hand: nothing more is accepted.                  *)
LeftInv ==
    apc \in {"join_worker", "join_event"} \/ mode = "unknown" =>
        \A s, t \in Sock : (s \in client_list \/ InHand(s)) /\ (t \in client_list \/ InHand(t))
                              => s = t

(* A refused connection, and one in hand, is known to nobody else.         *)
RefusedInv ==
    /\ rejected \subseteq Accepted
    /\ watch \cup notice \cup batch \subseteq Accepted
    /\ \A s \in Sock : s \in rejected \/ InHand(s) =>
          s \notin client_list \cup watch \cup notice \cup batch /\ disc[s] = 0
    /\ \A s \in Sock : InHand(s) => s \notin rejected

ListInv == LeftInv /\ RefusedInv

(* Every step keeps them so.                                               *)
LEMMA LeftStep == Inv /\ LeftInv /\ [Next]_vars => LeftInv'
<1> SUFFICES ASSUME Inv, LeftInv, [Next]_vars PROVE LeftInv'
  OBVIOUS
<1> USE DEF Inv, TypeOK, PhaseInv, OwnerInv, LeftInv, InHand
<1>1. CASE StartServer
  BY <1>1 DEF StartServer
<1>2. CASE StartServerFails
  BY <1>2 DEF StartServerFails
<1>3. CASE Stop
  BY <1>3 DEF Stop
<1>4. CASE StopClose
  BY <1>4 DEF StopClose, SrtClose, CloseSockets, Open, Queued
<1>5. CASE StopCloseAllClientSockets
  BY <1>5 DEF StopCloseAllClientSockets, closeAllClientSockets, SrtClose, CloseSockets, Open, Disconnected
<1>6. CASE StopJoinWorker
  BY <1>6 DEF StopJoinWorker
<1>7. CASE StopJoinEvent
  BY <1>7 DEF StopJoinEvent
<1>8. CASE GetActiveClients
  BY <1>8 DEF GetActiveClients
<1>9. CASE GetActiveClientsReturn
  BY <1>9 DEF GetActiveClientsReturn
<1>10. CASE WorkerInit
  BY <1>10 DEF WorkerInit
<1>11. CASE WorkerCloseAllClientSockets
  BY <1>11 DEF WorkerCloseAllClientSockets, closeAllClientSockets, SrtClose, CloseSockets, Open, Disconnected
<1>12. CASE WorkerTest
  BY <1>12 DEF WorkerTest
<1>13. CASE WorkerAccept
  BY <1>13 DEF WorkerAccept, Queued
<1>14. CASE WorkerClientConnected
  BY <1>14 DEF WorkerClientConnected
<1>15. CASE WorkerInsert
  BY <1>15 DEF WorkerInsert, EpollAdd
<1>16. CASE EventTest
  BY <1>16 DEF EventTest
<1>17. CASE EventUwait
  BY <1>17 DEF EventUwait
<1>18. CASE EventRecv
  BY <1>18 DEF EventRecv, Receives, RecvFails
<1>19. CASE EventLock
  BY <1>19 DEF EventLock
<1>20. CASE EventHandleError
  BY <1>20 DEF EventHandleError, NextTurn, RecvError, AlreadyRemoved, RemoveClient,
         SrtClose, CloseSockets, Open, Disconnected
<1>21. CASE EventHandleData
  BY <1>21 DEF EventHandleData, NextTurn
<1>22. ASSUME NEW s \in Sock, PeerConnect(s) PROVE LeftInv'
  BY <1>22 DEF PeerConnect, Queued
<1>23. ASSUME NEW s \in Sock, PeerSend(s) PROVE LeftInv'
  BY <1>23 DEF PeerSend
<1>24. ASSUME NEW s \in Sock, PeerBreak(s) PROVE LeftInv'
  BY <1>24 DEF PeerBreak
<1>25. ASSUME NEW s \in Sock, GcClose(s) PROVE LeftInv'
  BY <1>25 DEF GcClose
<1>26. ASSUME NEW s \in Sock, GcRemove(s) PROVE LeftInv'
  BY <1>26 DEF GcRemove
<1>27. CASE UNCHANGED vars
  BY <1>27
<1> QED
  BY <1>1, <1>2, <1>3, <1>4, <1>5, <1>6, <1>7, <1>8, <1>9, <1>10, <1>11, <1>12,
     <1>13, <1>14, <1>15, <1>16, <1>17, <1>18, <1>19, <1>20, <1>21, <1>22,
     <1>23, <1>24, <1>25, <1>26, <1>27
  DEF Next, ApiStep, WorkerStep, EventStep, SrtStep

(* Every step keeps RefusedInv.                                            *)
LEMMA RefusedStep == Inv /\ RefusedInv /\ [Next]_vars => RefusedInv'
<1> SUFFICES ASSUME Inv, RefusedInv, [Next]_vars PROVE RefusedInv'
  OBVIOUS
<1> USE DEF Inv, TypeOK, PhaseInv, OwnerInv, RefusedInv, InHand, Accepted
<1>1. CASE StartServer
  BY <1>1 DEF StartServer
<1>2. CASE StartServerFails
  BY <1>2 DEF StartServerFails
<1>3. CASE Stop
  BY <1>3 DEF Stop
<1>4. CASE StopClose
  BY <1>4 DEF StopClose, SrtClose, CloseSockets, Open, Queued
<1>5. CASE StopCloseAllClientSockets
  BY <1>5 DEF StopCloseAllClientSockets, closeAllClientSockets, SrtClose, CloseSockets, Open, Disconnected
<1>6. CASE StopJoinWorker
  BY <1>6 DEF StopJoinWorker
<1>7. CASE StopJoinEvent
  BY <1>7 DEF StopJoinEvent
<1>8. CASE GetActiveClients
  BY <1>8 DEF GetActiveClients
<1>9. CASE GetActiveClientsReturn
  BY <1>9 DEF GetActiveClientsReturn
<1>10. CASE WorkerInit
  BY <1>10 DEF WorkerInit
<1>11. CASE WorkerCloseAllClientSockets
  BY <1>11 DEF WorkerCloseAllClientSockets, closeAllClientSockets, SrtClose, CloseSockets, Open, Disconnected
<1>12. CASE WorkerTest
  BY <1>12 DEF WorkerTest
<1>13. CASE WorkerAccept
  BY <1>13 DEF WorkerAccept, Queued
<1>14. CASE WorkerClientConnected
  BY <1>14 DEF WorkerClientConnected
<1>15. CASE WorkerInsert
  BY <1>15 DEF WorkerInsert, EpollAdd
<1>16. CASE EventTest
  BY <1>16 DEF EventTest
<1>17. CASE EventUwait
  BY <1>17 DEF EventUwait
<1>18. CASE EventRecv
  BY <1>18 DEF EventRecv, Receives, RecvFails
<1>19. CASE EventLock
  BY <1>19 DEF EventLock
<1>20. CASE EventHandleError
  BY <1>20 DEF EventHandleError, NextTurn, RecvError, AlreadyRemoved, RemoveClient,
         SrtClose, CloseSockets, Open, Disconnected
<1>21. CASE EventHandleData
  BY <1>21 DEF EventHandleData, NextTurn
<1>22. ASSUME NEW s \in Sock, PeerConnect(s) PROVE RefusedInv'
  BY <1>22 DEF PeerConnect, Queued
<1>23. ASSUME NEW s \in Sock, PeerSend(s) PROVE RefusedInv'
  BY <1>23 DEF PeerSend
<1>24. ASSUME NEW s \in Sock, PeerBreak(s) PROVE RefusedInv'
  BY <1>24 DEF PeerBreak
<1>25. ASSUME NEW s \in Sock, GcClose(s) PROVE RefusedInv'
  BY <1>25 DEF GcClose
<1>26. ASSUME NEW s \in Sock, GcRemove(s) PROVE RefusedInv'
  BY <1>26 DEF GcRemove
<1>27. CASE UNCHANGED vars
  BY <1>27
<1> QED
  BY <1>1, <1>2, <1>3, <1>4, <1>5, <1>6, <1>7, <1>8, <1>9, <1>10, <1>11, <1>12,
     <1>13, <1>14, <1>15, <1>16, <1>17, <1>18, <1>19, <1>20, <1>21, <1>22,
     <1>23, <1>24, <1>25, <1>26, <1>27
  DEF Next, ApiStep, WorkerStep, EventStep, SrtStep

(* ListInv holds throughout.                                               *)
LEMMA ListInvariance == Spec => []ListInv
<1>1. Init => ListInv
  BY DEF Init, ListInv, LeftInv, RefusedInv, InHand, Accepted
<1>2. Inv /\ ListInv /\ [Next]_vars => ListInv'
  BY LeftStep, RefusedStep DEF ListInv
<1> QED
  BY <1>1, <1>2, Invariance, PTL DEF Spec

(* stop() leaves at most one client in client_list_, for any number of     *)
(* connections.                                                            *)
THEOREM StopLeavesAtMostOne == Spec => []AtMostOneLeft
<1>1. Inv /\ ListInv => AtMostOneLeft
  BY DEF Inv, TypeOK, ListInv, LeftInv, AtMostOneLeft
<1> QED
  BY <1>1, Invariance, ListInvariance, PTL

(* A refused connection is never listed, polled or reported.               *)
THEOREM RefusedStaysOut == Spec => []RefusedIgnored
<1>1. Inv /\ ListInv => RefusedIgnored
  BY DEF Inv, TypeOK, ListInv, RefusedInv, RefusedIgnored
<1> QED
  BY <1>1, Invariance, ListInvariance, PTL

Lives == [s \in Sock |-> Life(s)]

(* What the application sees of a connection does not change with the      *)
(* steps that leave the list, the verdicts, the reports and the worker's   *)
(* connection alone.                                                       *)
LEMMA LifeSame ==
    ASSUME UNCHANGED <<rejected, disc, client_list>>,
           \/ UNCHANGED <<wpc, wsock>>
           \/ wpc \notin {"callback", "insert"} /\ wpc' \notin {"callback", "insert"}
    PROVE  Lives' = Lives
<1> SUFFICES ASSUME NEW s \in Sock PROVE Life(s)' = Life(s)
  BY DEF Lives
<1> QED  BY DEF Life

(* Life is no more than a reading of the state: under the invariants its   *)
(* cases exclude each other.                                               *)
LEMMA LifeIs ==
    ASSUME Inv, ListInv, NEW s \in Sock
    PROVE  /\ Lives[s] = Life(s)
           /\ s \in rejected <=> Life(s) = "refused"
           /\ disc[s] > 0 <=> Life(s) = "reported"
           /\ s \in client_list <=> Life(s) = "listed"
           /\ s = wsock /\ wpc = "callback" <=> Life(s) = "offered"
           /\ s = wsock /\ wpc = "insert" <=> Life(s) = "accepted"
BY DEF Inv, TypeOK, OwnerInv, Accounted, ListInv, RefusedInv, InHand, Life, Lives

(* Closing all clients reports the listed ones.                            *)
LEMMA CloseAllLeaves ==
    ASSUME Inv, ListInv, closeAllClientSockets, UNCHANGED rejected,
           \/ UNCHANGED <<wpc, wsock>>
           \/ wpc \notin {"callback", "insert"} /\ wpc' \notin {"callback", "insert"}
    PROVE  Registry!LeaveAll
<1>1. \A s \in Sock : Life(s)' = IF Life(s) = "listed" THEN "reported" ELSE Life(s)
  <2> SUFFICES ASSUME NEW s \in Sock
               PROVE  Life(s)' = IF Life(s) = "listed" THEN "reported" ELSE Life(s)
    OBVIOUS
  <2>1. client_list' = {} /\ disc'[s] = IF s \in client_list THEN disc[s] + 1 ELSE disc[s]
    BY DEF closeAllClientSockets, Disconnected
  <2>2. disc[s] \in Nat
    BY DEF Inv, TypeOK
  <2>3. CASE s \in client_list
    <3>1. Life(s) = "listed" /\ s \notin rejected' /\ ~(disc[s] > 0)
      BY <2>3, LifeIs
    <3> QED  BY <2>1, <2>2, <2>3, <3>1 DEF Life
  <2>4. CASE s \notin client_list
    BY <2>1, <2>4, LifeIs DEF Life
  <2> QED  BY <2>3, <2>4
<1> QED  BY <1>1 DEF Registry!LeaveAll, Registry!Move, Registry!InState

(* Every step of the server is a step of the registry or none.             *)
LEMMA RegistryStep ==
    ASSUME Inv, ListInv, [Next]_vars
    PROVE  [Registry!Next]_Lives
<1>0. \A s \in Sock : disc[s] \in Nat
  BY DEF Inv, TypeOK
<1>1. CASE WorkerAccept
  <2>1. CASE listener # "listening"
    BY <1>1, <2>1, LifeSame DEF WorkerAccept
  <2>2. CASE listener = "listening"
    <3>1. PICK s \in Sock : sock[s] = "queued" /\ wsock' = s
      BY <1>1, <2>2 DEF WorkerAccept, Queued
    <3>2. /\ wpc = "accept" /\ wpc' = "callback"
          /\ UNCHANGED <<rejected, disc, client_list>>
      BY <1>1, <2>2 DEF WorkerAccept
    <3>3. s \notin rejected /\ s \notin client_list /\ ~(disc[s] > 0)
      BY <3>1 DEF Inv, OwnerInv, ListInv, RefusedInv, Accepted
    <3>4. Life(s) = "unknown" /\ Life(s)' = "offered"
      BY <3>1, <3>2, <3>3 DEF Life
    <3>5. \A t \in Sock : t # s => Life(t)' = Life(t)
      BY <3>1, <3>2 DEF Life
    <3>6. \A t \in Sock : Life(t) \notin {"offered", "accepted"}
      BY <3>2, LifeIs
    <3> QED
      BY <3>4, <3>5, <3>6 DEF Registry!Next, Registry!Offer, Registry!Move,
         Registry!InState
  <2> QED  BY <2>1, <2>2
<1>2. CASE WorkerClientConnected
  <2>1. wpc = "callback" /\ wsock \in Sock /\ UNCHANGED <<disc, client_list>>
    BY <1>2 DEF WorkerClientConnected, Inv, OwnerInv, Accepted
  <2>2. Life(wsock) = "offered"
    BY <2>1, LifeIs
  <2>3. CASE wpc' = "insert" /\ UNCHANGED <<wsock, rejected>>
    <3>1. \A t \in Sock : Life(t)' = IF t = wsock THEN "accepted" ELSE Life(t)
      BY <1>0, <2>1, <2>2, <2>3, LifeIs DEF Life
    <3>2. Registry!Accept(wsock)
      BY <2>1, <2>2, <3>1 DEF Registry!Accept, Registry!Move
    <3> QED  BY <2>1, <3>2 DEF Registry!Next
  <2>4. CASE Refused
    <3>1. \A t \in Sock : Life(t)' = IF t = wsock THEN "refused" ELSE Life(t)
      BY <1>0, <2>1, <2>2, <2>4, LifeIs DEF Life
    <3>2. Registry!Refuse(wsock)
      BY <2>1, <2>2, <3>1 DEF Registry!Refuse, Registry!Move
    <3> QED  BY <2>1, <3>2 DEF Registry!Next
  <2> QED  BY <1>2, <2>3, <2>4 DEF WorkerClientConnected
<1>3. CASE WorkerInsert
  <2>1. /\ wpc = "insert" /\ wsock \in Sock /\ wpc' = "test"
        /\ client_list' = client_list \cup {wsock} /\ UNCHANGED <<disc, rejected>>
    BY <1>3 DEF WorkerInsert, Inv, OwnerInv, Accepted
  <2>2. Life(wsock) = "accepted" /\ wsock \notin rejected /\ ~(disc[wsock] > 0)
    BY <2>1, LifeIs
  <2>3. \A t \in Sock : Life(t)' = IF t = wsock THEN "listed" ELSE Life(t)
    BY <1>0, <2>1, <2>2, LifeIs DEF Life
  <2>4. Registry!Enter(wsock)
    BY <2>1, <2>2, <2>3 DEF Registry!Enter, Registry!Move
  <2> QED  BY <2>1, <2>4 DEF Registry!Next
<1>4. CASE StopCloseAllClientSockets
  <2>1. Registry!LeaveAll
    BY <1>4, CloseAllLeaves DEF StopCloseAllClientSockets
  <2> QED  BY <2>1 DEF Registry!Next
<1>5. CASE WorkerCloseAllClientSockets
  <2>1. Registry!LeaveAll
    BY <1>5, CloseAllLeaves DEF WorkerCloseAllClientSockets
  <2> QED  BY <2>1 DEF Registry!Next
<1>6. CASE EventHandleError
  <2>1. UNCHANGED <<rejected, wpc, wsock>>
    BY <1>6 DEF EventHandleError
  <2>2. CASE AlreadyRemoved(esock)
    BY <1>6, <2>1, <2>2, LifeSame DEF EventHandleError
  <2>3. CASE ~AlreadyRemoved(esock)
    <3>1. /\ esock \in Sock /\ esock \in client_list
          /\ client_list' = client_list \ {esock}
          /\ \A t \in Sock : disc'[t] = IF t = esock THEN disc[t] + 1 ELSE disc[t]
      BY <1>6, <2>3 DEF EventHandleError, AlreadyRemoved, RemoveClient, Disconnected, Inv, TypeOK
    <3>2. Life(esock) = "listed" /\ esock \notin rejected /\ ~(disc[esock] > 0)
      BY <3>1, LifeIs
    <3>3. \A t \in Sock : Life(t)' = IF t = esock THEN "reported" ELSE Life(t)
      <4>1. \A t \in Sock : t = esock => Life(t)' = "reported"
        BY <1>0, <2>1, <3>1, <3>2 DEF Life
      <4>2. \A t \in Sock : t # esock => Life(t)' = Life(t)
        BY <2>1, <3>1 DEF Life
      <4> QED  BY <4>1, <4>2
    <3>4. Registry!Leave(esock)
      BY <3>1, <3>2, <3>3 DEF Registry!Leave, Registry!Move
    <3> QED  BY <3>1, <3>4 DEF Registry!Next
  <2> QED  BY <2>2, <2>3
<1>7. CASE ~( \/ WorkerAccept \/ WorkerClientConnected \/ WorkerInsert
             \/ StopCloseAllClientSockets \/ WorkerCloseAllClientSockets
             \/ EventHandleError)
  <2>1. /\ UNCHANGED <<rejected, disc, client_list>>
        /\ \/ UNCHANGED <<wpc, wsock>>
           \/ wpc \notin {"callback", "insert"} /\ wpc' \notin {"callback", "insert"}
    BY <1>7 DEF Next, ApiStep, WorkerStep, EventStep, SrtStep,
         StartServer, StartServerFails, Stop, StopClose, StopJoinWorker,
         StopJoinEvent, GetActiveClients, GetActiveClientsReturn, WorkerInit,
         WorkerTest, EventTest, EventUwait, EventRecv, EventLock, EventHandleData,
         PeerConnect, PeerSend, PeerBreak, GcClose, GcRemove, Inv, PhaseInv
  <2> QED  BY <2>1, LifeSame
<1> QED  BY <1>1, <1>2, <1>3, <1>4, <1>5, <1>6, <1>7

(* The server implements the registry: whatever the threads, SRT and the   *)
(* peers do, and for any number of connections.                            *)
THEOREM ServerImplementsRegistry == Spec => RegistrySpec
<1>1. Init => Registry!Init
  BY DEF Init, Registry!Init, Life
<1>2. Inv /\ ListInv /\ [Next]_vars => [Registry!Next]_Lives
  BY RegistryStep
<1> QED
  BY <1>1, <1>2, Invariance, ListInvariance, PTL DEF Spec, RegistrySpec, Registry!Spec, Lives

=============================================================================
