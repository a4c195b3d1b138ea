---------------------------- MODULE SRTNetClient ----------------------------
(***************************************************************************)
(* An xrtc::SRTNet object used as a client (src/srt_net/srt_net.cpp), from *)
(* its construction to its destructor.                                     *)
(*                                                                         *)
(* Two threads: the application, in startClient(), stop() and ~SRTNet()    *)
(* (each holds net_mtx_ throughout, so apc stands for all its threads),    *)
(* and worker_thread_ running clientWorker().  wpc is "none" exactly while *)
(* worker_thread_ is not joinable.  sock is the state of the SRT socket    *)
(* context_; it breaks when the peer or the network goes away, and the SRT *)
(* library's garbage collector then closes it on its own.                  *)
(***************************************************************************)
EXTENDS Naturals

VARIABLES
    mode,          \* current_mode_
    client_active, \* client_active_
    sock,          \* the SRT socket context_
    data,          \* a message waits in its receive buffer
    apc,           \* application thread
    dying,         \* the destructor has been entered
    wpc,           \* worker thread
    stopped,       \* history: what the last stop() returned
    disc,          \* history: clientDisconnected calls for this connection
    fault          \* std::terminate was called

vars == <<mode, client_active, sock, data, apc, dying, wpc, stopped, disc, fault>>

Running == {"test", "recv", "lost", "finish"}

(* The one type invariant of the module.                                   *)
TypeOK ==
    /\ mode \in {"unknown", "client"}
    /\ client_active \in BOOLEAN
    /\ sock \in {"none", "created", "conn", "broken", "closed"}
    /\ data \in BOOLEAN
    /\ apc \in {"idle", "connect", "close", "join", "gone"}
    /\ dying \in BOOLEAN
    /\ wpc \in Running \cup {"none", "done"}
    /\ stopped \in {"none", "true", "false"}
    /\ disc \in Nat
    /\ fault \in {"none", "terminate"}

Init ==
    /\ mode = "unknown"
    /\ client_active = FALSE
    /\ sock = "none"
    /\ data = FALSE
    /\ apc = "idle"
    /\ dying = FALSE
    /\ wpc = "none"
    /\ stopped = "none"
    /\ disc = 0
    /\ fault = "none"

-----------------------------------------------------------------------------
(* The application.                                                        *)

\* Mutant: a client that runs is started again.
ModeIgnored == mode \in STRING

(* Both starts return false unless current_mode_ == Mode::unknown.         *)
ModeUnset == mode = "unknown"

(* startClient() up to srt_connect: socket created, options set, the name  *)
(* resolved.                                                               *)
StartClient ==
    /\ apc = "idle"
    /\ ModeUnset
    /\ apc' = "connect"
    /\ sock' = "created"
    /\ UNCHANGED <<mode, client_active, data, dying, wpc, stopped, disc, fault>>

(* Its early error returns: no socket, or (srt_setsockflag, getaddrinfo)   *)
(* one that is left open.                                                  *)
StartClientFails ==
    /\ apc = "idle"
    /\ ModeUnset
    /\ sock' \in {"none", "created"}
    /\ UNCHANGED <<mode, client_active, data, apc, dying, wpc, stopped, disc, fault>>

(* srt_connect succeeds for one of the addresses.                          *)
Connected ==
    /\ apc = "connect"
    /\ apc' = "idle"
    /\ sock' = "conn"
    /\ mode' = "client"
    /\ client_active' = TRUE
    /\ wpc' = IF wpc = "none" THEN "test" ELSE wpc
    /\ fault' = IF wpc = "none" THEN fault ELSE "terminate"
    /\ disc' = 0
    /\ stopped' = "none"
    /\ UNCHANGED <<data, dying>>

\* Mutant: the error code stored in context_.
ErrorKept == sock' = "SRT_ERROR"

(* srt_close(context_)                                                     *)
Closed == sock' = "closed"

(* It fails for all of them.                                               *)
ConnectFails ==
    /\ apc = "connect"
    /\ apc' = "idle"
    /\ Closed
    /\ UNCHANGED <<mode, client_active, data, dying, wpc, stopped, disc, fault>>

(* stop(), and ~SRTNet(), which begins with stop().  In mode unknown       *)
(* stop() has nothing to do.                                               *)
Stop ==
    /\ apc = "idle"
    /\ dying' \in BOOLEAN
    /\ \/ /\ mode = "client"
          /\ client_active' = FALSE
          /\ apc' = "close"
       \/ /\ mode = "unknown"
          /\ dying'
          /\ apc' = "gone"
          /\ UNCHANGED client_active
    /\ UNCHANGED <<mode, sock, data, wpc, stopped, disc, fault>>

(* stop() returns.  After the destructor's stop() the members go, and      *)
(* destroying a joinable std::thread is std::terminate.                    *)
Return(r) ==
    /\ stopped' = r
    /\ apc' = IF dying THEN "gone" ELSE "idle"
    /\ fault' = IF dying /\ wpc' # "none" THEN "terminate" ELSE fault

\* Mutant: srt_close(context_) forgotten.
StopLeavesOpen ==
    apc = "close" /\ apc' = "join" /\ UNCHANGED <<mode, client_active, sock, data, dying, wpc, stopped, disc, fault>>

(* srt_close(context_) fails if the garbage collector closed it before.    *)
StopClose ==
    /\ apc = "close"
    /\ IF sock = "closed"
       THEN /\ UNCHANGED <<sock, data, wpc>>
            /\ Return("false")
       ELSE /\ sock' = "closed"
            /\ data' = FALSE
            /\ apc' = "join"
            /\ UNCHANGED <<wpc, stopped, fault>>
    /\ UNCHANGED <<mode, client_active, dying, disc>>

\* Mutant: worker_thread_.join() forgotten.
NotJoined == UNCHANGED wpc

(* worker_thread_.join(), if it is joinable.                               *)
Joined == wpc \in {"none", "done"} /\ wpc' = "none"

StopJoin ==
    /\ apc = "join"
    /\ Joined
    /\ mode' = "unknown"
    /\ Return("true")
    /\ UNCHANGED <<client_active, sock, data, dying, disc>>

-----------------------------------------------------------------------------
(* worker_thread_: clientWorker().                                         *)

WorkerTest ==
    /\ wpc = "test"
    /\ wpc' = IF client_active THEN "recv" ELSE "finish"
    /\ UNCHANGED <<mode, client_active, sock, data, apc, dying, stopped, disc, fault>>

(* srt_recvmsg2 blocks on a live connection without data.  Data goes to    *)
(* receivedData or receivedDataNoCopy.                                     *)
WorkerRecv ==
    /\ wpc = "recv"
    /\ \/ data /\ data' = FALSE /\ wpc' = "test"
       \/ ~data /\ sock # "conn" /\ wpc' = "lost" /\ UNCHANGED data
    /\ UNCHANGED <<mode, client_active, sock, apc, dying, stopped, disc, fault>>

\* Mutants: break forgotten; clientDisconnected forgotten.
ReportAgain == disc' = disc + 1 /\ wpc' = "test"
NoReport    == wpc' = "finish" /\ UNCHANGED disc

(* clientDisconnected, then break.                                         *)
Report == disc' = disc + 1 /\ wpc' = "finish"

WorkerLost ==
    /\ wpc = "lost"
    /\ Report
    /\ UNCHANGED <<mode, client_active, sock, data, apc, dying, stopped, fault>>

\* Mutant: client_active_ = false forgotten.
StillActive == UNCHANGED client_active

Inactive == client_active' = FALSE

WorkerFinish ==
    /\ wpc = "finish"
    /\ Inactive
    /\ wpc' = "done"
    /\ UNCHANGED <<mode, sock, data, apc, dying, stopped, disc, fault>>

-----------------------------------------------------------------------------
(* The server, and the SRT library's own threads.                          *)

PeerSend ==
    /\ sock = "conn"
    /\ ~data
    /\ data' = TRUE
    /\ UNCHANGED <<mode, client_active, sock, apc, dying, wpc, stopped, disc, fault>>

PeerBreak ==
    /\ sock = "conn"
    /\ sock' = "broken"
    /\ UNCHANGED <<mode, client_active, data, apc, dying, wpc, stopped, disc, fault>>

GcClose ==
    /\ sock = "broken"
    /\ sock' = "closed"
    /\ data' = FALSE
    /\ UNCHANGED <<mode, client_active, apc, dying, wpc, stopped, disc, fault>>

-----------------------------------------------------------------------------
ApiStep    == \/ StartClient \/ StartClientFails \/ Connected \/ ConnectFails
              \/ Stop \/ StopClose \/ StopJoin
WorkerStep == WorkerTest \/ WorkerRecv \/ WorkerLost \/ WorkerFinish
SrtStep    == PeerSend \/ PeerBreak \/ GcClose

Next == ApiStep \/ WorkerStep \/ SrtStep

Spec == Init /\ [][Next]_vars

(* Threads that can run do, and srt_connect ends, by its timeout at the    *)
(* latest.  The application need never call anything.                      *)
Fairness ==
    /\ WF_vars(Connected \/ ConnectFails)
    /\ WF_vars(StopClose) /\ WF_vars(StopJoin)
    /\ WF_vars(WorkerTest) /\ WF_vars(WorkerRecv)
    /\ WF_vars(WorkerLost) /\ WF_vars(WorkerFinish)

FairSpec == Spec /\ Fairness

-----------------------------------------------------------------------------
(* Properties.                                                             *)

(* client_active_, which sendData() and getStatistics() go by, is set only *)
(* while clientWorker() of the current connection still runs; and it is    *)
(* set as long as that connection is up and not being stopped: no earlier  *)
(* worker's closing "client_active_ = false" hits a later connection.      *)
ActiveMeansReceiving ==
    /\ client_active => mode = "client" /\ apc = "idle" /\ wpc \in Running
    /\ mode = "client" /\ apc = "idle" /\ sock = "conn" => client_active

(* clientDisconnected comes at most once per connection and never while    *)
(* the connection is up.                                                   *)
ReportedOnce == disc <= 1 /\ (disc = 1 /\ mode = "client" => sock # "conn")

(* After a stop() that returned true the worker is joined and the socket   *)
(* closed; the object can be started again.                                *)
StoppedClean ==
    mode = "unknown" => wpc = "none" /\ sock \notin {"conn", "broken"}

(* The destructor is harmless unless its stop() failed.                    *)
TerminateOnlyAfterFailedStop == fault = "terminate" => stopped = "false"

(* startClient() and stop() return.                                        *)
CallReturns == (apc \in {"connect", "close", "join"}) ~> (apc \in {"idle", "gone"})

(* A connection lost under the client is reported by clientDisconnected,   *)
(* and the client then stops counting as active, unless the application    *)
(* stops it meanwhile.                                                     *)
LossReported ==
    (mode = "client" /\ sock # "conn" /\ client_active)
        ~> (~client_active /\ (disc = 1 \/ apc # "idle" \/ stopped # "none"))

(* test_srt_net.cpp:282-296 stops the server, waits, stops the clients,    *)
(* and is to "end" with EXIT_SUCCESS.  Destroying the client is no abort.  *)
NoTerminate == fault # "terminate"
=============================================================================
