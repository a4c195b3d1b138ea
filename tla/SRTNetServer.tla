---------------------------- MODULE SRTNetServer ----------------------------
(***************************************************************************)
(* An xrtc::SRTNet object used as a server (src/srt_net/srt_net.cpp).      *)
(*                                                                         *)
(* Three threads touch the object:                                         *)
(*   api     the application, in startServer() and stop(); net_mtx_ is     *)
(*           held for the whole of either call, so one program counter,    *)
(*           apc, stands for every application thread that takes it        *)
(*           (net_mtx_ is held iff apc # "idle");                          *)
(*   worker  worker_thread_ running waitForSRTClient();                    *)
(*   event   event_thread_ running serverEventHandler().                   *)
(* A thread's program counter is "none" before its std::thread object is   *)
(* assigned and after it is joined, hence joinable() is pc # "none".       *)
(*                                                                         *)
(* Of the SRT library (src/3rd/srt) the sockets, the listener's backlog,   *)
(* the epoll and the garbage collector appear as far as srt_net.cpp can    *)
(* tell.  SRT never reuses a socket number, so an element of Sock is one   *)
(* connection.                                                             *)
(***************************************************************************)
EXTENDS Naturals, FiniteSets

CONSTANTS
    Sock,             \* connections clients may ever make (SRTSOCKETs)
    NoSock,           \* a number that is no SRT socket
    Backlog,          \* srt_listen(context_, 2)
    FdsSize,          \* the 5 passed to srt_epoll_uwait
    MAX_WORKERS,      \* the 20 entries of ready[]
    SlowHandler       \* may the SRT garbage collector outrun the event thread?

ASSUME SockAssumption == NoSock \notin Sock
ASSUME SizeAssumption == /\ Backlog \in Nat \ {0}
                         /\ FdsSize \in Nat \ {0}
                         /\ MAX_WORKERS \in Nat
                         /\ FdsSize <= MAX_WORKERS
ASSUME SwitchAssumption == SlowHandler \in BOOLEAN

VARIABLES
    mode,          \* current_mode_
    server_active, \* server_active_
    listener,      \* the SRT socket context_
    client_list,   \* the keys of client_list_
    list_mtx,      \* who holds client_list_mtx_ between two steps
    apc,           \* application inside stop()
    wpc, wsock,    \* worker thread; newSocketCandidate
    epc,           \* event thread
    batch, extra,  \* entries of ready[] not yet handled: written, unwritten
    esock, eres,   \* thisSocket and the outcome of srt_recvmsg2
    sock, data,    \* per connection: its state, a message waiting
    watch, notice, \* epoll: subscribed sockets, sockets with an event
    rejected,      \* history: clientConnected returned nullptr
    disc,          \* history: number of clientDisconnected calls
    retired,       \* history: accepted before the last stop() returned
    fault          \* undefined behaviour or std::terminate happened

api     == <<mode, server_active, listener, apc>>
worker  == <<wpc, wsock>>
event   == <<epc, batch, extra, esock, eres>>
clients == <<client_list, list_mtx>>
srt     == <<sock, data, watch, notice>>
history == <<rejected, disc, retired>>
vars    == <<api, worker, event, clients, srt, history, fault>>

-----------------------------------------------------------------------------
(* Types.                                                                  *)

Modes     == {"unknown", "server"}
Listeners == {"none", "created", "listening", "closed"}
Sockets   == {"none", "queued", "conn", "broken", "closed"}
ApiPC     == {"idle", "close", "closeall", "join_worker", "join_event"}
WorkerPC  == {"none", "init", "closeall", "test", "accept", "callback",
              "insert", "done"}
EventPC   == {"none", "test", "uwait", "recv", "lock", "handle", "done"}

(* The one type invariant of the module.                                   *)
TypeOK ==
    /\ mode \in Modes
    /\ server_active \in BOOLEAN
    /\ listener \in Listeners
    /\ client_list \in SUBSET Sock
    /\ list_mtx \in {"free", "event", "app"}
    /\ apc \in ApiPC
    /\ wpc \in WorkerPC
    /\ wsock \in Sock \cup {NoSock}
    /\ epc \in EventPC
    /\ batch \in SUBSET Sock
    /\ extra \in SUBSET (Sock \cup {NoSock})
    /\ esock \in Sock \cup {NoSock}
    /\ eres \in {"error", "data"}
    /\ sock \in [Sock -> Sockets]
    /\ data \in [Sock -> BOOLEAN]
    /\ watch \in SUBSET Sock
    /\ notice \in SUBSET Sock
    /\ rejected \in SUBSET Sock
    /\ disc \in [Sock -> Nat]
    /\ retired \in SUBSET Sock
    /\ fault \in {"none", "dangling", "terminate"}

Init ==
    /\ mode = "unknown"
    /\ server_active = FALSE
    /\ listener = "none"
    /\ client_list = {}
    /\ list_mtx = "free"
    /\ apc = "idle"
    /\ wpc = "none"
    /\ wsock = NoSock
    /\ epc = "none"
    /\ batch = {}
    /\ extra = {}
    /\ esock = NoSock
    /\ eres = "error"
    /\ sock = [s \in Sock |-> "none"]
    /\ data = [s \in Sock |-> FALSE]
    /\ watch = {}
    /\ notice = {}
    /\ rejected = {}
    /\ disc = [s \in Sock |-> 0]
    /\ retired = {}
    /\ fault = "none"

-----------------------------------------------------------------------------
(* Helpers.                                                                *)

Queued   == {s \in Sock : sock[s] = "queued"}
Accepted == {s \in Sock : sock[s] \notin {"none", "queued"}}

(* poll_id_ names a live epoll from its creation to srt_epoll_release.     *)
PollOpen == epc \notin {"none", "done"}

Open     == {s \in Sock : sock[s] # "closed"}

(* The sockets S close: receivers see an error.  Those of E leave the      *)
(* epoll.                                                                  *)
CloseSockets(S, E) ==
    /\ sock' = [s \in Sock |-> IF s \in S THEN "closed" ELSE sock[s]]
    /\ data' = [s \in Sock |-> s \notin S /\ data[s]]
    /\ watch' = watch \ E
    /\ notice' = notice \ E

(* srt_close on every socket of S.  A socket that the garbage collector    *)
(* has closed is not found any more and stays in the epoll.                *)
SrtClose(S) == CloseSockets(S, S \cap Open)

(* One clientDisconnected callback for each socket of S.                   *)
Disconnected(S) ==
    disc' = [s \in Sock |-> IF s \in S THEN disc[s] + 1 ELSE disc[s]]

\* Mutants: client_list_.clear() forgotten; srt_close forgotten.
closeAllClientSocketsKeepList ==
    list_mtx = "free" /\ SrtClose(client_list) /\ Disconnected(client_list) /\ UNCHANGED client_list
closeAllClientSocketsOpen ==
    list_mtx = "free" /\ SrtClose({}) /\ Disconnected(client_list) /\ client_list' = {}

(* closeAllClientSockets().  It runs under client_list_mtx_ and the other  *)
(* threads can only see the sockets close, so it is one step.              *)
closeAllClientSockets ==
    /\ list_mtx = "free"
    /\ SrtClose(client_list)
    /\ Disconnected(client_list)
    /\ client_list' = {}

-----------------------------------------------------------------------------
(* Application threads: startServer(), stop(), getActiveClients().         *)

\* Mutant: server_active_ = true forgotten.
StartServerInactive ==
    /\ apc = "idle" /\ mode = "unknown" /\ wpc = "none"
    /\ listener' = "listening" /\ mode' = "server" /\ wpc' = "init"
    /\ UNCHANGED <<server_active, apc, wsock, event, clients, srt, history, fault>>

(* std::thread's move assignment terminates the program if the handle is   *)
(* still joinable.                                                         *)
StartServer ==
    /\ apc = "idle"
    /\ mode = "unknown"
    /\ listener' = "listening"
    /\ server_active' = TRUE
    /\ mode' = "server"
    /\ wpc' = IF wpc = "none" THEN "init" ELSE wpc
    /\ fault' = IF wpc = "none" THEN fault ELSE "terminate"
    /\ UNCHANGED <<apc, wsock, event, clients, srt, history>>

(* The error returns: context_ is no socket (srt_create_socket failed), a  *)
(* closed one (address, bind, listen), or one left open (srt_setsockflag). *)
StartServerFails ==
    /\ apc = "idle"
    /\ mode = "unknown"
    /\ listener' \in {"none", "closed", "created"}
    /\ UNCHANGED <<mode, server_active, apc, worker, event, clients, srt,
                   history, fault>>

Stop ==
    /\ apc = "idle"
    /\ mode = "server"
    /\ server_active' = FALSE
    /\ apc' = "close"
    /\ UNCHANGED <<mode, listener, worker, event, clients, srt, history, fault>>

\* Mutant: srt_close(context_) forgotten.
StopKeepsListening ==
    /\ apc = "close"
    /\ apc' = "closeall"
    /\ UNCHANGED <<mode, server_active, listener, worker, event, clients, srt,
                   history, fault>>

(* srt_close(context_): the blocked srt_accept returns, and the clients    *)
(* still in the backlog are dropped with the listener.                     *)
StopClose ==
    /\ apc = "close"
    /\ IF listener = "listening"
       THEN /\ listener' = "closed"
            /\ SrtClose(Queued)
            /\ apc' = "closeall"
       ELSE /\ apc' = "idle"            \* stop() returns false
            /\ UNCHANGED <<listener, srt>>
    /\ UNCHANGED <<mode, server_active, worker, event, clients, history, fault>>

StopCloseAllClientSockets ==
    /\ apc = "closeall"
    /\ closeAllClientSockets
    /\ apc' = "join_worker"
    /\ UNCHANGED <<mode, server_active, listener, worker, event, list_mtx,
                   rejected, retired, fault>>

StopJoinWorker ==
    /\ apc = "join_worker"
    /\ wpc \in {"none", "done"}
    /\ wpc' = "none"
    /\ apc' = "join_event"
    /\ UNCHANGED <<mode, server_active, listener, wsock, event, clients, srt,
                   history, fault>>

\* Mutant: event_thread_.join() forgotten.
EventNotJoined == UNCHANGED epc

(* event_thread_.join(), if it is joinable.                                *)
EventJoined == epc \in {"none", "done"} /\ epc' = "none"

StopJoinEvent ==
    /\ apc = "join_event"
    /\ EventJoined
    /\ mode' = "unknown"
    /\ apc' = "idle"
    /\ retired' = retired \cup Accepted
    /\ UNCHANGED <<server_active, listener, worker, batch, extra, esock, eres,
                   clients, srt, rejected, disc, fault>>

(* getActiveClients(function) runs the caller's function under the lock.   *)
GetActiveClients ==
    /\ list_mtx = "free"
    /\ list_mtx' = "app"
    /\ UNCHANGED <<api, worker, event, client_list, srt, history, fault>>

GetActiveClientsReturn ==
    /\ list_mtx = "app"
    /\ list_mtx' = "free"
    /\ UNCHANGED <<api, worker, event, client_list, srt, history, fault>>

-----------------------------------------------------------------------------
(* worker_thread_: waitForSRTClient().                                     *)

WorkerInit ==
    /\ wpc = "init"
    /\ wpc' = "closeall"
    /\ epc' = IF epc = "none" THEN "test" ELSE epc
    /\ fault' = IF epc = "none" THEN fault ELSE "terminate"
    /\ UNCHANGED <<api, wsock, batch, extra, esock, eres, clients, srt, history>>

\* Mutant: closeAllClientSockets() forgotten at the start.
WorkerSkipCloseAll ==
    wpc = "closeall" /\ wpc' = "test" /\ UNCHANGED <<api, wsock, event, clients, srt, history, fault>>

WorkerCloseAllClientSockets ==
    /\ wpc = "closeall"
    /\ closeAllClientSockets
    /\ wpc' = "test"
    /\ UNCHANGED <<api, wsock, event, list_mtx, rejected, retired, fault>>

WorkerTest ==
    /\ wpc = "test"
    /\ wpc' = IF server_active THEN "accept" ELSE "done"
    /\ UNCHANGED <<api, wsock, event, clients, srt, history, fault>>

\* Mutant: the result of srt_accept not tested.
AcceptFailureIgnored == wpc' = "callback" /\ wsock' = NoSock

(* newSocketCandidate == -1                                                *)
AcceptFailed == wpc' = "test" /\ UNCHANGED wsock

(* srt_accept fails once the listener is closed, whatever the backlog      *)
(* holds, and blocks while a listening socket's backlog is empty.          *)
WorkerAccept ==
    /\ wpc = "accept"
    /\ \/ /\ listener # "listening"
          /\ AcceptFailed
          /\ UNCHANGED sock
       \/ /\ listener = "listening"
          /\ \E s \in Queued :
                /\ sock' = [sock EXCEPT ![s] = "conn"]
                /\ wsock' = s
          /\ wpc' = "callback"
    /\ UNCHANGED <<api, event, clients, data, watch, notice, history, fault>>

\* Mutant: a refused client goes the way of an accepted one.
RefusedKept == rejected' = rejected \cup {wsock} /\ wpc' = "insert" /\ UNCHANGED wsock

(* The else branch: close(newSocketCandidate).                             *)
Refused == rejected' = rejected \cup {wsock} /\ wpc' = "test" /\ wsock' = NoSock

(* clientConnected returns a context, or nullptr.  In the latter case the  *)
(* code calls the C library's close() on the SRT socket number, which is   *)
(* no file descriptor: the SRT socket is untouched.                        *)
WorkerClientConnected ==
    /\ wpc = "callback"
    /\ \/ /\ wpc' = "insert"
          /\ UNCHANGED <<wsock, rejected>>
       \/ Refused
    /\ UNCHANGED <<api, event, clients, srt, disc, retired, fault>>

(* SRT raises IN on the new subscription only if the socket is connected   *)
(* and has data; a socket that broke before it was added raises nothing.   *)
EpollAdd(s) ==
    IF PollOpen /\ sock[s] # "closed"
    THEN /\ watch' = watch \cup {s}
         /\ notice' = notice \cup (IF sock[s] = "conn" /\ data[s] THEN {s}
                                                                   ELSE {})
    ELSE UNCHANGED <<watch, notice>>

\* Mutant: client_list_mtx_ not taken.
Unlocked == list_mtx \in STRING

(* The lock_guard on client_list_mtx_ of the worker.                       *)
Locked == list_mtx = "free"

WorkerInsert ==
    /\ wpc = "insert"
    /\ Locked
    /\ client_list' = client_list \cup {wsock}
    /\ EpollAdd(wsock)
    /\ wpc' = "test"
    /\ wsock' = NoSock
    /\ UNCHANGED <<api, event, list_mtx, sock, data, history, fault>>

-----------------------------------------------------------------------------
(* event_thread_: serverEventHandler().                                    *)

(* The loop test; on the way out srt_epoll_release drops every             *)
(* subscription.                                                           *)
EventTest ==
    /\ epc = "test"
    /\ IF server_active
       THEN /\ epc' = "uwait"
            /\ UNCHANGED <<watch, notice>>
       ELSE /\ epc' = "done"
            /\ watch' = {}
            /\ notice' = {}
    /\ UNCHANGED <<api, worker, batch, extra, esock, eres, clients, sock, data,
                   history, fault>>

(* srt_epoll_uwait(poll_id_, ready, FdsSize, 1000) writes at most FdsSize  *)
(* entries and returns FdsSize + 1 if it left some out; the code corrects  *)
(* that only when the result is MAX_WORKERS + 1.  Otherwise it goes on to  *)
(* read an entry of ready[] that was never written: any value.  A timeout  *)
(* goes back to the loop test.                                             *)
EventUwait ==
    /\ epc = "uwait"
    /\ IF Cardinality(notice) <= FdsSize
       THEN /\ batch' = notice
            /\ extra' = {}
       ELSE /\ batch' \in {B \in SUBSET notice : Cardinality(B) = FdsSize}
            /\ IF FdsSize = MAX_WORKERS
               THEN extra' = {}
               ELSE \E fd \in Sock \cup {NoSock} : extra' = {fd}
    /\ epc' = IF notice = {} THEN "test" ELSE "recv"
    /\ UNCHANGED <<api, worker, esock, eres, clients, srt, history, fault>>

(* The outcome of srt_recvmsg2 in blocking mode, read without the lock; a  *)
(* connected socket without data blocks the thread.                        *)
Receives(fd)  == fd \in Sock /\ sock[fd] \in {"queued", "conn", "broken"} /\ data[fd]
RecvFails(fd) == fd \in Sock => \/ sock[fd] \in {"none", "closed"}
                                \/ sock[fd] = "broken" /\ ~data[fd]

EventRecv ==
    /\ epc = "recv"
    /\ \E fd \in IF batch = {} THEN extra ELSE batch :
          /\ batch' = batch \ {fd}
          /\ extra' = IF batch = {} THEN {} ELSE extra
          /\ esock' = fd
          /\ \/ /\ Receives(fd)
                /\ eres' = "data"
                /\ data' = [data EXCEPT ![fd] = FALSE]
                /\ notice' = IF sock[fd] = "broken" THEN notice
                                                    ELSE notice \ {fd}
             \/ /\ RecvFails(fd)
                /\ eres' = "error"
                /\ UNCHANGED <<data, notice>>
    /\ epc' = "lock"
    /\ UNCHANGED <<api, worker, clients, sock, watch, history, fault>>

EventLock ==
    /\ epc = "lock"
    /\ list_mtx = "free"
    /\ list_mtx' = "event"
    /\ epc' = "handle"
    /\ UNCHANGED <<api, worker, batch, extra, esock, eres, client_list, srt,
                   history, fault>>

(* The next turn of the for loop, or of the while loop around it; the      *)
(* lock_guard and the turn's variables end with the turn.                  *)
NextTurn ==
    /\ epc' = IF batch \cup extra = {} THEN "test" ELSE "recv"
    /\ list_mtx' = "free"
    /\ esock' = NoSock
    /\ eres' = "error"

\* Mutant: no test for end() in the error branch.
NeverRemoved(s)   == s \notin Sock

(* iterator == client_list_.end()                                          *)
AlreadyRemoved(s) == s \notin client_list

\* Mutant: erase() and clientDisconnected forgotten.
CloseClientOnly(s) == CloseSockets({s}, {s}) /\ UNCHANGED <<client_list, disc>>

(* srt_epoll_remove_usock takes even a closed socket off the epoll.        *)
RemoveClient(s) ==
    /\ client_list' = client_list \ {s}
    /\ CloseSockets({s}, {s})
    /\ Disconnected({s})

\* Mutant: every result taken for an error.
AnyResult == TRUE

(* result == SRT_ERROR                                                     *)
RecvError == eres = "error"

EventHandleError ==
    /\ epc = "handle"
    /\ RecvError
    /\ IF AlreadyRemoved(esock)
       THEN UNCHANGED <<client_list, srt, disc>>
       ELSE RemoveClient(esock)
    /\ NextTurn
    /\ UNCHANGED <<api, worker, batch, extra, rejected, retired, fault>>

\* Mutant: the callback calls getStatistics(), which waits for net_mtx_.
CallbackLocksNet == apc = "idle"

(* The callbacks take none of the object's mutexes.                        *)
CallbackReturns == TRUE

(* receivedData (or receivedDataNoCopy) gets iterator->second without a    *)
(* test for end(): undefined behaviour for a client that is not listed.    *)
(* The model records it in fault and goes on, the callback having got a    *)
(* context that is none; the other outcome, an abort, is a behaviour that  *)
(* stops here, which the specification allows and the liveness properties  *)
(* except.                                                                 *)
EventHandleData ==
    /\ epc = "handle"
    /\ ~RecvError
    /\ CallbackReturns
    /\ fault' = IF AlreadyRemoved(esock) THEN "dangling" ELSE fault
    /\ NextTurn
    /\ UNCHANGED <<api, worker, batch, extra, client_list, srt, history>>

-----------------------------------------------------------------------------
(* Clients, and the SRT library's own threads.                             *)

PeerConnect(s) ==
    /\ listener = "listening"
    /\ sock[s] = "none"
    /\ Cardinality(Queued) < Backlog
    /\ sock' = [sock EXCEPT ![s] = "queued"]
    /\ UNCHANGED <<api, worker, event, clients, data, watch, notice, history,
                   fault>>

PeerSend(s) ==
    /\ sock[s] \in {"queued", "conn"}
    /\ ~data[s]
    /\ data' = [data EXCEPT ![s] = TRUE]
    /\ notice' = notice \cup ({s} \cap watch)
    /\ UNCHANGED <<api, worker, event, clients, sock, watch, history, fault>>

(* The peer closes, or its keepalives stop: IN and ERR are raised on the   *)
(* epolls the socket is subscribed to at that moment.                      *)
PeerBreak(s) ==
    /\ sock[s] = "conn"
    /\ sock' = [sock EXCEPT ![s] = "broken"]
    /\ notice' = notice \cup ({s} \cap watch)
    /\ UNCHANGED <<api, worker, event, clients, data, watch, history, fault>>

(* The garbage collector closes a broken socket, and a second or more      *)
(* later destroys it together with its epoll events: before the event      *)
(* thread has seen them only if that thread is slow.                       *)
GcClose(s) ==
    /\ sock[s] = "broken"
    /\ sock' = [sock EXCEPT ![s] = "closed"]
    /\ data' = [data EXCEPT ![s] = FALSE]
    /\ UNCHANGED <<api, worker, event, clients, watch, notice, history, fault>>

GcRemove(s) ==
    /\ sock[s] = "closed"
    /\ s \in watch
    /\ SlowHandler \/ s \notin notice \cap client_list
    /\ watch' = watch \ {s}
    /\ notice' = notice \ {s}
    /\ UNCHANGED <<api, worker, event, clients, sock, data, history, fault>>

-----------------------------------------------------------------------------
ApiStep    == \/ StartServer \/ StartServerFails
              \/ Stop \/ StopClose \/ StopCloseAllClientSockets
              \/ StopJoinWorker \/ StopJoinEvent
              \/ GetActiveClients \/ GetActiveClientsReturn
WorkerStep == \/ WorkerInit \/ WorkerCloseAllClientSockets \/ WorkerTest
              \/ WorkerAccept \/ WorkerClientConnected \/ WorkerInsert
EventStep  == \/ EventTest \/ EventUwait \/ EventRecv \/ EventLock
              \/ EventHandleError \/ EventHandleData
SrtStep    == \E s \in Sock : \/ PeerConnect(s) \/ PeerSend(s) \/ PeerBreak(s)
                              \/ GcClose(s) \/ GcRemove(s)

Next == ApiStep \/ WorkerStep \/ EventStep \/ SrtStep

Spec == Init /\ [][Next]_vars

(* The scheduler runs every thread that can run, callbacks return, and a   *)
(* thread waiting for client_list_mtx_ is not starved by the others for    *)
(* ever.  Nothing is assumed of the application or of the peers.           *)
Fairness ==
    /\ WF_vars(StopClose) /\ WF_vars(StopJoinWorker) /\ WF_vars(StopJoinEvent)
    /\ WF_vars(GetActiveClientsReturn)
    /\ WF_vars(WorkerInit) /\ WF_vars(WorkerTest) /\ WF_vars(WorkerAccept)
    /\ WF_vars(WorkerClientConnected)
    /\ WF_vars(EventTest) /\ WF_vars(EventUwait) /\ WF_vars(EventRecv)
    /\ WF_vars(EventHandleError) /\ WF_vars(EventHandleData)
    /\ SF_vars(StopCloseAllClientSockets) /\ SF_vars(EventLock)
    /\ SF_vars(WorkerCloseAllClientSockets) /\ SF_vars(WorkerInsert)

FairSpec == Spec /\ Fairness

-----------------------------------------------------------------------------
(* Safety.                                                                 *)

(* No std::thread object is assigned while it is joinable, over any        *)
(* sequence of starts and stops: worker_thread_ = std::thread(...) in      *)
(* startServer and event_thread_ = std::thread(...), which runs on the     *)
(* worker thread itself.                                                   *)
NoTerminate == fault # "terminate"

(* Outside a run of the server no thread of it is left, no listener        *)
(* listens and no epoll is subscribed: stop() joins worker_thread_ before  *)
(* it even looks at event_thread_, which the worker assigns.               *)
StoppedQuiescent ==
    mode = "unknown" =>
        wpc = "none" /\ epc = "none" /\ listener # "listening" /\ watch = {}

(* Whoever holds a connection between srt_accept and its closing.          *)
InHand(s) == s = wsock /\ wpc \in {"callback", "insert"}

(* clientDisconnected is called at most once per connection, although the  *)
(* event thread, stop() and the next run's closeAllClientSockets() may all *)
(* find it dead, and never for a listed or an open one; and no open        *)
(* connection that the application accepted is missing from client_list_.  *)
Accounted ==
    \A s \in Sock :
        /\ disc[s] <= 1
        /\ disc[s] = 1 => s \notin client_list /\ sock[s] = "closed"
        /\ sock[s] \in {"conn", "broken"} =>
               s \in client_list \/ s \in rejected \/ InHand(s)

(* By the time a restarted server accepts its first client, the clients    *)
(* an earlier stop() left behind are gone from client_list_.               *)
RestartSheds ==
    wpc \in {"accept", "callback", "insert"} => client_list \cap retired = {}

(* stop() empties client_list_ before it joins the worker, which may still *)
(* list a client afterwards: no more than one, the one it had in hand,     *)
(* however many wait to be accepted.                                       *)
AtMostOneLeft == mode = "unknown" => \A s, t \in client_list : s = t

(* A client the application refused stays connected, as close() does not   *)
(* close it; but the server never lists it, polls it or reports it, so     *)
(* none of its data reaches the application (unless the event thread reads *)
(* its number from an entry of ready[] that nobody wrote).                 *)
RefusedIgnored ==
    \A s \in rejected : s \notin client_list \cup watch \cup notice \cup batch /\ disc[s] = 0

(* To the application the three threads and SRT together are the registry  *)
(* of module ClientRegistry.                                               *)
Life(s) ==
    CASE s \in rejected              -> "refused"
      [] disc[s] > 0                 -> IF disc[s] = 1 THEN "reported" ELSE "reported again"
      [] s \in client_list           -> "listed"
      [] s = wsock /\ wpc = "callback" -> "offered"
      [] s = wsock /\ wpc = "insert"   -> "accepted"
      [] OTHER                       -> "unknown"

Registry == INSTANCE ClientRegistry WITH life <- [s \in Sock |-> Life(s)]

(* Every callback and every change of client_list_ is a step of the        *)
(* registry: no connection is offered, listed or reported twice or out of  *)
(* order, whichever of the threads finds it dead.                          *)
RegistrySpec == Registry!Spec

(* client_list_ does not change under a thread that holds its mutex: the   *)
(* function passed to getActiveClients(), and the event thread between     *)
(* find() and the use of the iterator.                                     *)
ListStable ==
    [][list_mtx # "free" /\ list_mtx' = list_mtx
          => client_list' = client_list]_vars

(* While the server is active nobody's live connection is closed: only a   *)
(* broken client, or one left over from an earlier run, is disconnected.   *)
NoSpuriousDisconnect ==
    [][\A s \in Sock \ retired :
          server_active /\ disc'[s] # disc[s] => sock[s] # "conn"]_vars

-----------------------------------------------------------------------------
(* Liveness, under FairSpec.                                               *)

(* stop() returns: neither thread waits for ever in srt_accept,            *)
(* srt_epoll_uwait, srt_recvmsg2 or for client_list_mtx_.                  *)
StopReturns == (apc # "idle") ~> (apc = "idle" \/ fault # "none")

(* A client whose connection breaks while it is subscribed to the epoll is *)
(* removed and reported, unless the server is being stopped.               *)
BreakReported ==
    \A s \in Sock :
        (s \in client_list \cap notice /\ sock[s] = "broken")
            ~> (disc[s] = 1 \/ ~server_active \/ fault # "none")

(* Nobody stays in the backlog, where it takes itself for connected: the   *)
(* worker lists it, or refuses it, or it is closed with the listener.      *)
(* Neither stops and restarts, nor the clients before it, nor the holders  *)
(* of client_list_mtx_ keep it waiting for ever.                           *)
BacklogServed ==
    \A s \in Sock : (sock[s] = "queued") ~> (s \in client_list \cup rejected \/ sock[s] = "closed")

-----------------------------------------------------------------------------
(* What the documentation, comments and tests say and the code does not    *)
(* do.                                                                     *)

(* srt_net.cpp:199: a client that had an error may have "already been      *)
(* removed by closeAllClientSockets()".  So may one that delivered data:   *)
(* the data branches still use its iterator.                               *)
DataClientListed == epc = "handle" /\ ~RecvError => esock \in client_list

(* srt_net.hpp:159: clientDisconnected is the "Callback handling           *)
(* disconnecting clients (server and client mode)".  Every listed client   *)
(* whose connection breaks is eventually reported.                         *)
DisconnectReported ==
    \A s \in Sock :
        (s \in client_list /\ sock[s] = "broken")
            ~> (disc[s] = 1 \/ ~server_active \/ fault # "none")
=============================================================================
