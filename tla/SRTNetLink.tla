----------------------------- MODULE SRTNetLink -----------------------------
(***************************************************************************)
(* An SRTNet server and an SRTNet client that connects to it, as in        *)
(* src/srt_net/test_srt_net.cpp: the server of module SRTNetServer and the *)
(* client of module SRTNetClient, with the peer actions of either taken    *)
(* for the steps of the other.                                             *)
(*                                                                         *)
(* The network between them is external.  It may fail at any time for      *)
(* either end.  An end that is closed is noticed by the other, by the      *)
(* shutdown message or because keepalives stop.                            *)
(***************************************************************************)
EXTENDS SRTNetServer

VARIABLES
    c_mode, c_active, c_sock, c_data, c_apc, c_dying, c_wpc, c_stopped, c_disc, c_fault,
    peer,   \* the server's end of the client's connection, NoSock before
    cut     \* history: connections the network cut

Client == INSTANCE SRTNetClient WITH
    mode <- c_mode, client_active <- c_active, sock <- c_sock, data <- c_data,
    apc <- c_apc, dying <- c_dying, wpc <- c_wpc, stopped <- c_stopped,
    disc <- c_disc, fault <- c_fault

c_vars == <<c_mode, c_active, c_sock, c_data, c_apc, c_dying, c_wpc, c_stopped,
            c_disc, c_fault>>
linkvars == <<vars, c_vars, peer, cut>>

LinkInit == Init /\ Client!Init /\ peer = NoSock /\ cut = {}

-----------------------------------------------------------------------------
(* srt_connect meets srt_listen: the connection waits in the backlog.      *)
Connect(s) == Client!Connected /\ PeerConnect(s) /\ peer' = s /\ UNCHANGED cut

(* Either end sends to the other.                                          *)
ClientSends == c_sock = "conn" /\ PeerSend(peer) /\ UNCHANGED <<c_vars, peer, cut>>

ServerSends == /\ peer \in client_list /\ sock[peer] = "conn"
               /\ Client!PeerSend
               /\ UNCHANGED <<vars, peer, cut>>

(* One end of the connection s is down.                                    *)
ServerEndDown(s) == sock[s] \in {"broken", "closed"}
ClientEndDown(s) == peer # s \/ c_sock # "conn"

(* Either end finds the connection gone: because the other end is down, or *)
(* because the network cut it.                                             *)
ServerLoses(s) == /\ PeerBreak(s)
                  /\ cut' = IF ClientEndDown(s) THEN cut ELSE cut \cup {s}
                  /\ UNCHANGED <<c_vars, peer>>
ClientLoses    == /\ Client!PeerBreak
                  /\ cut' = IF ServerEndDown(peer) THEN cut ELSE cut \cup {peer}
                  /\ UNCHANGED <<vars, peer>>

(* Neither start fails before srt_connect; the test exits if one does.     *)
(* getActiveClients(), which only holds client_list_mtx_ for a while, is   *)
(* left to SRTNetServer.                                                   *)
ServerAlone == /\ \/ StartServer \/ Stop \/ StopClose \/ StopCloseAllClientSockets
                  \/ StopJoinWorker \/ StopJoinEvent
                  \/ WorkerStep \/ EventStep
                  \/ \E s \in Sock : GcClose(s) \/ GcRemove(s)
               /\ UNCHANGED <<c_vars, peer, cut>>

(* stop() may be the destructor's: the test's clients are global objects,  *)
(* which are destroyed when main() has returned.                           *)
ClientAlone == /\ \/ Client!StartClient \/ Client!ConnectFails
                  \/ Client!Stop \/ Client!StopClose \/ Client!StopJoin
                  \/ Client!WorkerStep \/ Client!GcClose
               /\ UNCHANGED <<vars, peer, cut>>

LinkNext == \/ ServerAlone \/ ClientAlone
            \/ ClientSends \/ ServerSends \/ ClientLoses
            \/ \E s \in Sock : Connect(s) \/ ServerLoses(s)

LinkFairness ==
    /\ Fairness
    /\ Client!Fairness
    /\ WF_linkvars(ClientLoses /\ ServerEndDown(peer))
    /\ \A s \in Sock : WF_linkvars(ServerLoses(s) /\ ClientEndDown(s))

LinkSpec == LinkInit /\ [][LinkNext]_linkvars /\ LinkFairness

-----------------------------------------------------------------------------
(* Nothing but the client has ended s: the network did not cut it, and the *)
(* server it was made with has not been stopped since.                     *)
Undisturbed(s) == s \notin cut /\ server_active /\ s \notin retired

(* Neither end drops the other without cause.  Of a connection that        *)
(* network and server's application left alone, the server's end is down   *)
(* only after the client's, whatever the event thread received before it   *)
(* took the lock and whoever was listed or stopped meanwhile; and the      *)
(* client's end is up and counts as active until the client itself stops.  *)
NoEndWithoutCause ==
    \A s \in Sock : Undisturbed(s) =>
        /\ ServerEndDown(s) => ClientEndDown(s)
        /\ peer = s /\ c_mode = "client" /\ c_apc = "idle" => c_sock = "conn" /\ c_active

(* Destroying a client aborts the program (see SRTNetClient) only if its   *)
(* connection had been cut by the network or ended by the server: a client *)
(* that is stopped, or only destroyed, before that comes to no harm.       *)
AbortHasCause == c_fault = "terminate" => ~Undisturbed(peer)

(* When the server has stopped, its client gets clientDisconnected and is  *)
(* inactive, unless it is one that stop() left listed or that was refused: *)
(* these nobody closes.                                                    *)
StopReachesClient ==
    (mode = "unknown" /\ c_active)
        ~> (~c_active \/ mode = "server" \/ peer \in client_list \cup rejected)

(* When the client has stopped, or lost the connection, a server that runs *)
(* reports it and takes it off the list, if it had been added to the epoll *)
(* when the connection ended.                                              *)
StopReachesServer ==
    \A s \in Sock :
        (s \in client_list \cap watch /\ sock[s] = "conn" /\ ClientEndDown(s))
            ~> (disc[s] = 1 \/ ~server_active \/ fault # "none")

(* No end outlives the other unnoticed: a connection the server reported   *)
(* as gone does not stay active at the client.                             *)
ReportedGone ==
    \A s \in Sock : (peer = s /\ c_active /\ disc[s] = 1) ~> (~c_active \/ peer # s)
=============================================================================
