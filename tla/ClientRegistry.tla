--------------------------- MODULE ClientRegistry ---------------------------
(***************************************************************************)
(* What an SRTNet server promises the application about its clients, as    *)
(* the callbacks show it (src/srt_net/srt_net.hpp, clientConnected and     *)
(* clientDisconnected; src/srt_net/srt_net.cpp, client_list_).             *)
(*                                                                         *)
(* A connection is offered to the application once, one connection at a    *)
(* time.  The application refuses it for good or accepts it; an accepted   *)
(* one is listed, and when it leaves the list this is reported, once.  No  *)
(* connection comes back.                                                  *)
(***************************************************************************)
CONSTANT Sock

VARIABLE life    \* of each connection

InState(l) == {s \in Sock : life[s] = l}

Move(S, l) == life' = [s \in Sock |-> IF s \in S THEN l ELSE life[s]]

Init == life = [s \in Sock |-> "unknown"]

Offer(s) ==
    /\ life[s] = "unknown"
    /\ InState("offered") \cup InState("accepted") = {}
    /\ Move({s}, "offered")

Refuse(s) == life[s] = "offered" /\ Move({s}, "refused")

Accept(s) == life[s] = "offered" /\ Move({s}, "accepted")

Enter(s) == life[s] = "accepted" /\ Move({s}, "listed")

(* One client's connection is lost, or all clients are closed.             *)
Leave(s) == life[s] = "listed" /\ Move({s}, "reported")
LeaveAll == Move(InState("listed"), "reported")

Next == \/ \E s \in Sock : Offer(s) \/ Refuse(s) \/ Accept(s) \/ Enter(s) \/ Leave(s)
        \/ LeaveAll

Spec == Init /\ [][Next]_life
=============================================================================
