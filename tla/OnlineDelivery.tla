--------------------------- MODULE OnlineDelivery ---------------------------
(***************************************************************************)
(* Delivery to a connected peer (core/transport/src/online.rs): one        *)
(* registry for the process behind a mutex, which the connection layer     *)
(* (external) updates, and calls of peer_status and deliver on any thread. *)
(* A call takes the mutex for its look at the registry only; deliver then  *)
(* awaits the round trip, which in this transport is an echo that is       *)
(* ready at once: other threads may run in between, but TimedOut is not    *)
(* reached and SessionClosed is never made.                                *)
(***************************************************************************)
CONSTANTS Peer, Call, None

VARIABLES connected,    \* the registry
          mark,         \* [peer -> what the connection layer last said of it]
          calls,        \* [call -> its operation, peer, step and result]
          during        \* [call -> what the connection layer said of the peer since it began]

vars == <<connected, mark, calls, during>>

Idle == [op |-> None, peer |-> None, at |-> "idle", result |-> None]

Init ==
    /\ connected = {}
    /\ mark = [p \in Peer |-> "disconnected"]
    /\ calls = [c \in Call |-> Idle]
    /\ during = [c \in Call |-> {}]

(* Calls that are under way for p see the mark m. *)
Marked(p, m) ==
    /\ mark' = [mark EXCEPT ![p] = m]
    /\ during' = [c \in Call |-> IF calls[c].peer = p /\ calls[c].at \in {"begun", "round trip"}
                                 THEN during[c] \cup {m} ELSE during[c]]

MarkPeerConnected(p) ==
    /\ connected' = connected \cup {p}
    /\ Marked(p, "connected")
    /\ UNCHANGED calls

(* Mutant: a peer stays in the registry while a call for it is under way. *)
MarkPeerDisconnectedLater(p) ==
    /\ connected' = IF \E c \in Call : calls[c].peer = p THEN connected ELSE connected \ {p}
    /\ Marked(p, "disconnected")
    /\ UNCHANGED calls

MarkPeerDisconnected(p) ==
    /\ connected' = connected \ {p}
    /\ Marked(p, "disconnected")
    /\ UNCHANGED calls

Begin(c, op, p) ==
    /\ calls[c].at \in {"idle", "done"}
    /\ calls' = [calls EXCEPT ![c] = [op |-> op, peer |-> p, at |-> "begun", result |-> None]]
    /\ during' = [during EXCEPT ![c] = {mark[p]}]
    /\ UNCHANGED <<connected, mark>>

PeerStatus(c) ==
    /\ calls[c].op = "peer_status" /\ calls[c].at = "begun"
    /\ calls' = [calls EXCEPT ![c].at = "done",
                              ![c].result = IF calls[c].peer \in connected THEN "Connected" ELSE "Unreachable"]
    /\ UNCHANGED <<connected, mark, during>>

(* deliver, up to the release of the mutex *)
DeliverCheck(c) ==
    /\ calls[c].op = "deliver" /\ calls[c].at = "begun"
    /\ calls' = IF calls[c].peer \in connected
                THEN [calls EXCEPT ![c].at = "round trip"]
                ELSE [calls EXCEPT ![c].at = "done", ![c].result = "PeerUnreachable"]
    /\ UNCHANGED <<connected, mark, during>>

(* The peer may have gone; the registry is not read again. *)
DeliverEcho(c) ==
    /\ calls[c].at = "round trip"
    /\ calls' = [calls EXCEPT ![c].at = "done", ![c].result = "Ok"]
    /\ UNCHANGED <<connected, mark, during>>

(* A caller drops the future before it is polled; once polled, neither call suspends. *)
Cancel(c) ==
    /\ calls[c].at = "begun"
    /\ calls' = [calls EXCEPT ![c] = Idle]
    /\ during' = [during EXCEPT ![c] = {}]
    /\ UNCHANGED <<connected, mark>>

Next ==
    \/ \E p \in Peer : MarkPeerConnected(p) \/ MarkPeerDisconnected(p)
    \/ \E c \in Call : \/ PeerStatus(c) \/ DeliverCheck(c) \/ DeliverEcho(c) \/ Cancel(c)
                       \/ \E op \in {"peer_status", "deliver"}, p \in Peer : Begin(c, op, p)

Spec == Init /\ [][Next]_vars

-----------------------------------------------------------------------------
(* Every variable has its type. *)
TypeOK ==
    /\ connected \subseteq Peer
    /\ mark \in [Peer -> {"connected", "disconnected"}]
    /\ calls \in [Call -> [op : {"peer_status", "deliver", None}, peer : Peer \cup {None},
                           at : {"idle", "begun", "round trip", "done"},
                           result : {"Connected", "Unreachable", "PeerUnreachable", "Ok", None}]]
    /\ during \in [Call -> SUBSET {"connected", "disconnected"}]

(* "A peer is connected iff the libp2p layer has called                    *)
(* mark_peer_connected for it and not since called                         *)
(* mark_peer_disconnected", however the calls interleave: a call answers   *)
(* Connected or Ok only if its peer was connected at some moment of the    *)
(* call, and Unreachable or PeerUnreachable only if at some moment it was  *)
(* not.                                                                    *)
AnswersWereTrue ==
    \A c \in Call :
        /\ calls[c].result \in {"Connected", "Ok"} => "connected" \in during[c]
        /\ calls[c].result \in {"Unreachable", "PeerUnreachable"} => "disconnected" \in during[c]
=============================================================================
