------------------------------ MODULE MCNetwork ------------------------------
(***************************************************************************)
(* Group sessions, the directory of devices and bundles, online delivery,  *)
(* the transport's Tor switch and the relay's processes for TLC.  They     *)
(* share no state, so a behaviour works on the one part that `focus` names *)
(* and the others stay as they are.  Group members are interchangeable.    *)
(***************************************************************************)
EXTENDS GroupSession, TLC

CONSTANTS None, Identity, PreKey, MaxLinked, Peer, Call, MaxDial,
          Proc, WsPort, MaxStart, MaxConn

(* `None` is no identity, peer, answer, process, port or command line, and a process *)
(* is not a port.                                                                    *)
ASSUME NetworkAssumption ==
    /\ None \notin Identity \cup Peer \cup Proc \cup WsPort \cup [ws_listen : WsPort \cup {None}]
    /\ None \notin {"Connected", "Unreachable", "PeerUnreachable", "Ok"}
    /\ Proc \cap WsPort = {}
    /\ MaxDial \in Nat /\ MaxStart \in Nat /\ MaxConn \in Nat

Symmetry == Permutations(Member)

VARIABLES focus

VARIABLES signatures, linked, owner, store, published, queries, found
directory == <<signatures, linked, owner, store, published, queries, found>>
D == INSTANCE DeviceDirectory

VARIABLES connected, mark, deliveries, during
online == <<connected, mark, deliveries, during>>
O == INSTANCE OnlineDelivery WITH calls <- deliveries

VARIABLES config, proxy, building, swarm, dials, dialed, listening, wire
transport == <<config, proxy, building, swarm, dials, dialed, listening, wire>>
T == INSTANCE PrivateTransport WITH phase <- building

VARIABLES options, phase, holder, bridge, started, state, conns, accepted
process == <<options, phase, holder, bridge, started, state, conns, accepted>>
P == INSTANCE RelayProcess

NetworkInit ==
    /\ focus \in {"group", "directory", "online", "transport", "process"}
    /\ Init /\ D!Init /\ O!Init /\ T!Init /\ P!Init
    /\ focus # "transport" => proxy /\ config = [tor_enabled |-> FALSE, tor_socks_addr |-> "parses"]

NetworkNext ==
    /\ UNCHANGED focus
    /\ \/ focus = "group" /\ Next /\ UNCHANGED <<directory, online, transport, process>>
       \/ focus = "directory" /\ D!Next /\ UNCHANGED <<vars, online, transport, process>>
       \/ focus = "online" /\ O!Next /\ UNCHANGED <<vars, directory, transport, process>>
       \/ focus = "transport" /\ T!Next /\ UNCHANGED <<vars, directory, online, process>>
       \/ focus = "process" /\ P!Next /\ UNCHANGED <<vars, directory, online, transport>>

NetworkSpec == NetworkInit /\ [][NetworkNext]_<<focus, vars, directory, online, transport, process>>

-----------------------------------------------------------------------------
(* DeviceDirectory: linked devices and bundles are those of their owner. *)
FromTheirOwner == D!TypeOK /\ D!FromTheirOwner

(* OnlineDelivery: what a call answers was so during the call. *)
AnswersWereTrue == O!TypeOK /\ O!AnswersWereTrue

(* PrivateTransport: with Tor enabled nothing reaches the network but through the proxy. *)
NeverClearnet == T!TypeOK /\ T!NeverClearnet

(* RelayProcess: a bridge runs where it was asked for, with one state per address. *)
BridgeAsAsked == P!TypeOK /\ P!BridgeAsAsked
=============================================================================
