---------------------------- MODULE RelayProcess ----------------------------
(***************************************************************************)
(* Relay processes on one host: main and run_relay (relay/src/main.rs,     *)
(* lib.rs) with the accept loop of the WebSocket bridge (serve_listener    *)
(* and the test listener, ws.rs).  A process builds its libp2p swarm and   *)
(* listens, binds the bridge's port if the operator gave one, and then     *)
(* only logs what the swarm reports.  The bridge's WsState is made once    *)
(* per accept loop; what is done with it on a connection is in WsRelay.    *)
(* A process may be stopped at any time and started again.                 *)
(***************************************************************************)
EXTENDS Naturals

CONSTANTS Proc,         \* processes
          WsPort,       \* ports for --ws-listen
          None,         \* --ws-listen is not given; a port nobody has
          MaxStart,     \* bound on starts
          MaxConn       \* bound on connections accepted

VARIABLES options,      \* [process -> RelayOptions]
          phase,        \* [process -> where it is in main]
          holder,       \* [port -> the process that has it bound]
          bridge,       \* [process -> its accept loop]
          started,      \* starts so far
          state,        \* [process -> the WsState its accept loop makes, named by the start]
          conns,        \* connections that are open
          accepted      \* connections accepted so far

vars == <<options, phase, holder, bridge, started, state, conns, accepted>>

(* A test listener has no options and a port of its own: 127.0.0.1:0. *)
Options == [ws_listen : WsPort \cup {None}]

Init ==
    /\ options = [p \in Proc |-> None] /\ phase = [p \in Proc |-> "off"]
    /\ holder = [q \in WsPort |-> None]
    /\ bridge = [p \in Proc |-> "off"]
    /\ started = 0 /\ state = [p \in Proc |-> 0] /\ conns = {} /\ accepted = 0

(* The sockets of a process that ends are closed. *)
Ended(p) == [q \in DOMAIN holder |-> IF holder[q] = p THEN None ELSE holder[q]]

-----------------------------------------------------------------------------
(* main: the options are those of the command line. *)
Main(p, o) ==
    /\ phase[p] = "off" /\ started < MaxStart
    /\ options' = [options EXCEPT ![p] = o] /\ phase' = [phase EXCEPT ![p] = "main"]
    /\ started' = started + 1 /\ state' = [state EXCEPT ![p] = started']
    /\ UNCHANGED <<holder, bridge, conns, accepted>>

(* build_relay_swarm and listen_on: the swarm listens, or run_relay returns the error. *)
(* Whether an address can be shared is up to libp2p.                                   *)
ListenOn(p) ==
    /\ phase[p] = "main"
    /\ phase' \in {[phase EXCEPT ![p] = "listening"], [phase EXCEPT ![p] = "off"]}
    /\ UNCHANGED <<options, holder, bridge, started, state, conns, accepted>>

(* Without --ws-listen there is no bridge; the loop over the swarm's events only logs. *)
NoBridge(p) ==
    /\ phase[p] = "listening" /\ options[p].ws_listen = None
    /\ phase' = [phase EXCEPT ![p] = "running"]
    /\ UNCHANGED <<options, holder, bridge, started, state, conns, accepted>>

(* Mutant: a bridge that cannot bind is logged, and the relay runs without it. *)
BindBridgeLogs(p) ==
    LET port == options[p].ws_listen
        free == port # None /\ holder[port] = None
    IN  /\ phase[p] = "listening" /\ port # None
        /\ phase' = [phase EXCEPT ![p] = "running"]
        /\ holder' = IF free THEN [holder EXCEPT ![port] = p] ELSE holder
        /\ bridge' = [bridge EXCEPT ![p] = IF free THEN "serving" ELSE "off"]
        /\ UNCHANGED <<options, started, state, conns, accepted>>

(* The port is bound before the swarm's loop begins: if it is in use the process ends. *)
BindBridge(p) ==
    LET port == options[p].ws_listen
    IN  /\ phase[p] = "listening" /\ port # None
        /\ IF holder[port] = None
           THEN /\ holder' = [holder EXCEPT ![port] = p]
                /\ phase' = [phase EXCEPT ![p] = "running"]
                /\ bridge' = [bridge EXCEPT ![p] = "serving"]
           ELSE /\ holder' = Ended(p) /\ phase' = [phase EXCEPT ![p] = "off"]
                /\ UNCHANGED bridge
        /\ UNCHANGED <<options, started, state, conns, accepted>>

(* start_ws_listener_for_test, in the harness or a test *)
StartWsListenerForTest(p) ==
    /\ phase[p] = "off" /\ started < MaxStart
    /\ options' = [options EXCEPT ![p] = None]
    /\ phase' = [phase EXCEPT ![p] = "running"]
    /\ bridge' = [bridge EXCEPT ![p] = "serving"]
    /\ started' = started + 1 /\ state' = [state EXCEPT ![p] = started']
    /\ UNCHANGED <<holder, conns, accepted>>

-----------------------------------------------------------------------------
(* The address that clients of p dial *)
Address(p) == IF options[p] = None THEN p ELSE options[p].ws_listen

(* serve_listener: the connection gets a task of its own and the shared WsState. *)
Accept(p) ==
    /\ bridge[p] = "serving" /\ accepted < MaxConn
    /\ accepted' = accepted + 1
    /\ conns' = conns \cup {[id |-> accepted', at |-> Address(p), proc |-> p, state |-> state[p]]}
    /\ UNCHANGED <<options, phase, holder, bridge, started, state>>

(* A handshake that fails, or the end of handle_connection: only this task ends. *)
ConnectionEnds(c) ==
    /\ conns' = conns \ {c}
    /\ UNCHANGED <<options, phase, holder, bridge, started, state, accepted>>

(* An error of accept ends the loop, of a test listener as well, and run_relay only    *)
(* logs it.  The listener is closed; the process and its connections stay.             *)
AcceptFails(p) ==
    /\ bridge[p] = "serving"
    /\ bridge' = [bridge EXCEPT ![p] = "ended"]
    /\ holder' = [q \in DOMAIN holder |-> IF q = Address(p) THEN None ELSE holder[q]]
    /\ UNCHANGED <<options, phase, started, state, conns, accepted>>

(* A test drops its WsListenerHandle: the accept loop is aborted. *)
DropHandle(p) ==
    /\ bridge[p] = "serving" /\ options[p] = None
    /\ bridge' = [bridge EXCEPT ![p] = "ended"]
    /\ UNCHANGED <<options, phase, holder, started, state, conns, accepted>>

(* The process is stopped or crashes. *)
Exit(p) ==
    /\ phase[p] # "off"
    /\ phase' = [phase EXCEPT ![p] = "off"] /\ bridge' = [bridge EXCEPT ![p] = "off"]
    /\ holder' = Ended(p)
    /\ conns' = {c \in conns : c.proc # p}
    /\ UNCHANGED <<options, started, state, accepted>>

Next ==
    \/ \E p \in Proc :
         \/ \E o \in Options : Main(p, o)
         \/ ListenOn(p) \/ NoBridge(p) \/ BindBridge(p) \/ StartWsListenerForTest(p)
         \/ Accept(p) \/ AcceptFails(p) \/ DropHandle(p) \/ Exit(p)
    \/ \E c \in conns : ConnectionEnds(c)

Spec == Init /\ [][Next]_vars

-----------------------------------------------------------------------------
(* Every variable has its type. *)
TypeOK ==
    /\ options \in [Proc -> Options \cup {None}]
    /\ phase \in [Proc -> {"off", "main", "listening", "running"}]
    /\ holder \in [WsPort -> Proc \cup {None}]
    /\ bridge \in [Proc -> {"off", "serving", "ended"}]
    /\ started \in 0..MaxStart /\ state \in [Proc -> 0..MaxStart] /\ accepted \in 0..MaxConn
    /\ \A c \in conns : c.proc \in Proc /\ c.state \in 0..MaxStart

(* run_relay: "a port-in-use error is returned here (not swallowed)", and  *)
(* "no WS listener is started" without --ws-listen.  Whatever processes    *)
(* start, fail and stop: a running relay that was asked for a bridge has   *)
(* one, on its port, unless its accept loop ended; one that was not asked  *)
(* has none; a process that ended holds no port.                           *)
(* "each sharing the same Arc<WsState>": connections to one address are    *)
(* served from one state, restarts included, as long as no accept loop on  *)
(* it ended in a process that lives on.                                    *)
BridgeAsAsked ==
    /\ \A p \in Proc : phase[p] = "running" /\ options[p] # None =>
         /\ options[p].ws_listen = None => bridge[p] = "off"
         /\ options[p].ws_listen # None =>
              \/ bridge[p] = "ended"
              \/ bridge[p] = "serving" /\ holder[options[p].ws_listen] = p
    /\ \A q \in DOMAIN holder : holder[q] # None => phase[holder[q]] # "off"
    /\ \A c, d \in conns : c.at = d.at =>
         c.state = d.state \/ bridge[c.proc] = "ended" \/ bridge[d.proc] = "ended"
=============================================================================
