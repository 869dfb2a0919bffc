---------------------------- MODULE NetworkProofs ----------------------------
(***************************************************************************)
(* The directory, online delivery, the Tor switch, the relay's processes   *)
(* and group sessions, for every set of identities, prekeys, peers, calls, *)
(* processes, ports and members and every bound.  Each part has an         *)
(* inductive invariant of its own, which a behaviour of the composition    *)
(* keeps because its steps are steps of the one part or leave the part as  *)
(* it is.                                                                  *)
(***************************************************************************)
EXTENDS MCNetwork, Sequences, TLAPS

(* Most steps are first-order; the ones that name SMT are not. *)
USE Zenon

(* A behaviour of the network is one of each of its parts. *)
LEMMA Projects ==
    NetworkSpec => D!Spec /\ O!Spec /\ T!Spec /\ P!Spec
  <1>1. NetworkInit => D!Init /\ O!Init /\ T!Init /\ P!Init
    BY DEF NetworkInit
  <1>2. ASSUME [NetworkNext]_<<focus, vars, directory, online, transport, process>>
        PROVE  [D!Next]_(D!vars) /\ [O!Next]_(O!vars) /\ [T!Next]_(T!vars) /\ [P!Next]_(P!vars)
    BY <1>2 DEF NetworkNext, directory, online, transport, process, D!vars, O!vars, T!vars,
       P!vars
  <1>3. QED
    BY <1>1, <1>2, PTL DEF NetworkSpec, D!Spec, O!Spec, T!Spec, P!Spec

-----------------------------------------------------------------------------
(* PrivateTransport.  What reached the network says little of what may     *)
(* come: the transport of the swarm has to fit the configuration, and      *)
(* dials wait only in a swarm that has one.                                *)
TransportInv ==
    /\ T!TypeOK
    /\ swarm = "clearnet" => ~config.tor_enabled
    /\ swarm = "socks" \/ building = "verified" => config.tor_enabled
    /\ building # "built" => swarm = "none"
    /\ building \in {"called", "refused"} => wire = {}
    /\ dials # {} => swarm = "socks"
    /\ listening => swarm = "clearnet"
    /\ "direct" \in wire => ~config.tor_enabled
    /\ "proxy" \in wire => config.tor_enabled

(* The invariant gives the property. *)
LEMMA TransportInvImplies ==
    TransportInv => NeverClearnet
  BY DEF TransportInv, NeverClearnet, T!NeverClearnet

(* No swarm is built and nothing reached the network at first. *)
LEMMA TransportInit ==
    T!Init => TransportInv
  <1> SUFFICES ASSUME T!Init
               PROVE  TransportInv
    OBVIOUS
  <1>1. dialed \in 0..MaxDial
    BY NetworkAssumption, SMT DEF T!Init
  <1>2. T!TypeOK
    BY <1>1 DEF T!Init, T!TypeOK
  <1>3. QED
    BY <1>2 DEF T!Init, TransportInv

(* Every step of the switch keeps the invariant. *)
LEMMA TransportNext ==
    ASSUME TransportInv, [T!Next]_(T!vars)
    PROVE  TransportInv'
  <1> USE NetworkAssumption DEF TransportInv, T!TypeOK
  <1>1. CASE UNCHANGED T!vars
    BY <1>1 DEF T!vars
  <1>2. CASE T!ProxyChanges
    BY <1>2 DEF T!ProxyChanges
  <1>3. CASE T!BuildSwarm
    BY <1>3 DEF T!BuildSwarm
  <1>4. CASE T!BuildSwarmWithPrivacy
    BY <1>4 DEF T!BuildSwarmWithPrivacy
  <1>5. CASE T!NewSocks5TcpTransport
    BY <1>5 DEF T!NewSocks5TcpTransport
  <1>6. CASE T!RemoveListener
    BY <1>6 DEF T!RemoveListener
  <1>7. ASSUME NEW a \in T!Multiaddr, T!ListenOn(a)
        PROVE  TransportInv'
    BY <1>7 DEF T!ListenOn
  <1>8. ASSUME NEW a \in T!Multiaddr, T!Dial(a)
        PROVE  TransportInv'
    BY <1>8, SMT DEF T!Dial
  <1>9. ASSUME NEW a \in T!Multiaddr, T!DialConnects(a)
        PROVE  TransportInv'
    BY <1>9 DEF T!DialConnects
  <1>10. ASSUME NEW a \in T!Multiaddr, T!DialClearnet(a)
         PROVE  TransportInv'
    BY <1>10 DEF T!DialClearnet
  <1>11. QED
    BY <1>1, <1>2, <1>3, <1>4, <1>5, <1>6, <1>7, <1>8, <1>9, <1>10 DEF T!Next

(* build_swarm_with_privacy: whenever the proxy comes and goes, with Tor   *)
(* enabled nothing reaches the network but through it, and without Tor the *)
(* proxy is not contacted.                                                 *)
THEOREM TorIsKept ==
    NetworkSpec => []NeverClearnet
  <1>1. T!Spec => []TransportInv
    BY TransportInit, TransportNext, PTL DEF T!Spec
  <1>2. QED
    BY <1>1, Projects, TransportInvImplies, PTL

-----------------------------------------------------------------------------
(* RelayProcess.  A port is bound by a running process that was asked for  *)
(* it, and an accept loop belongs to a running process; with that two      *)
(* processes that serve cannot have one address.  A connection has the     *)
(* address and the state of the process that accepted it, because neither  *)
(* changes before the process ends, and its connections end with it.       *)
PortInv ==
    \A q \in WsPort : holder[q] # None =>
        /\ phase[holder[q]] = "running"
        /\ options[holder[q]] # None /\ options[holder[q]].ws_listen = q

LoopInv(p) ==
    /\ bridge[p] # "off" => phase[p] = "running"
    /\ phase[p] \in {"main", "listening"} => options[p] # None
    /\ phase[p] = "running" /\ options[p] # None =>
         /\ options[p].ws_listen = None => bridge[p] = "off"
         /\ options[p].ws_listen # None =>
              bridge[p] = "ended" \/ (bridge[p] = "serving" /\ holder[options[p].ws_listen] = p)

ConnInv(c) ==
    /\ c.proc \in Proc /\ bridge[c.proc] # "off"
    /\ c.at = P!Address(c.proc) /\ c.state = state[c.proc]

ProcessInv ==
    /\ P!TypeOK /\ PortInv
    /\ \A p \in Proc : LoopInv(p)
    /\ \A c \in conns : ConnInv(c)

(* What two connections to one address have in common. *)
LEMMA OneState ==
    ASSUME ProcessInv, NEW c \in conns, NEW d \in conns, c.at = d.at,
           bridge[c.proc] # "ended", bridge[d.proc] # "ended"
    PROVE  c.state = d.state
  <1> DEFINE p == c.proc
             q == d.proc
  <1>1. /\ p \in Proc /\ q \in Proc /\ c.state = state[p] /\ d.state = state[q]
        /\ P!Address(p) = P!Address(q)
        /\ bridge[p] \notin {"off", "ended"} /\ bridge[q] \notin {"off", "ended"}
    BY DEF ProcessInv, ConnInv
  <1> HIDE DEF p, q
  <1>2. /\ options[p] # None => options[p].ws_listen \in WsPort /\ holder[options[p].ws_listen] = p
        /\ options[q] # None => options[q].ws_listen \in WsPort /\ holder[options[q].ws_listen] = q
    <2>1. /\ options[p] \in P!Options \cup {None} /\ LoopInv(p)
          /\ options[q] \in P!Options \cup {None} /\ LoopInv(q)
      BY <1>1 DEF ProcessInv, P!TypeOK
    <2>2. QED
      BY <1>1, <2>1 DEF LoopInv, P!Options
  <1>3. p = q
    BY <1>1, <1>2, NetworkAssumption DEF P!Address
  <1>4. QED
    BY <1>1, <1>3

(* The invariant gives the property. *)
LEMMA ProcessInvImplies ==
    ProcessInv => BridgeAsAsked
  <1> SUFFICES ASSUME ProcessInv
               PROVE  BridgeAsAsked
    OBVIOUS
  <1>1. DOMAIN holder = WsPort
    BY DEF ProcessInv, P!TypeOK
  <1>2. P!BridgeAsAsked
    BY <1>1, OneState, ZenonT(30) DEF ProcessInv, PortInv, LoopInv, P!BridgeAsAsked
  <1>3. QED
    BY <1>2 DEF ProcessInv, BridgeAsAsked

(* Nothing runs and no port is held at first. *)
LEMMA ProcessInit ==
    P!Init => ProcessInv
  BY NetworkAssumption, SMT DEF P!Init, ProcessInv, P!TypeOK, PortInv, LoopInv

(* A step of p that keeps its ports and connections to itself keeps the    *)
(* invariant if p is in order after it.                                    *)
OtherProcs(p) ==
    \A r \in Proc : r # p =>
        /\ phase'[r] = phase[r] /\ options'[r] = options[r]
        /\ bridge'[r] = bridge[r] /\ state'[r] = state[r]

OtherPorts(p) ==
    \A q \in WsPort : holder'[q] # holder[q] => holder[q] \in {p, None} /\ holder'[q] \in {p, None}

(* A step of one process leaves the others their invariant. *)
LEMMA ProcessStep ==
    ASSUME ProcessInv, NEW p \in Proc, OtherProcs(p), OtherPorts(p), P!TypeOK', LoopInv(p)',
           \A q \in WsPort : holder'[q] = p =>
               phase'[p] = "running" /\ options'[p] # None /\ options'[p].ws_listen = q,
           \A c \in conns' : (c.proc # p /\ c \in conns) \/ ConnInv(c)'
    PROVE  ProcessInv'
  <1>1. PortInv'
    <2>1. ASSUME NEW q \in WsPort, holder'[q] # None
          PROVE  /\ phase'[holder'[q]] = "running"
                 /\ options'[holder'[q]] # None /\ options'[holder'[q]].ws_listen = q
      <3>1. CASE holder'[q] = p
        BY <3>1
      <3>2. CASE holder'[q] # p
        <4>1. holder'[q] = holder[q] /\ holder[q] \in Proc
          BY <2>1, <3>2 DEF OtherPorts, ProcessInv, P!TypeOK
        <4>2. QED
          BY <2>1, <3>2, <4>1, SMT DEF OtherProcs, ProcessInv, PortInv
      <3>3. QED
        BY <3>1, <3>2
    <2>2. QED
      BY <2>1 DEF PortInv
  <1>2. ASSUME NEW r \in Proc, r # p
        PROVE  LoopInv(r)'
    <2>1. /\ phase'[r] = phase[r] /\ options'[r] = options[r] /\ bridge'[r] = bridge[r]
          /\ LoopInv(r) /\ options[r] \in P!Options \cup {None}
      BY <1>2 DEF OtherProcs, ProcessInv, P!TypeOK
    <2>2. \A q \in WsPort : holder[q] = r => holder'[q] = r
      BY <1>2, NetworkAssumption DEF OtherPorts
    <2>3. QED
      BY <2>1, <2>2 DEF LoopInv, P!Options
  <1>3. ASSUME NEW c \in conns', c.proc # p, c \in conns
        PROVE  ConnInv(c)'
    BY <1>3, SMT DEF ProcessInv, ConnInv, OtherProcs, P!Address
  <1>4. QED
    BY <1>1, <1>2, <1>3 DEF ProcessInv

(* The processes of the host: one step per operation. *)
LEMMA ProcessNext ==
    ASSUME ProcessInv, [P!Next]_(P!vars)
    PROVE  ProcessInv'
  <1> DEFINE Step(p) ==
               /\ OtherProcs(p) /\ OtherPorts(p) /\ P!TypeOK' /\ LoopInv(p)'
               /\ \A q \in WsPort : holder'[q] = p =>
                    phase'[p] = "running" /\ options'[p] # None /\ options'[p].ws_listen = q
               /\ \A c \in conns' : (c.proc # p /\ c \in conns) \/ ConnInv(c)'
  <1>1. P!TypeOK /\ PortInv /\ (\A p \in Proc : LoopInv(p)) /\ (\A c \in conns : ConnInv(c))
    BY DEF ProcessInv
  <1>2. ASSUME NEW p \in Proc, Step(p)
        PROVE  ProcessInv'
    BY <1>2, ProcessStep
  <1>3. ASSUME NEW p \in Proc, phase[p] = "off"
        PROVE  /\ bridge[p] = "off"
               /\ \A q \in WsPort : holder[q] # p
               /\ \A c \in conns : c.proc # p
    BY <1>1, <1>3, NetworkAssumption DEF PortInv, LoopInv, ConnInv
  <1>4. CASE UNCHANGED P!vars
    BY <1>4 DEF P!vars, ProcessInv, P!TypeOK, PortInv, LoopInv, ConnInv, P!Address
  <1>5. ASSUME NEW p \in Proc, NEW o \in P!Options, P!Main(p, o)
        PROVE  Step(p)
    <2>1. phase[p] = "off" /\ o # None /\ UNCHANGED <<holder, bridge, conns, accepted>>
      BY <1>5, NetworkAssumption DEF P!Main, P!Options
    <2>2. P!TypeOK' /\ phase'[p] = "main" /\ options'[p] = o /\ OtherProcs(p)
      BY <1>1, <1>5, NetworkAssumption, SMT DEF P!Main, P!TypeOK, OtherProcs
    <2>3. QED
      BY <1>3, <2>1, <2>2 DEF OtherPorts, LoopInv
  <1>6. ASSUME NEW p \in Proc, P!ListenOn(p)
        PROVE  Step(p)
    <2>1. phase[p] = "main" /\ UNCHANGED <<options, holder, bridge, started, state, conns, accepted>>
      BY <1>6 DEF P!ListenOn
    <2>2. P!TypeOK' /\ phase'[p] \in {"listening", "off"} /\ OtherProcs(p)
      BY <1>1, <1>6 DEF P!ListenOn, P!TypeOK, OtherProcs
    <2>3. bridge[p] = "off" /\ options[p] # None /\ \A q \in WsPort : holder[q] # p
      BY <1>1, <2>1, NetworkAssumption DEF LoopInv, PortInv
    <2>4. \A c \in conns : c.proc # p
      BY <1>1, <2>3 DEF ConnInv
    <2>5. QED
      BY <2>1, <2>2, <2>3, <2>4 DEF OtherPorts, LoopInv
  <1>7. ASSUME NEW p \in Proc, phase[p] = "listening"
        PROVE  /\ bridge[p] = "off" /\ options[p] # None /\ options[p] \in P!Options
               /\ (\A q \in WsPort : holder[q] # p) /\ (\A c \in conns : c.proc # p)
    <2>1. bridge[p] = "off" /\ options[p] # None /\ \A q \in WsPort : holder[q] # p
      BY <1>1, <1>7, NetworkAssumption DEF LoopInv, PortInv
    <2>2. QED
      BY <1>1, <2>1 DEF ConnInv, P!TypeOK
  <1>8. ASSUME NEW p \in Proc, P!NoBridge(p)
        PROVE  Step(p)
    <2>1. /\ phase[p] = "listening" /\ options[p].ws_listen = None
          /\ UNCHANGED <<options, holder, bridge, started, state, conns, accepted>>
      BY <1>8 DEF P!NoBridge
    <2>2. P!TypeOK' /\ phase'[p] = "running" /\ OtherProcs(p)
      BY <1>1, <1>8 DEF P!NoBridge, P!TypeOK, OtherProcs
    <2>3. QED
      BY <1>7, <2>1, <2>2 DEF OtherPorts, LoopInv
  <1>9. ASSUME NEW p \in Proc, P!BindBridge(p)
        PROVE  Step(p)
    <2> DEFINE port == options[p].ws_listen
    <2>1. /\ phase[p] = "listening" /\ port # None
          /\ UNCHANGED <<options, started, state, conns, accepted>>
      BY <1>9 DEF P!BindBridge
    <2>2. port \in WsPort
      BY <1>7, <2>1 DEF P!Options
    <2>3. CASE holder[port] = None
      <3>1. /\ holder' = [holder EXCEPT ![port] = p] /\ phase' = [phase EXCEPT ![p] = "running"]
            /\ bridge' = [bridge EXCEPT ![p] = "serving"]
        BY <1>9, <2>3 DEF P!BindBridge
      <3>2. /\ P!TypeOK' /\ phase'[p] = "running" /\ bridge'[p] = "serving" /\ holder'[port] = p
            /\ OtherProcs(p) /\ \A q \in WsPort : q # port => holder'[q] = holder[q]
        BY <1>1, <2>1, <2>2, <3>1 DEF P!TypeOK, OtherProcs
      <3>3. QED
        BY <1>7, <2>1, <2>2, <2>3, <3>2 DEF OtherPorts, LoopInv
    <2>4. CASE holder[port] # None
      <3>1. holder' = P!Ended(p) /\ phase' = [phase EXCEPT ![p] = "off"] /\ UNCHANGED bridge
        BY <1>9, <2>4 DEF P!BindBridge
      <3>2. \A q \in WsPort : holder'[q] = holder[q]
        BY <1>1, <1>7, <2>1, <3>1 DEF P!Ended, P!TypeOK
      <3>3. P!TypeOK' /\ phase'[p] = "off" /\ OtherProcs(p)
        BY <1>1, <2>1, <3>1 DEF P!TypeOK, P!Ended, OtherProcs
      <3>4. QED
        BY <1>7, <2>1, <3>1, <3>2, <3>3 DEF OtherPorts, LoopInv
    <2>5. QED
      BY <2>3, <2>4
  <1>10. ASSUME NEW p \in Proc, P!StartWsListenerForTest(p)
         PROVE  Step(p)
    <2>1. phase[p] = "off" /\ UNCHANGED <<holder, conns, accepted>>
      BY <1>10 DEF P!StartWsListenerForTest
    <2>2. P!TypeOK' /\ phase'[p] = "running" /\ options'[p] = None /\ OtherProcs(p)
      BY <1>1, <1>10, NetworkAssumption, SMT DEF P!StartWsListenerForTest, P!TypeOK, OtherProcs
    <2>3. QED
      BY <1>3, <2>1, <2>2 DEF OtherPorts, LoopInv
  <1>11. ASSUME NEW p \in Proc, P!Accept(p)
         PROVE  Step(p)
    <2> DEFINE new == [id |-> accepted', at |-> P!Address(p), proc |-> p, state |-> state[p]]
    <2>1. /\ bridge[p] = "serving" /\ conns' = conns \cup {new}
          /\ UNCHANGED <<options, phase, holder, bridge, started, state>>
      BY <1>11 DEF P!Accept
    <2>2. new.proc = p /\ new.at = P!Address(p) /\ new.state = state[p]
      OBVIOUS
    <2> HIDE DEF new
    <2>3. accepted' \in 0..MaxConn
      BY <1>1, <1>11, NetworkAssumption, SMT DEF P!Accept, P!TypeOK
    <2>4. P!TypeOK'
      BY <1>1, <2>1, <2>2, <2>3 DEF P!TypeOK
    <2>5. \A c \in conns' : ConnInv(c)'
      BY <1>1, <2>1, <2>2 DEF ConnInv, P!Address
    <2>6. LoopInv(p)' /\ OtherProcs(p) /\ OtherPorts(p)
      BY <1>1, <2>1 DEF LoopInv, OtherProcs, OtherPorts
    <2>7. QED
      BY <1>1, <2>1, <2>4, <2>5, <2>6, NetworkAssumption DEF PortInv
  <1>12. ASSUME NEW p \in Proc, P!AcceptFails(p) \/ P!DropHandle(p)
         PROVE  Step(p)
    <2>1. /\ bridge[p] = "serving" /\ bridge' = [bridge EXCEPT ![p] = "ended"]
          /\ UNCHANGED <<options, phase, started, state, conns, accepted>>
      BY <1>12 DEF P!AcceptFails, P!DropHandle
    <2>2. /\ holder' \in [WsPort -> Proc \cup {None}]
          /\ \A q \in WsPort : holder'[q] # holder[q] => q = P!Address(p) /\ holder'[q] = None
      BY <1>1, <1>12 DEF P!AcceptFails, P!DropHandle, P!TypeOK
    <2>3. P!TypeOK' /\ bridge'[p] = "ended" /\ OtherProcs(p)
      BY <1>1, <2>1, <2>2 DEF P!TypeOK, OtherProcs
    <2>4. ASSUME NEW q \in WsPort, q = P!Address(p), holder[q] # None
          PROVE  holder[q] = p
      BY <1>1, <2>1, <2>4, NetworkAssumption DEF LoopInv, P!Address
    <2>5. OtherPorts(p)
      BY <2>2, <2>4 DEF OtherPorts
    <2>6. LoopInv(p)'
      BY <1>1, <2>1, <2>3 DEF LoopInv
    <2>7. \A q \in WsPort : holder'[q] = p =>
             phase'[p] = "running" /\ options'[p] # None /\ options'[p].ws_listen = q
      <3> SUFFICES ASSUME NEW q \in WsPort, holder'[q] = p
                   PROVE  phase[p] = "running" /\ options[p] # None /\ options[p].ws_listen = q
        BY <2>1
      <3>1. holder[q] = p
        BY <2>2, NetworkAssumption
      <3>2. QED
        BY <1>1, <3>1, NetworkAssumption DEF PortInv
    <2>8. \A c \in conns' : ConnInv(c)'
      BY <1>1, <2>1, <2>3 DEF ConnInv, OtherProcs, P!Address
    <2>9. QED
      BY <2>3, <2>5, <2>6, <2>7, <2>8
  <1>13. ASSUME NEW p \in Proc, P!Exit(p)
         PROVE  Step(p)
    <2>1. /\ phase' = [phase EXCEPT ![p] = "off"] /\ bridge' = [bridge EXCEPT ![p] = "off"]
          /\ holder' = P!Ended(p) /\ conns' = {c \in conns : c.proc # p}
          /\ UNCHANGED <<options, started, state, accepted>>
      BY <1>13 DEF P!Exit
    <2>2. P!TypeOK' /\ phase'[p] = "off" /\ bridge'[p] = "off" /\ OtherProcs(p)
      BY <1>1, <2>1 DEF P!TypeOK, P!Ended, OtherProcs
    <2>3. \A q \in WsPort : holder'[q] # p /\ (holder'[q] # holder[q] => holder[q] = p /\ holder'[q] = None)
      BY <1>1, <2>1, NetworkAssumption DEF P!Ended, P!TypeOK
    <2>4. QED
      BY <2>1, <2>2, <2>3 DEF OtherPorts, LoopInv
  <1>14. ASSUME NEW c \in conns, P!ConnectionEnds(c)
         PROVE  ProcessInv'
    BY <1>1, <1>14 DEF P!ConnectionEnds, ProcessInv, P!TypeOK, PortInv, LoopInv, ConnInv,
       P!Address
  <1> HIDE DEF Step
  <1>15. QED
    BY <1>2, <1>4, <1>5, <1>6, <1>8, <1>9, <1>10, <1>11, <1>12, <1>13, <1>14 DEF P!Next

(* run_relay and serve_listener: a running relay has the bridge that it    *)
(* was asked for, on its port, and connections to one address share one    *)
(* state, whatever processes start, fail and stop.                         *)
THEOREM BridgesAreAsAsked ==
    NetworkSpec => []BridgeAsAsked
  <1>1. P!Spec => []ProcessInv
    BY ProcessInit, ProcessNext, PTL DEF P!Spec
  <1>2. QED
    BY <1>1, Projects, ProcessInvImplies, PTL

-----------------------------------------------------------------------------
(* DeviceDirectory.  FromTheirOwner is not inductive: that a signature     *)
(* which verifies was made by the owner of the prekey needs that every     *)
(* prekey signature is its owner's.                                        *)
(* A prekey signature was made by the one that generated the key pair. *)
SignedByOwner ==
    \A s \in signatures : s.of = "prekey" => s.over \in PreKey /\ owner[s.over] = s.by

(* What is stored or was published is its owner's own bundle. *)
OwnBundle(b) ==
    /\ owner[b.signed_pre_key] = b.identity_key
    /\ b.signature = [by |-> b.identity_key, of |-> "prekey", over |-> b.signed_pre_key]

DirectoryInv ==
    /\ D!TypeOK
    /\ SignedByOwner
    /\ \A p \in Identity : store[p] # None => OwnBundle(store[p])
    /\ \A b \in published : OwnBundle(b)
    /\ D!FromTheirOwner

(* Nothing is signed, published or found at first. *)
LEMMA DirectoryInit == D!Init => DirectoryInv
  BY SMT DEF D!Init, DirectoryInv, D!TypeOK, SignedByOwner, OwnBundle, D!FromTheirOwner

(* A bundle that passes decode_and_verify_bundle under a key, and whose     *)
(* signature was really made, is that of the key's owner.                   *)
LEMMA VerifiedIsOwn ==
    ASSUME SignedByOwner, NEW key, NEW b \in D!PreKeyBundle, b.signature \in signatures,
           D!DecodeAndVerifyBundle(key, b) = "Ok"
    PROVE  b.identity_key = key /\ owner[b.signed_pre_key] = key
<1>1. b.identity_key = key /\ b.signature = [by |-> key, of |-> "prekey", over |-> b.signed_pre_key]
  BY DEF D!DecodeAndVerifyBundle, D!VerifyPreKeyBundle, D!VerifySignedPreKey
<1> QED
  BY <1>1 DEF SignedByOwner

(* An owner's own bundle passes decode_and_verify_bundle. *)
LEMMA OwnVerifies ==
    ASSUME NEW b \in D!PreKeyBundle, OwnBundle(b)
    PROVE  D!DecodeAndVerifyBundle(owner[b.signed_pre_key], b) = "Ok"
  BY DEF OwnBundle, D!DecodeAndVerifyBundle, D!VerifyPreKeyBundle, D!VerifySignedPreKey

(* Every step keeps the invariant: one step per operation. *)
LEMMA DirectoryNext == ASSUME DirectoryInv, [D!Next]_(D!vars) PROVE DirectoryInv'
<1> USE DEF DirectoryInv
<1>1. CASE UNCHANGED D!vars
  BY <1>1 DEF D!vars, D!TypeOK, SignedByOwner, OwnBundle, D!FromTheirOwner,
     D!DecodeAndVerifyBundle,
              D!VerifyPreKeyBundle, D!VerifySignedPreKey
<1>2. ASSUME NEW p \in Identity, NEW d \in Identity, D!SignDeviceIdentity(p, d) PROVE DirectoryInv'
  <2>1. D!TypeOK'
    BY <1>2, SMT DEF D!SignDeviceIdentity, D!TypeOK, D!Signature
  <2>2. SignedByOwner'
    BY <1>2, SMT DEF D!SignDeviceIdentity, SignedByOwner
  <2>3. D!FromTheirOwner'
    BY <1>2 DEF D!SignDeviceIdentity, D!FromTheirOwner, D!DecodeAndVerifyBundle,
       D!VerifyPreKeyBundle, D!VerifySignedPreKey
  <2> QED
    BY <1>2, <2>1, <2>2, <2>3 DEF D!SignDeviceIdentity, OwnBundle
<1>3. ASSUME NEW p \in Identity, NEW d \in Identity, NEW s \in signatures, D!AddDevice(p, d, s) PROVE DirectoryInv'
  <2>1. D!TypeOK'
    BY <1>3, SMT DEF D!AddDevice, D!TypeOK
  <2>2. ASSUME NEW q \in Identity, NEW i \in DOMAIN linked'[q]
        PROVE  [by |-> q, of |-> "device", over |-> linked'[q][i]] \in signatures'
    <3>1. linked \in [Identity -> Seq(Identity)] /\ linked' = [linked EXCEPT ![p] = Append(@, d)] /\ signatures' = signatures
      BY <1>3 DEF D!AddDevice, D!TypeOK
    <3>2. CASE q # p
      BY <3>1, <3>2 DEF D!FromTheirOwner
    <3>3. CASE q = p /\ i \in DOMAIN linked[p]
      BY <3>1, <3>3, SMT DEF D!FromTheirOwner
    <3>4. CASE q = p /\ i \notin DOMAIN linked[p]
      <4>1. linked'[q][i] = d
        BY <3>1, <3>4, SMT
      <4> QED
        BY <1>3, <3>1, <3>4, <4>1 DEF D!AddDevice, D!VerifyDeviceIdentity
    <3> QED
      BY <3>2, <3>3, <3>4
  <2>3. D!FromTheirOwner'
    BY <1>3, <2>2 DEF D!AddDevice, D!FromTheirOwner, D!DecodeAndVerifyBundle,
       D!VerifyPreKeyBundle, D!VerifySignedPreKey
  <2> QED
    BY <1>3, <2>1, <2>3 DEF D!AddDevice, OwnBundle, SignedByOwner
<1>4. ASSUME NEW k \in PreKey, NEW p \in Identity, D!GenerateSignedPreKey(p, k) PROVE DirectoryInv'
  <2>0. /\ owner[k] = None /\ owner' = [owner EXCEPT ![k] = p] /\ owner \in [PreKey -> Identity \cup {None}]
        /\ signatures' = signatures \cup {[by |-> p, of |-> "prekey", over |-> k]}
        /\ UNCHANGED <<linked, store, published, queries, found>>
    BY <1>4 DEF D!GenerateSignedPreKey, D!TypeOK
  <2>1. D!TypeOK'
    BY <2>0, SMT DEF D!TypeOK, D!Signature
  <2>2. \A x \in PreKey : owner[x] # None => owner'[x] = owner[x]
    BY <2>0
  <2>3. SignedByOwner'
    <3>1. \A s \in signatures : s.by \in Identity
      BY DEF D!TypeOK, D!Signature
    <3> QED
      BY <2>0, <2>2, <3>1, NetworkAssumption, SMT DEF SignedByOwner
  <2>4. \A b \in D!PreKeyBundle : OwnBundle(b) => OwnBundle(b)'
    BY <2>2, NetworkAssumption DEF OwnBundle, D!PreKeyBundle
  <2>5. D!FromTheirOwner'
    <3>1. \A f \in found : owner'[f.bundle.signed_pre_key] = f.key
      BY <2>2, NetworkAssumption, SMT DEF D!FromTheirOwner, D!TypeOK, D!PreKeyBundle
    <3>2. \A b \in published : D!DecodeAndVerifyBundle(owner'[b.signed_pre_key], b) = "Ok"
      <4>1. \A b \in published : b \in D!PreKeyBundle /\ OwnBundle(b)
        BY DEF D!TypeOK
      <4>2. ASSUME NEW b \in published PROVE owner'[b.signed_pre_key] = owner[b.signed_pre_key]
        <5>1. b.signed_pre_key \in PreKey /\ b.identity_key \in Identity
          BY <4>1 DEF D!PreKeyBundle
        <5>2. owner[b.signed_pre_key] = b.identity_key
          BY <4>1 DEF OwnBundle
        <5> QED
          BY <5>1, <5>2, <2>2, NetworkAssumption
      <4> QED
        BY <4>1, <4>2, OwnVerifies
    <3> QED
      BY <2>0, <3>1, <3>2 DEF D!FromTheirOwner, D!DecodeAndVerifyBundle, D!VerifyPreKeyBundle,
         D!VerifySignedPreKey
  <2> QED
    BY <2>0, <2>1, <2>3, <2>4, <2>5 DEF D!TypeOK
<1>5. ASSUME NEW k \in PreKey, D!PublishPreKeyBundle(k) PROVE DirectoryInv'
  <2> DEFINE p == owner[k]
             b == [identity_key |-> p, signed_pre_key |-> k, signature |-> [by |-> p, of |-> "prekey", over |-> k]]
  <2>0. /\ p \in Identity /\ store' = [store EXCEPT ![p] = b] /\ published' = published \cup {b}
        /\ store \in [Identity -> D!PreKeyBundle \cup {None}] /\ published \subseteq D!PreKeyBundle
        /\ UNCHANGED <<signatures, linked, owner, queries, found>>
    BY <1>5 DEF D!PublishPreKeyBundle, D!TypeOK
  <2>1. b \in D!PreKeyBundle /\ OwnBundle(b)
    BY <2>0 DEF D!PreKeyBundle, D!Signature, OwnBundle
  <2> HIDE DEF b, p
  <2>2. D!TypeOK'
    BY <2>0, <2>1 DEF D!TypeOK
  <2>3. \A x \in D!PreKeyBundle : OwnBundle(x) => OwnBundle(x)'
    BY <2>0 DEF OwnBundle
  <2>4. \A x \in published' : x \in D!PreKeyBundle /\ OwnBundle(x)
    BY <2>0, <2>1
  <2>5. D!FromTheirOwner'
    BY <2>0, <2>4, OwnVerifies DEF D!FromTheirOwner, D!DecodeAndVerifyBundle,
       D!VerifyPreKeyBundle, D!VerifySignedPreKey
  <2>6. \A q \in Identity : store'[q] # None => store'[q] \in D!PreKeyBundle /\ OwnBundle(store'[q])
    BY <2>0, <2>1
  <2> QED
    BY <2>0, <2>2, <2>3, <2>4, <2>5, <2>6 DEF SignedByOwner
<1>6. ASSUME NEW p \in Identity, D!LookupPreKeyBundle(p) PROVE DirectoryInv'
  BY <1>6 DEF D!LookupPreKeyBundle, D!TypeOK, SignedByOwner, OwnBundle, D!FromTheirOwner,
     D!DecodeAndVerifyBundle,
              D!VerifyPreKeyBundle, D!VerifySignedPreKey
<1>7. ASSUME NEW p \in Identity, D!NoRecord(p) PROVE DirectoryInv'
  BY <1>7 DEF D!NoRecord, D!TypeOK, SignedByOwner, OwnBundle, D!FromTheirOwner,
     D!DecodeAndVerifyBundle,
              D!VerifyPreKeyBundle, D!VerifySignedPreKey
<1>8. ASSUME NEW p \in Identity, NEW b \in D!Answers \cup {store[p]}, D!GotRecord(p, b) PROVE DirectoryInv'
  <2>0. /\ b # None /\ queries' = queries \ {p}
        /\ found' = IF D!DecodeAndVerifyBundle(p, b) = "Ok" THEN found \cup {[key |-> p, bundle |-> b]} ELSE found
        /\ UNCHANGED <<signatures, linked, owner, store, published>>
    BY <1>8 DEF D!GotRecord
  <2>1. b \in D!PreKeyBundle
    BY <2>0 DEF D!Answers, D!TypeOK
  <2>2. D!DecodeAndVerifyBundle(p, b) = "Ok" => b.identity_key = p /\ owner[b.signed_pre_key] = p
    <3>1. CASE b \in D!Answers
      BY <2>1, <3>1, VerifiedIsOwn DEF D!Answers
    <3>2. CASE b = store[p]
      BY <2>0, <3>2 DEF OwnBundle, D!DecodeAndVerifyBundle
    <3> QED
      BY <3>1, <3>2
  <2>3. D!TypeOK'
    BY <2>0, <2>1, SMT DEF D!TypeOK
  <2>4. \A f \in found' : f.bundle.identity_key = f.key /\ owner[f.bundle.signed_pre_key] = f.key
    BY <2>0, <2>2, SMT DEF D!FromTheirOwner
  <2>5. D!FromTheirOwner'
    BY <2>0, <2>4 DEF D!FromTheirOwner, D!DecodeAndVerifyBundle, D!VerifyPreKeyBundle,
       D!VerifySignedPreKey
  <2> QED
    BY <2>0, <2>3, <2>5 DEF SignedByOwner, OwnBundle
<1> QED
  BY <1>1, <1>2, <1>3, <1>4, <1>5, <1>6, <1>7, <1>8 DEF D!Next

(* Linked devices were signed by their primary, a lookup returns only       *)
(* bundles of the identity asked for with a prekey that it generated, and   *)
(* every published bundle passes decode_and_verify_bundle.                  *)
THEOREM OwnersHold ==
    NetworkSpec => []FromTheirOwner
<1>1. D!Spec => []DirectoryInv
  BY DirectoryInit, DirectoryNext, PTL DEF D!Spec
<1>2. DirectoryInv => FromTheirOwner
  BY DEF DirectoryInv, FromTheirOwner
<1> QED
  BY <1>1, <1>2, Projects, PTL

-----------------------------------------------------------------------------
(* OnlineDelivery.  AnswersWereTrue needs what a call knows before it      *)
(* answers: that the registry is what the connection layer last said, and  *)
(* that a call under way has seen it.                                      *)
Results == {"Connected", "Unreachable", "PeerUnreachable", "Ok"}
Steps == {"idle", "begun", "round trip", "done"}

Calls == [op : {"peer_status", "deliver", None}, peer : Peer \cup {None}, at : Steps, result : Results \cup {None}]

OnlineTypes ==
    /\ connected \subseteq Peer
    /\ mark \in [Peer -> {"connected", "disconnected"}]
    /\ deliveries \in [Call -> Calls]
    /\ during \in [Call -> SUBSET {"connected", "disconnected"}]

(* The registry holds the peers that the connection layer last marked as connected. *)
RegistryIsMark == \A p \in Peer : p \in connected <=> mark[p] = "connected"

(* A call under way has no answer and has seen the current mark; a round trip was      *)
(* begun because the peer was connected.                                               *)
UnderWay(c) ==
    /\ deliveries[c].at \in {"begun", "round trip"} =>
         deliveries[c].result = None /\ deliveries[c].peer \in Peer /\ mark[deliveries[c].peer] \in during[c]
    /\ deliveries[c].at = "round trip" => "connected" \in during[c]

Answered(c) ==
    /\ deliveries[c].result \in {"Connected", "Ok"} => "connected" \in during[c]
    /\ deliveries[c].result \in {"Unreachable", "PeerUnreachable"} => "disconnected" \in during[c]

OnlineInv == OnlineTypes /\ RegistryIsMark /\ \A c \in Call : UnderWay(c) /\ Answered(c)

(* Nobody is connected and nothing is called at first. *)
LEMMA OnlineInit == O!Init => OnlineInv
<1> SUFFICES ASSUME O!Init PROVE OnlineInv
  OBVIOUS
<1>1. O!Idle \in Calls /\ O!Idle.at = "idle" /\ O!Idle.result = None
  BY DEF O!Idle, Calls, Steps
<1>2. OnlineTypes /\ RegistryIsMark
  BY <1>1 DEF O!Init, OnlineTypes, RegistryIsMark
<1>3. ASSUME NEW c \in Call PROVE UnderWay(c) /\ Answered(c)
  BY <1>1, NetworkAssumption DEF O!Init, UnderWay, Answered, Results
<1> QED
  BY <1>2, <1>3 DEF OnlineInv

(* A step that changes one call keeps the invariant if the call is in order after it. *)
LEMMA CallKeeps ==
    ASSUME OnlineInv, NEW c \in Call, deliveries' \in [Call -> Calls], during' \in [Call -> SUBSET {"connected", "disconnected"}],
           \A x \in Call : x # c => deliveries'[x] = deliveries[x] /\ during'[x] = during[x],
           UNCHANGED <<connected, mark>>, UnderWay(c)', Answered(c)'
    PROVE  OnlineInv'
<1>1. ASSUME NEW x \in Call, x # c PROVE UnderWay(x)' /\ Answered(x)'
  BY <1>1 DEF OnlineInv, UnderWay, Answered
<1> QED
  BY <1>1 DEF OnlineInv, OnlineTypes, RegistryIsMark

(* A mark is seen by the deliveries under way for its peer, and takes nothing away. *)
LEMMA MarkKeeps ==
    ASSUME OnlineInv, NEW p \in Peer, NEW m \in {"connected", "disconnected"},
           O!Marked(p, m), UNCHANGED deliveries,
           connected' = IF m = "connected" THEN connected \cup {p} ELSE connected \ {p}
    PROVE  OnlineInv'
<1>1. OnlineTypes'
  BY DEF OnlineInv, OnlineTypes, O!Marked
<1>2. RegistryIsMark'
  BY DEF OnlineInv, OnlineTypes, O!Marked, RegistryIsMark
<1>3. ASSUME NEW c \in Call PROVE UnderWay(c)' /\ Answered(c)'
  <2>1. during[c] \subseteq during'[c] /\ UnderWay(c) /\ Answered(c)
    BY DEF OnlineInv, O!Marked
  <2>2. \A q \in Peer : mark'[q] = IF q = p THEN m ELSE mark[q]
    BY DEF OnlineInv, OnlineTypes, O!Marked
  <2>3. deliveries[c].at \in {"begun", "round trip"} /\ deliveries[c].peer = p => m \in during'[c]
    BY DEF O!Marked
  <2>4. UnderWay(c)'
    BY <2>1, <2>2, <2>3 DEF UnderWay
  <2> QED
    BY <2>1, <2>4 DEF Answered
<1> QED
  BY <1>1, <1>2, <1>3 DEF OnlineInv

(* Call c goes to the step `at` with this answer; nothing else of it changes. *)
Moves(c, at, answer) ==
    \/ deliveries' = [deliveries EXCEPT ![c].at = at, ![c].result = answer]
    \/ deliveries' = [deliveries EXCEPT ![c].at = at] /\ answer = deliveries[c].result

(* A step of a call that changes how far it is, and its answer, keeps the types. *)
LEMMA StepTypes ==
    ASSUME deliveries \in [Call -> Calls], NEW c \in Call, NEW at \in Steps, NEW answer \in Results \cup {None},
           Moves(c, at, answer)
    PROVE  /\ deliveries' \in [Call -> Calls]
           /\ \A x \in Call : x # c => deliveries'[x] = deliveries[x]
           /\ deliveries'[c].peer = deliveries[c].peer /\ deliveries'[c].at = at /\ deliveries'[c].result = answer
<1> DEFINE moved == [deliveries[c] EXCEPT !.at = at]
           answered == [moved EXCEPT !.result = answer]
<1>1. deliveries[c] \in Calls
  OBVIOUS
<1>2. moved \in Calls /\ moved.at = at /\ moved.peer = deliveries[c].peer /\ moved.result = deliveries[c].result
  BY <1>1 DEF Calls
<1> HIDE DEF moved
<1>3. answered \in Calls /\ answered.at = at /\ answered.peer = deliveries[c].peer /\ answered.result = answer
  BY <1>2 DEF Calls
<1> HIDE DEF answered
<1>4. CASE deliveries' = [deliveries EXCEPT ![c].at = at] /\ answer = deliveries[c].result
  <2>1. deliveries' = [deliveries EXCEPT ![c] = moved]
    BY <1>4 DEF moved
  <2> QED
    BY <1>2, <1>3, <1>4, <2>1
<1>5. CASE deliveries' = [deliveries EXCEPT ![c].at = at, ![c].result = answer]
  <2>1. deliveries' = [deliveries EXCEPT ![c] = answered]
    BY <1>5 DEF moved, answered
  <2> QED
    BY <1>3, <2>1
<1> QED
  BY <1>4, <1>5 DEF Moves

(* Every step keeps the invariant: one step per operation. *)
LEMMA OnlineNext == ASSUME OnlineInv, [O!Next]_(O!vars) PROVE OnlineInv'
<1>1. CASE UNCHANGED O!vars
  BY <1>1 DEF O!vars, OnlineInv, OnlineTypes, RegistryIsMark, UnderWay, Answered
<1>2. ASSUME NEW p \in Peer, O!MarkPeerConnected(p) PROVE OnlineInv'
  BY <1>2, MarkKeeps DEF O!MarkPeerConnected
<1>3. ASSUME NEW p \in Peer, O!MarkPeerDisconnected(p) PROVE OnlineInv'
  <2>1. connected' = connected \ {p} /\ O!Marked(p, "disconnected") /\ UNCHANGED deliveries
    BY <1>3 DEF O!MarkPeerDisconnected
  <2> QED
    BY <2>1, MarkKeeps
<1>4. ASSUME NEW c \in Call, NEW op \in {"peer_status", "deliver"}, NEW p \in Peer, O!Begin(c, op, p) PROVE OnlineInv'
  <2> DEFINE r == [op |-> op, peer |-> p, at |-> "begun", result |-> None]
  <2>1. r \in Calls /\ r.at = "begun" /\ r.result = None /\ r.peer = p
    BY DEF Calls, Steps
  <2>2. /\ deliveries' = [deliveries EXCEPT ![c] = r] /\ during' = [during EXCEPT ![c] = {mark[p]}]
        /\ UNCHANGED <<connected, mark>>
    BY <1>4 DEF O!Begin
  <2> HIDE DEF r
  <2>3. deliveries' \in [Call -> Calls] /\ deliveries'[c] = r /\ \A x \in Call : x # c => deliveries'[x] = deliveries[x]
    BY <2>1, <2>2 DEF OnlineInv, OnlineTypes
  <2>4. /\ during' \in [Call -> SUBSET {"connected", "disconnected"}] /\ during'[c] = {mark[p]}
        /\ \A x \in Call : x # c => during'[x] = during[x]
    BY <2>2 DEF OnlineInv, OnlineTypes
  <2>5. UnderWay(c)' /\ Answered(c)'
    BY <2>1, <2>2, <2>3, <2>4, NetworkAssumption DEF UnderWay, Answered, Results
  <2> QED
    BY <2>2, <2>3, <2>4, <2>5, CallKeeps
<1>5. ASSUME NEW c \in Call, deliveries[c].at = "begun", UNCHANGED <<connected, mark>>
      PROVE  /\ deliveries[c].peer \in Peer /\ deliveries[c].result = None /\ mark[deliveries[c].peer] \in during[c]
             /\ deliveries[c].peer \in connected => "connected" \in during[c]
             /\ deliveries[c].peer \notin connected => "disconnected" \in during[c]
  <2>1. deliveries[c].peer \in Peer /\ deliveries[c].result = None /\ mark[deliveries[c].peer] \in during[c]
    BY <1>5 DEF OnlineInv, UnderWay
  <2> QED
    BY <2>1 DEF OnlineInv, OnlineTypes, RegistryIsMark
<1>6. ASSUME NEW c \in Call, O!PeerStatus(c) \/ O!DeliverCheck(c) PROVE OnlineInv'
  <2>1. deliveries[c].at = "begun" /\ UNCHANGED <<connected, mark, during>>
    BY <1>6 DEF O!PeerStatus, O!DeliverCheck
  <2>2. \E at \in {"round trip", "done"}, answer \in Results \cup {None} :
          /\ Moves(c, at, answer)
          /\ at = "round trip" => answer = None /\ deliveries[c].peer \in connected
          /\ at = "done" => IF deliveries[c].peer \in connected THEN answer = "Connected"
                            ELSE answer \in {"Unreachable", "PeerUnreachable"}
    <3>1. CASE O!PeerStatus(c)
      BY <3>1 DEF O!PeerStatus, Results, Moves
    <3>2. CASE O!DeliverCheck(c)
      BY <1>5, <2>1, <3>2 DEF O!DeliverCheck, Results, Moves
    <3> QED
      BY <1>6, <3>1, <3>2
  <2>3. PICK at \in {"round trip", "done"}, answer \in Results \cup {None} :
          /\ Moves(c, at, answer)
          /\ at = "round trip" => answer = None /\ deliveries[c].peer \in connected
          /\ at = "done" => IF deliveries[c].peer \in connected THEN answer = "Connected"
                            ELSE answer \in {"Unreachable", "PeerUnreachable"}
    BY <2>2
  <2>4. /\ deliveries' \in [Call -> Calls] /\ \A x \in Call : x # c => deliveries'[x] = deliveries[x]
        /\ deliveries'[c].peer = deliveries[c].peer /\ deliveries'[c].at = at /\ deliveries'[c].result = answer
    <3>1. deliveries \in [Call -> Calls]
      BY DEF OnlineInv, OnlineTypes
    <3>2. at \in Steps
      BY DEF Steps
    <3> QED
      BY <2>3, <3>1, <3>2, StepTypes
  <2>5. UnderWay(c)' /\ Answered(c)'
    BY <1>5, <2>1, <2>3, <2>4, NetworkAssumption DEF UnderWay, Answered, Results
  <2> QED
    BY <2>1, <2>4, <2>5, CallKeeps DEF OnlineInv, OnlineTypes
<1>7. ASSUME NEW c \in Call, O!DeliverEcho(c) PROVE OnlineInv'
  <2>1. "connected" \in during[c] /\ UNCHANGED <<connected, mark, during>>
    BY <1>7 DEF O!DeliverEcho, OnlineInv, UnderWay
  <2>2. /\ deliveries' \in [Call -> Calls] /\ \A x \in Call : x # c => deliveries'[x] = deliveries[x]
        /\ deliveries'[c].at = "done" /\ deliveries'[c].result = "Ok"
    <3>1. deliveries \in [Call -> Calls] /\ "done" \in Steps /\ "Ok" \in Results \cup {None}
      BY DEF OnlineInv, OnlineTypes, Steps, Results
    <3>2. Moves(c, "done", "Ok")
      BY <1>7 DEF O!DeliverEcho, Moves
    <3> QED
      BY <3>1, <3>2, StepTypes
  <2>4. UnderWay(c)' /\ Answered(c)'
    BY <2>1, <2>2 DEF UnderWay, Answered
  <2> QED
    BY <2>1, <2>2, <2>4, CallKeeps DEF OnlineInv, OnlineTypes
<1>8. ASSUME NEW c \in Call, O!Cancel(c) PROVE OnlineInv'
  <2>1. O!Idle \in Calls /\ O!Idle.at = "idle" /\ O!Idle.result = None
    BY DEF O!Idle, Calls, Steps
  <2>2. /\ deliveries' \in [Call -> Calls] /\ deliveries'[c] = O!Idle /\ during' \in [Call -> SUBSET {"connected", "disconnected"}]
        /\ \A x \in Call : x # c => deliveries'[x] = deliveries[x] /\ during'[x] = during[x]
        /\ UNCHANGED <<connected, mark>>
    BY <1>8, <2>1 DEF O!Cancel, OnlineInv, OnlineTypes
  <2>3. UnderWay(c)' /\ Answered(c)'
    BY <2>1, <2>2, NetworkAssumption DEF UnderWay, Answered, Results
  <2> QED
    BY <2>2, <2>3, CallKeeps
<1> QED
  BY <1>1, <1>2, <1>3, <1>4, <1>6, <1>7, <1>8 DEF O!Next

(* A call answers Connected or Ok only if its peer was connected at some    *)
(* moment of the call, Unreachable or PeerUnreachable only if it was not.   *)
THEOREM AnswersHold ==
    NetworkSpec => []AnswersWereTrue
<1>1. O!Spec => []OnlineInv
  BY OnlineInit, OnlineNext, PTL DEF O!Spec
<1>2. OnlineInv => AnswersWereTrue
  BY DEF OnlineInv, OnlineTypes, Calls, Steps, Results, Answered, AnswersWereTrue, O!TypeOK,
     O!AnswersWereTrue
<1> QED
  BY <1>1, <1>2, Projects, PTL

-----------------------------------------------------------------------------
(***************************************************************************)
(* GroupSession for any set of members and any limit on the roster: no     *)
(* message key is used twice, and exactly the members read a message.      *)
(*                                                                         *)
(* Neither property is inductive.  A key is fresh because the keys used    *)
(* under the current root are behind the session's (SentBehind); a         *)
(* captured key derives no message of a later roster because those who     *)
(* captured a key of the current root are still members (CapturedHere): a  *)
(* removal changes the root, and to one that is not the public first       *)
(* (RotatedIsFresh).  RosterExact ties the vector `members`, and WireExact *)
(* a ciphertext's wrappers, to the members that were wanted.               *)
(***************************************************************************)
Fin == INSTANCE FiniteSetTheorems

(* The finite sets of FiniteSetTheorems are those of FiniteSets. *)
LEMMA SameFinite ==
    ASSUME NEW S
    PROVE  (IsFiniteSet(S) <=> Fin!IsFiniteSet(S)) /\ Cardinality(S) = Fin!Cardinality(S)
  BY DEF IsFiniteSet, Fin!IsFiniteSet, Cardinality, Fin!Cardinality

(* A finite set has a natural number of elements. *)
LEMMA CardinalityIsNat == ASSUME NEW S, IsFiniteSet(S) PROVE Cardinality(S) \in Nat
  BY Fin!FS_CardinalityType, SameFinite

RosterExact ==
    /\ IsFiniteSet(members)
    /\ \A m \in Member : m \in wanted <=> \E e \in members : e.key = m

CapturedHere ==
    \A m \in Member : \A k \in captured[m] :
        /\ k.root <= root
        /\ k.root = root => m \in wanted /\ k.step <= step

SentBehind ==
    \A c \in sent :
        /\ c.key.root <= root
        /\ c.key.root = root => c.key.step < step

WireExact ==
    \A c \in sent :
        /\ IsFiniteSet(c.wrappers)
        /\ c.count = Cardinality(c.wrappers)
        /\ \A m \in Member : m \in c.roster <=> \E e \in c.wrappers : e.key = m

DerivedByMembers == \A m \in Member, c \in sent : Ratcheted(m, c) => m \in c.roster

RotatedIsFresh ==
    /\ rotated => root # 0
    /\ \A c \in sent : c.rotated => c.key.root # 0

GroupInv ==
    /\ TypeOK /\ RosterExact /\ CapturedHere /\ SentBehind /\ WireExact
    /\ KeysUsedOnce /\ DerivedByMembers /\ RotatedIsFresh

-----------------------------------------------------------------------------
(* The new session satisfies the inductive invariant. *)
LEMMA InitGroupInv == Init => GroupInv
  <1> SUFFICES ASSUME Init PROVE GroupInv
    OBVIOUS
  <1>1. IsFiniteSet(members)
    BY Fin!FS_EmptySet, SameFinite DEF Init
  <1>2. QED
    BY <1>1 DEF Init, GroupInv, TypeOK, RosterExact, CapturedHere, SentBehind, WireExact,
                KeysUsedOnce, DerivedByMembers, RotatedIsFresh, Ratcheted

(* add_member: the roster grows; keys and messages stay. *)
LEMMA AddMemberGroupInv == ASSUME GroupInv, NEW m \in Member, AddMember(m) PROVE GroupInv'
  <1> DEFINE e == [at |-> pushes, key |-> m]
  <1>1. /\ members' = members \cup {e} /\ wanted' = wanted \cup {m} /\ pushes' = pushes + 1
        /\ root' = root /\ step' = step /\ calls' = calls
        /\ captured' = captured /\ rotated' = rotated /\ sent' = sent
    BY DEF AddMember
  <1>2. e \in Entry /\ e.key = m /\ TypeOK
    BY DEF GroupInv, TypeOK, Entry
  <1>3. IsFiniteSet(members')
    BY <1>1, Fin!FS_AddElement, SameFinite DEF GroupInv, RosterExact
  <1> HIDE DEF e
  <1>4. TypeOK'
    BY <1>1, <1>2, SMT DEF TypeOK
  <1>5. RosterExact'
    BY <1>1, <1>2, <1>3 DEF GroupInv, RosterExact
  <1>6. CapturedHere' /\ SentBehind' /\ WireExact' /\ KeysUsedOnce' /\ DerivedByMembers' /\ RotatedIsFresh'
    BY <1>1 DEF GroupInv, CapturedHere, SentBehind, WireExact, KeysUsedOnce, DerivedByMembers, RotatedIsFresh,
       Ratcheted
  <1>7. QED
    BY <1>4, <1>5, <1>6 DEF GroupInv

(* After a rotation every key seen so far belongs to an older root. *)
LEMMA FreshKeyFacts ==
    ASSUME GroupInv, FreshKey, captured' = captured, sent' = sent, wanted' \subseteq Member,
           rotated' = TRUE
    PROVE  /\ CapturedHere' /\ SentBehind' /\ WireExact' /\ KeysUsedOnce' /\ DerivedByMembers' /\ RotatedIsFresh'
           /\ root' \in Nat /\ step' \in Nat
  <1>1. root' = root + 1 /\ step' = 0 /\ root \in Nat /\ TypeOK
    BY DEF FreshKey, GroupInv, TypeOK
  <1>2. \A x \in Member : \A k \in captured[x] : k.root \in Nat /\ k.root <= root
    BY <1>1, SMT DEF GroupInv, CapturedHere, TypeOK, Key
  <1>3. CapturedHere'
    BY <1>1, <1>2, SMT DEF CapturedHere
  <1>4. \A c \in sent : c.key.root \in Nat /\ c.key.root <= root
    BY <1>1 DEF GroupInv, SentBehind, TypeOK, Key, Ciphertext
  <1>5. SentBehind'
    BY <1>1, <1>4, SMT DEF SentBehind
  <1>6. WireExact' /\ KeysUsedOnce' /\ DerivedByMembers'
    BY DEF GroupInv, WireExact, KeysUsedOnce, DerivedByMembers, Ratcheted
  <1>7. root' # 0
    BY <1>1, SMT
  <1>8. RotatedIsFresh'
    BY <1>7 DEF GroupInv, RotatedIsFresh
  <1>9. QED
    BY <1>1, <1>3, <1>5, <1>6, <1>8, SMT

(* remove_member: every entry of the member goes, and the key is rotated. *)
LEMMA RemoveMemberGroupInv == ASSUME GroupInv, NEW m \in Member, RemoveMember(m) PROVE GroupInv'
  <1>1. /\ members' = {e \in members : e.key # m} /\ wanted' = wanted \ {m} /\ FreshKey
        /\ rotated' = TRUE /\ pushes' = pushes /\ calls' = calls /\ captured' = captured /\ sent' = sent
    BY DEF RemoveMember, Retained
  <1>2. TypeOK /\ wanted' \subseteq Member /\ members' \subseteq members
    BY <1>1 DEF GroupInv, TypeOK
  <1>3. /\ CapturedHere' /\ SentBehind' /\ WireExact' /\ KeysUsedOnce' /\ DerivedByMembers' /\ RotatedIsFresh'
        /\ root' \in Nat /\ step' \in Nat
    BY <1>1, <1>2, FreshKeyFacts
  <1>4. TypeOK'
    BY <1>1, <1>2, <1>3 DEF TypeOK
  <1>5. IsFiniteSet(members')
    BY <1>2, Fin!FS_Subset, SameFinite DEF GroupInv, RosterExact
  <1>6. RosterExact'
    BY <1>1, <1>5 DEF GroupInv, RosterExact
  <1>7. QED
    BY <1>3, <1>4, <1>6 DEF GroupInv

(* rotate_sender_key on its own. *)
LEMMA RotateGroupInv == ASSUME GroupInv, RotateSenderKey PROVE GroupInv'
  <1>1. /\ FreshKey /\ members' = members /\ wanted' = wanted
        /\ rotated' = TRUE /\ pushes' = pushes /\ calls' = calls /\ captured' = captured /\ sent' = sent
    BY DEF RotateSenderKey
  <1>2. TypeOK /\ wanted' \subseteq Member
    BY <1>1 DEF GroupInv, TypeOK
  <1>3. /\ CapturedHere' /\ SentBehind' /\ WireExact' /\ KeysUsedOnce' /\ DerivedByMembers' /\ RotatedIsFresh'
        /\ root' \in Nat /\ step' \in Nat
    BY <1>1, <1>2, FreshKeyFacts
  <1>4. TypeOK' /\ RosterExact'
    BY <1>1, <1>2, <1>3 DEF GroupInv, TypeOK, RosterExact
  <1>5. QED
    BY <1>3, <1>4 DEF GroupInv

(* A key captured now derives none of the messages sent so far. *)
LEMMA CaptureGroupInv == ASSUME GroupInv, NEW m \in Member, Capture(m) PROVE GroupInv'
  <1> DEFINE k == [root |-> root, step |-> step]
  <1>1. /\ captured' = [captured EXCEPT ![m] = @ \cup {k}] /\ \E e \in members : e.key = m
        /\ members' = members /\ pushes' = pushes /\ root' = root /\ step' = step
        /\ calls' = calls /\ wanted' = wanted /\ rotated' = rotated /\ sent' = sent
    BY DEF Capture, ChainKey
  <1>2. TypeOK /\ k \in Key /\ k.root = root /\ k.step = step /\ root \in Nat /\ step \in Nat
    BY DEF GroupInv, TypeOK, Key
  <1> HIDE DEF k
  <1>3. \A x \in Member : captured'[x] = captured[x] \/ (x = m /\ captured'[x] = captured[x] \cup {k})
    BY <1>1, <1>2 DEF TypeOK
  <1>4. m \in wanted
    BY <1>1 DEF GroupInv, RosterExact
  <1>5. TypeOK'
    BY <1>1, <1>2 DEF TypeOK
  <1>6. CapturedHere'
    BY <1>1, <1>2, <1>3, <1>4, SMT DEF GroupInv, CapturedHere
  <1>7. ASSUME NEW x \in Member, NEW c \in sent, Ratcheted(x, c)'
        PROVE  x \in c.roster
    <2>1. PICK h \in captured'[x] : h.root = c.key.root /\ h.step <= c.key.step
      BY <1>7 DEF Ratcheted
    <2>2. CASE h \in captured[x]
      BY <2>1, <2>2 DEF GroupInv, DerivedByMembers, RotatedIsFresh, Ratcheted
    <2>3. CASE h = k
      <3>1. c.key.root = root /\ step <= c.key.step
        BY <1>2, <2>1, <2>3
      <3>2. c.key.step < step /\ c.key.step \in Nat
        BY <1>2, <3>1 DEF GroupInv, SentBehind, TypeOK, Ciphertext, Key
      <3>3. QED
        BY <1>2, <3>1, <3>2, SMT
    <2>4. QED
      BY <1>3, <2>1, <2>2, <2>3
  <1>8. DerivedByMembers'
    BY <1>1, <1>7 DEF DerivedByMembers
  <1>9. RosterExact' /\ SentBehind' /\ WireExact' /\ KeysUsedOnce' /\ RotatedIsFresh'
    BY <1>1 DEF GroupInv, RosterExact, SentBehind, WireExact, KeysUsedOnce, RotatedIsFresh
  <1>10. QED
    BY <1>5, <1>6, <1>8, <1>9 DEF GroupInv

(* The ratchet moves past every key seen so far. *)
LEMMA RatchetFacts ==
    ASSUME GroupInv, Ratchet, UNCHANGED <<members, pushes, root, captured, wanted, rotated>>
    PROVE  /\ RosterExact' /\ CapturedHere'
           /\ step' = step + 1 /\ step \in Nat /\ calls' = calls + 1 /\ calls \in Nat
           /\ \A c \in sent : c.key.root <= root /\ (c.key.root = root => c.key.step < step')
           /\ \A c \in sent : c.key # ChainKey
  <1>1. TypeOK /\ root \in Nat /\ step \in Nat /\ calls \in Nat /\ step' = step + 1
        /\ calls' = calls + 1
    BY DEF GroupInv, TypeOK, Ratchet
  <1>2. \A x \in Member : \A k \in captured[x] : k \in Key
    BY <1>1 DEF TypeOK
  <1>3. CapturedHere'
    BY <1>1, <1>2, SMT DEF GroupInv, CapturedHere, Key
  <1>4. \A c \in sent : c.key.root \in Nat /\ c.key.step \in Nat
    BY <1>1 DEF TypeOK, Ciphertext, Key
  <1>5. \A c \in sent : c.key.root <= root /\ (c.key.root = root => c.key.step < step)
    BY DEF GroupInv, SentBehind
  <1>6. \A c \in sent : c.key.root = root => c.key.step < step'
    BY <1>1, <1>4, <1>5, SMT
  <1>7. ASSUME NEW c \in sent, c.key = ChainKey PROVE FALSE
    <2>1. c.key.root = root /\ c.key.step = step
      BY <1>7, SMT DEF ChainKey
    <2>2. QED
      BY <1>1, <1>5, <2>1, SMT
  <1>8. RosterExact'
    BY DEF GroupInv, RosterExact
  <1>9. QED
    BY <1>1, <1>3, <1>5, <1>6, <1>7, <1>8

(* encrypt_as fails after the ratchet. *)
LEMMA EncryptFailsGroupInv == ASSUME GroupInv, EncryptFails PROVE GroupInv'
  <1>1. /\ Ratchet /\ sent' = sent /\ captured' = captured
        /\ UNCHANGED <<members, pushes, root, captured, wanted, rotated>>
    BY DEF EncryptFails
  <1>2. RosterExact' /\ CapturedHere' /\ SentBehind'
    BY <1>1, RatchetFacts DEF SentBehind
  <1>3. TypeOK'
    BY <1>1, RatchetFacts, SMT DEF GroupInv, TypeOK
  <1>4. WireExact' /\ KeysUsedOnce' /\ DerivedByMembers' /\ RotatedIsFresh'
    BY <1>1 DEF GroupInv, WireExact, KeysUsedOnce, DerivedByMembers, RotatedIsFresh, Ratcheted
  <1>5. QED
    BY <1>2, <1>3, <1>4 DEF GroupInv

(* The new message is the first under its key and has a wrapper for each   *)
(* member; those who can derive its key captured one of the same root, so  *)
(* they are members still.                                                 *)
LEMMA EncryptAsGroupInv == ASSUME GroupInv, EncryptAs PROVE GroupInv'
  <1>1. /\ Fits /\ Ratchet /\ sent' = sent \cup {Wire} /\ captured' = captured
        /\ UNCHANGED <<members, pushes, root, captured, wanted, rotated>>
    BY DEF EncryptAs
  <1>2. /\ RosterExact' /\ CapturedHere'
        /\ step' = step + 1 /\ step \in Nat /\ calls' = calls + 1 /\ calls \in Nat
        /\ \A c \in sent : c.key.root <= root /\ (c.key.root = root => c.key.step < step')
        /\ \A c \in sent : c.key # ChainKey
    BY <1>1, RatchetFacts
  <1>3. /\ TypeOK /\ root \in Nat /\ members \subseteq Entry /\ wanted \subseteq Member
        /\ rotated \in BOOLEAN
        /\ ChainKey \in Key /\ ChainKey.root = root /\ ChainKey.step = step
    BY DEF GroupInv, TypeOK, ChainKey, Key
  <1>4. /\ IsFiniteSet(members) /\ Cardinality(members) \in Nat
        /\ Cardinality(members) % (MaxMembers + 1) = Cardinality(members)
    <2>1. IsFiniteSet(members) /\ Cardinality(members) \in Nat
      BY CardinalityIsNat DEF GroupInv, RosterExact
    <2>2. Cardinality(members) <= MaxMembers /\ MaxMembers \in Nat
      BY <1>1, GroupAssumption DEF Fits
    <2>3. ASSUME NEW a \in Nat, NEW b \in Nat, a <= b PROVE a % (b + 1) = a
      BY <2>3, SMT
    <2>4. QED
      BY <2>1, <2>2, <2>3
  <1>5. /\ Wire \in Ciphertext /\ Wire.key = ChainKey /\ Wire.wrappers = members
        /\ Wire.count = Cardinality(members) /\ Wire.roster = wanted /\ Wire.rotated = rotated
    BY <1>2, <1>3, <1>4 DEF Wire, Ciphertext
  <1> HIDE DEF Wire
  <1>6. TypeOK'
    BY <1>1, <1>2, <1>3, <1>5, SMTT(20) DEF TypeOK
  <1>7. SentBehind'
    BY <1>1, <1>2, <1>3, <1>5, SMTT(20) DEF SentBehind
  <1>8. WireExact'
    BY <1>1, <1>4, <1>5 DEF GroupInv, WireExact, RosterExact
  <1>9. KeysUsedOnce'
    BY <1>1, <1>2, <1>5 DEF GroupInv, KeysUsedOnce
  <1>10. ASSUME NEW x \in Member, Ratcheted(x, Wire) PROVE x \in wanted
    BY <1>3, <1>5, <1>10 DEF GroupInv, CapturedHere, Ratcheted
  <1>11. DerivedByMembers'
    BY <1>1, <1>5, <1>10 DEF GroupInv, DerivedByMembers, Ratcheted
  <1>12. RotatedIsFresh'
    BY <1>1, <1>3, <1>5 DEF GroupInv, RotatedIsFresh
  <1>13. QED
    BY <1>2, <1>6, <1>7, <1>8, <1>9, <1>11, <1>12 DEF GroupInv

(* The inductive invariant holds in every state. *)
THEOREM GroupInvariant == Spec => []GroupInv
  <1>1. GroupInv /\ [Next]_vars => GroupInv'
    <2> SUFFICES ASSUME GroupInv, [Next]_vars PROVE GroupInv'
      OBVIOUS
    <2>1. CASE UNCHANGED vars
      BY <2>1 DEF vars, GroupInv, TypeOK, RosterExact, CapturedHere, SentBehind, WireExact,
                  KeysUsedOnce, DerivedByMembers, RotatedIsFresh, Ratcheted
    <2>2. CASE Next
      BY <2>2, AddMemberGroupInv, RemoveMemberGroupInv, RotateGroupInv, CaptureGroupInv,
         EncryptAsGroupInv, EncryptFailsGroupInv DEF Next
    <2>3. QED
      BY <2>1, <2>2
  <1>2. QED
    BY <1>1, InitGroupInv, PTL DEF Spec

(* The session's types, for every set of members. *)
THEOREM Typing == Spec => []TypeOK
  <1>1. GroupInv => TypeOK
    BY DEF GroupInv
  <1>2. QED
    BY <1>1, GroupInvariant, PTL

(* encrypt_as never uses a message key twice. *)
THEOREM KeysUsedOnceHolds == Spec => []KeysUsedOnce
  <1>1. GroupInv => KeysUsedOnce
    BY DEF GroupInv
  <1>2. QED
    BY <1>1, GroupInvariant, PTL

(* Only those who were members when a message was encrypted find a wrapper *)
(* in it, and after the first removal or rotation only they can compute    *)
(* its key: the chain then descends from a root that is not the first.     *)
THEOREM ReadersAreMembersHolds == Spec => []ReadersAreMembers
  <1>1. GroupInv => ReadersAreMembers
    <2> SUFFICES ASSUME GroupInv, NEW m \in Member, NEW c \in sent,
                        Opens(m, c) \/ (c.rotated /\ Derives(m, c))
                 PROVE  m \in c.roster
      BY DEF ReadersAreMembers
    <2>1. CASE Opens(m, c)
      BY <2>1 DEF Opens, GroupInv, WireExact
    <2>2. CASE c.rotated /\ Derives(m, c)
      BY <2>2 DEF GroupInv, DerivedByMembers, RotatedIsFresh, Derives
    <2>3. QED
      BY <2>1, <2>2
  <1>2. QED
    BY <1>1, GroupInvariant, PTL

(* Every member finds its wrapper, whatever its place in the vector: fewer *)
(* wrappers than wrapper_count come before it.                             *)
THEOREM MembersReadHolds == Spec => []MembersRead
  <1>1. GroupInv => MembersRead
    <2> SUFFICES ASSUME GroupInv, NEW c \in sent, NEW m \in c.roster PROVE Opens(m, c)
      BY DEF MembersRead
    <2>1. /\ IsFiniteSet(c.wrappers) /\ c.count = Cardinality(c.wrappers)
          /\ c.roster \subseteq Member /\ c.wrappers \subseteq Entry
      BY DEF GroupInv, WireExact, TypeOK, Ciphertext
    <2>2. PICK e \in c.wrappers : e.key = m
      BY <2>1 DEF GroupInv, WireExact
    <2> DEFINE before == {f \in c.wrappers : f.at < e.at}
    <2>3. before \in SUBSET c.wrappers /\ before # c.wrappers
      BY <2>1, <2>2, SMT DEF Entry
    <2> HIDE DEF before
    <2>4. /\ IsFiniteSet(before) /\ Cardinality(before) <= Cardinality(c.wrappers)
          /\ Cardinality(c.wrappers) # Cardinality(before)
      BY <2>1, <2>3, Fin!FS_Subset, SameFinite
    <2>5. Cardinality(before) \in Nat /\ Cardinality(c.wrappers) \in Nat
      BY <2>1, <2>4, CardinalityIsNat
    <2>6. Cardinality(before) < c.count
      BY <2>1, <2>4, <2>5, SMT
    <2>7. QED
      BY <2>2, <2>6 DEF before, Opens
  <1>2. QED
    BY <1>1, GroupInvariant, PTL
=============================================================================
