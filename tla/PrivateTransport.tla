-------------------------- MODULE PrivateTransport --------------------------
(***************************************************************************)
(* The transport of a swarm and its Tor switch: build_swarm and            *)
(* build_swarm_with_privacy (core/transport/src/lib.rs) with               *)
(* verify_tor_available and Socks5TcpTransport (privacy.rs).  The proxy    *)
(* may start and stop at any time: before the check, between the check     *)
(* and the first dial, between two dials.  libp2p's TCP and QUIC           *)
(* transports and the proxy are external; `wire` is every contact made     *)
(* with the network and how it was made.                                   *)
(***************************************************************************)
EXTENDS Naturals

CONSTANTS MaxDial       \* bound on dials of a swarm

VARIABLES config,       \* TransportPrivacyConfig
          proxy,        \* the SOCKS proxy accepts connections
          phase,        \* of the call that builds the swarm
          swarm,        \* its transport: none, clearnet or socks
          dials,        \* addresses whose dial is awaited
          dialed,       \* dials so far
          listening,    \* the swarm has a listener
          wire          \* contacts made

vars == <<config, proxy, phase, swarm, dials, dialed, listening, wire>>

(* First two protocols of a multiaddr: a host and TCP, QUIC, or something else *)
Host == {"Ip4", "Ip6", "Dns", "Dns4", "Dns6"}
Multiaddr == (Host \X {"Tcp"}) \cup {<<"Ip4", "Udp">>, <<"P2pCircuit", "P2p">>}

(* By default tor_enabled is false. *)
Config == [tor_enabled : BOOLEAN, tor_socks_addr : {"parses", "malformed"}]

Init ==
    /\ config \in Config
    /\ proxy \in BOOLEAN
    /\ phase = "called" /\ swarm = "none" /\ dials = {} /\ dialed = 0
    /\ listening = FALSE /\ wire = {}

ProxyChanges ==
    /\ proxy' = ~proxy
    /\ UNCHANGED <<config, phase, swarm, dials, dialed, listening, wire>>

-----------------------------------------------------------------------------
(* verify_tor_available contacts the proxy only if Tor is asked for. *)
VerifyTorAvailable ==
    CASE ~config.tor_enabled -> "Ok"
      [] config.tor_enabled /\ config.tor_socks_addr = "malformed" -> "InvalidProxyAddress"
      [] config.tor_enabled /\ config.tor_socks_addr = "parses" /\ ~proxy -> "ProxyUnreachable"
      [] OTHER -> "Ok"

BuildSwarm ==
    /\ phase = "called" /\ ~config.tor_enabled
    /\ phase' = "built" /\ swarm' = "clearnet"
    /\ UNCHANGED <<config, proxy, dials, dialed, listening, wire>>

(* The check of build_swarm_with_privacy: an error is returned, and no swarm built. *)
BuildSwarmWithPrivacy ==
    /\ phase = "called" /\ config.tor_enabled
    /\ IF VerifyTorAvailable = "Ok"
       THEN phase' = "verified" /\ wire' = wire \cup {"proxy"}
       ELSE phase' = "refused" /\ UNCHANGED wire
    /\ UNCHANGED <<config, proxy, swarm, dials, dialed, listening>>

(* The rest of it: a swarm whose only transport is the SOCKS one *)
NewSocks5TcpTransport ==
    /\ phase = "verified"
    /\ phase' = "built" /\ swarm' = "socks"
    /\ UNCHANGED <<config, proxy, dials, dialed, listening, wire>>

-----------------------------------------------------------------------------
(* The SOCKS transport has no listeners; libp2p's listens on IP addresses. *)
ListenOn(a) ==
    /\ swarm = "clearnet" /\ a[1] \in {"Ip4", "Ip6"}
    /\ listening' = TRUE
    /\ UNCHANGED <<config, proxy, phase, swarm, dials, dialed, wire>>

RemoveListener ==
    /\ swarm = "clearnet" /\ listening
    /\ listening' = FALSE
    /\ UNCHANGED <<config, proxy, phase, swarm, dials, dialed, wire>>

MultiaddrToTcpTarget(a) == a[1] \in Host /\ a[2] = "Tcp"

(* Dial through the proxy: an address without a TCP target is refused at once. *)
Dial(a) ==
    /\ swarm = "socks" /\ dialed < MaxDial
    /\ MultiaddrToTcpTarget(a)
    /\ dials' = dials \cup {a} /\ dialed' = dialed + 1
    /\ UNCHANGED <<config, proxy, phase, swarm, listening, wire>>

(* Mutant: a dial that the proxy refuses is tried without it. *)
DialConnectsAnyhow(a) ==
    /\ a \in dials
    /\ dials' = dials \ {a}
    /\ wire' = wire \cup {IF proxy THEN "proxy" ELSE "direct"}
    /\ UNCHANGED <<config, proxy, phase, swarm, dialed, listening>>

(* The future of a dial: the proxy is there, or it is ConnectionRefused. *)
DialConnects(a) ==
    /\ a \in dials
    /\ dials' = dials \ {a}
    /\ wire' = IF proxy THEN wire \cup {"proxy"} ELSE wire
    /\ UNCHANGED <<config, proxy, phase, swarm, dialed, listening>>

(* libp2p's transports dial IP addresses directly; build_swarm gives them no DNS. *)
DialClearnet(a) ==
    /\ swarm = "clearnet" /\ a[1] \in {"Ip4", "Ip6"}
    /\ wire' = wire \cup {"direct"}
    /\ UNCHANGED <<config, proxy, phase, swarm, dials, dialed, listening>>

Next ==
    \/ ProxyChanges \/ BuildSwarm \/ BuildSwarmWithPrivacy \/ NewSocks5TcpTransport \/ RemoveListener
    \/ \E a \in Multiaddr : ListenOn(a) \/ Dial(a) \/ DialConnects(a) \/ DialClearnet(a)

Spec == Init /\ [][Next]_vars

-----------------------------------------------------------------------------
(* Every variable has its type. *)
TypeOK ==
    /\ config \in Config /\ proxy \in BOOLEAN /\ listening \in BOOLEAN
    /\ phase \in {"called", "verified", "refused", "built"}
    /\ swarm \in {"none", "clearnet", "socks"}
    /\ dials \subseteq Multiaddr /\ dialed \in 0..MaxDial
    /\ wire \subseteq {"proxy", "direct"}

(* "traffic does not leak onto clearnet", whenever the proxy comes and     *)
(* goes: with Tor enabled no contact is ever made but through the proxy,   *)
(* nothing listens, and a call that was refused has no swarm.  Without Tor *)
(* "no proxy is contacted".                                                *)
NeverClearnet ==
    /\ config.tor_enabled => "direct" \notin wire /\ ~listening
    /\ ~config.tor_enabled => "proxy" \notin wire
    /\ phase = "refused" => swarm = "none" /\ wire = {}
=============================================================================
