--------------------------- MODULE RelayConnection ---------------------------
(***************************************************************************)
(* How the web client becomes addressable: the retry loop that publishes a *)
(* prekey bundle (useRelayConnection, clients/web/src/useRelayConnection   *)
(* .tsx, with publishPrekeyForIdentity), the relay that keeps the bundle,  *)
(* and the receive loop of Conversation.tsx that takes the session over.   *)
(*                                                                         *)
(* Every run of the effect is a generation with a loop, a transport and a  *)
(* timer of its own; only the last one is not cancelled.  Every attempt    *)
(* makes a new session; a session is the number of the attempt, so that a  *)
(* bundle is named after the session that can decrypt for it.  A bundle    *)
(* that was sent arrives at the relay at any later time or never.          *)
(***************************************************************************)
EXTENDS Naturals

CONSTANTS Url,             \* relay urls
          Burst,           \* INITIAL_ATTEMPTS
          MaxGen,          \* bound on the runs of the effect
          MaxSession       \* bound on the publish attempts

Session == 1..MaxSession

VARIABLES mounted, relayUrl,
          gen,             \* the current run of the effect, 0 before the first
          loop,            \* what the current run does: publishing, timer, done
          attemptIdx,
          current,         \* the session of the current attempt
          made,            \* number of sessions made
          status, receiverSession, sessionActive,
          onWire,          \* bundles on their way: <<url, session>>
          published,       \* [Url -> the session of the bundle the relay has, 0: none]
          acked,           \* sessions whose bundle a relay stored
          convRef          \* Conversation's receiverSessionRef, 0: null

vars == <<mounted, relayUrl, gen, loop, attemptIdx, current, made, status, receiverSession,
          sessionActive, onWire, published, acked, convRef>>

Init ==
    /\ mounted = TRUE /\ relayUrl \in Url
    /\ gen = 0 /\ loop = "off" /\ attemptIdx = 0
    /\ current = 0 /\ made = 0
    /\ status = "connecting" /\ receiverSession = 0 /\ sessionActive = FALSE
    /\ onWire = {} /\ published = [u \in Url |-> 0] /\ acked = {}
    /\ convRef = 0

-----------------------------------------------------------------------------
(* tick, up to its await: a new session, whose bundle is sent or never     *)
(* leaves.                                                                 *)
Tick(u, idx) ==
    /\ made < MaxSession
    /\ made' = made + 1
    /\ current' = made'
    /\ loop' = "publishing"
    /\ status' = IF idx < Burst THEN "connecting" ELSE status
    /\ onWire' = onWire \cup {<<u, made'>>}

(* Mutant: a new run of the effect keeps the session of the previous one. *)
RunEffectKeeps(u) ==
    /\ mounted /\ gen < MaxGen
    /\ gen' = gen + 1
    /\ attemptIdx' = 0
    /\ Tick(u, 0)
    /\ relayUrl' = u
    /\ UNCHANGED <<mounted, published, acked, convRef, receiverSession, sessionActive>>

(* The effect runs: its previous run is cleaned up, which cancels its loop *)
(* and timer and closes its transport; the session is dropped.             *)
RunEffect(u) ==
    /\ mounted /\ gen < MaxGen
    /\ gen' = gen + 1
    /\ receiverSession' = 0 /\ sessionActive' = FALSE
    /\ attemptIdx' = 0
    /\ Tick(u, 0)
    /\ relayUrl' = u
    /\ UNCHANGED <<mounted, published, acked, convRef>>

(* The identity is loaded, the url changes, or retry() is called (which    *)
(* the panel offers when the relay is unreachable).                        *)
IdentityLoaded == gen = 0 /\ RunEffect(relayUrl)

ChangeUrl(u) == gen # 0 /\ u # relayUrl /\ RunEffect(u)

Retry == gen # 0 /\ status = "unreachable" /\ RunEffect(relayUrl)

(* Before the identity is there, only the url changes. *)
SetUrl(u) ==
    /\ mounted /\ gen = 0 /\ u # relayUrl
    /\ relayUrl' = u
    /\ UNCHANGED <<mounted, gen, loop, attemptIdx, current, made, status, receiverSession,
                   sessionActive, onWire, published, acked, convRef>>

Unmount ==
    /\ mounted
    /\ mounted' = FALSE
    /\ loop' = "off" /\ sessionActive' = FALSE
    /\ UNCHANGED <<relayUrl, gen, attemptIdx, current, made, status, receiverSession,
                   onWire, published, acked, convRef>>

(* The relay stores a bundle, in place of the one it has. *)
Stores(u, s) ==
    /\ <<u, s>> \in onWire
    /\ onWire' = onWire \ {<<u, s>>}
    /\ published' = [published EXCEPT ![u] = s]
    /\ acked' = acked \cup {s}
    /\ UNCHANGED <<mounted, relayUrl, gen, loop, attemptIdx, current, made, status,
                   receiverSession, sessionActive, convRef>>

(* A bundle is lost on the way, or refused by the relay. *)
Lost(u, s) ==
    /\ <<u, s>> \in onWire
    /\ onWire' = onWire \ {<<u, s>>}
    /\ UNCHANGED <<mounted, relayUrl, gen, loop, attemptIdx, current, made, status,
                   receiverSession, sessionActive, published, acked, convRef>>

(* The relay's answer resolves the publish of the current run. *)
PublishOk ==
    /\ loop = "publishing" /\ current \in acked
    /\ loop' = "done"
    /\ receiverSession' = current /\ sessionActive' = TRUE
    /\ status' = "connected"
    /\ UNCHANGED <<mounted, relayUrl, gen, attemptIdx, current, made, onWire, published,
                   acked, convRef>>

(* Mutant: the burst ends without another timer. *)
PublishFailsStops ==
    /\ loop = "publishing"
    /\ attemptIdx' = IF attemptIdx < Burst THEN attemptIdx + 1 ELSE attemptIdx
    /\ IF attemptIdx' < Burst
         THEN loop' = "timer" /\ UNCHANGED <<status, sessionActive>>
         ELSE loop' = "done" /\ status' = "unreachable" /\ sessionActive' = FALSE
    /\ UNCHANGED <<mounted, relayUrl, gen, current, made, receiverSession, onWire, published,
                   acked, convRef>>

(* It fails, wherever the bundle is: the next attempt is scheduled; after  *)
(* the burst the relay counts as unreachable.  (attemptIdx goes on         *)
(* counting in the code; only its comparison with Burst matters.)          *)
PublishFails ==
    /\ loop = "publishing"
    /\ attemptIdx' = IF attemptIdx < Burst THEN attemptIdx + 1 ELSE attemptIdx
    /\ loop' = "timer"
    /\ IF attemptIdx' < Burst
         THEN UNCHANGED <<status, sessionActive>>
         ELSE status' = "unreachable" /\ sessionActive' = FALSE
    /\ UNCHANGED <<mounted, relayUrl, gen, current, made, receiverSession, onWire, published,
                   acked, convRef>>

TimerFires ==
    /\ loop = "timer"
    /\ Tick(relayUrl, attemptIdx)
    /\ UNCHANGED <<mounted, relayUrl, gen, attemptIdx, receiverSession, sessionActive,
                   published, acked, convRef>>

-----------------------------------------------------------------------------
(* pollOnce of Conversation takes the session over, once per mount. *)
ConversationPolls ==
    /\ mounted /\ convRef = 0 /\ receiverSession # 0
    /\ convRef' = receiverSession
    /\ UNCHANGED <<mounted, relayUrl, gen, loop, attemptIdx, current, made, status,
                   receiverSession, sessionActive, onWire, published, acked>>

(* The user leaves the direct view: Conversation is unmounted. *)
ConversationUnmounts ==
    /\ convRef # 0
    /\ convRef' = 0
    /\ UNCHANGED <<mounted, relayUrl, gen, loop, attemptIdx, current, made, status,
                   receiverSession, sessionActive, onWire, published, acked>>

(* A peer looks the bundle up, which removes it. *)
LookedUp(u) ==
    /\ published[u] # 0
    /\ published' = [published EXCEPT ![u] = 0]
    /\ UNCHANGED <<mounted, relayUrl, gen, loop, attemptIdx, current, made, status,
                   receiverSession, sessionActive, onWire, acked, convRef>>

Next ==
    \/ IdentityLoaded \/ Retry \/ Unmount
    \/ PublishOk \/ PublishFails \/ TimerFires
    \/ ConversationPolls \/ ConversationUnmounts
    \/ \E u \in Url : ChangeUrl(u) \/ SetUrl(u) \/ LookedUp(u)
    \/ \E u \in Url, s \in Session : Stores(u, s) \/ Lost(u, s)

Spec == Init /\ [][Next]_vars

(* Timers fire, that of the receive loop too, and a publish is settled (RelayTransport: *)
(* OpSettles).                                                                         *)
Fairness == WF_vars(TimerFires) /\ WF_vars(PublishOk \/ PublishFails) /\ WF_vars(ConversationPolls)

-----------------------------------------------------------------------------
(* Every variable has its type. *)
TypeOK ==
    /\ mounted \in BOOLEAN /\ relayUrl \in Url
    /\ gen \in 0..MaxGen /\ attemptIdx \in 0..Burst
    /\ loop \in {"off", "publishing", "timer", "done"}
    /\ current \in 0..made /\ made \in 0..MaxSession
    /\ status \in {"connecting", "connected", "unreachable"}
    /\ receiverSession \in 0..made /\ sessionActive \in BOOLEAN
    /\ onWire \subseteq Url \X Session
    /\ published \in [Url -> 0..made] /\ acked \subseteq Session
    /\ convRef \in 0..made

(* What the panel, the reload warning and the receive loop are told agree: *)
(* while mounted, the client is "connected" exactly when it holds a        *)
(* receiver session, the session_active flag of WarningBanner says so, and *)
(* the bundle of that session reached a relay in this run of the effect.   *)
StatusHonest ==
    TypeOK /\ (mounted =>
        /\ status = "connected" <=> receiverSession # 0
        /\ sessionActive <=> receiverSession # 0
        /\ receiverSession # 0 => receiverSession = current /\ current \in acked)

(* "After the burst is exhausted we keep trying on a slower cadence so a   *)
(* relay that comes up later is picked up without a reload": as long as    *)
(* the client is not connected, another attempt is made (the bounds on     *)
(* runs and attempts aside).                                               *)
KeepsTrying ==
    [](mounted /\ gen # 0 /\ made < MaxSession =>
         <>(loop = "publishing" \/ status = "connected" \/ ~mounted \/ made = MaxSession))

(* "drop any receiver session from a previous relay so Conversation        *)
(* doesn't keep decrypting with a session whose bundle was published to a  *)
(* different (or now-unreachable) relay": when the hook has a new session, *)
(* the receive loop comes to use it, or the view or the new session goes.  *)
SessionFollows ==
    receiverSession # 0 /\ convRef \notin {0, receiverSession}
        ~> convRef = receiverSession \/ convRef = 0 \/ receiverSession = 0 \/ ~mounted
=============================================================================
