----------------------------- MODULE MCWebRelay -----------------------------
(***************************************************************************)
(* The web client's way to the relay for TLC: its transport and the hook   *)
(* that publishes through transports of its own.  A behaviour works on the *)
(* one part that `focus` names; what the hook needs of a transport is that *)
(* a publish is settled (OpSettles).                                       *)
(***************************************************************************)
EXTENDS RelayTransport

CONSTANTS Url, Burst, MaxGen, MaxSession

(* The burst has at least one attempt. *)
ASSUME ConnectionAssumption ==
    Burst \in Nat \ {0} /\ MaxGen \in Nat /\ MaxSession \in Nat

VARIABLES focus, mounted, relayUrl, gen, loop, attemptIdx, current, made, status,
          receiverSession, sessionActive, onWire, published, acked, convRef

hook == <<mounted, relayUrl, gen, loop, attemptIdx, current, made, status,
          receiverSession, sessionActive, onWire, published, acked, convRef>>

C == INSTANCE RelayConnection

WebInit ==
    /\ focus \in {"transport", "connection"}
    /\ Init /\ (focus = "connection" => ~badUrl /\ ~peerCloses)
    /\ C!Init /\ (focus = "transport" => relayUrl = CHOOSE u \in Url : TRUE)

WebNext ==
    /\ UNCHANGED focus
    /\ \/ focus = "transport" /\ Next /\ UNCHANGED hook
       \/ focus = "connection" /\ C!Next /\ UNCHANGED vars

(* A part that is not in focus stays as it began, with nothing to be fair to. *)
WebSpec == WebInit /\ [][WebNext]_<<focus, vars, hook>> /\ Fairness /\ C!Fairness

-----------------------------------------------------------------------------
(* RelayConnection: status, session and reload warning agree. *)
StatusHonest == C!StatusHonest

(* RelayConnection: a client that is not connected goes on trying. *)
KeepsTrying == C!KeepsTrying

(* RelayConnection: the receive loop comes to use the hook's session. *)
SessionFollows == C!SessionFollows
=============================================================================
