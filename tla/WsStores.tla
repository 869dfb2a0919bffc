------------------------------ MODULE WsStores ------------------------------
(***************************************************************************)
(* The two stores of the WebSocket bridge (the fields store and            *)
(* prekey_store of WsState, relay/src/ws.rs) are RelayStores: the tasks of *)
(* the connections are their callers, and what a task has computed before  *)
(* it enters a store is the call that waits for the mutex.                 *)
(***************************************************************************)
EXTENDS WsRelay

ASSUME CallAssumption == Nothing \notin [to : Identity, envelope : Msg, expiry : Nat]

TTLOf(op) == IF op = "publish_prekey" THEN PrekeyTTL ELSE EnvelopeTTL

(* A store only knows the payloads of its own operation `op`: the others   *)
(* are "new" to it.                                                        *)
BoxCalls(op) ==
    [c \in Conn |-> IF pc[c] = "inserting" /\ req[c].op = op
                      THEN [to |-> req[c].id, envelope |-> req[c].msg,
                            expiry |-> calledAt[req[c].msg] + TTLOf(op)]
                      ELSE Nothing]

BoxCalledAt(op) ==
    [m \in Msg |-> IF origin[m] # Nothing /\ origin[m].op = op THEN calledAt[m] ELSE 0]

BoxFate(op) ==
    [m \in Msg |->
        IF origin[m] = Nothing THEN "new"
        ELSE IF origin[m].op # op THEN "new"
        ELSE IF fate[m] \in {"taken", "received", "lost"} THEN "delivered"
        ELSE IF \E c \in Conn : pc[c] = "inserting" /\ req[c].msg = m THEN "calling"
        ELSE IF fate[m] \in Stored THEN fate[m] ELSE "new"]

EnvelopeStore == INSTANCE RelayStore
    WITH Recipient <- Identity, Envelope <- Msg, Caller <- Conn, TTL <- EnvelopeTTL,
         inner <- store, calls <- BoxCalls("send_envelope"),
         calledAt <- BoxCalledAt("send_envelope"), fate <- BoxFate("send_envelope")

PrekeyStore == INSTANCE RelayStore
    WITH Recipient <- Identity, Envelope <- Msg, Caller <- Conn, TTL <- PrekeyTTL,
         inner <- prekeys, calls <- BoxCalls("publish_prekey"),
         calledAt <- BoxCalledAt("publish_prekey"), fate <- BoxFate("publish_prekey")

(* The two stores of the bridge, of envelopes and of prekey bundles, each  *)
(* with a time to live of its own, behave as RelayStore says of a store    *)
(* called by the connections' tasks: what is proved of RelayStore holds    *)
(* of them.                                                                *)
StoresRefined == EnvelopeStore!Spec /\ PrekeyStore!Spec
=============================================================================
