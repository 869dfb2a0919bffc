----------------------------- MODULE RelayClient -----------------------------
(***************************************************************************)
(* WsRelayClient (relay/src/ws.rs), the Rust client of the WebSocket       *)
(* bridge.  Each operation is one or two round trips; a reply carries no   *)
(* request id, so `round_trip` takes the next text frame for the answer.   *)
(* The caller may drop the future of an operation at any await, and the    *)
(* connection may break at any moment.  The relay end is reduced to what   *)
(* the client sees of it (WsRelay models it in full): it answers requests  *)
(* in order, may refuse one, takes a challenge once, and keeps one bundle  *)
(* and one envelope.                                                       *)
(***************************************************************************)
EXTENDS Naturals, Sequences

CONSTANTS Item,         \* bundles and envelopes
          None,         \* no item, no call
          MaxRequest    \* bound on requests sent

VARIABLES stream,       \* Some / None of the client, and whether the connection is up
          call,         \* operation in progress: its request number and step, or None
          requests,     \* frames on their way to the relay
          replies,      \* frames on their way to the client
          n,            \* requests sent
          challenges,   \* unused challenges at the relay
          held,         \* ["bundle", "envelope" -> item at the relay]
          result,       \* what the last operation returned
          stored,       \* numbers of the requests that stored their item
          cancelled,    \* a call was dropped on this connection
          broken        \* the connection broke

vars == <<stream, call, requests, replies, n, challenges, held, result, stored,
          cancelled, broken>>

Operation == {"publish_prekey", "lookup_prekey", "send_envelope", "pickup_envelope"}
Writes(op) == op \in {"publish_prekey", "send_envelope"}
SlotOf(op) == IF op \in {"publish_prekey", "lookup_prekey"} THEN "bundle" ELSE "envelope"

Init ==
    /\ stream = "some" /\ call = None /\ requests = <<>> /\ replies = <<>> /\ n = 0
    /\ challenges = {} /\ held = [s \in {"bundle", "envelope"} |-> None]
    /\ result = [op |-> "none", n |-> 0, outcome |-> "none", item |-> None]
    /\ stored = {} /\ cancelled = FALSE /\ broken = FALSE

Relay == <<challenges, held, stored>>

-----------------------------------------------------------------------------
(* The frame that round_trip sends; a broken connection may still take it, and loses it *)
Send(r) == requests' = IF broken THEN requests ELSE Append(requests, r)

(* An operation starts: one that writes asks for a challenge first. *)
Start(op, item) ==
    /\ call = None /\ n < MaxRequest
    /\ stream = "some"
    /\ n' = n + 1
    /\ call' = [op |-> op, step |-> IF Writes(op) THEN "challenge" ELSE "request", n |-> n + 1, item |-> item]
    /\ Send([op |-> IF Writes(op) THEN "challenge" ELSE op, n |-> n + 1, item |-> item, challenge |-> 0])
    /\ UNCHANGED <<stream, replies, Relay, result, cancelled, broken>>

(* stream_mut, or the send on a broken connection: nothing is sent *)
StartFails(op) ==
    /\ call = None /\ (stream = "none" \/ broken)
    /\ result' = [op |-> op, n |-> 0, outcome |-> "ConnectionUnavailable", item |-> None]
    /\ UNCHANGED <<stream, call, requests, replies, n, Relay, cancelled, broken>>

Return(outcome, item) ==
    /\ call' = None
    /\ result' = [op |-> call.op, n |-> call.n, outcome |-> outcome, item |-> item]

(* The reply r read by the second step of solve_challenge: the solution goes out with  *)
(* the request itself.  A refusal, a reply without a challenge, a search for the       *)
(* solution that gives up and a send that fails are errors.                            *)
Challenged(r) ==
    \/ /\ r.outcome = "ok" /\ r.field = "challenge" /\ n < MaxRequest
       /\ n' = n + 1
       /\ call' = [call EXCEPT !.step = "request", !.n = n + 1]
       /\ Send([op |-> call.op, n |-> n + 1, item |-> call.item, challenge |-> r.n])
       /\ UNCHANGED result
    \/ /\ Return("error", None)
       /\ UNCHANGED <<n, requests>>

(* The reply r read by the last step: a read needs the field it asked for. *)
Answered(r) ==
    Return(IF r.outcome # "ok" THEN r.outcome
           ELSE IF ~Writes(call.op) /\ r.field # SlotOf(call.op) THEN "error" ELSE "ok",
           IF r.outcome = "ok" /\ ~Writes(call.op) /\ r.field = SlotOf(call.op) THEN r.item ELSE None)

(* round_trip reads a text frame *)
Receive ==
    /\ call # None /\ replies # <<>>
    /\ replies' = Tail(replies)
    /\ IF call.step = "challenge" THEN Challenged(Head(replies))
       ELSE /\ Answered(Head(replies)) /\ UNCHANGED <<n, requests>>
    /\ UNCHANGED <<stream, Relay, cancelled, broken>>

(* Mutant: the write was sent, so it is taken to have succeeded. *)
ReceiveEndIsOk ==
    /\ call # None /\ replies = <<>> /\ broken
    /\ Return(IF call.step = "request" /\ Writes(call.op) THEN "ok" ELSE "ConnectionUnavailable", None)
    /\ stream' \in {"some", "none"}
    /\ UNCHANGED <<requests, replies, n, Relay, cancelled, broken>>

(* round_trip reads the end of the stream, or an error, which keeps the stream *)
ReceiveEnd ==
    /\ call # None /\ replies = <<>> /\ broken
    /\ Return("ConnectionUnavailable", None)
    /\ stream' \in {"some", "none"}
    /\ UNCHANGED <<requests, replies, n, Relay, cancelled, broken>>

(* The caller drops the future: a timeout, a select *)
Cancel ==
    /\ call # None
    /\ call' = None /\ cancelled' = TRUE
    /\ UNCHANGED <<stream, requests, replies, n, Relay, result, broken>>

Close ==
    /\ call = None /\ stream = "some"
    /\ stream' = "none"
    /\ UNCHANGED <<call, requests, replies, n, Relay, result, cancelled, broken>>

-----------------------------------------------------------------------------
Reply(r, outcome, field, item) ==
    replies' = IF broken THEN replies
               ELSE Append(replies, [n |-> r.n, outcome |-> outcome, field |-> field, item |-> item])

(* The relay answers the next request; broken, it may still carry it out. *)
Answer ==
    /\ requests # <<>>
    /\ LET r == Head(requests)
       IN  \/ /\ Reply(r, "error", "none", None)
              /\ UNCHANGED Relay
           \/ /\ r.op = "challenge"
              /\ challenges' = challenges \cup {r.n}
              /\ Reply(r, "ok", "challenge", None)
              /\ UNCHANGED <<held, stored>>
           \/ /\ Writes(r.op) /\ r.challenge \in challenges
              /\ challenges' = challenges \ {r.challenge}
              /\ held' = [held EXCEPT ![SlotOf(r.op)] = r.item]
              /\ stored' = stored \cup {r.n}
              /\ Reply(r, "ok", "none", None)
           \/ /\ r.op \in {"lookup_prekey", "pickup_envelope"}
              /\ LET i == held[SlotOf(r.op)]
                 IN  /\ IF i = None THEN Reply(r, "NotFound", "none", None) ELSE Reply(r, "ok", SlotOf(r.op), i)
                     /\ held' = [held EXCEPT ![SlotOf(r.op)] = None]
              /\ UNCHANGED <<challenges, stored>>
    /\ requests' = Tail(requests)
    /\ UNCHANGED <<stream, call, n, result, cancelled, broken>>

(* The connection breaks: some of what is on its way is lost, in both directions. *)
Break ==
    /\ ~broken
    /\ broken' = TRUE
    /\ \E i \in 0..Len(requests) : requests' = SubSeq(requests, 1, i)
    /\ \E i \in 0..Len(replies) : replies' = SubSeq(replies, 1, i)
    /\ UNCHANGED <<stream, call, n, Relay, result, cancelled>>

Next ==
    \/ \E op \in Operation, i \in Item : Start(op, i)
    \/ \E op \in Operation : StartFails(op)
    \/ Receive
    \/ ReceiveEnd
    \/ Cancel
    \/ Close
    \/ Answer
    \/ Break

Spec == Init /\ [][Next]_vars

-----------------------------------------------------------------------------
(* Every variable has its type. *)
TypeOK ==
    /\ stream \in {"some", "none"} /\ n \in 0..MaxRequest
    /\ call # None => call.op \in Operation /\ call.step \in {"challenge", "request"} /\ call.n \in 1..n
    /\ \A i \in DOMAIN requests : requests[i].n \in 1..n
    /\ \A i \in DOMAIN replies : replies[i].n \in 1..n
    /\ challenges \subseteq 1..n /\ stored \subseteq 1..n
    /\ held \in [{"bundle", "envelope"} -> Item \cup {None}]
    /\ result.outcome \in {"none", "ok", "error", "NotFound", "ConnectionUnavailable"}
    /\ cancelled \in BOOLEAN /\ broken \in BOOLEAN

(* A publish or a send that returns Ok was stored by the relay, whatever   *)
(* breaks, as long as no call was dropped on the connection.               *)
OkIsStored == ~cancelled /\ Writes(result.op) /\ result.outcome = "ok" => result.n \in stored
=============================================================================
