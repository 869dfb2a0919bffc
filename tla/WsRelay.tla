------------------------------ MODULE WsRelay ------------------------------
(***************************************************************************)
(* The WebSocket bridge of the relay (relay/src/ws.rs): one task per       *)
(* connection serves its frames in order; the tasks run in parallel and    *)
(* share the rate limiter, the proof-of-work challenges and two stores.    *)
(*                                                                         *)
(* A request is handled in the steps between which another task can run:   *)
(* the frame is read (and the clock with it), the limiter is asked, a      *)
(* challenge is issued or redeemed, the payload is decoded (and the expiry *)
(* computed), the store is entered, the reply is sent.  pc[c] names the    *)
(* step task c takes next.                                                 *)
(*                                                                         *)
(* A payload is the number of the frame that carried it.  A challenge is   *)
(* the number of its nonce.  What a frame says besides (whether a solution *)
(* decodes and solves the challenge, whether a payload decodes) is chosen  *)
(* where the handler looks at it.                                          *)
(***************************************************************************)
EXTENDS Naturals, FiniteSets

CONSTANTS Conn,          \* connections
          Identity,      \* recipient ids, the keys of the limiter and the stores
          PerMinute, WindowArg, NoBucket,    \* the rate limiter
          PrekeyTTL, EnvelopeTTL, Nothing,   \* the stores
          MaxClock, MaxMsg, MaxChallenge     \* bounds

Msg == 1..MaxMsg
ChallengeId == Nat \ {0}

ReadOp == {"lookup_prekey", "pickup_envelope"}
WriteOp == {"publish_prekey", "send_envelope"}

Request == [op : {"challenge"} \cup ReadOp \cup WriteOp, id : Identity, msg : 0..MaxMsg,
            cid : ChallengeId \cup {0}]

Origin == [op : WriteOp, id : Identity]

ASSUME WsAssumption ==
    /\ PerMinute \in Nat /\ WindowArg \in Nat
    /\ PrekeyTTL \in Nat /\ EnvelopeTTL \in Nat
    /\ MaxClock \in Nat /\ MaxMsg \in Nat /\ MaxChallenge \in Nat
    /\ NoBucket \notin [tokens : Nat, start : Nat]
    /\ Nothing \notin [envelope : Msg, expiry : Nat]
    /\ Nothing \notin Request \cup Origin

VARIABLES split,         \* the ids whose 8th byte is inside a character
          clock,         \* seconds; both SystemTime and Instant
          buckets,       \* the rate limiter's map
          challenges,    \* the active challenges
          issued,        \* number of challenges issued so far
          store,         \* envelopes
          prekeys,       \* prekey bundles
          pc,            \* the next step of each connection's task
          req,           \* the request each task works on
          now,           \* the time each handler read when it started
          resp,          \* the response each task is about to send
          arrived,       \* number of payloads received so far
          origin,        \* [payload -> the operation and recipient it came with]
          paid,          \* [payload -> the challenge redeemed for it, or 0]
          calledAt,      \* [payload -> the time its expiry was computed]
          fate           \* [payload -> what became of it]

vars == <<split, clock, buckets, challenges, issued, store, prekeys, pc, req, now, resp,
          arrived, origin, paid, calledAt, fate>>

Response == [kind : {"none", "ok", "challenge", "data", "error", "badframe"}, msg : 0..MaxMsg]

Silent == [kind |-> "none", msg |-> 0]

Stored == {"held", "taken", "received", "lost", "expired", "overwritten"}

Fate == {"new", "arrived", "rejected"} \cup Stored

Step == {"closed", "idle", "limiting", "issuing", "proving", "decoding",
         "inserting", "taking", "replying"}

-----------------------------------------------------------------------------
(* The components: the limiter's buckets and the maps of the two stores. *)
Limiter == INSTANCE TokenBuckets

Envelopes == INSTANCE StoreSlots WITH inner <- store, Envelope <- Msg

Prekeys == INSTANCE StoreSlots WITH inner <- prekeys, Envelope <- Msg

-----------------------------------------------------------------------------
Init ==
    /\ split \in SUBSET Identity
    /\ clock = 0
    /\ buckets = [i \in Identity |-> NoBucket]
    /\ challenges = {} /\ issued = 0
    /\ store = [i \in Identity |-> Nothing]
    /\ prekeys = [i \in Identity |-> Nothing]
    /\ pc = [c \in Conn |-> "closed"]
    /\ req = [c \in Conn |-> Nothing]
    /\ now = [c \in Conn |-> 0]
    /\ resp = [c \in Conn |-> Silent]
    /\ arrived = 0
    /\ origin = [m \in Msg |-> Nothing]
    /\ paid = [m \in Msg |-> 0]
    /\ calledAt = [m \in Msg |-> 0]
    /\ fate = [m \in Msg |-> "new"]

Goto(c, step) == pc' = [pc EXCEPT ![c] = step]

(* The handler of c returns a response. *)
Return(c, kind, m) ==
    /\ Goto(c, "replying")
    /\ resp' = [resp EXCEPT ![c] = [kind |-> kind, msg |-> m]]

(* The task of c ends: it drops what it holds. *)
EndTask(c) ==
    /\ Goto(c, "closed")
    /\ req' = [req EXCEPT ![c] = Nothing]
    /\ now' = [now EXCEPT ![c] = 0]
    /\ resp' = [resp EXCEPT ![c] = Silent]

(* A return that logs truncate_id(recipient_id) first: slicing the id at   *)
(* byte 8 panics when that is inside a character, and the task ends.       *)
LogAndReturn(c, kind, m) ==
    IF req[c].id \in split
      THEN EndTask(c)
      ELSE Return(c, kind, m) /\ UNCHANGED <<req, now>>

(* The payload of the request of c, if it has one, is refused. *)
Rejected(c) ==
    fate' = IF req[c].op \in WriteOp THEN [fate EXCEPT ![req[c].msg] = "rejected"] ELSE fate

-----------------------------------------------------------------------------
(* serve_listener accepts a connection; handle_connection waits for frames. *)
Accept(c) ==
    /\ pc[c] = "closed"
    /\ Goto(c, "idle")
    /\ UNCHANGED <<split, clock, buckets, challenges, issued, store, prekeys, req, now, resp,
                   arrived, origin, paid, calledAt, fate>>

(* A close frame, the end of the stream or an error ends handle_connection. *)
Disconnect(c) ==
    /\ pc[c] = "idle"
    /\ EndTask(c)
    /\ UNCHANGED <<split, clock, buckets, challenges, issued, store, prekeys,
                   arrived, origin, paid, calledAt, fate>>

(* A binary frame, or a text frame that is not a request, is answered with *)
(* an error.                                                               *)
BadFrame(c) ==
    /\ pc[c] = "idle"
    /\ Return(c, "badframe", 0)
    /\ UNCHANGED <<split, clock, buckets, challenges, issued, store, prekeys, req, now,
                   arrived, origin, paid, calledAt, fate>>

(* A request is read, and `now` with it, before the limiter is locked. *)
Receive(c, r) ==
    /\ pc[c] = "idle"
    /\ Goto(c, "limiting")
    /\ req' = [req EXCEPT ![c] = r]
    /\ now' = [now EXCEPT ![c] = clock]
    /\ UNCHANGED <<split, clock, buckets, challenges, issued, store, prekeys, resp,
                   paid, calledAt>>

(* Bound: the challenges issued and about to be issued. *)
ChallengeRoom ==
    issued + Cardinality({d \in Conn : /\ pc[d] \in {"limiting", "issuing"}
                                       /\ req[d].op = "challenge"}) < MaxChallenge

ReceiveChallenge(c, i) ==
    /\ ChallengeRoom
    /\ Receive(c, [op |-> "challenge", id |-> i, msg |-> 0, cid |-> 0])
    /\ UNCHANGED <<arrived, origin, fate>>

ReceiveRead(c, op, i) ==
    /\ Receive(c, [op |-> op, id |-> i, msg |-> 0, cid |-> 0])
    /\ UNCHANGED <<arrived, origin, fate>>

(* A payload with the id of a challenge (0: never issued). *)
ReceiveWrite(c, op, i, cid) ==
    /\ arrived < MaxMsg
    /\ arrived' = arrived + 1
    /\ Receive(c, [op |-> op, id |-> i, msg |-> arrived', cid |-> cid])
    /\ origin' = [origin EXCEPT ![arrived'] = [op |-> op, id |-> i]]
    /\ fate' = [fate EXCEPT ![arrived'] = "arrived"]

-----------------------------------------------------------------------------
(* The limiter admits the request of c ... *)
RateOk(c) ==
    /\ pc[c] = "limiting"
    /\ Limiter!Admit(req[c].id, now[c])
    /\ Goto(c, CASE req[c].op = "challenge" -> "issuing"
                 [] req[c].op \in WriteOp -> "proving"
                 [] req[c].op \in ReadOp -> "taking")
    /\ UNCHANGED <<split, clock, challenges, issued, store, prekeys, req, now, resp,
                   arrived, origin, paid, calledAt, fate>>

(* ... or refuses it, and nothing else is done. *)
RateLimitExceeded(c) ==
    /\ pc[c] = "limiting"
    /\ Limiter!Exceeded(req[c].id, now[c])
    /\ LogAndReturn(c, "error", 0)
    /\ Rejected(c)
    /\ UNCHANGED <<split, clock, challenges, issued, store, prekeys,
                   arrived, origin, paid, calledAt>>

(* The challenge arm: a fresh nonce becomes an active challenge. *)
IssueChallenge(c) ==
    /\ pc[c] = "issuing"
    /\ issued' = issued + 1
    /\ challenges' = challenges \cup {issued'}
    /\ Return(c, "challenge", 0)
    /\ UNCHANGED <<split, clock, buckets, store, prekeys, req, now,
                   arrived, origin, paid, calledAt, fate>>

(* Mutant: the challenge is looked up and left in the map. *)
RedeemKeeps(c) == UNCHANGED challenges

(* verify_pow takes the challenge out of the map. *)
Redeem(c) == challenges' = challenges \ {req[c].cid}

(* The solution decodes, the challenge is active and the digest is small. *)
PowOk(c) ==
    /\ pc[c] = "proving"
    /\ req[c].cid \in challenges
    /\ Redeem(c)
    /\ paid' = [paid EXCEPT ![req[c].msg] = req[c].cid]
    /\ Goto(c, "decoding")
    /\ UNCHANGED <<split, clock, buckets, issued, store, prekeys, req, now, resp,
                   arrived, origin, calledAt, fate>>

(* Mutant: an unknown challenge is waited for, not refused. *)
PowFailedWaits(c) ==
    /\ pc[c] = "proving" /\ req[c].cid \in challenges
    /\ UNCHANGED challenges \/ Redeem(c)
    /\ LogAndReturn(c, "error", 0)
    /\ Rejected(c)
    /\ UNCHANGED <<split, clock, buckets, issued, store, prekeys,
                   arrived, origin, paid, calledAt>>

(* A solution that does not decode leaves the challenge active; a wrong    *)
(* one uses it up; a challenge that is not active is no use.               *)
PowFailed(c) ==
    /\ pc[c] = "proving"
    /\ UNCHANGED challenges \/ Redeem(c)
    /\ LogAndReturn(c, "error", 0)
    /\ Rejected(c)
    /\ UNCHANGED <<split, clock, buckets, issued, store, prekeys,
                   arrived, origin, paid, calledAt>>

InvalidBase64(c) ==
    /\ pc[c] = "decoding"
    /\ Return(c, "error", 0)
    /\ Rejected(c)
    /\ UNCHANGED <<split, clock, buckets, challenges, issued, store, prekeys, req, now,
                   arrived, origin, paid, calledAt>>

(* The payload is decoded and RelayStore::store computes its expiry. *)
Decode(c) ==
    /\ pc[c] = "decoding"
    /\ calledAt' = [calledAt EXCEPT ![req[c].msg] = clock]
    /\ Goto(c, "inserting")
    /\ UNCHANGED <<split, clock, buckets, challenges, issued, store, prekeys, req, now, resp,
                   arrived, origin, paid, fate>>

-----------------------------------------------------------------------------
(* The payload in slot i of a box leaves it. *)
Leaves(f, box, i, how) ==
    IF box[i] = Nothing THEN f ELSE [f EXCEPT ![box[i].envelope] = how]

(* Mutant: an occupied slot is reported as an error after the insert. *)
EntersOccupied(c, box) ==
    /\ fate' = [Leaves(fate, box, req[c].id, "overwritten") EXCEPT ![req[c].msg] = "held"]
    /\ LogAndReturn(c, IF box[req[c].id] = Nothing THEN "ok" ELSE "error", 0)
    /\ UNCHANGED <<split, clock, buckets, challenges, issued,
                   arrived, origin, paid, calledAt>>

(* The end of the two write arms: the payload enters the box, replacing    *)
(* what is there, and the success is logged.                               *)
Enters(c, box) ==
    /\ fate' = [Leaves(fate, box, req[c].id, "overwritten") EXCEPT ![req[c].msg] = "held"]
    /\ LogAndReturn(c, "ok", 0)
    /\ UNCHANGED <<split, clock, buckets, challenges, issued,
                   arrived, origin, paid, calledAt>>

PublishPrekey(c) ==
    /\ pc[c] = "inserting" /\ req[c].op = "publish_prekey"
    /\ Prekeys!Insert(req[c].id, req[c].msg, calledAt[req[c].msg] + PrekeyTTL)
    /\ Enters(c, prekeys)
    /\ UNCHANGED store

(* Mutant: the expiry is computed under the lock, from the handler's now. *)
SendEnvelopeNow(c) ==
    /\ pc[c] = "inserting" /\ req[c].op = "send_envelope"
    /\ Envelopes!Insert(req[c].id, req[c].msg, now[c] + EnvelopeTTL)
    /\ Enters(c, store)
    /\ UNCHANGED prekeys

SendEnvelope(c) ==
    /\ pc[c] = "inserting" /\ req[c].op = "send_envelope"
    /\ Envelopes!Insert(req[c].id, req[c].msg, calledAt[req[c].msg] + EnvelopeTTL)
    /\ Enters(c, store)
    /\ UNCHANGED prekeys

(* RelayStore::pickup returns Ok(data) and the payload is on its way. *)
Hands(c, box) ==
    /\ Return(c, "data", box[req[c].id].envelope)
    /\ fate' = Leaves(fate, box, req[c].id, "taken")

(* It returns Err(Expired) or Err(NotFound). *)
Misses(c, box) ==
    /\ Return(c, "error", 0)
    /\ fate' = Leaves(fate, box, req[c].id, "expired")

LookupPrekey(c) ==
    /\ pc[c] = "taking" /\ req[c].op = "lookup_prekey"
    /\ \/ Prekeys!PickupOk(req[c].id) /\ Hands(c, prekeys)
       \/ Prekeys!PickupExpired(req[c].id) /\ Misses(c, prekeys)
       \/ Prekeys!PickupNotFound(req[c].id) /\ Misses(c, prekeys)
    /\ UNCHANGED <<split, clock, buckets, challenges, issued, store, req, now,
                   arrived, origin, paid, calledAt>>

PickupEnvelope(c) ==
    /\ pc[c] = "taking" /\ req[c].op = "pickup_envelope"
    /\ \/ Envelopes!PickupOk(req[c].id) /\ Hands(c, store)
       \/ Envelopes!PickupExpired(req[c].id) /\ Misses(c, store)
       \/ Envelopes!PickupNotFound(req[c].id) /\ Misses(c, store)
    /\ UNCHANGED <<split, clock, buckets, challenges, issued, prekeys, req, now,
                   arrived, origin, paid, calledAt>>

-----------------------------------------------------------------------------
(* What a payload that is part of the response of c becomes. *)
Answered(c, how) ==
    fate' = IF resp[c].kind = "data" THEN [fate EXCEPT ![resp[c].msg] = how] ELSE fate

(* The reply is sent; the task goes back to its next frame. *)
Reply(c) ==
    /\ pc[c] = "replying"
    /\ Goto(c, "idle")
    /\ Answered(c, "received")
    /\ req' = [req EXCEPT ![c] = Nothing]
    /\ now' = [now EXCEPT ![c] = 0]
    /\ resp' = [resp EXCEPT ![c] = Silent]
    /\ UNCHANGED <<split, clock, buckets, challenges, issued, store, prekeys,
                   arrived, origin, paid, calledAt>>

(* The peer is gone: the reply to a request is lost and the task ends; the *)
(* outcome of sending the reply to a bad frame is ignored.                 *)
ReplyFails(c) ==
    /\ pc[c] = "replying" /\ resp[c].kind # "badframe"
    /\ EndTask(c)
    /\ Answered(c, "lost")
    /\ UNCHANGED <<split, clock, buckets, challenges, issued, store, prekeys,
                   arrived, origin, paid, calledAt>>

Tick ==
    /\ clock < MaxClock
    /\ clock' = clock + 1
    /\ UNCHANGED <<split, buckets, challenges, issued, store, prekeys, pc, req, now, resp,
                   arrived, origin, paid, calledAt, fate>>

(* What the handler of c does between a frame and its reply. *)
Handle(c) ==
    \/ RateOk(c) \/ RateLimitExceeded(c)
    \/ IssueChallenge(c)
    \/ PowOk(c) \/ PowFailed(c)
    \/ InvalidBase64(c) \/ Decode(c)
    \/ PublishPrekey(c) \/ SendEnvelope(c)
    \/ LookupPrekey(c) \/ PickupEnvelope(c)
    \/ Reply(c) \/ ReplyFails(c)

Frame(c) ==
    \/ Accept(c) \/ Disconnect(c) \/ BadFrame(c)
    \/ \E i \in Identity :
         \/ ReceiveChallenge(c, i)
         \/ \E op \in ReadOp : ReceiveRead(c, op, i)
         \/ \E op \in WriteOp, cid \in 0..issued : ReceiveWrite(c, op, i, cid)

Next == Tick \/ \E c \in Conn : Frame(c) \/ Handle(c)

Spec == Init /\ [][Next]_vars

(* The runtime polls every task that can run.  Sending a reply is not      *)
(* fair: ws.send(..).await has no timeout and waits for as long as the     *)
(* peer does not read its socket.                                          *)
FairSpec == Spec /\ \A c \in Conn : WF_vars(pc[c] # "replying" /\ Handle(c))

-----------------------------------------------------------------------------
(* Every variable has its type. *)
TypeOK ==
    /\ split \subseteq Identity
    /\ clock \in Nat
    /\ buckets \in [Identity -> Limiter!Bucket \cup {NoBucket}]
    /\ challenges \subseteq ChallengeId /\ issued \in Nat
    /\ store \in [Identity -> Envelopes!Slot \cup {Nothing}]
    /\ prekeys \in [Identity -> Prekeys!Slot \cup {Nothing}]
    /\ pc \in [Conn -> Step]
    /\ req \in [Conn -> Request \cup {Nothing}]
    /\ now \in [Conn -> Nat]
    /\ resp \in [Conn -> Response]
    /\ arrived \in 0..MaxMsg
    /\ origin \in [Msg -> Origin \cup {Nothing}]
    /\ paid \in [Msg -> ChallengeId \cup {0}]
    /\ calledAt \in [Msg -> Nat]
    /\ fate \in [Msg -> Fate]

(* verify_pow: "The challenge is single-use: it is removed from the active *)
(* set on lookup, preventing replay."  Every payload that entered a store  *)
(* was paid for with a challenge the relay issued, which is no longer      *)
(* active and paid for no other payload, however the tasks interleave.     *)
PaidOnce ==
    /\ \A m \in Msg : fate[m] \in Stored => paid[m] \in (1..issued) \ challenges
    /\ \A m, n \in Msg : paid[m] # 0 /\ paid[m] = paid[n] => m = n

(* The payload of m is in the box of its operation, for its recipient. *)
InBox(m) ==
    \/ \E i \in Identity : store[i] # Nothing /\ store[i].envelope = m
    \/ \E i \in Identity : prekeys[i] # Nothing /\ prekeys[i].envelope = m

(* handle_request delivers at most once and never to two tasks: a payload  *)
(* in the stores was accepted and is in one slot, that of its own          *)
(* operation and recipient; one that was picked up is in no slot and in    *)
(* the response of one task until the reply is sent or lost.               *)
AtMostOnce ==
    /\ TypeOK
    /\ \A m \in Msg : fate[m] = "held" <=> InBox(m)
    /\ \A i \in Identity :
         /\ store[i] # Nothing =>
              origin[store[i].envelope] = [op |-> "send_envelope", id |-> i]
         /\ prekeys[i] # Nothing =>
              origin[prekeys[i].envelope] = [op |-> "publish_prekey", id |-> i]
    /\ \A m \in Msg :
         fate[m] = "taken" <=> \E c \in Conn : resp[c].kind = "data" /\ resp[c].msg = m
    /\ \A c, d \in Conn :
         resp[c].kind = "data" /\ resp[d].kind = "data" /\ resp[c].msg = resp[d].msg => c = d

(* "any parse error, PoW failure, or rate-limit violation returns an error *)
(* response and does NOT perform the requested operation": a sender that   *)
(* is told of an error finds its payload rejected for good, one that is    *)
(* told ok had it stored.                                                  *)
FailClosed ==
    \A c \in Conn : pc[c] = "replying" /\ req[c] # Nothing /\ req[c].op \in WriteOp =>
        /\ resp[c].kind = "error" => fate[req[c].msg] = "rejected"
        /\ resp[c].kind = "ok" => fate[req[c].msg] \in Stored

(* RateLimiter::check under the bridge, which reads `now` before it waits  *)
(* for the limiter's lock: even with the clock read out of order, a window *)
(* is never reopened and two windows of an identity never overlap.         *)
WindowsDisjoint ==
    [][\A i \in Identity : buckets[i] # NoBucket =>
         \/ buckets'[i].start = buckets[i].start
         \/ buckets'[i].start >= buckets[i].start + Limiter!WindowSecs]_vars

(* handle_request comes to an end: a request that was read is worked up to *)
(* its response, or its task ends, since no lock is held across a wait for *)
(* another, and although other tasks may be stuck for good in a reply to a *)
(* peer that reads nothing.  Connections are interchangeable, so one       *)
(* stands for all.                                                         *)
EveryRequestAnswered ==
    LET c == CHOOSE d \in Conn : TRUE
    IN  pc[c] = "limiting" ~> pc[c] \in {"replying", "closed"}
=============================================================================
