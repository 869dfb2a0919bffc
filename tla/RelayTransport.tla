--------------------------- MODULE RelayTransport ---------------------------
(***************************************************************************)
(* The web client's relay connection (clients/web/src/relay_transport.ts): *)
(* one instance of RelayTransport, the operations called on it and the     *)
(* browser's WebSockets under it.                                          *)
(*                                                                         *)
(* JavaScript runs one task at a time: an event (a socket opens, fails,    *)
(* closes or gets a message) starts only when the queue of continuations,  *)
(* `micro`, is empty.  A frame is the operation and the leg it is sent in: *)
(* the operations in Write first get a challenge (leg 1), solve it and     *)
(* then submit (leg 2); the others have one leg.  The relay answers the    *)
(* frames of a socket in order.                                            *)
(***************************************************************************)
EXTENDS Naturals, Sequences, FiniteSets

CONSTANTS Op,                \* operations, each called once
          Write,             \* publishPrekey and sendEnvelope
          Lookup,            \* lookupPrekey; the others are pickupEnvelope
          None,
          Sequential,        \* callers await an operation before the next
          MaxSock            \* bound on the sockets created

ASSUME TransportAssumption ==
    /\ Write \subseteq Op /\ Lookup \subseteq Op \ Write /\ None \notin Op
    /\ Sequential \in BOOLEAN
    /\ MaxSock \in Nat

Sock == 1..MaxSock
Frame == [op : Op, leg : 1..2]

VARIABLES sock,            \* [Sock -> readyState, handlers set, frames not answered]
          used,            \* number of sockets created
          ws,              \* this.ws, 0 for null
          connectPromise,  \* the socket this.connectPromise waits for, 0 for null
          pending,         \* the operation of this.pending, or None
          pc,              \* [Op -> where the operation is]
          leg,             \* [Op -> the round trip it is in]
          on,              \* [Op -> the socket whose opening it awaits]
          got,             \* [Op -> the frame whose answer it was given, or None]
          micro,           \* continuations of ensureConnected that can run
          closeDue,        \* the socket whose error event has just fired, or 0
          badUrl,          \* the WebSocket constructor refuses the url
          peerCloses       \* the peer may start a closing handshake

vars == <<sock, used, ws, connectPromise, pending, pc, leg, on, got, micro, closeDue, badUrl, peerCloses>>

Settled == {"done", "failed"}
Step == {"idle", "connecting", "runnable", "waiting", "solving"} \cup Settled
SockState == {"unused", "connecting", "open", "closing", "closed"}

Active(o) == pc[o] \notin {"idle"} \cup Settled

Init ==
    /\ sock = [k \in Sock |-> [state |-> "unused", wired |-> FALSE, sent |-> <<>>]]
    /\ used = 0 /\ ws = 0 /\ connectPromise = 0
    /\ pending = None
    /\ pc = [o \in Op |-> "idle"]
    /\ leg = [o \in Op |-> 0]
    /\ on = [o \in Op |-> 0]
    /\ got = [o \in Op |-> None]
    /\ micro = <<>> /\ closeDue = 0
    /\ badUrl \in BOOLEAN /\ peerCloses \in BOOLEAN

-----------------------------------------------------------------------------
IsOpen == ws # 0 /\ sock[ws].state = "open"

(* o calls roundTrip, which calls ensureConnected. *)
ReuseSocket(o) ==
    /\ IsOpen
    /\ pc' = [pc EXCEPT ![o] = "runnable"]
    /\ micro' = Append(micro, o)
    /\ UNCHANGED <<sock, used, ws, connectPromise, on>>

JoinConnect(o) ==
    /\ ~IsOpen /\ connectPromise \in Sock
    /\ pc' = [pc EXCEPT ![o] = "connecting"]
    /\ on' = [on EXCEPT ![o] = connectPromise]
    /\ UNCHANGED <<sock, used, ws, connectPromise, micro>>

NewSocket(o) ==
    /\ ~IsOpen /\ connectPromise = 0 /\ ~badUrl /\ used < MaxSock
    /\ used' = used + 1
    /\ ws' = used' /\ connectPromise' = used'
    /\ sock' = [sock EXCEPT ![used'] = [state |-> "connecting", wired |-> TRUE, sent |-> <<>>]]
    /\ pc' = [pc EXCEPT ![o] = "connecting"]
    /\ on' = [on EXCEPT ![o] = used']
    /\ UNCHANGED micro

(* The constructor throws inside the promise's executor, which returns     *)
(* before connectPromise is assigned: the rejected promise stays.          *)
Rejected == MaxSock + 1

RefuseUrl(o) ==
    /\ ~IsOpen
    /\ connectPromise = Rejected \/ (connectPromise = 0 /\ badUrl)
    /\ connectPromise' = Rejected
    /\ pc' = [pc EXCEPT ![o] = "failed"]
    /\ UNCHANGED <<sock, used, ws, on, micro>>

RoundTrip(o) ==
    /\ leg' = [leg EXCEPT ![o] = leg[o] + 1]
    /\ ReuseSocket(o) \/ JoinConnect(o) \/ NewSocket(o) \/ RefuseUrl(o)
    /\ UNCHANGED <<pending, got, closeDue, badUrl, peerCloses>>

(* A caller starts operation o. *)
Call(o) ==
    /\ pc[o] = "idle"
    /\ Sequential => \A p \in Op : ~Active(p)
    /\ RoundTrip(o)

(* requestChallengeAndSolve has its solution; the second leg follows. *)
Submit(o) ==
    /\ pc[o] = "solving"
    /\ RoundTrip(o)

Request(o) == [op |-> o, leg |-> leg[o]]

(* The rest of roundTrip, after ensureConnected: the request is sent, or   *)
(* the connection is gone.                                                 *)
Continue ==
    /\ micro # <<>>
    /\ micro' = Tail(micro)
    /\ LET o == Head(micro) IN
       IF IsOpen
         THEN /\ pending' = o
              /\ sock' = [sock EXCEPT ![ws].sent = Append(@, Request(o))]
              /\ pc' = [pc EXCEPT ![o] = "waiting"]
         ELSE /\ pc' = [pc EXCEPT ![o] = "failed"]
              /\ UNCHANGED <<pending, sock>>
    /\ UNCHANGED <<used, ws, connectPromise, leg, on, got, closeDue, badUrl, peerCloses>>

-----------------------------------------------------------------------------
(* An event task may start; the close event follows its error event. *)
Event == micro = <<>> /\ closeDue = 0

(* The orders in which the continuations of the operations in S may run. *)
Orders(S) == {s \in [1..Cardinality(S) -> S] : \A i, j \in DOMAIN s : s[i] = s[j] => i = j}

Waiters(k) == {o \in Op : pc[o] = "connecting" /\ on[o] = k}

(* this.pending, if any, is rejected. *)
RejectPending(p) ==
    /\ pending' = None
    /\ pc' = IF pending = None THEN p ELSE [p EXCEPT ![pending] = "failed"]

OnOpen(k) ==
    /\ Event /\ sock[k].state = "connecting"
    /\ sock' = [sock EXCEPT ![k].state = "open"]
    /\ IF sock[k].wired
         THEN /\ connectPromise' = 0
              /\ micro' \in Orders(Waiters(k))
              /\ pc' = [o \in Op |-> IF o \in Waiters(k) THEN "runnable" ELSE pc[o]]
         ELSE UNCHANGED <<connectPromise, micro, pc>>
    /\ UNCHANGED <<used, ws, pending, leg, on, got, closeDue, badUrl, peerCloses>>

(* Mutant: an error leaves connectPromise unsettled. *)
OnErrorKeepsWaiters(k) ==
    /\ Event /\ sock[k].state \in {"connecting", "open", "closing"}
    /\ sock' = [sock EXCEPT ![k].state = "closed", ![k].sent = <<>>]
    /\ IF sock[k].wired
         THEN connectPromise' = 0 /\ RejectPending(pc) /\ closeDue' = k
         ELSE UNCHANGED <<connectPromise, pending, pc, closeDue>>
    /\ UNCHANGED <<used, ws, leg, on, got, micro, badUrl, peerCloses>>

(* The connection cannot be made, or breaks: an error event ... *)
OnError(k) ==
    /\ Event /\ sock[k].state \in {"connecting", "open", "closing"}
    /\ sock' = [sock EXCEPT ![k].state = "closed", ![k].sent = <<>>]
    /\ IF sock[k].wired
         THEN /\ connectPromise' = 0
              /\ RejectPending([o \in Op |-> IF o \in Waiters(k) THEN "failed" ELSE pc[o]])
              /\ closeDue' = k
         ELSE UNCHANGED <<connectPromise, pending, pc, closeDue>>
    /\ UNCHANGED <<used, ws, leg, on, got, micro, badUrl, peerCloses>>

(* What onclose does. *)
OnCloseBody ==
    /\ connectPromise' = 0
    /\ RejectPending(pc)

(* ... and a close event in the same task. *)
OnCloseAfterError ==
    /\ closeDue # 0 /\ micro = <<>>
    /\ closeDue' = 0
    /\ IF sock[closeDue].wired THEN OnCloseBody ELSE UNCHANGED <<connectPromise, pending, pc>>
    /\ UNCHANGED <<sock, used, ws, leg, on, got, micro, badUrl, peerCloses>>

(* The peer starts to close ... *)
Closing(k) ==
    /\ peerCloses
    /\ Event /\ sock[k].state = "open"
    /\ sock' = [sock EXCEPT ![k].state = "closing"]
    /\ UNCHANGED <<used, ws, connectPromise, pending, pc, leg, on, got, micro, closeDue, badUrl, peerCloses>>

(* ... and the connection is closed without an error. *)
OnClose(k) ==
    /\ Event /\ sock[k].state \in {"open", "closing"}
    /\ sock' = [sock EXCEPT ![k].state = "closed", ![k].sent = <<>>]
    /\ IF sock[k].wired THEN OnCloseBody ELSE UNCHANGED <<connectPromise, pending, pc>>
    /\ UNCHANGED <<used, ws, leg, on, got, micro, closeDue, badUrl, peerCloses>>

(* handleMessage: the answer to the first open frame of k goes to whatever *)
(* operation is pending, which fails if it is not of the kind it expects:  *)
(* a challenge in leg 1 of a write, a payload in a read.  Of leg 2 only    *)
(* the ok field is looked at.                                              *)
Content(f) == CASE f.op \in Write -> IF f.leg = 1 THEN "challenge" ELSE "nothing"
                [] f.op \in Lookup -> "bundle"
                [] OTHER -> "envelope"

HandleMessage(f, ok) ==
    IF pending = None
      THEN UNCHANGED <<pending, pc, got>>
      ELSE /\ pending' = None
           /\ got' = [got EXCEPT ![pending] = f]
           /\ pc' = [pc EXCEPT ![pending] =
                CASE ~ok -> "failed"
                  [] ok /\ leg[pending] = 2 -> "done"
                  [] ok /\ leg[pending] = 1 /\ Content(f) # Content(Request(pending)) -> "failed"
                  [] ok /\ leg[pending] = 1 /\ Content(f) = Content(Request(pending)) ->
                       IF pending \in Write THEN "solving" ELSE "done"]

OnMessage(k) ==
    /\ Event /\ sock[k].state = "open" /\ sock[k].sent # <<>>
    /\ sock' = [sock EXCEPT ![k].sent = Tail(@)]
    /\ IF sock[k].wired
         THEN \E ok \in BOOLEAN : HandleMessage(Head(sock[k].sent), ok)
         ELSE UNCHANGED <<pending, pc, got>>
    /\ UNCHANGED <<used, ws, connectPromise, leg, on, micro, closeDue, badUrl, peerCloses>>

(* Mutant: close() rejects the pending request but keeps the socket. *)
CloseKeepsSocket ==
    /\ Event
    /\ RejectPending(pc)
    /\ connectPromise' = 0
    /\ UNCHANGED <<sock, used, ws, leg, on, got, micro, closeDue, badUrl, peerCloses>>

(* close(): the socket is dropped with its handlers, the pending request   *)
(* rejected.                                                               *)
Close ==
    /\ Event
    /\ sock' = IF ws = 0 THEN sock
               ELSE [sock EXCEPT ![ws].wired = FALSE, ![ws].state = "closed", ![ws].sent = <<>>]
    /\ ws' = 0
    /\ RejectPending(pc)
    /\ connectPromise' = 0
    /\ UNCHANGED <<used, leg, on, got, micro, closeDue, badUrl, peerCloses>>

Events ==
    \/ OnCloseAfterError \/ Close
    \/ \E k \in Sock : OnOpen(k) \/ OnError(k) \/ Closing(k) \/ OnClose(k) \/ OnMessage(k)

Next == Continue \/ Events \/ \E o \in Op : Call(o) \/ Submit(o)

Spec == Init /\ [][Next]_vars

(* A socket that connects, closes or owes an answer does not stay so. *)
Progress(k) ==
    /\ sock[k].state \in {"connecting", "closing"} \/ sock[k].sent # <<>>
    /\ OnOpen(k) \/ OnMessage(k) \/ OnError(k) \/ OnClose(k)

(* The event loop runs what is queued, the network delivers or fails. *)
Fairness ==
    /\ WF_vars(Continue) /\ WF_vars(OnCloseAfterError)
    /\ \A o \in Op : WF_vars(Submit(o))
    /\ \A k \in Sock : WF_vars(Progress(k))

-----------------------------------------------------------------------------
(* Every variable has its type; this.pending is an operation of this       *)
(* transport, this.ws a socket it created.                                 *)
TypeOK ==
    /\ sock \in [Sock -> [state : SockState, wired : BOOLEAN, sent : Seq(Frame)]]
    /\ used \in 0..MaxSock /\ ws \in 0..used
    /\ connectPromise \in 0..used \cup {Rejected}
    /\ pending \in Op \cup {None}
    /\ pc \in [Op -> Step]
    /\ leg \in [Op -> 0..2]
    /\ on \in [Op -> 0..used]
    /\ got \in [Op -> Frame \cup {None}]
    /\ micro \in Seq(Op)
    /\ closeDue \in 0..used
    /\ badUrl \in BOOLEAN /\ peerCloses \in BOOLEAN

(* handleMessage has nothing but this.pending to tell whose answer a frame *)
(* is.  An operation is settled with the answer to its own request, also   *)
(* after sockets failed, were closed and replaced.  A peer that closes by  *)
(* handshake is the exception: the socket in its closing state is replaced *)
(* and its late onclose rejects the request sent on the new one.  With or  *)
(* without it, ensureConnected and close() never leak a connection: a      *)
(* socket that is not closed and still calls the transport's handlers is   *)
(* this.ws (or one its peer is closing).                                   *)
OwnReply ==
    /\ TypeOK
    /\ ~peerCloses => \A o \in Op : got[o] # None => got[o].op = o /\ got[o].leg <= leg[o]
    /\ \A k \in Sock : sock[k].wired /\ sock[k].state \in {"connecting", "open"} => k = ws

(* The caller of o was waiting for the connection when close() dropped the *)
(* handlers that would have settled connectPromise.                        *)
Abandoned(o) == pc[o] = "connecting" /\ ~sock[on[o]].wired

(* "Failures ... are surfaced as RelayError, never swallowed": every       *)
(* operation is settled, unless close() was called while it connected.     *)
OpSettles == \A o \in Op : Active(o) ~> ~Active(o) \/ Abandoned(o)
=============================================================================
