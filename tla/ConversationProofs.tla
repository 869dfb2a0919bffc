------------------------- MODULE ConversationProofs -------------------------
(***************************************************************************)
(* The receive loop of Conversation.tsx, for any operations and envelopes, *)
(* on a transport that it shares with `send`: an envelope is rendered at   *)
(* most once, and pickups do not overlap.                                  *)
(*                                                                         *)
(* Of the transport the argument needs that only a call makes an operation *)
(* active; that is because continuations are queued once, for operations   *)
(* that can run, and this.pending is one that waits.                       *)
(***************************************************************************)
EXTENDS MCConversation, TLAPS

(* Most steps are first-order; the ones that name SMT are not. *)
USE Zenon

Fin == INSTANCE FiniteSetTheorems

Tables == pc = [o \in Op |-> pc[o]] /\ pending \in Op \cup {None} /\ micro \in Seq(Op)

Queue ==
    /\ \A i \in DOMAIN micro : pc[micro[i]] = "runnable"
    /\ \A i, j \in DOMAIN micro : micro[i] = micro[j] => i = j

PendingWaits == pending # None => pc[pending] = "waiting"

TransportInv == Tables /\ Queue /\ PendingWaits

(* The pickup that is active is the one the loop awaits. *)
PollsOne == \A o \in Pickup : T!Active(o) => polling = o

Rendered == \A e \in Envelope : shown[e] \in {0, 1} /\ (shown[e] = 1 => e \in seen \ Forged)

ConversationInv == TypeOK /\ TransportInv /\ PollsOne /\ Rendered

-----------------------------------------------------------------------------
(* No operation but those in S becomes active. *)
Wakes(S) == \A p \in Op : T!Active(p)' => T!Active(p) \/ p \in S

(* The operations that wait for a socket are queued in some order. *)
LEMMA OrdersAreQueues ==
    ASSUME NEW S \in SUBSET Op, NEW s \in T!Orders(S)
    PROVE  s \in Seq(Op) /\ (\A i \in DOMAIN s : s[i] \in S)
           /\ \A i, j \in DOMAIN s : s[i] = s[j] => i = j
<1>1. \A X : (IsFiniteSet(X) <=> Fin!IsFiniteSet(X)) /\ T!Cardinality(X) = Fin!Cardinality(X)
  BY DEF IsFiniteSet, Fin!IsFiniteSet, T!Cardinality, Fin!Cardinality
<1>2. Fin!IsFiniteSet(S)
  BY <1>1, Fin!FS_Subset, ConversationAssumption
<1>3. T!Cardinality(S) \in Nat
  BY <1>1, <1>2, Fin!FS_CardinalityType
<1>4. s \in [1..T!Cardinality(S) -> S]
  BY DEF T!Orders
<1>5. \A i, j \in DOMAIN s : s[i] = s[j] => i = j
  BY DEF T!Orders
<1>6. s \in Seq(Op)
  BY <1>3, <1>4, SMT
<1>7. \A i \in DOMAIN s : s[i] \in S
  BY <1>4
<1> QED
  BY <1>5, <1>6, <1>7

(* A continuation is queued behind the others. *)
LEMMA QueueOneMore ==
    ASSUME TransportInv, NEW o \in Op, pc[o] # "runnable", micro' = Append(micro, o),
           pc' = [pc EXCEPT ![o] = "runnable"]
    PROVE  micro' \in Seq(Op) /\ Queue'
<1>1. micro \in Seq(Op) /\ \A i \in DOMAIN micro : micro[i] # o
  BY DEF TransportInv, Tables, Queue
<1>2. /\ micro' \in Seq(Op) /\ DOMAIN micro' = 1..(Len(micro) + 1)
      /\ \A i \in DOMAIN micro : micro'[i] = micro[i]
      /\ micro'[Len(micro) + 1] = o /\ DOMAIN micro = 1..Len(micro) /\ Len(micro) \in Nat
  BY <1>1, SMT
<1>3. \A i \in DOMAIN micro' : i \in DOMAIN micro \/ i = Len(micro) + 1
  BY <1>2, SMT
<1>4. pc'[o] = "runnable" /\ \A p \in Op : p # o => pc'[p] = pc[p]
  BY DEF TransportInv, Tables
<1>5. \A i \in DOMAIN micro : micro[i] \in Op
  BY <1>1, SMT
<1>6. ASSUME NEW i \in DOMAIN micro' PROVE pc'[micro'[i]] = "runnable"
  <2>1. CASE i \in DOMAIN micro
    <3>1. pc[micro[i]] = "runnable" /\ micro[i] # o /\ micro[i] \in Op /\ micro'[i] = micro[i]
      BY <1>1, <1>2, <1>5, <2>1 DEF TransportInv, Queue
    <3> QED
      BY <1>4, <3>1
  <2>2. CASE i = Len(micro) + 1
    BY <1>2, <1>4, <2>2
  <2> QED
    BY <1>3, <2>1, <2>2
<1>7. ASSUME NEW i \in DOMAIN micro', NEW j \in DOMAIN micro', micro'[i] = micro'[j] PROVE i = j
  <2>1. CASE i \in DOMAIN micro /\ j \in DOMAIN micro
    BY <1>2, <1>7, <2>1 DEF TransportInv, Queue
  <2>2. CASE i = Len(micro) + 1 /\ j \in DOMAIN micro
    BY <1>1, <1>2, <1>7, <2>2
  <2>3. CASE i \in DOMAIN micro /\ j = Len(micro) + 1
    BY <1>1, <1>2, <1>7, <2>3
  <2>4. CASE i = Len(micro) + 1 /\ j = Len(micro) + 1
    BY <2>4
  <2> QED
    BY <1>3, <2>1, <2>2, <2>3, <2>4
<1> QED
  BY <1>2, <1>6, <1>7 DEF Queue

(* A roundTrip of an operation that is neither queued nor waiting. *)
LEMMA RoundTripStep ==
    ASSUME TransportInv, NEW o \in Op, pc[o] \in {"idle", "solving"}, T!RoundTrip(o)
    PROVE  TransportInv' /\ Wakes({o})
<1>1. pending' = pending
  BY DEF T!RoundTrip
<1>2. PICK x \in {"runnable", "connecting", "failed"} : pc' = [pc EXCEPT ![o] = x]
  BY DEF T!RoundTrip, T!ReuseSocket, T!JoinConnect, T!NewSocket, T!RefuseUrl
<1>3. pc'[o] = x /\ (\A p \in Op : p # o => pc'[p] = pc[p]) /\ pc' = [p \in Op |-> pc'[p]]
  BY <1>2 DEF TransportInv, Tables
<1>4. Wakes({o})
  BY <1>3 DEF Wakes, T!Active
<1>5. PendingWaits'
  BY <1>1, <1>3 DEF TransportInv, Tables, PendingWaits
<1>6. micro' \in Seq(Op) /\ Queue'
  <2>1. CASE T!ReuseSocket(o)
    BY <2>1, QueueOneMore DEF T!ReuseSocket
  <2>2. CASE micro' = micro
    <3>1. \A i \in DOMAIN micro : micro[i] \in Op /\ micro[i] # o
      <4>1. \A i \in DOMAIN micro : micro[i] \in Op
        BY SMT DEF TransportInv, Tables
      <4> QED
        BY <4>1 DEF TransportInv, Queue
    <3> QED
      BY <1>3, <2>2, <3>1 DEF TransportInv, Tables, Queue
  <2> QED
    BY <2>1, <2>2 DEF T!RoundTrip, T!JoinConnect, T!NewSocket, T!RefuseUrl
<1> QED
  BY <1>1, <1>3, <1>4, <1>5, <1>6 DEF TransportInv, Tables

(* The rest of roundTrip, for the first operation in the queue. *)
LEMMA ContinueStep == ASSUME TransportInv, T!Continue PROVE TransportInv' /\ Wakes({})
<1> DEFINE o == Head(micro)
<1>1. micro # <<>> /\ micro' = Tail(micro) /\ micro \in Seq(Op)
  BY DEF T!Continue, TransportInv, Tables
<1>2. /\ o = micro[1] /\ 1 \in DOMAIN micro /\ o \in Op /\ micro' \in Seq(Op)
      /\ \A i \in DOMAIN micro' : i + 1 \in DOMAIN micro /\ micro'[i] = micro[i + 1] /\ i + 1 # 1
      /\ \A i, j \in DOMAIN micro' : i + 1 = j + 1 => i = j
      /\ \A i \in DOMAIN micro : micro[i] \in Op
  BY <1>1, SMT
<1>3. pc[o] = "runnable"
  BY <1>2 DEF TransportInv, Queue
<1>4. PICK x : /\ pc' = [pc EXCEPT ![o] = x]
               /\ (x = "waiting" /\ pending' = o) \/ (x = "failed" /\ pending' = pending)
  BY DEF T!Continue
<1> HIDE DEF o
<1>5. pc'[o] = x /\ (\A p \in Op : p # o => pc'[p] = pc[p]) /\ pc' = [p \in Op |-> pc'[p]]
  BY <1>2, <1>4 DEF TransportInv, Tables
<1>6. Wakes({})
  BY <1>3, <1>5 DEF Wakes, T!Active, T!Settled
<1>7. pending' \in Op \cup {None} /\ PendingWaits'
  BY <1>2, <1>3, <1>4, <1>5 DEF TransportInv, Tables, PendingWaits
<1>8. \A i \in DOMAIN micro' : micro'[i] # o /\ micro'[i] \in Op
  BY <1>2 DEF TransportInv, Queue
<1>9. Queue'
  <2>1. ASSUME NEW i \in DOMAIN micro' PROVE pc'[micro'[i]] = "runnable"
    <3>1. pc[micro'[i]] = "runnable"
      <4>1. i + 1 \in DOMAIN micro /\ micro'[i] = micro[i + 1]
        BY <1>2
      <4>2. pc[micro[i + 1]] = "runnable"
        BY <4>1 DEF TransportInv, Queue
      <4> QED
        BY <4>1, <4>2
    <3> QED
      BY <1>5, <1>8, <3>1
  <2>2. ASSUME NEW i \in DOMAIN micro', NEW j \in DOMAIN micro', micro'[i] = micro'[j]
        PROVE  i = j
    <3>1. i + 1 = j + 1
      BY <1>2, <2>2 DEF TransportInv, Queue
    <3> QED
      BY <1>2, <3>1
  <2> QED
    BY <2>1, <2>2 DEF Queue
<1> QED
  BY <1>2, <1>5, <1>6, <1>7, <1>9 DEF TransportInv, Tables

(* Nothing is queued, and operations that are active move on or are settled. *)
LEMMA EventKeeps ==
    ASSUME TransportInv, micro' = <<>>, pc' = [o \in Op |-> pc'[o]],
           pending' = None \/ (pending' = pending /\ \A o \in Op : pc[o] = "waiting" => pc'[o] = "waiting"),
           \A o \in Op : pc'[o] = pc[o] \/ T!Active(o) \/ pc'[o] \in T!Settled
    PROVE  TransportInv' /\ Wakes({})
<1>1. <<>> \in Seq(Op) /\ DOMAIN <<>> = {}
  BY SMT
<1>2. Queue' /\ micro' \in Seq(Op)
  BY <1>1 DEF Queue
<1>3. pending' \in Op \cup {None} /\ PendingWaits'
  BY DEF TransportInv, Tables, PendingWaits
<1>4. Wakes({})
  BY DEF Wakes, T!Active
<1> QED
  BY <1>2, <1>3, <1>4 DEF TransportInv, Tables

(* this.pending is rejected, after q has failed operations that were connecting. *)
LEMMA RejectKeeps ==
    ASSUME TransportInv, NEW q, q = [o \in Op |-> q[o]], T!RejectPending(q), micro' = <<>>,
           \A o \in Op : q[o] = pc[o] \/ q[o] = "failed"
    PROVE  TransportInv' /\ Wakes({})
<1>1. /\ pending' = None /\ pc' = [o \in Op |-> pc'[o]]
      /\ \A o \in Op : pc'[o] = pc[o] \/ pc'[o] = "failed"
  <2>1. CASE pending = None
    BY <2>1 DEF T!RejectPending
  <2>2. CASE pending # None
    <3>1. pending \in Op /\ pending' = None /\ pc' = [q EXCEPT ![pending] = "failed"]
      BY <2>2 DEF T!RejectPending, TransportInv, Tables
    <3>2. pc' = [o \in Op |-> pc'[o]] /\ pc'[pending] = "failed" /\ \A o \in Op : o # pending => pc'[o] = q[o]
      BY <3>1
    <3> QED
      BY <3>1, <3>2
  <2> QED
    BY <2>1, <2>2
<1> QED
  BY <1>1, EventKeeps DEF T!Settled

(* onopen wakes the operations that wait for the socket. *)
LEMMA OnOpenStep == ASSUME TransportInv, NEW k \in T!Sock, T!OnOpen(k) PROVE TransportInv' /\ Wakes({})
<1>0. micro = <<>> /\ pending' = pending /\ T!Waiters(k) \in SUBSET Op
  BY DEF T!OnOpen, T!Event, T!Waiters
<1>1. CASE sock[k].wired
  <2>1. /\ micro' \in T!Orders(T!Waiters(k))
        /\ pc' = [o \in Op |-> IF o \in T!Waiters(k) THEN "runnable" ELSE pc[o]]
    BY <1>1 DEF T!OnOpen
  <2>2. /\ micro' \in Seq(Op) /\ \A i \in DOMAIN micro' : micro'[i] \in T!Waiters(k)
        /\ \A i, j \in DOMAIN micro' : micro'[i] = micro'[j] => i = j
    BY <1>0, <2>1, OrdersAreQueues
  <2>3. /\ \A o \in T!Waiters(k) : o \in Op /\ pc'[o] = "runnable" /\ pc[o] = "connecting"
        /\ \A o \in Op : pc[o] # "connecting" => pc'[o] = pc[o]
        /\ \A o \in Op : pc'[o] = pc[o] \/ pc[o] = "connecting"
    BY <2>1 DEF T!Waiters
  <2>4. Queue'
    BY <2>2, <2>3 DEF Queue
  <2>5. PendingWaits'
    BY <1>0, <2>3 DEF TransportInv, Tables, PendingWaits
  <2>6. Wakes({})
    BY <2>3 DEF Wakes, T!Active, T!Settled
  <2>7. pc' = [o \in Op |-> pc'[o]]
    BY <2>1
  <2> QED
    BY <1>0, <2>2, <2>4, <2>5, <2>6, <2>7 DEF TransportInv, Tables
<1>2. CASE ~sock[k].wired
  <2>1. pc' = pc /\ micro' = micro
    BY <1>2 DEF T!OnOpen
  <2> QED
    BY <1>0, <2>1, EventKeeps DEF TransportInv, Tables
<1> QED
  BY <1>1, <1>2

(* An answer wakes the pending operation, or is dropped. *)
LEMMA OnMessageStep ==
    ASSUME TransportInv, NEW k \in T!Sock, T!OnMessage(k) PROVE TransportInv' /\ Wakes({})
<1>0. micro' = <<>>
  BY DEF T!OnMessage, T!Event
<1>1. \/ pending' = pending /\ pc' = pc
      \/ pending # None /\ pending' = None /\ \E x : pc' = [pc EXCEPT ![pending] = x]
  BY DEF T!OnMessage, T!HandleMessage
<1>2. CASE pending' = pending /\ pc' = pc
  BY <1>0, <1>2, EventKeeps DEF TransportInv, Tables
<1>3. CASE pending # None /\ pending' = None /\ \E x : pc' = [pc EXCEPT ![pending] = x]
  <2>1. pending \in Op /\ T!Active(pending)
    BY <1>3 DEF TransportInv, Tables, PendingWaits, T!Active, T!Settled
  <2>2. pc' = [o \in Op |-> pc'[o]] /\ \A o \in Op : o # pending => pc'[o] = pc[o]
    BY <1>3, <2>1 DEF TransportInv, Tables
  <2> QED
    BY <1>0, <1>3, <2>1, <2>2, EventKeeps
<1> QED
  BY <1>1, <1>2, <1>3

(* A socket ends: by an error, a close event or a closing handshake. *)
LEMMA SocketEndStep ==
    ASSUME TransportInv, NEW k \in T!Sock, T!OnError(k) \/ T!OnClose(k) \/ T!Closing(k)
    PROVE  TransportInv' /\ Wakes({})
<1>0. micro' = <<>> /\ pc = [o \in Op |-> pc[o]]
  BY DEF T!OnError, T!OnClose, T!Closing, T!Event, TransportInv, Tables
<1>1. CASE pending' = pending /\ pc' = pc
  BY <1>0, <1>1, EventKeeps
<1>2. CASE T!RejectPending(pc)
  BY <1>0, <1>2, RejectKeeps
<1>3. ASSUME T!RejectPending([o \in Op |-> IF o \in T!Waiters(k) THEN "failed" ELSE pc[o]])
      PROVE  TransportInv' /\ Wakes({})
  <2> PICK q : q = [o \in Op |-> IF o \in T!Waiters(k) THEN "failed" ELSE pc[o]]
    OBVIOUS
  <2>1. q = [o \in Op |-> q[o]] /\ \A o \in Op : q[o] = pc[o] \/ q[o] = "failed"
    OBVIOUS
  <2> QED
    BY <1>0, <1>3, <2>1, RejectKeeps
<1> QED
  BY <1>1, <1>2, <1>3 DEF T!OnError, T!OnClose, T!OnCloseBody, T!Closing

(* The close event that follows an error event. *)
LEMMA CloseEventStep == ASSUME TransportInv, T!OnCloseAfterError PROVE TransportInv' /\ Wakes({})
<1>0. micro' = <<>> /\ pc = [o \in Op |-> pc[o]]
  BY DEF T!OnCloseAfterError, TransportInv, Tables
<1>1. CASE pending' = pending /\ pc' = pc
  BY <1>0, <1>1, EventKeeps
<1>2. CASE T!RejectPending(pc)
  BY <1>0, <1>2, RejectKeeps
<1> QED
  BY <1>1, <1>2 DEF T!OnCloseAfterError, T!OnCloseBody

(* What the transport does by itself wakes no operation. *)
LEMMA TransportStep == ASSUME TransportInv, Transport PROVE TransportInv' /\ Wakes({})
<1>1. ASSUME NEW o \in Op, T!Submit(o) PROVE TransportInv' /\ Wakes({})
  <2>1. pc[o] = "solving" /\ T!RoundTrip(o) /\ T!Active(o)
    BY <1>1 DEF T!Submit, T!Active, T!Settled
  <2>2. TransportInv' /\ Wakes({o})
    BY <2>1, RoundTripStep
  <2> QED
    BY <2>1, <2>2 DEF Wakes
<1> QED
  BY <1>1, ContinueStep, CloseEventStep, OnOpenStep, OnMessageStep, SocketEndStep DEF Transport

-----------------------------------------------------------------------------
(* Nothing is called, queued or shown at first. *)
LEMMA Starts == Init => ConversationInv
<1> SUFFICES ASSUME Init PROVE ConversationInv
  OBVIOUS
<1>1. /\ polling = None /\ sending = None /\ hasSession = FALSE /\ warning = FALSE
      /\ seen = {} /\ sent = {} /\ shown = [e \in Envelope |-> 0]
  BY DEF Init
<1>2. pending = None /\ pc = [o \in Op |-> "idle"] /\ micro = <<>>
  BY DEF Init, T!Init
<1>3. <<>> \in Seq(Op) /\ DOMAIN <<>> = {} /\ 0 \in Nat /\ 0 # 1
  BY SMT
<1>4. TypeOK
  BY <1>1, <1>3 DEF TypeOK
<1>5. TransportInv
  BY <1>2, <1>3 DEF TransportInv, Tables, Queue, PendingWaits
<1>6. PollsOne
  BY <1>2 DEF PollsOne, T!Active, Pickup
<1>7. Rendered
  BY <1>1, <1>3 DEF Rendered
<1> QED
  BY <1>4, <1>5, <1>6, <1>7 DEF ConversationInv

(* The receive loop or `send` calls an operation. *)
LEMMA CallStep ==
    ASSUME ConversationInv, NEW o \in Op, Poll(o) \/ SendLooksUp(o) \/ SendEnvelope(o) \/ SendEstablishes(o)
    PROVE  ConversationInv'
<1>1. /\ T!Call(o) /\ seen' = seen /\ shown' = shown /\ warning' = warning /\ sent' = sent
      /\ hasSession' \in {hasSession, TRUE}
  BY DEF Poll, SendLooksUp, SendEnvelope, SendEstablishes
<1>2. \/ o \in Pickup /\ polling = None /\ polling' = o /\ sending' = sending
      \/ o \in Write \cup Lookup /\ polling' = polling /\ sending' = o
  BY DEF Poll, SendLooksUp, SendEnvelope, SendEstablishes
<1>3. TransportInv' /\ Wakes({o})
  BY <1>1, RoundTripStep DEF T!Call, ConversationInv
<1>4. TypeOK'
  BY <1>1, <1>2 DEF ConversationInv, TypeOK
<1>5. PollsOne'
  <2>1. Pickup \subseteq Op /\ None \notin Op /\ (o \in Write \cup Lookup => o \notin Pickup)
    BY ConversationAssumption DEF Pickup
  <2> SUFFICES ASSUME NEW p \in Pickup, T!Active(p)' PROVE polling' = p
    BY DEF PollsOne
  <2>2. p = o \/ polling = p
    BY <1>3, <2>1 DEF ConversationInv, PollsOne, Wakes
  <2> QED
    BY <1>2, <2>1, <2>2, SMT
<1>6. Rendered'
  BY <1>1 DEF ConversationInv, Rendered
<1> QED
  BY <1>3, <1>4, <1>5, <1>6 DEF ConversationInv

(* The transport is as it was. *)
LEMMA TransportIdle ==
    ASSUME TransportInv, pc' = pc, pending' = pending, micro' = micro
    PROVE  TransportInv' /\ \A o \in Op : T!Active(o)' <=> T!Active(o)
  BY DEF TransportInv, Tables, Queue, PendingWaits, T!Active

(* A pickup returns an envelope. *)
LEMMA DeliverStep == ASSUME ConversationInv, NEW e \in Envelope, PollDelivers(e) PROVE ConversationInv'
<1>1. /\ polling # None /\ pc[polling] = "done" /\ polling' = None /\ seen' = seen \cup {e}
      /\ sending' = sending /\ hasSession' = hasSession /\ sent' = sent
      /\ pc' = pc /\ pending' = pending /\ micro' = micro
  BY DEF PollDelivers, transport
<1>2. TransportInv' /\ \A o \in Op : T!Active(o)' <=> T!Active(o)
  BY <1>1, TransportIdle DEF ConversationInv
<1>3. PollsOne'
  <2>1. Pickup \subseteq Op
    BY DEF Pickup
  <2> QED
    BY <1>1, <1>2, <2>1 DEF ConversationInv, PollsOne, T!Active, T!Settled
<1>4. TypeOK' /\ Rendered'
  <2>0. /\ shown \in [Envelope -> Nat] /\ warning \in BOOLEAN /\ seen' \subseteq Envelope
        /\ \A d \in Envelope : shown[d] \in {0, 1} /\ (shown[d] = 1 => d \in seen \ Forged)
    BY <1>1 DEF ConversationInv, TypeOK, Rendered
  <2>1. /\ warning' \in BOOLEAN
        /\ \/ shown' = shown
           \/ e \notin seen \cup Forged /\ shown' = [shown EXCEPT ![e] = shown[e] + 1]
    <3>1. CASE e \in seen
      BY <2>0, <3>1 DEF PollDelivers
    <3>2. CASE e \notin seen
      <4>1. /\ warning' = (e \in Forged)
            /\ shown' = IF e \in Forged THEN shown ELSE [shown EXCEPT ![e] = shown[e] + 1]
        BY <3>2 DEF PollDelivers
      <4>2. warning' \in BOOLEAN
        BY <4>1, SMT
      <4> QED
        BY <3>2, <4>1, <4>2
    <3> QED
      BY <3>1, <3>2
  <2>2. CASE shown' = shown
    BY <1>1, <2>0, <2>1, <2>2 DEF ConversationInv, TypeOK, Rendered
  <2>3. CASE e \notin seen \cup Forged /\ shown' = [shown EXCEPT ![e] = shown[e] + 1]
    <3>1. shown[e] = 0
      BY <2>0, <2>3
    <3>2. 0 + 1 = 1 /\ 1 \in Nat
      BY SMT
    <3>3. shown' = [shown EXCEPT ![e] = 1]
      BY <2>3, <3>1, <3>2
    <3>4. shown' \in [Envelope -> Nat] /\ shown'[e] = 1 /\ \A d \in Envelope : d # e => shown'[d] = shown[d]
      BY <2>0, <3>2, <3>3
    <3>5. Rendered'
      BY <1>1, <2>0, <2>3, <3>4 DEF Rendered
    <3> QED
      BY <1>1, <2>0, <2>1, <3>4, <3>5 DEF ConversationInv, TypeOK
  <2> QED
    BY <2>1, <2>2, <2>3
<1> QED
  BY <1>2, <1>3, <1>4 DEF ConversationInv

(* A pickup fails, or `send` ends. *)
LEMMA EndStep == ASSUME ConversationInv, PollFails \/ SendFails \/ SendSucceeds PROVE ConversationInv'
<1>1. /\ seen' = seen /\ shown' = shown /\ warning' = warning
      /\ pc' = pc /\ pending' = pending /\ micro' = micro
  BY DEF PollFails, SendFails, SendSucceeds, transport
<1>2. TransportInv' /\ \A o \in Op : T!Active(o)' <=> T!Active(o)
  BY <1>1, TransportIdle DEF ConversationInv
<1>3. PollsOne'
  <2>1. Pickup \subseteq Op
    BY DEF Pickup
  <2>2. CASE PollFails
    BY <1>2, <2>1, <2>2 DEF PollFails, ConversationInv, PollsOne, T!Active, T!Settled
  <2>3. CASE SendFails \/ SendSucceeds
    BY <1>2, <2>1, <2>3 DEF SendFails, SendSucceeds, ConversationInv, PollsOne
  <2> QED
    BY <2>2, <2>3
<1>4. TypeOK'
  BY <1>1 DEF PollFails, SendFails, SendSucceeds, ConversationInv, TypeOK
<1>5. Rendered'
  BY <1>1 DEF ConversationInv, Rendered
<1> QED
  BY <1>2, <1>3, <1>4, <1>5 DEF ConversationInv

(* Every step keeps the invariant. *)
LEMMA Keeps == ConversationInv /\ [Next]_vars => ConversationInv'
<1> SUFFICES ASSUME ConversationInv, [Next]_vars PROVE ConversationInv'
  OBVIOUS
<1>1. CASE UNCHANGED vars
  <2>1. /\ pc' = pc /\ pending' = pending /\ micro' = micro /\ polling' = polling
        /\ sending' = sending /\ hasSession' = hasSession /\ seen' = seen /\ shown' = shown
        /\ warning' = warning /\ sent' = sent
    BY <1>1 DEF vars, transport, conv
  <2>2. TransportInv' /\ \A o \in Op : T!Active(o)' <=> T!Active(o)
    BY <2>1, TransportIdle DEF ConversationInv
  <2> QED
    BY <2>1, <2>2 DEF ConversationInv, TypeOK, PollsOne, Pickup, Rendered
<1>2. CASE Transport
  <2>1. TransportInv' /\ Wakes({})
    BY <1>2, TransportStep DEF ConversationInv
  <2>2. /\ polling' = polling /\ sending' = sending /\ hasSession' = hasSession /\ seen' = seen
        /\ shown' = shown /\ warning' = warning /\ sent' = sent
    BY <1>2 DEF Transport, conv
  <2> QED
    BY <2>1, <2>2 DEF ConversationInv, TypeOK, PollsOne, Pickup, Rendered, Wakes
<1> QED
  BY <1>1, <1>2, CallStep, DeliverStep, EndStep DEF Next

(* pollOnce, with seenEnvelopesRef and pollInFlightRef: an envelope is     *)
(* rendered at most once, one that does not decrypt never, and no two      *)
(* pickups are under way at the same time, whether or not the transport's  *)
(* callers await each other.                                               *)
THEOREM EnvelopesRenderedOnce == Spec => []RenderedOnce
<1>1. ConversationInv => RenderedOnce
  <2> SUFFICES ASSUME ConversationInv PROVE RenderedOnce
    OBVIOUS
  <2>1. 0 <= 1 /\ 1 <= 1 /\ 0 # 1
    BY SMT
  <2>2. \A e \in Envelope : shown[e] <= 1 /\ (e \in Forged => shown[e] = 0)
    BY <2>1 DEF ConversationInv, Rendered
  <2> QED
    BY <2>2 DEF ConversationInv, PollsOne, RenderedOnce
<1> QED
  BY <1>1, Starts, Keeps, PTL DEF Spec
=============================================================================
