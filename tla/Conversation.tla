---------------------------- MODULE Conversation ----------------------------
(***************************************************************************)
(* The direct conversation of the web client                               *)
(* (clients/web/src/Conversation.tsx) on its RelayTransport: the receive   *)
(* loop polls the mailbox on a timer while `send` looks up the peer's      *)
(* bundle, encrypts and sends; both use the one transport.                 *)
(*                                                                         *)
(* Operations of the transport are called once each, so the loop uses the  *)
(* pickup operations one after the other, and `send` the lookup and write  *)
(* operations.  An envelope is a model value; a peer may send one twice,   *)
(* and some cannot be decrypted.                                           *)
(***************************************************************************)
EXTENDS Naturals, Sequences, FiniteSets

CONSTANTS Op, Write, Lookup, None, Sequential, MaxSock,
          Envelope,        \* envelopes that peers send
          Forged           \* those decrypt_message rejects

ASSUME ConversationAssumption ==
    IsFiniteSet(Op) /\ Write \subseteq Op /\ Lookup \subseteq Op \ Write /\ None \notin Op

VARIABLES sock, used, ws, connectPromise, pending, pc, leg, on, got, micro, closeDue, badUrl,
          peerCloses

transport == <<sock, used, ws, connectPromise, pending, pc, leg, on, got, micro, closeDue, badUrl,
               peerCloses>>

T == INSTANCE RelayTransport

VARIABLES polling,         \* the pickup the receive loop awaits, None: pollInFlightRef false
          sending,         \* the operation `send` awaits, None: sending is false
          hasSession,      \* sessionsRef has a session with the peer
          seen,            \* seenEnvelopesRef
          shown,           \* [Envelope -> how often it was appended to messages]
          warning,         \* decryptionWarning is shown
          sent             \* operations whose message was appended as sent

conv == <<polling, sending, hasSession, seen, shown, warning, sent>>
vars == <<transport, conv>>

Pickup == Op \ (Write \cup Lookup)

Init ==
    /\ T!Init /\ badUrl = FALSE /\ peerCloses = TRUE
    /\ polling = None /\ sending = None /\ hasSession = FALSE
    /\ seen = {} /\ shown = [e \in Envelope |-> 0] /\ warning = FALSE
    /\ sent = {}

-----------------------------------------------------------------------------
(* The timer: pollOnce is skipped while one is in flight. *)
Poll(o) ==
    /\ T!Event /\ o \in Pickup
    /\ polling = None
    /\ T!Call(o)
    /\ polling' = o
    /\ UNCHANGED <<sending, hasSession, seen, shown, warning, sent>>

(* The pickup fails: NotFound, Expired or a transport error. *)
PollFails ==
    /\ polling # None /\ pc[polling] = "failed"
    /\ polling' = None
    /\ UNCHANGED <<transport, sending, hasSession, seen, shown, warning, sent>>

(* Mutant: the envelopes seen before are not looked up. *)
PollDeliversAgain(e) ==
    /\ polling # None /\ pc[polling] = "done"
    /\ polling' = None
    /\ seen' = seen \cup {e}
    /\ warning' = (e \in Forged)
    /\ shown' = IF e \in Forged THEN shown ELSE [shown EXCEPT ![e] = @ + 1]
    /\ UNCHANGED <<transport, sending, hasSession, sent>>

(* It returns e: skipped if it was seen, else decrypted and appended, or   *)
(* discarded with a warning.                                               *)
PollDelivers(e) ==
    /\ polling # None /\ pc[polling] = "done"
    /\ polling' = None
    /\ seen' = seen \cup {e}
    /\ IF e \in seen
         THEN UNCHANGED <<shown, warning>>
         ELSE /\ warning' = (e \in Forged)
              /\ shown' = IF e \in Forged THEN shown ELSE [shown EXCEPT ![e] = @ + 1]
    /\ UNCHANGED <<transport, sending, hasSession, sent>>

-----------------------------------------------------------------------------
(* send: the peer's bundle is looked up if there is no session ... *)
SendLooksUp(o) ==
    /\ T!Event /\ sending = None /\ ~hasSession /\ o \in Lookup
    /\ T!Call(o)
    /\ sending' = o
    /\ UNCHANGED <<polling, hasSession, seen, shown, warning, sent>>

(* ... else the message is encrypted and sent. *)
SendEnvelope(o) ==
    /\ T!Event /\ sending = None /\ hasSession /\ o \in Write
    /\ T!Call(o)
    /\ sending' = o
    /\ UNCHANGED <<polling, hasSession, seen, shown, warning, sent>>

(* The bundle is there and its signatures verify; the same call of send    *)
(* goes on to encrypt and send.                                            *)
SendEstablishes(o) ==
    /\ sending \in Lookup /\ pc[sending] = "done" /\ o \in Write
    /\ hasSession' = TRUE
    /\ T!Call(o)
    /\ sending' = o
    /\ UNCHANGED <<polling, seen, shown, warning, sent>>

(* An operation fails; or the bundle is there and is invalid, or the       *)
(* session is made and encryption fails.                                   *)
SendFails ==
    /\ sending # None
    /\ \/ pc[sending] = "failed" /\ UNCHANGED hasSession
       \/ sending \in Lookup /\ pc[sending] = "done" /\ hasSession' \in BOOLEAN
    /\ sending' = None
    /\ UNCHANGED <<transport, polling, seen, shown, warning, sent>>

SendSucceeds ==
    /\ sending \in Write /\ pc[sending] = "done"
    /\ sent' = sent \cup {sending}
    /\ sending' = None
    /\ UNCHANGED <<transport, polling, hasSession, seen, shown, warning>>

Transport ==
    /\ \/ T!Continue \/ T!OnCloseAfterError
       \/ \E k \in T!Sock : T!OnOpen(k) \/ T!OnError(k) \/ T!Closing(k) \/ T!OnClose(k) \/ T!OnMessage(k)
       \/ \E o \in Op : T!Submit(o)
    /\ UNCHANGED conv

Next ==
    \/ Transport \/ PollFails \/ SendFails \/ SendSucceeds
    \/ \E e \in Envelope : PollDelivers(e)
    \/ \E o \in Op : Poll(o) \/ SendLooksUp(o) \/ SendEnvelope(o) \/ SendEstablishes(o)

Spec == Init /\ [][Next]_vars

(* The browser runs what it can run and the relay answers or the           *)
(* connection fails, as for RelayTransport.                                *)
FairSpec ==
    /\ Spec
    /\ WF_vars(T!Continue /\ UNCHANGED conv) /\ WF_vars(T!OnCloseAfterError /\ UNCHANGED conv)
    /\ \A o \in Op : WF_vars(T!Submit(o) /\ UNCHANGED conv)
    /\ \A k \in T!Sock : WF_vars(T!Progress(k) /\ UNCHANGED conv)
    /\ WF_vars(PollFails \/ \E e \in Envelope : PollDelivers(e))

-----------------------------------------------------------------------------
(* Every variable has its type; the two callers await operations of theirs. *)
TypeOK ==
    /\ polling \in Pickup \cup {None} /\ sending \in Write \cup Lookup \cup {None}
    /\ hasSession \in BOOLEAN /\ warning \in BOOLEAN
    /\ seen \subseteq Envelope /\ sent \subseteq Write
    /\ shown \in [Envelope -> Nat]

(* The receive loop renders an envelope at most once although the relay    *)
(* may deliver it again, and nothing that does not decrypt ("fails         *)
(* closed: no plaintext is rendered").  pollInFlightRef "guards against    *)
(* overlapping polls": no two pickups are under way at the same time,      *)
(* whatever the timer and the transport do.                                *)
RenderedOnce ==
    /\ TypeOK
    /\ \A e \in Envelope : shown[e] <= 1 /\ (e \in Forged => shown[e] = 0)
    /\ \A o, p \in Pickup : T!Active(o) /\ T!Active(p) => o = p

(* "the loop retries on the next interval": a poll that is in flight is    *)
(* over at some time, so that the next one can start.                      *)
ReceiveLoopLives == polling # None ~> polling = None
=============================================================================
