--------------------------- MODULE RatchetSession ---------------------------
(***************************************************************************)
(* DoubleRatchetSession (core/crypto/src/ratchet_session.rs) on top of     *)
(* double_ratchet.rs and session.rs, through the handles of the            *)
(* WebAssembly binding (core/bindings/wasm/src/lib.rs).  A receiver        *)
(* (`new_bob`) has one signed, one Kyber and one one-time prekey, whose    *)
(* ids are constants; every bundle it publishes names the three, also      *)
(* after the one-time prekey is gone.  A sender (`new_alice`) starts a     *)
(* session from a bundle and sends; a receiver never answers, so libsignal *)
(* marks every message as a prekey message.  An address is named by the    *)
(* hash of an identity key; hashes do not collide, so the identity itself  *)
(* is the name.                                                            *)
(*                                                                         *)
(* libsignal is external: what it does with a message is in Accepts and    *)
(* the updates of the store.  Envelopes may be lost, repeated and          *)
(* reordered, and the sender hash and the type tag in front of a message   *)
(* are not authenticated, so they may arrive changed: Arrives.  A bundle   *)
(* may arrive cut, or with another identity or signature: BundleBytes.  A  *)
(* call that returns an error changes nothing.                             *)
(***************************************************************************)
EXTENDS Naturals, FiniteSets

CONSTANTS Party,        \* identity keys
          None,         \* no identity bound to an address
          MaxBob,       \* bound on receivers
          MaxAlice,     \* bound on senders
          MaxSent       \* bound on messages per sender

VARIABLES bobs,         \* [1..n -> receiver and its store]
          alices,       \* [1..n -> sender]
          returned,     \* [receiver -> plaintexts it returned, with the times each was]
          kept,         \* receivers whose SessionHandle the caller has
          offered,      \* receivers whose bundle bytes the caller has given away
          shown         \* [sender -> the identity key its user is shown for the peer]

vars == <<bobs, alices, returned, kept, offered, shown>>

Bob == [identity : Party, one_time_prekey : BOOLEAN, sessions : SUBSET (1..MaxAlice),
        bound : [Party -> Party \cup {None}], used : SUBSET ((1..MaxAlice) \X (1..MaxSent))]

Alice == [identity : Party, bundle : 1..MaxBob, sent : 0..MaxSent]

(* The two type tags, and any other byte in their place *)
TypeTag == {"prekey", "ciphertext", "other"}

Envelope == [sender_hash : Party, tag : TypeTag,
             alice : 1..MaxAlice, n : 1..MaxSent]

(* A plaintext as the caller gets it: from whom, and which message it is *)
Plaintext == [from : Party, alice : 1..MaxAlice, n : 1..MaxSent]

Init ==
    /\ bobs = <<>> /\ alices = <<>> /\ returned = <<>>
    /\ kept = {} /\ offered = {} /\ shown = <<>>

Append1(f, v) == [i \in DOMAIN f \cup {Cardinality(DOMAIN f) + 1} |-> IF i \in DOMAIN f THEN f[i] ELSE v]

-----------------------------------------------------------------------------
NewBob(p) ==
    /\ Cardinality(DOMAIN bobs) < MaxBob
    /\ bobs' = Append1(bobs, [identity |-> p, one_time_prekey |-> TRUE, sessions |-> {},
                              bound |-> [q \in Party |-> None], used |-> {}])
    /\ returned' = Append1(returned, [m \in {} |-> 0])

CreateReceiverSession(p) ==
    /\ NewBob(p)
    /\ kept' = kept \cup (DOMAIN bobs' \ DOMAIN bobs)
    /\ UNCHANGED <<alices, offered, shown>>

(* generate_prekey_bundle: the receiver is dropped when it returns, and nobody can     *)
(* decrypt what is sent to its bundle.                                                 *)
GeneratePrekeyBundle(p) ==
    /\ NewBob(p)
    /\ offered' = offered \cup (DOMAIN bobs' \ DOMAIN bobs)
    /\ UNCHANGED <<alices, kept, shown>>

(* publish_bundle; a sender has no prekeys to publish and gets NotPublisher. *)
PublishBundleBytes(b) ==
    /\ b \in kept
    /\ offered' = offered \cup {b}
    /\ UNCHANGED <<bobs, alices, returned, kept, shown>>

(* The bytes of a bundle as a peer may get them: cut or whole, with the identity of    *)
(* the receiver or another one, with its signatures or others                          *)
BundleBytes == [of : offered, whole : BOOLEAN, identity : Party, signed : BOOLEAN]

(* process_prekey_bundle (libsignal): both signatures were made with the identity in   *)
(* the bundle.                                                                         *)
SignaturesVerify(x) == x.signed /\ x.identity = bobs[x.of].identity

(* What establish_session_from_bundle returns: the kind of a WasmError, or Ok *)
EstablishResult(x) ==
    CASE ~x.whole -> "MalformedBundle"
      [] x.whole /\ ~SignaturesVerify(x) -> "PreKey"
      [] OTHER -> "Ok"

(* What bundle_identity_key_bytes reads, without a look at the signatures *)
BundleIdentityKeyBytes(x) == x.identity

(* What establish_outbound_session leaves in the store of a new sender: a session with *)
(* the receiver whose bundle it is                                                     *)
EstablishOutboundSession(p, b) == [identity |-> p, bundle |-> b, sent |-> 0]

NewAlice(p, b) ==
    /\ Cardinality(DOMAIN alices) < MaxAlice
    /\ alices' = Append1(alices, EstablishOutboundSession(p, b))

(* establish_session_from_bundle, by a caller that shows its user the identity in the  *)
(* same bytes                                                                          *)
EstablishSessionFromBundle(p, x) ==
    /\ EstablishResult(x) = "Ok"
    /\ NewAlice(p, x.of)
    /\ shown' = Append1(shown, BundleIdentityKeyBytes(x))
    /\ UNCHANGED <<bobs, returned, kept, offered>>

(* encrypt_message; a receiver has no address to encrypt to and gets NotSender. *)
Encrypt(a) ==
    /\ alices[a].sent < MaxSent
    /\ alices' = [alices EXCEPT ![a].sent = @ + 1]
    /\ UNCHANGED <<bobs, returned, kept, offered, shown>>

(* What may arrive: a message some sender encrypted, under any 33 bytes.   *)
(* As sent, sender_hash is the sender's identity and tag is "prekey".      *)
Arrives == {e \in Envelope : e.alice \in DOMAIN alices /\ e.n <= alices[e.alice].sent}

-----------------------------------------------------------------------------
(* The checks of `decrypt` before libsignal sees the message: the identity *)
(* in a prekey message, or else the one bound to the sender's address,     *)
(* hashes to the declared sender.                                          *)
Checked(b, e) ==
    \/ e.tag = "prekey" /\ alices[e.alice].identity = e.sender_hash
    \/ e.tag = "ciphertext" /\ bobs[b].bound[e.sender_hash] = e.sender_hash

(* The parser for the declared type: every message is a prekey message and does not    *)
(* parse as the other kind.                                                            *)
Parses(e) == e.tag = "prekey"

(* libsignal opens a prekey message in a session it has, or in a new one   *)
(* if the bundle was this receiver's and the one-time prekey is left; the  *)
(* address must be free or bound to the same identity.  It opens a message *)
(* once.                                                                   *)
Accepts(b, e) ==
    /\ Parses(e)
    /\ bobs[b].bound[e.sender_hash] \in {None, alices[e.alice].identity}
    /\ \/ e.alice \in bobs[b].sessions
       \/ alices[e.alice].bundle = b /\ bobs[b].one_time_prekey
    /\ <<e.alice, e.n>> \notin bobs[b].used

(* The plaintext of e is returned to the caller. *)
Returns(b, e) ==
    LET m == [from |-> e.sender_hash, alice |-> e.alice, n |-> e.n]
    IN  returned' = [returned EXCEPT ![b] = [x \in DOMAIN @ \cup {m} |->
                        (IF x \in DOMAIN @ THEN @[x] ELSE 0) + (IF x = m THEN 1 ELSE 0)]]

(* Mutant: the message is opened on a copy of the store. *)
DecryptOnCopy(b, e) ==
    /\ b \in kept
    /\ Checked(b, e) /\ Accepts(b, e)
    /\ Returns(b, e)
    /\ UNCHANGED <<bobs, alices, kept, offered, shown>>

(* Mutant: a message that libsignal refuses uses up the one-time prekey. *)
DecryptSpends(b, e) ==
    /\ b \in kept
    /\ Checked(b, e) /\ ~Accepts(b, e)
    /\ bobs' = [bobs EXCEPT ![b].one_time_prekey = FALSE]
    /\ UNCHANGED <<alices, returned, kept, offered, shown>>

(* Any check that fails leaves the store as it was. *)
Decrypt(b, e) ==
    /\ b \in kept
    /\ Checked(b, e) /\ Accepts(b, e)
    /\ bobs' = [bobs EXCEPT ![b] =
                  [bobs[b] EXCEPT !.one_time_prekey = @ /\ e.alice \in bobs[b].sessions,
                                  !.sessions = @ \cup {e.alice},
                                  !.bound[e.sender_hash] = alices[e.alice].identity,
                                  !.used = @ \cup {<<e.alice, e.n>>}]]
    /\ Returns(b, e)
    /\ UNCHANGED <<alices, kept, offered, shown>>

Next ==
    \/ \E p \in Party : CreateReceiverSession(p) \/ GeneratePrekeyBundle(p)
    \/ \E b \in DOMAIN bobs : PublishBundleBytes(b)
    \/ \E p \in Party, x \in BundleBytes : EstablishSessionFromBundle(p, x)
    \/ \E a \in DOMAIN alices : Encrypt(a)
    \/ \E b \in DOMAIN bobs, e \in Arrives : Decrypt(b, e)

Spec == Init /\ [][Next]_vars

-----------------------------------------------------------------------------
(* Every variable has its type. *)
TypeOK ==
    /\ \A b \in DOMAIN bobs : bobs[b] \in Bob
    /\ \A a \in DOMAIN alices : alices[a] \in Alice
    /\ DOMAIN returned = DOMAIN bobs /\ DOMAIN shown = DOMAIN alices
    /\ kept \subseteq DOMAIN bobs /\ offered \subseteq DOMAIN bobs
    /\ \A b \in DOMAIN bobs : DOMAIN returned[b] \subseteq Plaintext

(* Whatever the wire does to bundles and envelopes, `decrypt` returns each *)
(* message at most once, as coming from the identity that sent it, only on *)
(* the receiver whose bundle its sender used, and that receiver has the    *)
(* identity key that the sender's user was shown and compares.             *)
SentToMeOnce ==
    \A b \in DOMAIN bobs : \A m \in DOMAIN returned[b] :
        /\ returned[b][m] <= 1
        /\ m.from = alices[m.alice].identity
        /\ m.n <= alices[m.alice].sent
        /\ alices[m.alice].bundle = b
        /\ shown[m.alice] = bobs[b].identity

(* publish_bundle_bytes: "a sender who establishes from these bytes and    *)
(* encrypts will produce envelopes this session can decrypt": an envelope  *)
(* that arrives as it was sent, at a receiver whose handle was kept, is    *)
(* refused for two reasons only: its message was returned before, or the   *)
(* one-time prekey, of which a receiver has one, went to another sender.   *)
(* What was sent to other receivers or arrived changed is no reason.       *)
RefusedForAReason ==
    \A b \in kept, e \in Arrives :
        LET from == alices[e.alice].identity
        IN  e.tag = "prekey" /\ e.sender_hash = from /\ alices[e.alice].bundle = b =>
                \/ Checked(b, e) /\ Accepts(b, e)
                \/ \E m \in DOMAIN returned[b] :
                      m.alice # e.alice \/ m = [from |-> from, alice |-> e.alice, n |-> e.n]
=============================================================================
