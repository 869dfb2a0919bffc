----------------------------- MODULE CoreProofs -----------------------------
(***************************************************************************)
(* What holds of the machines of the Rust core and of the Rust relay       *)
(* client, for every value of the constants: ratchet sessions, the client, *)
(* the store, the fan-out and the prekey pool, in this order.              *)
(***************************************************************************)
EXTENDS Core, Sequences, TLAPS

(* Most steps are first-order; the ones that name SMT are not. *)
USE Zenon

-----------------------------------------------------------------------------
(***************************************************************************)
(* RatchetSession: what `decrypt` returns and refuses, for any number of   *)
(* identities, receivers, senders and messages, and whatever the wire      *)
(* does.  Neither property is inductive: both need how a receiver's store  *)
(* (sessions, used message keys, bound addresses, the one-time prekey) is  *)
(* tied to what it returned.                                               *)
(***************************************************************************)

(* The message k of sender a, as a receiver returns it *)
AsSent(a, k) == [from |-> alices[a].identity, alice |-> a, n |-> k]

RatchetTypes ==
    /\ bobs \in [DOMAIN bobs -> R!Bob]
    /\ alices \in [DOMAIN alices -> [identity : Party, bundle : DOMAIN bobs, sent : Nat]]
    /\ returned = [b \in DOMAIN bobs |-> returned[b]]
    /\ shown = [a \in DOMAIN alices |-> bobs[alices[a].bundle].identity]
    /\ kept \subseteq DOMAIN bobs /\ offered \subseteq DOMAIN bobs

(* The store of a receiver: its sessions are with senders that used its     *)
(* bundle and sent something it returned, an address is bound to its own    *)
(* identity, and the one-time prekey is gone only for a session.            *)
ReceiverStore(b) ==
    /\ \A a \in bobs[b].sessions :
         /\ a \in DOMAIN alices /\ alices[a].bundle = b
         /\ \E m \in DOMAIN returned[b] : m.alice = a
    /\ \A p \in Party : bobs[b].bound[p] \in {None, p}
    /\ ~bobs[b].one_time_prekey => bobs[b].sessions # {}

(* Each message that a receiver returned was returned once, in a session,   *)
(* under its sender's identity, and its key is used up; and the reverse.    *)
ReceiverReturned(b) ==
    /\ \A m \in DOMAIN returned[b] :
         /\ returned[b][m] = 1
         /\ m.alice \in bobs[b].sessions /\ m.n \in Nat /\ m.n <= alices[m.alice].sent
         /\ m.from = alices[m.alice].identity
         /\ <<m.alice, m.n>> \in bobs[b].used
    /\ \A a \in 1..MaxAlice, k \in 1..MaxSent : <<a, k>> \in bobs[b].used => AsSent(a, k) \in DOMAIN returned[b]

RatchetInv == RatchetTypes /\ \A b \in DOMAIN bobs : ReceiverStore(b) /\ ReceiverReturned(b)

-----------------------------------------------------------------------------
(* The invariant gives both properties. *)
LEMMA RatchetInvSentToMeOnce == RatchetInv => SentToMeOnce
<1> SUFFICES ASSUME RatchetInv, NEW b \in DOMAIN bobs, NEW m \in DOMAIN returned[b]
             PROVE  /\ returned[b][m] <= 1
                    /\ m.from = alices[m.alice].identity
                    /\ m.n <= alices[m.alice].sent
                    /\ alices[m.alice].bundle = b
                    /\ shown[m.alice] = bobs[b].identity
  BY DEF SentToMeOnce, R!SentToMeOnce
<1>1. /\ returned[b][m] = 1 /\ m.from = alices[m.alice].identity /\ m.n <= alices[m.alice].sent
      /\ m.alice \in bobs[b].sessions
  BY DEF RatchetInv, ReceiverReturned
<1>2. m.alice \in DOMAIN alices /\ alices[m.alice].bundle = b
  BY <1>1 DEF RatchetInv, ReceiverStore
<1>3. shown[m.alice] = bobs[b].identity
  BY <1>2 DEF RatchetInv, RatchetTypes
<1> QED
  BY <1>1, <1>2, <1>3, SMT

(* An envelope as it was sent passes the checks; libsignal refuses it only  *)
(* if its key is used up or the one-time prekey went to another session.    *)
LEMMA RatchetInvRefusedForAReason == RatchetInv => RefusedForAReason
<1> SUFFICES ASSUME RatchetInv, NEW b \in kept, NEW e \in R!Arrives,
                    e.tag = "prekey", e.sender_hash = alices[e.alice].identity, alices[e.alice].bundle = b,
                    ~(R!Checked(b, e) /\ R!Accepts(b, e))
             PROVE  \E m \in DOMAIN returned[b] : m.alice # e.alice \/ m = AsSent(e.alice, e.n)
  BY DEF RefusedForAReason, R!RefusedForAReason, AsSent
<1>1. b \in DOMAIN bobs /\ bobs[b] \in R!Bob /\ ReceiverStore(b) /\ ReceiverReturned(b)
  BY DEF RatchetInv, RatchetTypes
<1>2. e.alice \in 1..MaxAlice /\ e.n \in 1..MaxSent /\ e.sender_hash \in Party
  BY DEF R!Arrives, R!Envelope
<1>3. bobs[b].bound[e.sender_hash] \in {None, alices[e.alice].identity}
  BY <1>1, <1>2 DEF ReceiverStore
<1>4. \/ e.alice \notin bobs[b].sessions /\ ~bobs[b].one_time_prekey
      \/ <<e.alice, e.n>> \in bobs[b].used
  BY <1>3 DEF R!Checked, R!Accepts, R!Parses
<1>5. CASE <<e.alice, e.n>> \in bobs[b].used
  BY <1>1, <1>2, <1>5 DEF ReceiverReturned
<1>6. CASE e.alice \notin bobs[b].sessions /\ ~bobs[b].one_time_prekey
  <2>1. PICK a \in bobs[b].sessions : TRUE
    BY <1>1, <1>6 DEF ReceiverStore
  <2> QED
    BY <1>1, <1>6, <2>1 DEF ReceiverStore
<1> QED
  BY <1>4, <1>5, <1>6

-----------------------------------------------------------------------------
(* There are no sessions at first. *)
LEMMA RatchetStarts == R!Init => RatchetInv
  BY SMT DEF R!Init, RatchetInv, RatchetTypes

(* A new receiver has an empty store and has returned nothing. *)
LEMMA NewBobRatchet ==
    ASSUME RatchetInv, NEW p \in Party, R!NewBob(p), UNCHANGED <<alices, shown>>,
           kept' \subseteq DOMAIN bobs', offered' \subseteq DOMAIN bobs'
    PROVE  RatchetInv'
<1> DEFINE v == [identity |-> p, one_time_prekey |-> TRUE, sessions |-> {},
                 bound |-> [q \in Party |-> None], used |-> {}]
           none == [m \in {} |-> 0]
<1>1. v \in R!Bob /\ v.sessions = {} /\ v.used = {} /\ v.one_time_prekey /\ \A q \in Party : v.bound[q] = None
  BY DEF R!Bob
<1>2. DOMAIN none = {}
  OBVIOUS
<1>3. bobs' = R!Append1(bobs, v) /\ returned' = R!Append1(returned, none) /\ DOMAIN returned = DOMAIN bobs
  BY DEF R!NewBob, RatchetInv, RatchetTypes
<1> HIDE DEF v, none
<1>4. DOMAIN bobs \subseteq DOMAIN bobs' /\ DOMAIN returned' = DOMAIN bobs'
  BY <1>3 DEF R!Append1
<1>5. /\ bobs' = [b \in DOMAIN bobs' |-> IF b \in DOMAIN bobs THEN bobs[b] ELSE v]
      /\ returned' = [b \in DOMAIN bobs' |-> IF b \in DOMAIN bobs THEN returned[b] ELSE none]
  BY <1>3, <1>4 DEF R!Append1
<1>6. RatchetTypes'
  <2>1. bobs' \in [DOMAIN bobs' -> R!Bob] /\ returned' = [b \in DOMAIN bobs' |-> returned'[b]]
    BY <1>1, <1>5, SMT DEF RatchetInv, RatchetTypes
  <2>2. alices \in [DOMAIN alices -> [identity : Party, bundle : DOMAIN bobs', sent : Nat]]
    BY <1>4 DEF RatchetInv, RatchetTypes
  <2>3. \A a \in DOMAIN alices : bobs'[alices[a].bundle] = bobs[alices[a].bundle]
    BY <1>4, <1>5, SMT DEF RatchetInv, RatchetTypes
  <2>4. shown = [a \in DOMAIN alices |-> bobs'[alices[a].bundle].identity]
    BY <2>3 DEF RatchetInv, RatchetTypes
  <2> QED
    BY <2>1, <2>2, <2>4 DEF RatchetTypes
<1>7. ASSUME NEW b \in DOMAIN bobs' PROVE ReceiverStore(b)' /\ ReceiverReturned(b)'
  <2>1. CASE b \in DOMAIN bobs
    <3>1. bobs'[b] = bobs[b] /\ returned'[b] = returned[b] /\ ReceiverStore(b) /\ ReceiverReturned(b)
      BY <1>5, <2>1 DEF RatchetInv
    <3> QED
      BY <3>1 DEF ReceiverStore, ReceiverReturned, AsSent
  <2>2. CASE b \notin DOMAIN bobs
    BY <1>1, <1>2, <1>5, <2>2 DEF ReceiverStore, ReceiverReturned
  <2> QED
    BY <2>1, <2>2
<1> QED
  BY <1>6, <1>7 DEF RatchetInv

(* While identities and bundles of the senders stay and nothing is unsent,  *)
(* what a receiver has is still in order.                                   *)
LEMMA SendersGrow ==
    ASSUME RatchetInv, UNCHANGED <<bobs, returned>>, DOMAIN alices \subseteq DOMAIN alices',
           \A a \in DOMAIN alices : /\ alices'[a].identity = alices[a].identity
                                    /\ alices'[a].bundle = alices[a].bundle
                                    /\ alices'[a].sent \in Nat /\ alices[a].sent <= alices'[a].sent
    PROVE  \A b \in DOMAIN bobs' : ReceiverStore(b)' /\ ReceiverReturned(b)'
<1> SUFFICES ASSUME NEW b \in DOMAIN bobs PROVE ReceiverStore(b)' /\ ReceiverReturned(b)'
  OBVIOUS
<1>1. ReceiverStore(b) /\ ReceiverReturned(b)
  BY DEF RatchetInv
<1>2. \A a \in bobs[b].sessions : a \in DOMAIN alices
  BY <1>1 DEF ReceiverStore
<1>3. ReceiverStore(b)'
  BY <1>1, <1>2 DEF ReceiverStore
<1>4. ASSUME NEW m \in DOMAIN returned[b]
      PROVE  m.alice \in DOMAIN alices /\ m.n <= alices'[m.alice].sent /\ m.from = alices'[m.alice].identity
  <2>1. m.alice \in DOMAIN alices /\ m.n \in Nat /\ m.n <= alices[m.alice].sent /\ m.from = alices[m.alice].identity
    BY <1>1, <1>2 DEF ReceiverReturned
  <2>2. alices[m.alice].sent \in Nat /\ alices'[m.alice].sent \in Nat /\ alices[m.alice].sent <= alices'[m.alice].sent
    BY <2>1 DEF RatchetInv, RatchetTypes
  <2> QED
    BY <2>1, <2>2, SMT
<1>5. ASSUME NEW a \in 1..MaxAlice, NEW k \in 1..MaxSent, <<a, k>> \in bobs[b].used
      PROVE  AsSent(a, k)' \in DOMAIN returned[b]
  <2>1. AsSent(a, k) \in DOMAIN returned[b]
    BY <1>1, <1>5 DEF ReceiverReturned
  <2>2. a \in DOMAIN alices
    BY <1>4, <2>1 DEF AsSent
  <2> QED
    BY <2>1, <2>2 DEF AsSent
<1>6. ReceiverReturned(b)'
  BY <1>1, <1>4, <1>5 DEF ReceiverReturned
<1> QED
  BY <1>3, <1>6

(* A sender's session is with the receiver whose identity its user is shown. *)
LEMMA EstablishRatchet ==
    ASSUME RatchetInv, NEW p \in Party, NEW x \in R!BundleBytes, R!EstablishSessionFromBundle(p, x)
    PROVE  RatchetInv'
<1> DEFINE v == R!EstablishOutboundSession(p, x.of)
<1>1. x.of \in DOMAIN bobs /\ x.identity = bobs[x.of].identity
  BY DEF R!EstablishSessionFromBundle, R!EstablishResult, R!SignaturesVerify, R!BundleBytes,
     RatchetInv, RatchetTypes
<1>2. v \in [identity : Party, bundle : DOMAIN bobs, sent : Nat] /\ v.bundle = x.of
  BY <1>1 DEF R!EstablishOutboundSession
<1>3. /\ alices' = R!Append1(alices, v) /\ shown' = R!Append1(shown, x.identity) /\ DOMAIN shown = DOMAIN alices
      /\ UNCHANGED <<bobs, returned, kept, offered>>
  BY DEF R!EstablishSessionFromBundle, R!NewAlice, R!BundleIdentityKeyBytes, RatchetInv,
     RatchetTypes
<1> HIDE DEF v
<1>4. DOMAIN alices \subseteq DOMAIN alices' /\ DOMAIN shown' = DOMAIN alices'
  BY <1>3 DEF R!Append1
<1>5. /\ alices' = [a \in DOMAIN alices' |-> IF a \in DOMAIN alices THEN alices[a] ELSE v]
      /\ shown' = [a \in DOMAIN alices' |-> IF a \in DOMAIN alices THEN shown[a] ELSE x.identity]
  BY <1>3, <1>4 DEF R!Append1
<1>6. RatchetTypes'
  <2>1. alices' \in [DOMAIN alices' -> [identity : Party, bundle : DOMAIN bobs, sent : Nat]]
    BY <1>2, <1>5 DEF RatchetInv, RatchetTypes
  <2>2. \A a \in DOMAIN alices' : shown'[a] = bobs[alices'[a].bundle].identity
    BY <1>1, <1>2, <1>5 DEF RatchetInv, RatchetTypes
  <2>3. shown' = [a \in DOMAIN alices' |-> bobs[alices'[a].bundle].identity]
    BY <1>5, <2>2
  <2> QED
    BY <1>3, <2>1, <2>3 DEF RatchetInv, RatchetTypes
<1>7. \A a \in DOMAIN alices : alices'[a] = alices[a] /\ alices[a].sent \in Nat
  BY <1>4, <1>5 DEF RatchetInv, RatchetTypes
<1>8. \A b \in DOMAIN bobs' : ReceiverStore(b)' /\ ReceiverReturned(b)'
  BY <1>3, <1>4, <1>7, SendersGrow, SMT
<1> QED
  BY <1>6, <1>8 DEF RatchetInv

(* A sender has sent one more message. *)
LEMMA EncryptRatchet == ASSUME RatchetInv, NEW a \in DOMAIN alices, R!Encrypt(a) PROVE RatchetInv'
<1>1. /\ alices' = [alices EXCEPT ![a].sent = @ + 1]
      /\ UNCHANGED <<bobs, returned, kept, offered, shown>>
  BY DEF R!Encrypt
<1>2. alices \in [DOMAIN alices -> [identity : Party, bundle : DOMAIN bobs, sent : Nat]]
  BY DEF RatchetInv, RatchetTypes
<1>3. /\ alices' \in [DOMAIN alices' -> [identity : Party, bundle : DOMAIN bobs, sent : Nat]]
      /\ DOMAIN alices' = DOMAIN alices
      /\ \A c \in DOMAIN alices : /\ alices'[c].identity = alices[c].identity
                                   /\ alices'[c].bundle = alices[c].bundle
                                   /\ alices'[c].sent \in Nat /\ alices[c].sent <= alices'[c].sent
  BY <1>1, <1>2, SMT
<1>4. RatchetTypes'
  BY <1>1, <1>3 DEF RatchetInv, RatchetTypes
<1>5. \A b \in DOMAIN bobs' : ReceiverStore(b)' /\ ReceiverReturned(b)'
  BY <1>1, <1>3, SendersGrow
<1> QED
  BY <1>4, <1>5 DEF RatchetInv

(* A message that is returned was not returned before; its session and its  *)
(* used key are recorded in the same step.                                  *)
LEMMA DecryptRatchet ==
    ASSUME RatchetInv, NEW b \in DOMAIN bobs, NEW e \in R!Arrives, R!Decrypt(b, e)
    PROVE  RatchetInv'
<1> DEFINE m == [from |-> e.sender_hash, alice |-> e.alice, n |-> e.n]
           old == DOMAIN returned[b]
<1>1. /\ e.alice \in 1..MaxAlice /\ e.n \in 1..MaxSent /\ e.sender_hash \in Party
      /\ e.alice \in DOMAIN alices /\ e.n <= alices[e.alice].sent
  BY DEF R!Arrives, R!Envelope
<1>2. /\ e.sender_hash = alices[e.alice].identity
      /\ e.alice \in bobs[b].sessions \/ alices[e.alice].bundle = b
      /\ <<e.alice, e.n>> \notin bobs[b].used
  BY DEF R!Decrypt, R!Checked, R!Accepts, R!Parses
<1>3. /\ bobs \in [DOMAIN bobs -> R!Bob] /\ bobs[b] \in R!Bob
      /\ ReceiverStore(b) /\ ReceiverReturned(b) /\ DOMAIN returned = DOMAIN bobs
  BY DEF RatchetInv, RatchetTypes
<1>4. alices[e.alice].bundle = b
  BY <1>2, <1>3 DEF ReceiverStore
<1>5. m \notin old
  BY <1>2, <1>3 DEF ReceiverReturned
<1>6. UNCHANGED <<alices, kept, offered, shown>>
  BY DEF R!Decrypt
<1>7. /\ bobs' \in [DOMAIN bobs -> R!Bob] /\ DOMAIN bobs' = DOMAIN bobs
      /\ \A c \in DOMAIN bobs : bobs'[c].identity = bobs[c].identity /\ (c # b => bobs'[c] = bobs[c])
      /\ bobs'[b].sessions = bobs[b].sessions \cup {e.alice}
      /\ bobs'[b].used = bobs[b].used \cup {<<e.alice, e.n>>}
      /\ bobs'[b].bound = [bobs[b].bound EXCEPT ![e.sender_hash] = alices[e.alice].identity]
  <2> DEFINE r == [identity |-> bobs[b].identity,
                   one_time_prekey |-> bobs[b].one_time_prekey /\ e.alice \in bobs[b].sessions,
                   sessions |-> bobs[b].sessions \cup {e.alice},
                   bound |-> [bobs[b].bound EXCEPT ![e.sender_hash] = alices[e.alice].identity],
                   used |-> bobs[b].used \cup {<<e.alice, e.n>>}]
  <2>1. r \in R!Bob
    <3>1. bobs[b].bound \in [Party -> Party \cup {None}] /\ alices[e.alice].identity \in Party
      BY <1>1, <1>2, <1>3 DEF R!Bob
    <3>2. r.bound \in [Party -> Party \cup {None}]
      BY <3>1
    <3>3. r.sessions \in SUBSET (1..MaxAlice) /\ r.used \in SUBSET ((1..MaxAlice) \X (1..MaxSent))
      BY <1>1, <1>3, SMT DEF R!Bob
    <3>4. r.one_time_prekey \in BOOLEAN /\ r.identity \in Party
      BY <1>3 DEF R!Bob
    <3> QED
      BY <3>2, <3>3, <3>4 DEF R!Bob
  <2>2. bobs' = [bobs EXCEPT ![b] = r]
    <3>1. PICK q : q = [bobs[b] EXCEPT !.one_time_prekey = @ /\ e.alice \in bobs[b].sessions,
                                       !.sessions = @ \cup {e.alice},
                                       !.bound[e.sender_hash] = alices[e.alice].identity,
                                       !.used = @ \cup {<<e.alice, e.n>>}]
      OBVIOUS
    <3>2. bobs' = [bobs EXCEPT ![b] = q]
      <4>1. bobs' = [bobs EXCEPT ![b] =
                       [bobs[b] EXCEPT !.one_time_prekey = @ /\ e.alice \in bobs[b].sessions,
                                       !.sessions = @ \cup {e.alice},
                                       !.bound[e.sender_hash] = alices[e.alice].identity,
                                       !.used = @ \cup {<<e.alice, e.n>>}]]
        BY DEF R!Decrypt
      <4> QED
        BY <3>1, <4>1
    <3>3. q = r
      BY <1>3, <3>1 DEF R!Bob
    <3> QED
      BY <3>2, <3>3
  <2> HIDE DEF r
  <2>3. /\ bobs' \in [DOMAIN bobs -> R!Bob] /\ bobs'[b] = r
        /\ \A c \in DOMAIN bobs : c # b => bobs'[c] = bobs[c]
    BY <1>3, <2>1, <2>2
  <2> QED
    BY <2>3, SMT DEF r
<1>8. /\ returned' = [c \in DOMAIN bobs |-> returned'[c]]
      /\ \A c \in DOMAIN bobs : c # b => returned'[c] = returned[c]
      /\ DOMAIN returned'[b] = old \cup {m}
      /\ returned'[b][m] = 1
      /\ \A x \in old : returned'[b][x] = returned[b][x]
  <2> DEFINE g == [x \in old \cup {m} |->
                     (IF x \in old THEN returned[b][x] ELSE 0) + (IF x = m THEN 1 ELSE 0)]
  <2>1. returned' = [returned EXCEPT ![b] = g]
    BY DEF R!Decrypt, R!Returns
  <2>2. \A x \in old : returned[b][x] = 1
    BY <1>3 DEF ReceiverReturned
  <2>3. returned = [c \in DOMAIN bobs |-> returned[c]]
    BY DEF RatchetInv, RatchetTypes
  <2>4. DOMAIN g = old \cup {m} /\ g[m] = 1 /\ \A x \in old : g[x] = returned[b][x]
    BY <1>5, <2>2, SMT
  <2> HIDE DEF g
  <2>5. returned'[b] = g /\ \A c \in DOMAIN bobs : c # b => returned'[c] = returned[c]
    BY <1>3, <2>1
  <2>6. returned' = [c \in DOMAIN bobs |-> returned'[c]]
    BY <1>3, <2>1
  <2> QED
    BY <2>4, <2>5, <2>6
<1> HIDE DEF m, old
<1>9. RatchetTypes'
  <2>1. \A a \in DOMAIN alices : bobs'[alices[a].bundle].identity = bobs[alices[a].bundle].identity
    BY <1>7 DEF RatchetInv, RatchetTypes
  <2>2. shown = [a \in DOMAIN alices |-> bobs'[alices[a].bundle].identity]
    BY <2>1 DEF RatchetInv, RatchetTypes
  <2> QED
    BY <1>6, <1>7, <1>8, <2>2 DEF RatchetInv, RatchetTypes
<1>10. ASSUME NEW c \in DOMAIN bobs, c # b PROVE ReceiverStore(c)' /\ ReceiverReturned(c)'
  <2>1. bobs'[c] = bobs[c] /\ returned'[c] = returned[c] /\ ReceiverStore(c) /\ ReceiverReturned(c)
    BY <1>7, <1>8, <1>10 DEF RatchetInv
  <2> QED
    BY <1>6, <2>1 DEF ReceiverStore, ReceiverReturned, AsSent
<1>11. ReceiverStore(b)'
  <2>1. m.alice = e.alice
    BY DEF m
  <2>2. \A a \in bobs'[b].sessions : /\ a \in DOMAIN alices /\ alices[a].bundle = b
                                     /\ \E x \in DOMAIN returned'[b] : x.alice = a
    BY <1>1, <1>3, <1>4, <1>7, <1>8, <2>1, SMT DEF ReceiverStore, old
  <2>3. \A p \in Party : bobs'[b].bound[p] \in {None, p}
    BY <1>1, <1>2, <1>3, <1>7 DEF ReceiverStore, R!Bob
  <2>4. bobs'[b].sessions # {}
    BY <1>7
  <2> QED
    BY <1>6, <2>2, <2>3, <2>4 DEF ReceiverStore
<1>12. ReceiverReturned(b)'
  <2>1. ASSUME NEW x \in DOMAIN returned'[b]
        PROVE  /\ returned'[b][x] = 1
               /\ x.alice \in bobs'[b].sessions /\ x.n \in Nat /\ x.n <= alices[x.alice].sent
               /\ x.from = alices[x.alice].identity
               /\ <<x.alice, x.n>> \in bobs'[b].used
    <3>1. CASE x = m
      BY <1>1, <1>2, <1>7, <1>8, <3>1, SMT DEF m
    <3>2. CASE x \in old
      BY <1>3, <1>7, <1>8, <3>2 DEF ReceiverReturned, old
    <3> QED
      BY <1>8, <3>1, <3>2
  <2>2. ASSUME NEW a \in 1..MaxAlice, NEW k \in 1..MaxSent, <<a, k>> \in bobs'[b].used
        PROVE  AsSent(a, k) \in DOMAIN returned'[b]
    <3>1. CASE <<a, k>> = <<e.alice, e.n>>
      <4>1. AsSent(a, k) = m
        BY <1>2, <3>1 DEF AsSent, m
      <4> QED
        BY <1>8, <4>1
    <3>2. CASE <<a, k>> \in bobs[b].used
      BY <1>3, <1>8, <3>2 DEF ReceiverReturned, old
    <3> QED
      BY <1>7, <2>2, <3>1, <3>2
  <2>3. \A a, k : AsSent(a, k)' = AsSent(a, k)
    BY <1>6 DEF AsSent
  <2> QED
    BY <1>6, <2>1, <2>2, <2>3 DEF ReceiverReturned
<1> QED
  BY <1>7, <1>9, <1>10, <1>11, <1>12 DEF RatchetInv

-----------------------------------------------------------------------------
(* Every step keeps the invariant: one step per operation. *)
LEMMA RatchetStep == RatchetInv /\ [R!Next]_(R!vars) => RatchetInv'
<1> SUFFICES ASSUME RatchetInv, [R!Next]_(R!vars) PROVE RatchetInv'
  OBVIOUS
<1>1. CASE UNCHANGED R!vars
  <2>1. bobs' = bobs /\ alices' = alices /\ returned' = returned /\ kept' = kept /\ offered' = offered /\ shown' = shown
    BY <1>1 DEF R!vars
  <2>2. \A a \in DOMAIN alices : alices[a].sent \in Nat
    BY DEF RatchetInv, RatchetTypes
  <2>3. \A b \in DOMAIN bobs' : ReceiverStore(b)' /\ ReceiverReturned(b)'
    BY <2>1, <2>2, SendersGrow, SMT
  <2>4. RatchetTypes'
    BY <2>1 DEF RatchetInv, RatchetTypes
  <2> QED
    BY <2>3, <2>4 DEF RatchetInv
<1>2. ASSUME NEW p \in Party, R!CreateReceiverSession(p) \/ R!GeneratePrekeyBundle(p) PROVE RatchetInv'
  <2>1. R!NewBob(p) /\ UNCHANGED <<alices, shown>>
    BY <1>2 DEF R!CreateReceiverSession, R!GeneratePrekeyBundle
  <2>2. DOMAIN bobs \subseteq DOMAIN bobs'
    BY <2>1 DEF R!NewBob, R!Append1
  <2>3. kept' \subseteq DOMAIN bobs' /\ offered' \subseteq DOMAIN bobs'
    BY <1>2, <2>2 DEF R!CreateReceiverSession, R!GeneratePrekeyBundle, RatchetInv, RatchetTypes
  <2> QED
    BY <2>1, <2>3, NewBobRatchet
<1>3. ASSUME NEW b \in DOMAIN bobs, R!PublishBundleBytes(b) PROVE RatchetInv'
  <2>1. /\ UNCHANGED <<bobs, alices, returned, kept, shown>>
        /\ offered' = offered \cup {b}
    BY <1>3 DEF R!PublishBundleBytes
  <2>2. \A a \in DOMAIN alices : alices[a].sent \in Nat
    BY DEF RatchetInv, RatchetTypes
  <2>3. \A c \in DOMAIN bobs' : ReceiverStore(c)' /\ ReceiverReturned(c)'
    BY <2>1, <2>2, SendersGrow, SMT
  <2>4. RatchetTypes'
    BY <2>1, SMT DEF RatchetInv, RatchetTypes
  <2> QED
    BY <2>3, <2>4 DEF RatchetInv
<1>4. ASSUME NEW p \in Party, NEW x \in R!BundleBytes, R!EstablishSessionFromBundle(p, x) PROVE RatchetInv'
  BY <1>4, EstablishRatchet
<1>5. ASSUME NEW a \in DOMAIN alices, R!Encrypt(a) PROVE RatchetInv'
  BY <1>5, EncryptRatchet
<1>6. ASSUME NEW b \in DOMAIN bobs, NEW e \in R!Arrives, R!Decrypt(b, e) PROVE RatchetInv'
  BY <1>6, DecryptRatchet
<1> QED
  BY <1>1, <1>2, <1>3, <1>4, <1>5, <1>6, SMT DEF R!Next

(* `decrypt` returns each message at most once, as from its sender, on the  *)
(* receiver whose bundle and identity the sender's user was shown.          *)
THEOREM SentToMeOnceHolds == R!Spec => []SentToMeOnce
  BY RatchetStarts, RatchetStep, RatchetInvSentToMeOnce, PTL DEF R!Spec

(* An envelope that arrives as it was sent is refused only if it was        *)
(* returned before or the one-time prekey went to another sender.           *)
THEOREM RefusedForAReasonHolds == R!Spec => []RefusedForAReason
  BY RatchetStarts, RatchetStep, RatchetInvRefusedForAReason, PTL DEF R!Spec

-----------------------------------------------------------------------------
(***************************************************************************)
(* RelayClient.  A reply carries no request id, so OkIsStored rests on     *)
(* there being one frame under way at most: the request of the call in     *)
(* progress or the reply to it.  That is lost for good when a call is      *)
(* dropped, and holds through a break because nothing is sent or answered  *)
(* after it.                                                               *)
(***************************************************************************)

(* r is the request of the call in progress. *)
Asked(r) ==
    /\ call # None
    /\ r.n = call.n /\ r.op = (IF call.step = "challenge" THEN "challenge" ELSE call.op)

(* r may answer the call in progress: if it is a write and r says it was done, it was. *)
Told(r) ==
    /\ call # None
    /\ r.outcome = "ok" /\ call.step = "request" /\ C!Writes(call.op) => call.n \in stored

(* What is under way: nothing that will be answered, the request, or the reply *)
NothingUnderWay == replies = <<>> /\ (broken \/ (call = None /\ requests = <<>>))
RequestUnderWay == replies = <<>> /\ \E r : requests = <<r>> /\ Asked(r)
ReplyUnderWay == requests = <<>> /\ \E r : replies = <<r>> /\ Told(r)
OneFrame == NothingUnderWay \/ RequestUnderWay \/ ReplyUnderWay

ClientInv ==
    /\ call \in Calls \cup {None} /\ n \in Nat /\ cancelled \in BOOLEAN /\ broken \in BOOLEAN
    /\ ~cancelled => OneFrame
    /\ OkIsStored

(* What the operators on sequences do to a queue of one frame *)
LEMMA QueueOfOne ==
    ASSUME NEW r
    PROVE  /\ <<r>> # <<>> /\ Head(<<r>>) = r /\ Tail(<<r>>) = <<>> /\ Append(<<>>, r) = <<r>>
           /\ \A i \in 0..Len(<<r>>) : SubSeq(<<r>>, 1, i) \in {<<>>, <<r>>}
           /\ \A i \in 0..Len(<<>>) : SubSeq(<<>>, 1, i) = <<>>
<1>1. <<r>> # <<>> /\ Head(<<r>>) = r
  BY SMT
<1>2. Append(<<>>, r) = <<r>>
  BY SMT
<1>3. Tail(<<r>>) = <<>>
  BY SMT
<1>4. ASSUME NEW i \in 0..Len(<<r>>) PROVE SubSeq(<<r>>, 1, i) \in {<<>>, <<r>>}
  <2>1. i = 0 \/ i = 1
    BY SMT
  <2>2. CASE i = 0
    BY <2>2, SMT
  <2>3. CASE i = 1
    <3>1. SubSeq(<<r>>, 1, 1) = [j \in 1..1 |-> <<r>>[j]]
      BY SMT
    <3>2. [j \in 1..1 |-> <<r>>[j]] = <<r>>
      BY SMT
    <3> QED
      BY <2>3, <3>1, <3>2
  <2> QED
    BY <2>1, <2>2, <2>3
<1>5. ASSUME NEW i \in 0..Len(<<>>) PROVE SubSeq(<<>>, 1, i) = <<>>
  BY SMT
<1> QED
  BY <1>1, <1>2, <1>3, <1>4, <1>5

(* The call after its challenge was answered *)
LEMMA RequestStep ==
    ASSUME NEW c \in Calls, NEW k
    PROVE  [c EXCEPT !.step = "request", !.n = k] = [op |-> c.op, step |-> "request", n |-> k, item |-> c.item]
<1>1. PICK d : d = [op |-> c.op, step |-> "request", n |-> c.n, item |-> c.item]
  OBVIOUS
<1>2. [c EXCEPT !.step = "request"] = d
  BY <1>1, SMT DEF Calls
<1>3. [d EXCEPT !.n = k] = [op |-> c.op, step |-> "request", n |-> k, item |-> c.item]
  BY <1>1, SMT
<1> QED
  BY <1>2, <1>3

(* A client that has just connected has nothing under way. *)
LEMMA ClientStarts == C!Init => ClientInv
<1> SUFFICES ASSUME C!Init PROVE ClientInv
  OBVIOUS
<1>1. call = None /\ requests = <<>> /\ replies = <<>> /\ n = 0 /\ cancelled = FALSE /\ broken = FALSE
  BY DEF C!Init
<1>2. result.outcome = "none"
  BY SMT DEF C!Init
<1>3. "none" # "ok"
  BY SMT
<1>4. OkIsStored
  BY <1>2, <1>3 DEF OkIsStored, C!OkIsStored
<1>5. n \in Nat
  BY <1>1, SMT
<1> QED
  BY <1>1, <1>4, <1>5 DEF ClientInv, OneFrame, NothingUnderWay

(* An operation that starts sends the one request, or loses it to a broken connection. *)
LEMMA StartClient ==
    ASSUME ClientInv, NEW op \in C!Operation, NEW item \in Item, C!Start(op, item)
    PROVE  ClientInv'
<1>0. PICK r : r = [op |-> IF C!Writes(op) THEN "challenge" ELSE op, n |-> n + 1, item |-> item, challenge |-> 0]
  OBVIOUS
<1>1. /\ call = None /\ n' = n + 1
      /\ call' = [op |-> op, step |-> IF C!Writes(op) THEN "challenge" ELSE "request", n |-> n + 1, item |-> item]
      /\ requests' = IF broken THEN requests ELSE Append(requests, r)
      /\ replies' = replies /\ result' = result /\ stored' = stored
      /\ cancelled' = cancelled /\ broken' = broken
  BY <1>0 DEF C!Start, C!Send, C!Relay
<1>2. call' \in Calls /\ n' \in Nat
  <2>1. n + 1 \in Nat
    BY SMT DEF ClientInv
  <2>2. (IF C!Writes(op) THEN "challenge" ELSE "request") \in {"challenge", "request"}
    OBVIOUS
  <2> QED
    BY <1>1, <2>1, <2>2, SMT DEF Calls
<1>3. Asked(r)'
  <2>1. call' # None
    BY <1>2, CoreAssumption
  <2>2. call'.n = r.n /\ r.op = IF call'.step = "challenge" THEN "challenge" ELSE call'.op
    BY <1>0, <1>1, SMT
  <2> QED
    BY <2>1, <2>2 DEF Asked
<1>4. ~cancelled => OneFrame'
  <2> SUFFICES ASSUME ~cancelled PROVE OneFrame'
    OBVIOUS
  <2>1. NothingUnderWay
    BY <1>1 DEF ClientInv, OneFrame, RequestUnderWay, ReplyUnderWay, Asked, Told
  <2>2. CASE broken
    BY <1>1, <2>1, <2>2 DEF OneFrame, NothingUnderWay
  <2>3. CASE ~broken
    <3>1. requests = <<>> /\ requests' = Append(requests, r)
      BY <1>1, <2>1, <2>3 DEF NothingUnderWay
    <3>2. requests' = <<r>>
      BY <3>1, QueueOfOne, SMT
    <3> QED
      BY <1>1, <1>3, <2>1, <3>2 DEF OneFrame, NothingUnderWay, RequestUnderWay
  <2> QED
    BY <2>2, <2>3
<1> QED
  BY <1>1, <1>2, <1>4 DEF ClientInv, OkIsStored, C!OkIsStored

(* A call that returns with nothing more to come leaves nothing under way. *)
LEMMA ReturnClient ==
    ASSUME ClientInv, NEW outcome, NEW item, C!Return(outcome, item),
           replies' = <<>>, requests' = requests, broken \/ requests = <<>>,
           UNCHANGED <<n, stored, cancelled, broken>>,
           ~cancelled /\ C!Writes(call.op) /\ outcome = "ok" => call.n \in stored
    PROVE  ClientInv'
<1>1. call' = None /\ result' = [op |-> call.op, n |-> call.n, outcome |-> outcome, item |-> item]
  BY DEF C!Return
<1>2. result'.op = call.op /\ result'.n = call.n /\ result'.outcome = outcome
  BY <1>1, SMT
<1>3. OkIsStored'
  BY <1>2 DEF OkIsStored, C!OkIsStored, C!Writes
<1>4. OneFrame'
  BY <1>1 DEF OneFrame, NothingUnderWay
<1> QED
  BY <1>1, <1>3, <1>4 DEF ClientInv

(* The reply that is read is the one to the call in progress, if no call was dropped. *)
LEMMA ReceiveClient == ASSUME ClientInv, C!Receive PROVE ClientInv'
<1> DEFINE r == Head(replies)
<1>1. /\ call # None /\ replies # <<>> /\ replies' = Tail(replies)
      /\ stored' = stored /\ cancelled' = cancelled /\ broken' = broken
  BY DEF C!Receive, C!Relay
<1>2. call \in Calls /\ call.step \in {"challenge", "request"}
  BY <1>1 DEF ClientInv, Calls
<1>3. ASSUME ~cancelled
      PROVE  requests = <<>> /\ replies' = <<>> /\ Told(r)
  <2>1. ReplyUnderWay
    BY <1>1, <1>3 DEF ClientInv, OneFrame, NothingUnderWay, RequestUnderWay
  <2> QED
    BY <1>1, <2>1, QueueOfOne DEF ReplyUnderWay
<1> HIDE DEF r
<1>4. ASSUME NEW outcome, NEW item, C!Return(outcome, item), UNCHANGED <<n, requests>>,
             ~cancelled /\ C!Writes(call.op) /\ outcome = "ok" => call.n \in stored
      PROVE  ClientInv'
  <2>1. CASE ~cancelled
    BY <1>1, <1>3, <1>4, <2>1, ReturnClient
  <2>2. CASE cancelled
    <3>1. call' = None
      BY <1>4 DEF C!Return
    <3> QED
      BY <1>1, <1>4, <2>2, <3>1 DEF ClientInv, OkIsStored, C!OkIsStored
  <2> QED
    BY <2>1, <2>2
<1>5. CASE call.step = "request"
  <2>1. C!Answered(r) /\ UNCHANGED <<n, requests>>
    BY <1>5 DEF C!Receive, r
  <2> DEFINE outcome == IF r.outcome # "ok" THEN r.outcome
                        ELSE IF ~C!Writes(call.op) /\ r.field # C!SlotOf(call.op) THEN "error" ELSE "ok"
             item == IF r.outcome = "ok" /\ ~C!Writes(call.op) /\ r.field = C!SlotOf(call.op) THEN r.item ELSE None
  <2>2. C!Return(outcome, item)
    BY <2>1 DEF C!Answered
  <2>3. outcome = "ok" => r.outcome = "ok"
    OBVIOUS
  <2> HIDE DEF outcome, item
  <2>4. ~cancelled /\ C!Writes(call.op) /\ outcome = "ok" => call.n \in stored
    BY <1>3, <1>5, <2>3 DEF Told
  <2> QED
    BY <1>4, <2>1, <2>2, <2>4
<1>6. CASE call.step = "challenge"
  <2>1. C!Challenged(r)
    BY <1>6 DEF C!Receive, r
  <2>2. CASE C!Return("error", None) /\ UNCHANGED <<n, requests>>
    BY <1>4, <2>2
  <2>3. CASE /\ n' = n + 1
             /\ call' = [call EXCEPT !.step = "request", !.n = n + 1]
             /\ C!Send([op |-> call.op, n |-> n + 1, item |-> call.item, challenge |-> r.n])
             /\ UNCHANGED result
    <3>0. PICK q : q = [op |-> call.op, n |-> n + 1, item |-> call.item, challenge |-> r.n]
      OBVIOUS
    <3>1. call' \in Calls /\ call'.step = "request" /\ call'.n = n + 1 /\ call'.op = call.op /\ n' \in Nat
      <4>1. n + 1 \in Nat /\ n' = n + 1
        BY <2>3, SMT DEF ClientInv
      <4>2. call' = [call EXCEPT !.step = "request", !.n = n + 1]
        BY <2>3
      <4>3. call = [op |-> call.op, step |-> call.step, n |-> call.n, item |-> call.item]
            /\ call.op \in C!Operation /\ call.item \in Item
        BY <1>2, SMT DEF Calls
      <4>4. call' = [op |-> call.op, step |-> "request", n |-> n + 1, item |-> call.item]
        BY <1>2, <4>2, RequestStep
      <4>5. call' \in Calls
        BY <4>1, <4>3, <4>4, SMT DEF Calls
      <4>6. call'.step = "request" /\ call'.n = n + 1 /\ call'.op = call.op
        BY <4>4, SMT
      <4> QED
        BY <4>1, <4>5, <4>6
    <3>2. Asked(q)'
      <4>1. call' # None
        BY <3>1, CoreAssumption
      <4>2. "request" # "challenge" /\ q.n = n + 1 /\ q.op = call.op
        BY <3>0, SMT
      <4> QED
        BY <3>1, <4>1, <4>2 DEF Asked
    <3>3. requests' = IF broken THEN requests ELSE Append(requests, q)
      BY <2>3, <3>0 DEF C!Send
    <3>4. ASSUME ~cancelled PROVE OneFrame'
      <4>1. CASE broken
        BY <1>1, <1>3, <3>4, <4>1 DEF OneFrame, NothingUnderWay
      <4>2. CASE ~broken
        <5>1. requests = <<>> /\ requests' = Append(requests, q)
          BY <1>3, <3>3, <3>4, <4>2
        <5>2. requests' = <<q>>
          BY <5>1, QueueOfOne, SMT
        <5> QED
          BY <1>3, <3>2, <3>4, <5>2 DEF OneFrame, RequestUnderWay
      <4> QED
        BY <4>1, <4>2
    <3> QED
      BY <1>1, <2>3, <3>1, <3>4 DEF ClientInv, OkIsStored, C!OkIsStored
  <2> QED
    BY <2>1, <2>2, <2>3 DEF C!Challenged
<1> QED
  BY <1>2, <1>5, <1>6

(* The relay's answer takes the place of the request, and says "ok" to a write only    *)
(* when it has stored the item; after a break nothing comes back.                      *)
LEMMA AnswerClient == ASSUME ClientInv, C!Answer PROVE ClientInv'
<1>1. /\ requests # <<>> /\ requests' = Tail(requests)
      /\ call' = call /\ n' = n /\ result' = result /\ cancelled' = cancelled /\ broken' = broken
  BY DEF C!Answer
<1>2. stored \subseteq stored'
  BY DEF C!Answer, C!Relay
<1>3. OkIsStored'
  BY <1>1, <1>2 DEF ClientInv, OkIsStored, C!OkIsStored
<1>4. broken => replies' = replies
  BY DEF C!Answer, C!Reply
<1>5. ASSUME ~cancelled PROVE OneFrame'
  <2>1. CASE broken
    <3>1. replies = <<>>
      BY <1>1, <1>5 DEF ClientInv, OneFrame, NothingUnderWay, RequestUnderWay, ReplyUnderWay
    <3> QED
      BY <1>1, <1>4, <2>1, <3>1 DEF OneFrame, NothingUnderWay
  <2>2. CASE ~broken
    <3>1. RequestUnderWay
      BY <1>1, <1>5, <2>2 DEF ClientInv, OneFrame, NothingUnderWay, ReplyUnderWay
    <3>2. PICK r : requests = <<r>> /\ Asked(r)
      BY <3>1 DEF RequestUnderWay
    <3>3. Head(requests) = r /\ requests' = <<>> /\ replies = <<>>
      BY <1>1, <3>1, <3>2, QueueOfOne, SMT DEF RequestUnderWay
    <3>4. call # None /\ call' = call
      BY <1>1, <3>2 DEF Asked
    <3>5. ASSUME NEW outcome, NEW field, NEW item, C!Reply(r, outcome, field, item),
                 outcome = "ok" /\ call.step = "request" /\ C!Writes(call.op) => call.n \in stored'
          PROVE  OneFrame'
      <4>1. PICK q : q = [n |-> r.n, outcome |-> outcome, field |-> field, item |-> item]
        OBVIOUS
      <4>2. replies' = Append(replies, q)
        BY <2>2, <3>5, <4>1 DEF C!Reply
      <4>3. replies' = <<q>>
        BY <3>3, <4>2, QueueOfOne, SMT
      <4>4. q.outcome = outcome
        BY <4>1, SMT
      <4>5. Told(q)'
        BY <3>4, <3>5, <4>4 DEF Told, C!Writes
      <4> QED
        BY <3>3, <4>3, <4>5 DEF OneFrame, ReplyUnderWay
    <3>6. CASE C!Reply(r, "error", "none", None)
      <4>1. "error" # "ok"
        BY SMT
      <4> QED
        BY <3>5, <3>6, <4>1
    <3>7. CASE r.op = "challenge" /\ C!Reply(r, "ok", "challenge", None)
      <4>1. ~(call.step = "request" /\ C!Writes(call.op))
        BY <3>2, <3>7, SMT DEF Asked, C!Writes
      <4> QED
        BY <3>5, <3>7, <4>1
    <3>8. CASE stored' = stored \cup {r.n} /\ C!Reply(r, "ok", "none", None)
      BY <3>2, <3>5, <3>8 DEF Asked
    <3>9. ASSUME NEW outcome, NEW field, NEW item, r.op \in {"lookup_prekey", "pickup_envelope"},
                 C!Reply(r, outcome, field, item)
          PROVE  OneFrame'
      <4>1. ~(call.step = "request" /\ C!Writes(call.op))
        BY <3>2, <3>9, SMT DEF Asked, C!Writes
      <4> QED
        BY <3>5, <3>9, <4>1
    <3>10. \/ C!Reply(r, "error", "none", None)
           \/ r.op = "challenge" /\ C!Reply(r, "ok", "challenge", None)
           \/ stored' = stored \cup {r.n} /\ C!Reply(r, "ok", "none", None)
           \/ /\ r.op \in {"lookup_prekey", "pickup_envelope"}
              /\ \E outcome, field, item : C!Reply(r, outcome, field, item)
      BY <3>3 DEF C!Answer
    <3> QED
      BY <3>6, <3>7, <3>8, <3>9, <3>10, SMT
  <2> QED
    BY <2>1, <2>2 DEF ClientInv
<1> QED
  BY <1>1, <1>3, <1>5 DEF ClientInv

(* A break loses the frame or leaves it; a request that is left is not answered. *)
LEMMA BreakClient == ASSUME ClientInv, C!Break PROVE ClientInv'
<1>1. /\ broken' = TRUE /\ UNCHANGED <<call, n, result, stored, cancelled>>
  BY DEF C!Break, C!Relay
<1>2. PICK i \in 0..Len(requests), j \in 0..Len(replies) :
         requests' = SubSeq(requests, 1, i) /\ replies' = SubSeq(replies, 1, j)
  BY DEF C!Break
<1>3. ASSUME ~cancelled PROVE OneFrame'
  <2>1. CASE replies = <<>>
    <3>1. replies' = <<>>
      BY <1>2, <2>1, QueueOfOne, SMT
    <3> QED
      BY <1>1, <3>1 DEF OneFrame, NothingUnderWay
  <2>2. CASE replies # <<>>
    <3>1. ReplyUnderWay
      BY <1>3, <2>2 DEF ClientInv, OneFrame, NothingUnderWay, RequestUnderWay
    <3>2. PICK r : replies = <<r>> /\ Told(r) /\ requests = <<>>
      BY <3>1 DEF ReplyUnderWay
    <3>3. requests' = <<>> /\ replies' \in {<<>>, <<r>>}
      BY <1>2, <3>2, QueueOfOne, SMT
    <3>4. Told(r)'
      BY <1>1, <3>2 DEF Told, C!Writes
    <3> QED
      BY <1>1, <3>3, <3>4 DEF OneFrame, NothingUnderWay, ReplyUnderWay
  <2> QED
    BY <2>1, <2>2
<1> QED
  BY <1>1, <1>3 DEF ClientInv, OkIsStored, C!OkIsStored

(* Every step of the client, of the relay and of the connection keeps the invariant. *)
LEMMA ClientStep == ClientInv /\ [C!Next]_(C!vars) => ClientInv'
<1> SUFFICES ASSUME ClientInv, [C!Next]_(C!vars) PROVE ClientInv'
  OBVIOUS
<1>1. ASSUME NEW op \in C!Operation, NEW i \in Item, C!Start(op, i) PROVE ClientInv'
  BY <1>1, StartClient
<1>2. ASSUME NEW op \in C!Operation, C!StartFails(op) PROVE ClientInv'
  <2>1. UNCHANGED <<call, requests, replies, n, stored, cancelled, broken>>
    BY <1>2 DEF C!StartFails, C!Relay
  <2>2. result'.outcome = "ConnectionUnavailable"
    BY <1>2, SMT DEF C!StartFails
  <2>3. "ConnectionUnavailable" # "ok"
    BY SMT
  <2>4. OkIsStored'
    BY <2>2, <2>3 DEF OkIsStored, C!OkIsStored
  <2>5. ~cancelled' => OneFrame'
    BY <2>1 DEF ClientInv, OneFrame, NothingUnderWay, RequestUnderWay, ReplyUnderWay, Asked,
       Told
  <2> QED
    BY <2>1, <2>4, <2>5 DEF ClientInv
<1>3. CASE C!Receive
  BY <1>3, ReceiveClient
<1>4. CASE C!ReceiveEnd
  <2>1. /\ C!Return("ConnectionUnavailable", None) /\ replies' = <<>> /\ requests' = requests /\ broken
        /\ UNCHANGED <<n, stored, cancelled, broken>>
    BY <1>4 DEF C!ReceiveEnd, C!Relay
  <2>2. "ConnectionUnavailable" # "ok"
    BY SMT
  <2> QED
    BY <2>1, <2>2, ReturnClient
<1>5. CASE C!Cancel
  <2>1. call' = None /\ cancelled' = TRUE /\ UNCHANGED <<n, broken>>
    BY <1>5 DEF C!Cancel
  <2> QED
    BY <2>1 DEF ClientInv, OkIsStored, C!OkIsStored
<1>6. ASSUME UNCHANGED <<call, requests, replies, n, result, stored, cancelled, broken>> PROVE ClientInv'
  <2>1. ~cancelled' => OneFrame'
    BY <1>6 DEF ClientInv, OneFrame, NothingUnderWay, RequestUnderWay, ReplyUnderWay, Asked,
       Told
  <2> QED
    BY <1>6, <2>1 DEF ClientInv, OkIsStored, C!OkIsStored
<1>7. CASE C!Close
  BY <1>6, <1>7 DEF C!Close, C!Relay
<1>8. CASE C!Answer
  BY <1>8, AnswerClient
<1>9. CASE C!Break
  BY <1>9, BreakClient
<1>10. CASE UNCHANGED C!vars
  BY <1>6, <1>10 DEF C!vars
<1> QED
  BY <1>1, <1>2, <1>3, <1>4, <1>5, <1>7, <1>8, <1>9, <1>10 DEF C!Next

(* A publish or a send that returned Ok was stored by the relay, whatever breaks and   *)
(* however many operations the connection has carried, unless a call was dropped on it. *)
THEOREM OkMeansStored == C!Spec => []OkIsStored
<1>1. ClientInv => OkIsStored
  BY DEF ClientInv
<1> QED
  BY <1>1, ClientStarts, ClientStep, PTL DEF C!Spec

-----------------------------------------------------------------------------
(***************************************************************************)
(* CoreStore.  What is known of a store grows with each statement of       *)
(* `open`, so the invariant says it for every place `open` can be at; and  *)
(* once a page is written nobody with another key gets past a statement.   *)
(***************************************************************************)

(* How far `open` is, and what the file has by then *)
StoreInv ==
    /\ at \in [Opener -> {"closed", "keyed", "verified", "meta", "version", "open"}]
    /\ key \in [Opener -> Key \cup {None}]
    /\ \A o \in Opener :
         /\ at[o] # "closed" => key[o] \in Key
         /\ at[o] \in {"meta", "version", "open"} => key[o] = file_key /\ schema_meta
         /\ at[o] \in {"version", "open"} => version
         /\ at[o] = "open" => state

(* The file is empty at first and nobody has opened it. *)
LEMMA StoreStarts == S!Init => StoreInv
  BY SMT DEF S!Init, StoreInv

(* The first statement sets the key of an empty file; a file that has a page has the   *)
(* key already, or the statement would fail.                                           *)
LEMMA CreateSchemaMetaStore ==
    ASSUME StoreInv, NEW o \in Opener, S!CreateSchemaMeta(o)
    PROVE  StoreInv'
<1>1. key[o] \in Key /\ file_key \in {None, key[o]} /\ file_key' = key[o]
  BY SMT DEF S!CreateSchemaMeta, S!Decrypts, StoreInv
<1>2. ASSUME NEW p \in Opener, at[p] \in {"meta", "version", "open"}
      PROVE  key[p] = file_key'
  <2>1. key[p] \in Key /\ key[p] = file_key
    BY <1>2, SMT DEF StoreInv
  <2> QED
    BY <1>1, <2>1, CoreAssumption, SMT
<1> QED
  BY <1>1, <1>2, SMT DEF S!CreateSchemaMeta, StoreInv

(* Every step of a process that opens or uses the store keeps the invariant. *)
LEMMA StoreStep == StoreInv /\ [S!Next]_(S!vars) => StoreInv'
<1> SUFFICES ASSUME StoreInv, [S!Next]_(S!vars) PROVE StoreInv'
  OBVIOUS
<1>1. ASSUME NEW o \in Opener, NEW k \in Key, S!Connect(o, k) PROVE StoreInv'
  BY <1>1, SMT DEF S!Connect, StoreInv
<1>2. ASSUME NEW o \in Opener, S!Close(o) PROVE StoreInv'
  BY <1>2, SMT DEF S!Close, StoreInv
<1>3. ASSUME NEW o \in Opener, S!Verify(o) PROVE StoreInv'
  BY <1>3, SMT DEF S!Verify, StoreInv
<1>4. ASSUME NEW o \in Opener, S!CreateSchemaMeta(o) PROVE StoreInv'
  BY <1>4, CreateSchemaMetaStore
<1>5. ASSUME NEW o \in Opener, S!InsertVersion(o) PROVE StoreInv'
  BY <1>5, SMT DEF S!InsertVersion, StoreInv
<1>6. ASSUME NEW o \in Opener, S!CreateState(o) PROVE StoreInv'
  BY <1>6, SMT DEF S!CreateState, StoreInv
<1>7. ASSUME UNCHANGED <<file_key, schema_meta, version, state, at, key>> PROVE StoreInv'
  BY <1>7 DEF StoreInv
<1>8. ASSUME NEW o \in Opener, \/ \E v \in Value : S!PutTyped(o, v)
                               \/ \E b \in Raw : S!PutRaw(o, b)
                               \/ S!GetTyped(o)
      PROVE  StoreInv'
  BY <1>7, <1>8 DEF S!PutTyped, S!PutRaw, S!GetTyped
<1>9. CASE UNCHANGED S!vars
  BY <1>7, <1>9 DEF S!vars
<1> QED
  BY <1>1, <1>2, <1>3, <1>4, <1>5, <1>6, <1>8, <1>9 DEF S!Next

(* A store that `open` returned has the key of the file and the whole schema, for any  *)
(* number of processes and keys, and wherever an earlier one stopped.                  *)
THEOREM OpenStoresAreWhole == S!Spec => []OpenStoreIsWhole
<1>1. StoreInv => OpenStoreIsWhole
  BY SMT DEF StoreInv, OpenStoreIsWhole, S!OpenStoreIsWhole
<1> QED
  BY <1>1, StoreStarts, StoreStep, PTL DEF S!Spec

-----------------------------------------------------------------------------
(* Fanout, for every set of devices and identities and any bounds.         *)

(* A removed device is in none of the tables, and the ciphertexts are of    *)
(* this or an earlier fan-out and of calls already made.                    *)
FanoutInv ==
    /\ FanoutTypeOK
    /\ TablesAgree
    /\ RemovedIsOut
    /\ DOMAIN removed \cap DOMAIN sender_sessions = {}
    /\ \A d \in DOMAIN removed : removed[d] <= calls
    /\ \A c \in outbox : c.epoch <= epoch /\ c.call <= calls

(* Initially there are no tables and no ciphertexts. *)
LEMMA FanoutStarts == FanoutInit => FanoutInv
  BY SMT DEF FanoutInit, FanoutInv, FanoutTypeOK, TablesAgree, RemovedIsOut, Empty

(* The list is accepted only if it is a bijection between devices and       *)
(* identities, so the table built from it is one.                           *)
LEMMA AcceptedTable ==
    ASSUME NEW l \in DeviceList, Accepted(l)
    PROVE  /\ TableOf(l) \in [DOMAIN TableOf(l) -> Device]
           /\ DOMAIN TableOf(l) \subseteq Identity
           /\ {TableOf(l)[p] : p \in DOMAIN TableOf(l)} = {l[i][1] : i \in DOMAIN l}
           /\ \A p, q \in DOMAIN TableOf(l) : TableOf(l)[p] = TableOf(l)[q] => p = q
<1> DEFINE t == TableOf(l)
<1>0. t = [p \in DOMAIN t |-> t[p]] /\ DOMAIN t = {l[i][2] : i \in DOMAIN l}
  BY SMT DEF TableOf
<1>1. PICK k \in 1..MaxList : l \in [1..k -> Device \X Identity]
  BY DEF DeviceList
<1>2. DOMAIN l = 1..k /\ \A i \in 1..k : l[i] \in Device \X Identity
  BY <1>1
<1>3. \A i \in 1..k : l[i][1] \in Device /\ l[i][2] \in Identity
  BY <1>2
<1>4. ASSUME NEW i \in 1..k
      PROVE  l[i][2] \in DOMAIN t /\ t[l[i][2]] = l[i][1]
  <2>1. PICK x \in {l[j] : j \in DOMAIN l} : x = (CHOOSE y \in {l[j] : j \in DOMAIN l} : y[2] = l[i][2])
                                              /\ x[2] = l[i][2]
    BY <1>2
  <2>2. PICK j \in 1..k : x = l[j]
    BY <1>2, <2>1
  <2>3. j = i
    BY <1>2, <2>1, <2>2 DEF Accepted
  <2>4. l[i][2] \in {l[m][2] : m \in DOMAIN l}
    BY <1>2
  <2> QED
    BY <2>1, <2>2, <2>3, <2>4 DEF TableOf
<1> HIDE DEF t
<1>5. \A p \in DOMAIN t : \E i \in 1..k : p = l[i][2]
  BY <1>0, <1>2
<1>6. \A i, j \in 1..k : l[i][1] = l[j][1] => i = j
  BY <1>2 DEF Accepted
<1>7. \A p \in DOMAIN t : t[p] \in Device
  BY <1>3, <1>4, <1>5, SMT
<1>8. {t[p] : p \in DOMAIN t} = {l[i][1] : i \in DOMAIN l}
  <2>1. ASSUME NEW p \in DOMAIN t PROVE t[p] \in {l[i][1] : i \in DOMAIN l}
    <3>1. PICK i \in 1..k : p = l[i][2]
      BY <1>5
    <3>2. t[p] = l[i][1] /\ i \in DOMAIN l
      BY <1>2, <1>4, <3>1
    <3> QED
      BY <3>2
  <2>2. ASSUME NEW i \in DOMAIN l PROVE \E p \in DOMAIN t : l[i][1] = t[p]
    BY <1>2, <1>4
  <2> QED
    BY <2>1, <2>2
<1>9. \A p, q \in DOMAIN t : t[p] = t[q] => p = q
  BY <1>4, <1>5, <1>6, SMT
<1>10. t \in [DOMAIN t -> Device] /\ DOMAIN t \subseteq Identity
  BY <1>0, <1>3, <1>5, <1>7
<1> QED
  BY <1>8, <1>9, <1>10 DEF t

(* `establish` starts from empty tables, and nothing is of the new epoch. *)
LEMMA EstablishFanout ==
    ASSUME FanoutInv, NEW l \in DeviceList, Establish(l)
    PROVE  FanoutInv'
<1> DEFINE devices == {l[i][1] : i \in DOMAIN l}
<1>1. /\ identity_to_device' \in [DOMAIN identity_to_device' -> Device]
      /\ DOMAIN identity_to_device' \subseteq Identity
      /\ {identity_to_device'[p] : p \in DOMAIN identity_to_device'} = devices
      /\ \A p, q \in DOMAIN identity_to_device' : identity_to_device'[p] = identity_to_device'[q] => p = q
  BY AcceptedTable DEF Establish
<1>2. devices \subseteq Device
  <2>1. \A i \in DOMAIN l : l[i][1] \in Device
    BY DEF DeviceList
  <2> QED
    BY <2>1
<1>3. sender_sessions' = [d \in devices |-> 0] /\ receiver_sessions' = [d \in devices |-> {}]
  BY DEF Establish
<1>4. epoch' = epoch + 1 /\ removed' = Empty /\ calls' = calls /\ outbox' = outbox /\ opened' = opened
  BY DEF Establish
<1> HIDE DEF devices
<1>5. FanoutTypeOK'
  BY <1>1, <1>2, <1>3, <1>4, SMT DEF FanoutInv, FanoutTypeOK, Empty
<1>6. TablesAgree'
  BY <1>1, <1>3 DEF TablesAgree
<1>7. DOMAIN removed' = {}
  BY <1>4 DEF Empty
<1>8. \A c \in outbox : c.epoch \in Nat
  BY DEF FanoutInv, FanoutTypeOK, Ciphertext
<1> QED
  BY <1>4, <1>5, <1>6, <1>7, <1>8, SMT DEF FanoutInv, FanoutTypeOK, RemovedIsOut

(* A call of `encrypt_to_all` has a number that no removal has seen, but    *)
(* removed devices are not in the table it goes through.                    *)
LEMMA EncryptFanout ==
    ASSUME FanoutInv, NEW fails, EncryptToAll(fails)
    PROVE  FanoutInv'
<1> USE DEF EncryptToAll
<1> DEFINE new == {[device |-> d, epoch |-> epoch, n |-> sender_sessions[d] + 1,
                    call |-> calls + 1] : d \in DOMAIN sender_sessions}
<1>1. DOMAIN sender_sessions' = DOMAIN sender_sessions /\ \A d \in DOMAIN sender_sessions : sender_sessions'[d] \in Nat
  BY SMT DEF FanoutInv, FanoutTypeOK
<1>2. new \subseteq Ciphertext /\ \A c \in new : c.epoch = epoch /\ c.call = calls + 1 /\ c.device \in DOMAIN sender_sessions
  BY SMT DEF FanoutInv, FanoutTypeOK, Ciphertext
<1>3. outbox' \subseteq outbox \cup new
  OBVIOUS
<1> HIDE DEF new
<1>4. FanoutTypeOK'
  BY <1>1, <1>2, <1>3, SMT DEF FanoutInv, FanoutTypeOK
<1>5. TablesAgree'
  BY <1>1 DEF FanoutInv, TablesAgree
<1>6. RemovedIsOut'
  <2>1. ASSUME NEW d \in DOMAIN removed, NEW c \in outbox', c.device = d, c.epoch = epoch
        PROVE  c \in outbox
    BY <1>2, <1>3, <2>1 DEF FanoutInv
  <2> QED
    BY <2>1 DEF FanoutInv, RemovedIsOut
<1>7. \A c \in outbox : c.call \in Nat
  BY DEF FanoutInv, FanoutTypeOK, Ciphertext
<1>8. \A c \in outbox' : c.epoch <= epoch' /\ c.call <= calls'
  BY <1>2, <1>3, <1>7, SMT DEF FanoutInv, FanoutTypeOK
<1>9. \A d \in DOMAIN removed' : removed'[d] <= calls'
  BY SMT DEF FanoutInv, FanoutTypeOK
<1> QED
  BY <1>1, <1>4, <1>5, <1>6, <1>8, <1>9 DEF FanoutInv

(* A device `decrypt_as` resolves to is linked, so it was not removed. *)
LEMMA DecryptFanout ==
    ASSUME FanoutInv, NEW p \in Identity, NEW c \in outbox, DecryptAs(p, c)
    PROVE  FanoutInv'
<1> USE DEF DecryptAs
<1>1. c \in Ciphertext /\ c.n \in Nat /\ c.device \in DOMAIN sender_sessions
  BY DEF FanoutInv, FanoutTypeOK, Ciphertext, TablesAgree
<1>2. c.device \notin DOMAIN removed
  BY <1>1 DEF FanoutInv
<1>3. DOMAIN receiver_sessions' = DOMAIN receiver_sessions
  BY DEF FanoutInv, FanoutTypeOK
<1>4. receiver_sessions' \in [DOMAIN receiver_sessions' -> SUBSET Nat]
  BY <1>1, <1>3 DEF FanoutInv, FanoutTypeOK
<1>5. opened' = opened \cup {[identity |-> p, late |-> FALSE, ciphertext |-> c]}
  <2>1. (c.device \in DOMAIN removed) = FALSE
    BY <1>2, SMT
  <2> QED
    BY <2>1
<1>6. FanoutTypeOK'
  <2>1. [identity |-> p, late |-> FALSE, ciphertext |-> c] \in [identity : Identity, late : BOOLEAN, ciphertext : Ciphertext]
    BY <1>1
  <2> QED
    BY <1>3, <1>4, <1>5, <2>1 DEF FanoutInv, FanoutTypeOK
<1>7. TablesAgree'
  BY <1>3, SMT DEF FanoutInv, TablesAgree
<1>8. RemovedIsOut'
  BY <1>5, SMT DEF FanoutInv, RemovedIsOut
<1> QED
  BY <1>6, <1>7, <1>8 DEF FanoutInv

(* `remove_device` takes the device out of the three tables at once. *)
LEMMA RemoveFanout ==
    ASSUME FanoutInv, NEW d \in Device, RemoveDevice(d)
    PROVE  FanoutInv'
<1> USE DEF RemoveDevice, Without
<1>1. /\ DOMAIN sender_sessions' = DOMAIN sender_sessions \ {d}
      /\ DOMAIN receiver_sessions' = DOMAIN receiver_sessions \ {d}
      /\ DOMAIN removed' = DOMAIN removed \cup {d}
  OBVIOUS
<1>2. /\ \A x \in DOMAIN sender_sessions' : sender_sessions'[x] = sender_sessions[x]
      /\ \A x \in DOMAIN receiver_sessions' : receiver_sessions'[x] = receiver_sessions[x]
  OBVIOUS
<1>3. /\ DOMAIN identity_to_device' = {q \in DOMAIN identity_to_device : identity_to_device[q] # d}
      /\ \A p \in DOMAIN identity_to_device' : identity_to_device'[p] = identity_to_device[p]
  OBVIOUS
<1>4. \A x \in DOMAIN removed' : removed'[x] = IF x \in DOMAIN removed THEN removed[x] ELSE calls
  OBVIOUS
<1>5. \A x \in DOMAIN removed' : removed'[x] \in Nat /\ removed'[x] <= calls
  BY <1>1, <1>4, SMT DEF FanoutInv, FanoutTypeOK
<1>6. FanoutTypeOK'
  BY <1>1, <1>2, <1>3, <1>5 DEF FanoutInv, FanoutTypeOK
<1>7. TablesAgree'
  BY <1>1, <1>3, SMT DEF FanoutInv, TablesAgree
<1>8. ASSUME NEW x \in DOMAIN removed', NEW c \in outbox, c.device = x, c.epoch = epoch
      PROVE  c.call <= removed'[x]
  BY <1>4, <1>8 DEF FanoutInv, RemovedIsOut
<1>9. RemovedIsOut'
  BY <1>8 DEF FanoutInv, RemovedIsOut
<1> QED
  BY <1>1, <1>5, <1>6, <1>7, <1>9 DEF FanoutInv

(* Every step of the specification, the stuttering one included, keeps the invariant. *)
LEMMA FanoutStep == FanoutInv /\ [FanoutNext]_fanout => FanoutInv'
<1> SUFFICES ASSUME FanoutInv, [FanoutNext]_fanout PROVE FanoutInv'
  OBVIOUS
<1>1. CASE \E l \in DeviceList : Establish(l)
  BY <1>1, EstablishFanout
<1>2. CASE \E fails \in {{}} \cup {{d} : d \in DOMAIN sender_sessions} : EncryptToAll(fails)
  BY <1>2, EncryptFanout
<1>3. CASE \E p \in Identity, c \in outbox : DecryptAs(p, c)
  BY <1>3, DecryptFanout
<1>4. CASE \E d \in Device : RemoveDevice(d)
  BY <1>4, RemoveFanout
<1>5. CASE UNCHANGED fanout
  BY <1>5 DEF fanout, FanoutInv, FanoutTypeOK, TablesAgree, RemovedIsOut
<1> QED
  BY <1>1, <1>2, <1>3, <1>4, <1>5 DEF FanoutNext

(* The strengthened invariant holds in every state of every fan-out. *)
THEOREM FanoutInvariant == FanoutSpec => []FanoutInv
  BY FanoutStarts, FanoutStep, PTL DEF FanoutSpec

(* The three tables of a FanoutSession list the same devices, each under    *)
(* one identity: the `expect`s of encrypt_to_all and decrypt_as hold.       *)
THEOREM FanoutTablesAgree == FanoutSpec => []TablesAgree
<1>1. FanoutInv => TablesAgree
  BY DEF FanoutInv
<1> QED
  BY <1>1, FanoutInvariant, PTL

(* After remove_device nothing is sent to the device and it opens nothing.  *)
THEOREM FanoutRemovedIsOut == FanoutSpec => []RemovedIsOut
<1>1. FanoutInv => RemovedIsOut
  BY DEF FanoutInv
<1> QED
  BY <1>1, FanoutInvariant, PTL

-----------------------------------------------------------------------------
(***************************************************************************)
(* PreKeyPool.  UniqueIds is inductive once it is known that every id      *)
(* drawn is below the counter; NeverHandedAgain also needs that what is in *)
(* the pool or was handed out has been drawn.                              *)
(***************************************************************************)

Fin == INSTANCE FiniteSetTheorems

(* The finite sets of FiniteSetTheorems are those of FiniteSets. *)
LEMMA SameFinite ==
    ASSUME NEW T
    PROVE  (IsFiniteSet(T) <=> Fin!IsFiniteSet(T)) /\ Cardinality(T) = Fin!Cardinality(T)
  BY DEF IsFiniteSet, Fin!IsFiniteSet, Cardinality, Fin!Cardinality

(* Everything drawn lies below the counter, and the pool and what was      *)
(* handed out are parts of what was drawn.                                 *)
PoolInv ==
    /\ TypeOK
    /\ available \subseteq drawn /\ handed \subseteq drawn
    /\ ~wrapped => \A r \in drawn : r.id < next_id
    /\ UniqueIds
    /\ NeverHandedAgain

(* What generate_one_time_pre_keys returns when no addition wraps: new     *)
(* records, whose ids are those from `start` on, each of them once.        *)
LEMMA GeneratedIds ==
    ASSUME NEW start \in Id, NEW count \in Nat, NEW p \in Nat, start + count <= Width
    PROVE  LET fresh == GenerateOneTimePreKeys(start, count, p)
           IN  /\ \A r \in fresh : r.id >= start /\ r.id < start + count
               /\ \A r, s \in fresh : r.id = s.id => r = s
<1> DEFINE fresh == GenerateOneTimePreKeys(start, count, p)
<1>1. \A k \in 0..(count - 1) : (start + k) % Width = start + k
  BY PoolAssumption, SMT DEF Id
<1>2. \A r \in fresh : \E k \in 0..(count - 1) : r = [id |-> start + k, pair |-> p + k]
  BY <1>1 DEF GenerateOneTimePreKeys
<1> HIDE DEF fresh
<1>3. \A r \in fresh : r.id >= start /\ r.id < start + count
  BY <1>2, SMT DEF Id
<1>4. ASSUME NEW r \in fresh, NEW s \in fresh, r.id = s.id PROVE r = s
  <2>1. PICK k \in 0..(count - 1) : r = [id |-> start + k, pair |-> p + k]
    BY <1>2
  <2>2. PICK m \in 0..(count - 1) : s = [id |-> start + m, pair |-> p + m]
    BY <1>2
  <2>3. start + k = start + m
    BY <1>4, <2>1, <2>2
  <2>4. k = m
    BY <2>3, SMT DEF Id
  <2> QED  BY <2>1, <2>2, <2>4
<1> QED  BY <1>3, <1>4 DEF fresh

(* The records generate_one_time_pre_keys returns are finitely many and    *)
(* have ids of the right width, also when additions wrap.                  *)
LEMMA GeneratedType ==
    ASSUME NEW start \in Id, NEW count \in Nat, NEW p \in Nat
    PROVE  /\ GenerateOneTimePreKeys(start, count, p) \subseteq Record
           /\ IsFiniteSet(GenerateOneTimePreKeys(start, count, p))
<1>1. \A k \in 0..(count - 1) : (start + k) % Width \in Id /\ p + k \in Nat
  BY PoolAssumption, SMT DEF Id
<1>2. GenerateOneTimePreKeys(start, count, p) \subseteq Record
  BY <1>1, SMT DEF GenerateOneTimePreKeys, Record
<1>3. IsFiniteSet(0..(count - 1))
  BY Fin!FS_Interval, SameFinite, SMT
<1> DEFINE f == [k \in 0..(count - 1) |-> [id |-> (start + k) % Width, pair |-> p + k]]
           T == GenerateOneTimePreKeys(start, count, p)
<1>4. f \in Fin!Surjection(0..(count - 1), T)
  BY DEF Fin!Surjection, GenerateOneTimePreKeys
<1>5. IsFiniteSet(T)
  <2> HIDE DEF f, T
  <2>1. Fin!IsFiniteSet(T)
    BY <1>3, <1>4, Fin!FS_Surjection, SameFinite
  <2> QED  BY <2>1, SameFinite
<1> QED  BY <1>2, <1>5

(* OneTimePreKeyPool::new makes no records of its own. *)
LEMMA NewSubset ==
    ASSUME NEW old, NEW fresh
    PROVE  /\ New(old, fresh) \subseteq old \cup fresh
           /\ IsFiniteSet(old) /\ IsFiniteSet(fresh) => IsFiniteSet(New(old, fresh))
<1>1. New(old, fresh) \subseteq old \cup fresh
  BY DEF New
<1> QED  BY <1>1, Fin!FS_Union, Fin!FS_Subset, SameFinite

(* A new pool, of any watermark, satisfies the inductive invariant. *)
LEMMA PoolStarts == Init => PoolInv
<1> SUFFICES ASSUME NEW w \in 0..MaxTarget, WithLowWatermark(w) PROVE PoolInv
  BY DEF Init
<1> DEFINE count == IF w = 0 THEN 1 ELSE w
           fresh == GenerateOneTimePreKeys(1, count, 0)
<1>0. w \in Nat /\ w <= MaxTarget
  BY PoolAssumption, SMT
<1>1. count \in Nat /\ 1 \in Id /\ count + 1 \in Id /\ 1 + count <= Width
  <2>1. CASE w = 0
    BY <2>1, PoolAssumption, SMT DEF Id
  <2>2. CASE w # 0
    BY <1>0, <2>2, PoolAssumption, SMT DEF Id
  <2> QED  BY <2>1, <2>2
<1>2. available = New({}, fresh) /\ drawn = fresh /\ next_id = count + 1 /\ pairs = count
      /\ consumed = {} /\ issued = {} /\ handed = {} /\ wrapped = FALSE
  BY DEF WithLowWatermark
<1> HIDE DEF count
<1>3. fresh \subseteq Record /\ IsFiniteSet(fresh)
  BY <1>1, GeneratedType
<1>4. available \subseteq fresh /\ IsFiniteSet(available)
  BY <1>2, <1>3, NewSubset, Fin!FS_EmptySet, SameFinite
<1>5. /\ \A r \in fresh : r.id < 1 + count
      /\ \A r, s \in fresh : r.id = s.id => r = s
  BY <1>1, GeneratedIds
<1> HIDE DEF fresh
<1>6. TypeOK
  BY <1>1, <1>2, <1>3, <1>4 DEF TypeOK
<1> QED  BY <1>1, <1>2, <1>4, <1>5, <1>6, SMT DEF PoolInv, UniqueIds, NeverHandedAgain

(* take_one_time moves one record from the pool to those handed out, and keeps the invariant. *)
LEMMA TakeOneTimePool == PoolInv /\ TakeOneTime => PoolInv'
<1> SUFFICES ASSUME PoolInv, NEW r \in available, Take(r),
                    issued' = issued \cup {r.id}, handed' = handed \cup {r},
                    UNCHANGED <<next_id, pairs, drawn, wrapped>>
             PROVE  PoolInv'
  BY DEF TakeOneTime
<1>1. TypeOK'
  BY Fin!FS_Subset, SameFinite DEF PoolInv, TypeOK, Take, Record
<1>2. UniqueIds' /\ (available \subseteq drawn)' /\ (handed \subseteq drawn)'
  BY DEF PoolInv, UniqueIds, Take
<1>3. NeverHandedAgain'
  BY DEF PoolInv, UniqueIds, NeverHandedAgain, Take
<1> QED  BY <1>1, <1>2, <1>3 DEF PoolInv

(* replenish_to_target mints above the counter, and keeps the invariant; once an       *)
(* addition wraps only the types are left to keep.                                     *)
LEMMA ReplenishPool ==
    ASSUME NEW target \in 0..MaxTarget
    PROVE  PoolInv /\ ReplenishToTarget(target) => PoolInv'
<1> SUFFICES ASSUME PoolInv, ReplenishToTarget(target) PROVE PoolInv'
  OBVIOUS
<1> DEFINE needed == target - Cardinality(available)
           fresh == GenerateOneTimePreKeys(next_id, needed, pairs)
<1>1. needed \in Nat
  BY Fin!FS_CardinalityType, SameFinite, PoolAssumption, SMT DEF PoolInv, TypeOK,
     ReplenishToTarget
<1>2. /\ issued' = issued \cup {r.id : r \in fresh}
      /\ next_id' = NextId(needed)
      /\ wrapped' = (wrapped \/ next_id + needed >= Width)
      /\ available' = New(available, fresh)
      /\ consumed' = {} /\ pairs' = pairs + needed
      /\ drawn' = drawn \cup fresh /\ handed' = handed
  BY DEF ReplenishToTarget
<1> HIDE DEF needed
<1>3. fresh \subseteq Record /\ IsFiniteSet(fresh)
  BY <1>1, GeneratedType DEF PoolInv, TypeOK
<1>4. available' \subseteq available \cup fresh /\ IsFiniteSet(available')
  BY <1>2, <1>3, NewSubset DEF PoolInv, TypeOK
<1>5. next_id' \in Id
  BY <1>1, <1>2, PoolAssumption, SMT DEF NextId, Id, PoolInv, TypeOK
<1>6. ASSUME ~wrapped'
      PROVE  /\ ~wrapped /\ next_id' = next_id + needed
             /\ \A r \in fresh : r.id >= next_id /\ r.id < next_id + needed
             /\ \A r, s \in fresh : r.id = s.id => r = s
  <2>0. ~wrapped /\ ~(next_id + needed >= Width)
    BY <1>2, <1>6
  <2>1. ~wrapped /\ next_id + needed < Width
    BY <1>1, <2>0, PoolAssumption, SMT DEF Id, PoolInv, TypeOK
  <2> QED  BY <1>1, <1>2, <2>1, GeneratedIds, PoolAssumption, SMT DEF NextId, PoolInv, TypeOK,
      Id
<1> HIDE DEF fresh
<1>7. TypeOK'
  <2>1. \A r \in fresh : r.id \in Id
    BY <1>3 DEF Record
  <2> QED  BY <1>1, <1>2, <1>3, <1>4, <1>5, <2>1, SMT DEF PoolInv, TypeOK
<1>8. (available \subseteq drawn /\ handed \subseteq drawn)'
  BY <1>2, <1>4 DEF PoolInv
<1>9. ASSUME ~wrapped'
      PROVE  /\ \A r \in drawn' : r.id < next_id'
             /\ \A r, s \in drawn' : r.id = s.id => r = s
             /\ \A r \in available', h \in handed' : r.id # h.id
  <2>1. /\ \A r \in drawn : r.id \in Nat /\ r.id < next_id
        /\ \A r \in fresh : r.id \in Nat /\ r.id >= next_id /\ r.id < next_id + needed
        /\ next_id \in Nat
    BY <1>3, <1>6, <1>9, SMT DEF PoolInv, TypeOK, Record, Id
  <2>2. \A r \in drawn' : r.id < next_id'
    BY <1>1, <1>2, <1>6, <1>9, <2>1, SMT
  <2>3. \A r \in drawn, s \in fresh : r.id # s.id
    BY <2>1, SMT
  <2>4. \A r, s \in drawn' : r.id = s.id => r = s
    BY <1>2, <1>6, <1>9, <2>3 DEF PoolInv, UniqueIds
  <2>5. \A r \in available', h \in handed' : r.id # h.id
    BY <1>2, <1>4, <1>6, <1>9, <2>3 DEF PoolInv, NeverHandedAgain
  <2> QED  BY <2>2, <2>4, <2>5
<1> QED  BY <1>7, <1>8, <1>9 DEF PoolInv, UniqueIds, NeverHandedAgain

(* Every step of the pool keeps the invariant. *)
LEMMA PoolStep == PoolInv /\ [Next]_vars => PoolInv'
<1> SUFFICES ASSUME PoolInv, [Next]_vars PROVE PoolInv'
  OBVIOUS
<1>1. CASE TakeOneTime
  BY <1>1, TakeOneTimePool
<1>2. ASSUME NEW target \in 0..MaxTarget, ReplenishToTarget(target) PROVE PoolInv'
  BY <1>2, ReplenishPool
<1>3. CASE UNCHANGED vars
  BY <1>3 DEF vars, PoolInv, TypeOK, UniqueIds, NeverHandedAgain
<1> QED  BY <1>1, <1>2, <1>3 DEF Next

(* The pool's invariant holds in every state. *)
THEOREM PoolInvariant == Spec => []PoolInv
<1> QED  BY PoolStarts, PoolStep, PTL DEF Spec

(* PreKeyPool keeps its types, and the pool stays finite. *)
THEOREM PoolTypes == Spec => []TypeOK
<1>1. PoolInv => TypeOK
  BY DEF PoolInv
<1> QED  BY <1>1, PoolInvariant, PTL

(* replenish_to_target never mints an id twice before u32 is used up. *)
THEOREM PoolUniqueIds == Spec => []UniqueIds
<1>1. PoolInv => UniqueIds
  BY DEF PoolInv
<1> QED  BY <1>1, PoolInvariant, PTL

(* take_one_time never hands out an id twice before u32 is used up. *)
THEOREM PoolNeverHandedAgain == Spec => []NeverHandedAgain
<1>1. PoolInv => NeverHandedAgain
  BY DEF PoolInv
<1> QED  BY <1>1, PoolInvariant, PTL
=============================================================================
