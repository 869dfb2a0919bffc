------------------------------- MODULE Fanout -------------------------------
(***************************************************************************)
(* FanoutSession (core/protocol/src/fanout.rs): one ratchet session per    *)
(* linked device of a recipient.  A session is abstracted to the messages  *)
(* its sender side numbered and the numbers its receiver side has opened.  *)
(* The caller may replace the fan-out by establishing another one, and     *)
(* keeps the ciphertexts of the earlier ones.                              *)
(***************************************************************************)
EXTENDS Naturals, FiniteSets

CONSTANTS Device,       \* device ids: natural numbers, encrypt_to_all goes in their order
          Identity,     \* identity keys of devices
          MaxList,      \* bound on the devices given to `establish`
          MaxEpoch,     \* bound on calls of `establish` that succeed
          MaxCall       \* bound on calls of `encrypt_to_all`

VARIABLES sender_sessions,      \* [linked device -> messages encrypted]
          receiver_sessions,    \* [linked device -> message numbers opened]
          identity_to_device,   \* [identity -> linked device]
          epoch,                \* which fan-out it is
          calls,                \* calls of encrypt_to_all so far
          outbox,               \* ciphertexts returned to the caller
          removed,              \* [device removed from this fan-out -> calls at that time]
          opened                \* plaintexts that decrypt_as returned

fanout == <<sender_sessions, receiver_sessions, identity_to_device, epoch, calls, outbox,
          removed, opened>>

Ciphertext == [device : Device, epoch : Nat, n : Nat, call : Nat]

Empty == [x \in {} |-> 0]

FanoutInit ==
    /\ sender_sessions = Empty /\ receiver_sessions = Empty /\ identity_to_device = Empty
    /\ epoch = 0 /\ calls = 0
    /\ outbox = {} /\ removed = Empty /\ opened = {}

DeviceList == UNION {[1..k -> Device \X Identity] : k \in 1..MaxList}

(* The list has at least one device, and names no device and no identity twice. *)
Accepted(l) ==
    /\ \A i, j \in DOMAIN l : l[i][1] = l[j][1] => i = j
    /\ \A i, j \in DOMAIN l : l[i][2] = l[j][2] => i = j

(* The reverse lookup that `establish` builds from the list *)
TableOf(l) ==
    [p \in {l[i][2] : i \in DOMAIN l} |-> (CHOOSE x \in {l[i] : i \in DOMAIN l} : x[2] = p)[1]]

(* `establish` that succeeds; one that fails returns no fan-out. *)
Establish(l) ==
    LET devices == {l[i][1] : i \in DOMAIN l}
    IN  /\ epoch < MaxEpoch
        /\ Accepted(l)
        /\ sender_sessions' = [d \in devices |-> 0]
        /\ receiver_sessions' = [d \in devices |-> {}]
        /\ identity_to_device' = TableOf(l)
        /\ epoch' = epoch + 1
        /\ removed' = Empty
        /\ UNCHANGED <<calls, outbox, opened>>

(* The devices whose ratchet advances when the one of `fails` cannot encrypt *)
Advanced(fails) == {d \in DOMAIN sender_sessions : \A f \in fails : d < f}

(* `encrypt_to_all`: goes through the devices in order; at the first one that fails    *)
(* the call returns its error, and the envelopes already made are dropped with it.     *)
EncryptToAll(fails) ==
    /\ calls < MaxCall
    /\ calls' = calls + 1
    /\ sender_sessions' = [d \in DOMAIN sender_sessions |->
                              IF d \in Advanced(fails) THEN sender_sessions[d] + 1 ELSE sender_sessions[d]]
    /\ outbox' = IF fails # {} THEN outbox
                 ELSE outbox \cup {[device |-> d, epoch |-> epoch, n |-> sender_sessions[d] + 1,
                                    call |-> calls + 1] : d \in DOMAIN sender_sessions}
    /\ UNCHANGED <<receiver_sessions, identity_to_device, epoch, removed, opened>>

(* `decrypt_as`: the identity must be linked, and to the device the ciphertext names;  *)
(* that device's session opens a message of this fan-out once (libsignal, external).   *)
DecryptAs(p, c) ==
    /\ p \in DOMAIN identity_to_device
    /\ c.device = identity_to_device[p]
    /\ c.epoch = epoch /\ c.n \notin receiver_sessions[c.device]
    /\ receiver_sessions' = [receiver_sessions EXCEPT ![c.device] = @ \cup {c.n}]
    /\ opened' = opened \cup {[identity |-> p, late |-> c.device \in DOMAIN removed, ciphertext |-> c]}
    /\ UNCHANGED <<sender_sessions, identity_to_device, epoch, calls, outbox, removed>>

Without(f, d) == [x \in DOMAIN f \ {d} |-> f[x]]

(* Mutant: the outbound session of the device stays. *)
RemoveReceiverOnly(d) ==
    /\ receiver_sessions' = Without(receiver_sessions, d)
    /\ identity_to_device' = [p \in {q \in DOMAIN identity_to_device : identity_to_device[q] # d} |->
                                  identity_to_device[p]]
    /\ removed' = [x \in DOMAIN removed \cup {d} |-> IF x \in DOMAIN removed THEN removed[x] ELSE calls]
    /\ UNCHANGED <<sender_sessions, epoch, calls, outbox, opened>>

(* `remove_device`: may be called again, and for a device that was never linked. *)
RemoveDevice(d) ==
    /\ sender_sessions' = Without(sender_sessions, d)
    /\ receiver_sessions' = Without(receiver_sessions, d)
    /\ identity_to_device' = [p \in {q \in DOMAIN identity_to_device : identity_to_device[q] # d} |->
                                  identity_to_device[p]]
    /\ removed' = [x \in DOMAIN removed \cup {d} |-> IF x \in DOMAIN removed THEN removed[x] ELSE calls]
    /\ UNCHANGED <<epoch, calls, outbox, opened>>

FanoutNext ==
    \/ \E l \in DeviceList : Establish(l)
    \/ epoch > 0 /\ \E fails \in {{}} \cup {{d} : d \in DOMAIN sender_sessions} : EncryptToAll(fails)
    \/ \E p \in Identity, c \in outbox : DecryptAs(p, c)
    \/ epoch > 0 /\ \E d \in Device : RemoveDevice(d)

FanoutSpec == FanoutInit /\ [][FanoutNext]_fanout

-----------------------------------------------------------------------------
(* Every variable has its type. *)
FanoutTypeOK ==
    /\ sender_sessions \in [DOMAIN sender_sessions -> Nat] /\ DOMAIN sender_sessions \subseteq Device
    /\ receiver_sessions \in [DOMAIN receiver_sessions -> SUBSET Nat]
    /\ identity_to_device \in [DOMAIN identity_to_device -> Device]
    /\ DOMAIN identity_to_device \subseteq Identity
    /\ epoch \in Nat /\ calls \in Nat
    /\ outbox \subseteq Ciphertext
    /\ removed \in [DOMAIN removed -> Nat]
    /\ opened \subseteq [identity : Identity, late : BOOLEAN, ciphertext : Ciphertext]

(* The three tables always list the same devices, each under exactly one   *)
(* identity, whatever lists are established and devices removed: the       *)
(* lookups that `decrypt_as` and `encrypt_to_all` expect to succeed do, and *)
(* no linked device is out of reach of `decrypt_as`.                       *)
TablesAgree ==
    /\ DOMAIN receiver_sessions = DOMAIN sender_sessions
    /\ {identity_to_device[p] : p \in DOMAIN identity_to_device} = DOMAIN sender_sessions
    /\ \A p, q \in DOMAIN identity_to_device : identity_to_device[p] = identity_to_device[q] => p = q

(* After `remove_device`, a device is sent nothing more by this fan-out,   *)
(* and opens nothing more of what it was sent before.                      *)
RemovedIsOut ==
    /\ \A d \in DOMAIN removed, c \in outbox : c.device = d /\ c.epoch = epoch => c.call <= removed[d]
    /\ \A o \in opened : ~o.late
=============================================================================
