--------------------------- MODULE DeviceDirectory ---------------------------
(***************************************************************************)
(* Who belongs to whom: the linked devices of a primary identity           *)
(* (DeviceSet, core/crypto/src/lib.rs) and the prekey bundles in the DHT   *)
(* (core/transport/src/dht.rs, with the signed prekeys of prekey.rs).      *)
(*                                                                         *)
(* Signatures and the DHT are external.  A signature verifies for the key  *)
(* that made it, over what it was made for, and device and prekey          *)
(* signatures are not mistaken for each other.  The DHT may answer a       *)
(* lookup with nothing, with the record that was put, with an older one,   *)
(* with that of another owner or with one put together from parts of       *)
(* others: Answers.  The one-time prekey of a bundle is not signed, so     *)
(* nothing is said of it and it is left out; the bytes are in Codecs.      *)
(***************************************************************************)
EXTENDS Naturals, Sequences

CONSTANTS Identity,     \* identity keys, of accounts and of devices
          PreKey,       \* key pairs of signed prekeys
          None,         \* no record
          MaxLinked     \* bound on the devices of a set

VARIABLES signatures,   \* signatures made so far
          linked,       \* [primary -> linked_devices of its DeviceSet]
          owner,        \* [signed prekey -> the identity that generated it]
          store,        \* [identity -> record in the local store]
          published,    \* bundles put so far
          queries,      \* keys that are being looked up
          found         \* lookups that gave a bundle

vars == <<signatures, linked, owner, store, published, queries, found>>

Signature == [by : Identity, of : {"device"}, over : Identity]
                \cup [by : Identity, of : {"prekey"}, over : PreKey]

(* PreKeyBundle: the signature is part of the record of the signed prekey. *)
PreKeyBundle == [identity_key : Identity, signed_pre_key : PreKey, signature : Signature]

Init ==
    /\ signatures = {} /\ linked = [p \in Identity |-> <<>>]
    /\ owner = [k \in PreKey |-> None] /\ store = [p \in Identity |-> None]
    /\ published = {} /\ queries = {} /\ found = {}

-----------------------------------------------------------------------------
SignDeviceIdentity(p, d) ==
    /\ signatures' = signatures \cup {[by |-> p, of |-> "device", over |-> d]}
    /\ UNCHANGED <<linked, owner, store, published, queries, found>>

VerifyDeviceIdentity(p, d, s) == s = [by |-> p, of |-> "device", over |-> d]

(* A device that is in the set already is added again. *)
AddDevice(p, d, s) ==
    /\ Len(linked[p]) < MaxLinked
    /\ VerifyDeviceIdentity(p, d, s)
    /\ linked' = [linked EXCEPT ![p] = Append(@, d)]
    /\ UNCHANGED <<signatures, owner, store, published, queries, found>>

-----------------------------------------------------------------------------
(* The key pair is a new one. *)
GenerateSignedPreKey(p, k) ==
    /\ owner[k] = None
    /\ owner' = [owner EXCEPT ![k] = p]
    /\ signatures' = signatures \cup {[by |-> p, of |-> "prekey", over |-> k]}
    /\ UNCHANGED <<linked, store, published, queries, found>>

VerifySignedPreKey(p, k, s) == s = [by |-> p, of |-> "prekey", over |-> k]

VerifyPreKeyBundle(b) == VerifySignedPreKey(b.identity_key, b.signed_pre_key, b.signature)

(* The bundle that a device makes of its identity and a signed prekey of its own is    *)
(* stored here under the identity, and given to the network; a store that is full      *)
(* refuses it (PublishError) and nothing changes.                                      *)
PublishPreKeyBundle(k) ==
    LET p == owner[k]
        b == [identity_key |-> p, signed_pre_key |-> k, signature |-> [by |-> p, of |-> "prekey", over |-> k]]
    IN  /\ p # None
        /\ store' = [store EXCEPT ![p] = b]
        /\ published' = published \cup {b}
        /\ UNCHANGED <<signatures, linked, owner, queries, found>>

LookupPreKeyBundle(p) ==
    /\ queries' = queries \cup {p}
    /\ UNCHANGED <<signatures, linked, owner, store, published, found>>

(* Records that the network may give: parts of what was published or signed *)
Answers ==
    {b \in PreKeyBundle : owner[b.signed_pre_key] # None /\ b.signature \in signatures}

(* Mutant: the identity in the record is not compared with the key of the lookup. *)
DecodeAndVerifyAnyBundle(key, b) == IF ~VerifyPreKeyBundle(b) THEN "InvalidBundle" ELSE "Ok"

DecodeAndVerifyBundle(key, b) ==
    IF b.identity_key # key THEN "IdentityKeyMismatch"
    ELSE IF ~VerifyPreKeyBundle(b) THEN "InvalidBundle"
    ELSE "Ok"

(* What a lookup gives, here or from the network, goes through                         *)
(* decode_and_verify_bundle; bytes that are no bundle are MalformedRecord.             *)
GotRecord(key, b) ==
    /\ key \in queries
    /\ b # None /\ b \in Answers \cup {store[key]}
    /\ found' = IF DecodeAndVerifyBundle(key, b) = "Ok" THEN found \cup {[key |-> key, bundle |-> b]} ELSE found
    /\ queries' = queries \ {key}
    /\ UNCHANGED <<signatures, linked, owner, store, published>>

(* The query ends without a record, or with a malformed one. *)
NoRecord(key) ==
    /\ key \in queries
    /\ queries' = queries \ {key}
    /\ UNCHANGED <<signatures, linked, owner, store, published, found>>

Next ==
    \/ \E p, d \in Identity : SignDeviceIdentity(p, d) \/ (\E s \in signatures : AddDevice(p, d, s))
    \/ \E k \in PreKey : PublishPreKeyBundle(k) \/ (\E p \in Identity : GenerateSignedPreKey(p, k))
    \/ \E p \in Identity : LookupPreKeyBundle(p) \/ NoRecord(p) \/ (\E b \in Answers \cup {store[p]} : GotRecord(p, b))

Spec == Init /\ [][Next]_vars

-----------------------------------------------------------------------------
(* Every variable has its type. *)
TypeOK ==
    /\ signatures \subseteq Signature
    /\ linked \in [Identity -> Seq(Identity)]
    /\ owner \in [PreKey -> Identity \cup {None}]
    /\ store \in [Identity -> PreKeyBundle \cup {None}]
    /\ published \subseteq PreKeyBundle
    /\ queries \subseteq Identity
    /\ found \subseteq [key : Identity, bundle : PreKeyBundle]

(* add_device and decode_and_verify_bundle fail closed and refuse nobody:  *)
(* a linked device was signed by the primary of its set; the bundle that a *)
(* lookup of an identity returns carries that identity and a signed prekey *)
(* that it generated itself, whatever the DHT put together; and every      *)
(* bundle that was published is returned by a lookup that it reaches.      *)
FromTheirOwner ==
    /\ \A p \in Identity : \A i \in DOMAIN linked[p] :
         [by |-> p, of |-> "device", over |-> linked[p][i]] \in signatures
    /\ \A f \in found : f.bundle.identity_key = f.key /\ owner[f.bundle.signed_pre_key] = f.key
    /\ \A b \in published : DecodeAndVerifyBundle(owner[b.signed_pre_key], b) = "Ok"
=============================================================================
