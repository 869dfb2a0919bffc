---------------------------- MODULE GroupSession ----------------------------
(***************************************************************************)
(* Sender-key group encryption (GroupSession, core/protocol/src/group.rs): *)
(* one session, whose methods take and return it by value, so that its     *)
(* calls come one after the other.                                         *)
(*                                                                         *)
(* The chain key is named by how it came about: the number of the fresh    *)
(* value it descends from (`root`) and the number of ratchet steps since.  *)
(* Root 0 is the first chain key, which GroupSession::new derives from the *)
(* sender's public identity key, so that it is no secret; the others come  *)
(* from the OS CSPRNG.  The message key, the nonce and the next chain key  *)
(* are functions of the chain key, and the next does not lead back.        *)
(* `members` is a vector in which a key may occur several times: a set of  *)
(* entries with their positions, which pushes only increase.  A sealed     *)
(* wrapper opens for the holder of the private identity key it is          *)
(* addressed to.                                                           *)
(***************************************************************************)
EXTENDS Integers, FiniteSets

CONSTANTS Member,          \* public identity keys
          MaxMembers,      \* MAX_MEMBERS, the largest value of the byte wrapper_count
          MaxPush,         \* bound on the calls of add_member
          MaxRoot,         \* bound on the rotations
          MaxSend          \* bound on the calls of encrypt_as

ASSUME GroupAssumption ==
    MaxMembers \in Nat /\ MaxPush \in Nat /\ MaxRoot \in Nat /\ MaxSend \in Nat

Key == [root : Nat, step : Nat]
Entry == [at : Nat, key : Member]

VARIABLES members, pushes, root, step,
          calls,           \* number of calls of encrypt_as that ratcheted
          captured,        \* [Member -> chain keys it copied from the session]
          wanted,          \* members added and not removed since
          rotated,         \* the key was rotated, alone or by a removal
          sent             \* the ciphertexts

vars == <<members, pushes, root, step, calls, captured, wanted, rotated, sent>>

Ciphertext ==
    [id : Nat, key : Key, wrappers : SUBSET Entry, count : Nat, roster : SUBSET Member, rotated : BOOLEAN]

Init ==
    /\ members = {} /\ pushes = 0
    /\ root = 0 /\ step = 0 /\ calls = 0
    /\ captured = [m \in Member |-> {}]
    /\ wanted = {} /\ rotated = FALSE /\ sent = {}

ChainKey == [root |-> root, step |-> step]

-----------------------------------------------------------------------------
AddMember(m) ==
    /\ pushes < MaxPush
    /\ members' = members \cup {[at |-> pushes, key |-> m]}
    /\ pushes' = pushes + 1
    /\ wanted' = wanted \cup {m}
    /\ UNCHANGED <<root, step, calls, captured, rotated, sent>>

(* Mutant: the key is ratcheted instead. *)
FreshKeyRatchets ==
    /\ root < MaxRoot
    /\ root' = root /\ step' = step + 1

(* rotate_sender_key: a fresh chain key. *)
FreshKey ==
    /\ root < MaxRoot
    /\ root' = root + 1 /\ step' = 0

Retained(m) == {e \in members : e.key # m}

RemoveMember(m) ==
    /\ FreshKey
    /\ members' = Retained(m)
    /\ wanted' = wanted \ {m} /\ rotated' = TRUE
    /\ UNCHANGED <<pushes, calls, captured, sent>>

RotateSenderKey ==
    /\ FreshKey /\ rotated' = TRUE
    /\ UNCHANGED <<members, pushes, calls, captured, wanted, sent>>

(* sender_key_copy_for, called for a current member. *)
Capture(m) ==
    /\ \E e \in members : e.key = m
    /\ captured' = [captured EXCEPT ![m] = @ \cup {ChainKey}]
    /\ UNCHANGED <<members, pushes, root, step, calls, wanted, rotated, sent>>

(* Mutant: the ratcheted key is not stored. *)
RatchetNot == /\ calls < MaxSend /\ calls' = calls + 1 /\ UNCHANGED step

(* The ratcheted key is stored before anything that can fail. *)
Ratchet == /\ calls < MaxSend /\ calls' = calls + 1 /\ step' = step + 1

(* Mutant: the limit is that of the byte's values. *)
FitsByte == Cardinality(members) <= MaxMembers + 1

(* encrypt_as refuses, and changes nothing, unless the members fit. *)
Fits == Cardinality(members) <= MaxMembers

(* The message that encrypt_as returns; `as u8` keeps the low byte. *)
Wire ==
    [id |-> calls, key |-> ChainKey, wrappers |-> members,
     count |-> Cardinality(members) % (MaxMembers + 1), roster |-> wanted, rotated |-> rotated]

EncryptAs ==
    /\ Fits /\ Ratchet
    /\ sent' = sent \cup {Wire}
    /\ UNCHANGED <<members, pushes, root, captured, wanted, rotated>>

(* Encryption or the sealing of a wrapper fails. *)
EncryptFails ==
    /\ Fits /\ Ratchet
    /\ UNCHANGED <<members, pushes, root, captured, wanted, rotated, sent>>

Next ==
    \/ RotateSenderKey \/ EncryptAs \/ EncryptFails
    \/ \E m \in Member : AddMember(m) \/ RemoveMember(m) \/ Capture(m)

Spec == Init /\ [][Next]_vars

-----------------------------------------------------------------------------
(* decrypt_as: m's wrapper is among the first wrapper_count ones. *)
Opens(m, c) ==
    \E e \in c.wrappers :
        e.key = m /\ Cardinality({f \in c.wrappers : f.at < e.at}) < c.count

(* try_decrypt_with_sender_key, with a captured key ratcheted forward by   *)
(* hand.                                                                   *)
Ratcheted(m, c) == \E k \in captured[m] : k.root = c.key.root /\ k.step <= c.key.step

(* The same with any chain key that m can have: whoever knows the sender's *)
(* public key computes the first one.                                      *)
Derives(m, c) == c.key.root = 0 \/ Ratcheted(m, c)

(* Every variable has its type. *)
TypeOK ==
    /\ members \subseteq Entry /\ pushes \in Nat
    /\ root \in Nat /\ step \in Nat /\ calls \in Nat
    /\ captured \in [Member -> SUBSET Key]
    /\ wanted \subseteq Member /\ rotated \in BOOLEAN /\ sent \subseteq Ciphertext

(* encrypt_as: "no two messages from the same session ever reuse a (key,   *)
(* nonce) pair", whatever fails in between.                                *)
KeysUsedOnce == \A c, d \in sent : c.key = d.key => c = d

(* remove_member "drops a member from the roster AND rotates the chain     *)
(* key": whoever finds a wrapper in a message was a member when it was     *)
(* encrypted, and after the first removal or rotation so was whoever can   *)
(* compute its key, from a chain key copied while a member or from the     *)
(* sender's public key.  Before that the key is computed by anybody.       *)
ReadersAreMembers ==
    \A m \in Member, c \in sent :
        Opens(m, c) \/ (c.rotated /\ Derives(m, c)) => m \in c.roster

(* "encrypt a message once and let every member decrypt it": everybody     *)
(* added and not removed when a message is encrypted finds its wrapper,    *)
(* also when the roster is as large as the count byte allows.              *)
MembersRead == \A c \in sent : \A m \in c.roster : Opens(m, c)
=============================================================================
