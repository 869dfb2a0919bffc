----------------------------- MODULE StoreSlots -----------------------------
(***************************************************************************)
(* The map of the relay's store (relay/src/store.rs): one slot per         *)
(* recipient, with an expiry.  The operators are what the methods do under *)
(* the map's mutex; they only touch `inner`, so that RelayStore and the    *)
(* two stores of WsRelay can use them.                                     *)
(***************************************************************************)
EXTENDS Naturals

CONSTANTS Envelope,    \* what is stored
          Nothing      \* an empty slot

VARIABLES inner,       \* [recipient -> Slot or Nothing]
          clock        \* Instant::now()

Slot == [envelope : Envelope, expiry : Nat]

Empty(r) == inner[r] = Nothing

(* Mutant: an envelope is dead in the second its time to live ends. *)
ExpiredEarly(r) == clock >= inner[r].expiry

Expired(r) == clock > inner[r].expiry

(* `store`, from the lock on: the slot is overwritten *)
Insert(r, e, x) == inner' = [inner EXCEPT ![r] = [envelope |-> e, expiry |-> x]]

Remove(r) == inner' = [inner EXCEPT ![r] = Nothing]

(* Mutant: the envelope is handed out and stays in the map. *)
PickupOkKeeps(r) == ~Empty(r) /\ ~Expired(r) /\ inner' = inner

(* `pickup` returns the envelope *)
PickupOk(r) == ~Empty(r) /\ ~Expired(r) /\ Remove(r)

PickupExpired(r) == ~Empty(r) /\ Expired(r) /\ Remove(r)

PickupNotFound(r) == Empty(r) /\ UNCHANGED inner

Purge(r) == Remove(r)
=============================================================================
