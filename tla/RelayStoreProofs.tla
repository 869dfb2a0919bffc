-------------------------- MODULE RelayStoreProofs --------------------------
(***************************************************************************)
(* RelayStore for any sets of recipients, envelopes and threads, and any   *)
(* time to live: an envelope leaves at most once, and its TTL is exact.    *)
(*                                                                         *)
(* OnePlace is not inductive: a thread that waits for the mutex is about   *)
(* to insert an envelope, which must be in no slot and in no other         *)
(* thread's hands (CallsFresh).  ExpiryKnown ties the stored expiry to the *)
(* recorded time of the call.                                              *)
(***************************************************************************)
EXTENDS RelayStore, TLAPS

CallsFresh ==
    /\ \A c \in Caller : calls[c] # Nothing => fate[calls[c].envelope] = "calling"
    /\ \A c, d \in Caller :
         /\ calls[c] # Nothing /\ calls[d] # Nothing
         /\ calls[c].envelope = calls[d].envelope
         => c = d

ExpiryKnown ==
    /\ \A c \in Caller : calls[c] # Nothing =>
         calls[c].expiry = calledAt[calls[c].envelope] + TTL
    /\ \A r \in Recipient : inner[r] # Nothing =>
         inner[r].expiry = calledAt[inner[r].envelope] + TTL

IndInv == TypeOK /\ OnePlace /\ CallsFresh /\ ExpiryKnown

-----------------------------------------------------------------------------
(* The empty store satisfies the inductive invariant. *)
LEMMA InitIndInv == Init => IndInv
  BY StoreAssumption
  DEF Init, IndInv, TypeOK, OnePlace, CallsFresh, ExpiryKnown, Empty, Fate

(* `store` up to the lock: the envelope passes from "new" to one thread. *)
LEMMA CallStoreIndInv ==
    ASSUME IndInv, NEW c \in Caller, NEW r \in Recipient, NEW e \in Envelope,
           CallStore(c, r, e)
    PROVE  IndInv'
  <1> DEFINE k == [to |-> r, envelope |-> e, expiry |-> clock + TTL]
  <1>1. /\ calls' = [calls EXCEPT ![c] = k] /\ calls[c] = Nothing
        /\ calledAt' = [calledAt EXCEPT ![e] = clock]
        /\ fate' = [fate EXCEPT ![e] = "calling"] /\ fate[e] = "new"
        /\ inner' = inner /\ clock' = clock
    BY DEF CallStore
  <1>2. k \in Call /\ clock \in Nat /\ TTL \in Nat /\ k # Nothing
    BY StoreAssumption DEF IndInv, TypeOK, Call
  <1>3. TypeOK'
    BY <1>1, <1>2 DEF IndInv, TypeOK, Fate
  <1>4. \A s \in Recipient : ~Empty(s) => inner[s].envelope # e
    BY <1>1 DEF IndInv, OnePlace
  <1>5. OnePlace'
    BY <1>1, <1>4 DEF IndInv, OnePlace, TypeOK, Empty
  <1>6. \A d \in Caller : calls[d] # Nothing => calls[d].envelope # e
    BY <1>1 DEF IndInv, CallsFresh
  <1>7. CallsFresh'
    BY <1>1, <1>2, <1>6 DEF IndInv, CallsFresh, TypeOK, Call
  <1>8. ExpiryKnown'
    BY <1>1, <1>2, <1>4, <1>6 DEF IndInv, ExpiryKnown, TypeOK, Empty, Call, Slot
  <1>9. QED
    BY <1>3, <1>5, <1>7, <1>8 DEF IndInv

(* `store` under the lock: what was in the slot is overwritten. *)
LEMMA EnterStoreIndInv ==
    ASSUME IndInv, NEW c \in Caller, EnterStore(c)
    PROVE  IndInv'
  <1> DEFINE k == calls[c]
             slot == [envelope |-> k.envelope, expiry |-> k.expiry]
  <1>1. /\ k # Nothing /\ k \in Call /\ k.to \in Recipient /\ k.envelope \in Envelope
        /\ k.expiry \in Nat
    BY DEF EnterStore, IndInv, TypeOK, Call
  <1>2. /\ inner' = [inner EXCEPT ![k.to] = slot]
        /\ fate' = [Leaves(fate, k.to, "overwritten") EXCEPT ![k.envelope] = "held"]
        /\ calls' = [calls EXCEPT ![c] = Nothing]
        /\ clock' = clock /\ calledAt' = calledAt
    BY DEF EnterStore, Insert
  <1>3. slot \in Slot /\ slot # Nothing
    BY <1>1, StoreAssumption DEF Slot
  <1>4. /\ fate[k.envelope] = "calling"
        /\ \A s \in Recipient : inner[s] # Nothing => inner[s].envelope # k.envelope
    BY <1>1 DEF IndInv, CallsFresh, OnePlace, Empty
  <1>5. Leaves(fate, k.to, "overwritten") \in [Envelope -> Fate]
    BY <1>1 DEF IndInv, TypeOK, Leaves, Empty, Slot, Fate, Gone
  <1>6. \A e \in Envelope :
          fate'[e] = IF e = k.envelope THEN "held"
                     ELSE IF inner[k.to] # Nothing /\ inner[k.to].envelope = e
                          THEN "overwritten" ELSE fate[e]
    BY <1>1, <1>2, <1>5 DEF IndInv, TypeOK, Leaves, Empty, Slot
  <1>7. TypeOK'
    BY <1>1, <1>2, <1>3, <1>5 DEF IndInv, TypeOK, Fate
  <1>8. OnePlace'
    BY <1>1, <1>2, <1>3, <1>4, <1>6 DEF IndInv, OnePlace, TypeOK, Empty, Slot
  <1>9. CallsFresh'
    BY <1>1, <1>2, <1>6 DEF IndInv, CallsFresh, OnePlace, TypeOK, Empty, Call
  <1>10. ExpiryKnown'
    BY <1>1, <1>2, <1>3 DEF IndInv, ExpiryKnown, TypeOK
  <1>11. QED
    BY <1>7, <1>8, <1>9, <1>10 DEF IndInv

(* `pickup` of a present envelope and `purge`: the slot is emptied and the *)
(* envelope that was in it leaves.                                         *)
LEMMA RemoveIndInv ==
    ASSUME IndInv, NEW r \in Recipient, NEW how \in Gone, Remove(r),
           fate' = Leaves(fate, r, how), UNCHANGED <<clock, calls, calledAt>>
    PROVE  IndInv'
  <1>1. inner' = [inner EXCEPT ![r] = Nothing]
    BY DEF Remove
  <1>2. \A e \in Envelope :
          fate'[e] = IF inner[r] # Nothing /\ inner[r].envelope = e THEN how ELSE fate[e]
    BY DEF IndInv, TypeOK, Leaves, Empty, Slot
  <1>3. TypeOK'
    BY <1>1 DEF IndInv, TypeOK, Leaves, Empty, Slot, Fate
  <1>4. OnePlace'
    BY <1>1, <1>2 DEF IndInv, OnePlace, TypeOK, Empty, Slot, Gone
  <1>5. CallsFresh'
    BY <1>1, <1>2 DEF IndInv, CallsFresh, OnePlace, TypeOK, Empty, Call
  <1>6. ExpiryKnown'
    BY <1>1 DEF IndInv, ExpiryKnown, TypeOK
  <1>7. QED
    BY <1>3, <1>4, <1>5, <1>6 DEF IndInv

(* Every step keeps the inductive invariant. *)
LEMMA StepIndInv == IndInv /\ [Next]_vars => IndInv'
  <1> SUFFICES ASSUME IndInv, [Next]_vars PROVE IndInv'
    OBVIOUS
  <1>1. CASE Tick
    BY <1>1 DEF Tick, IndInv, TypeOK, OnePlace, CallsFresh, ExpiryKnown, Empty
  <1>2. ASSUME NEW r \in Recipient, Deliver(r) PROVE IndInv'
    BY <1>2, RemoveIndInv DEF Deliver, PickupOk, Gone
  <1>3. ASSUME NEW r \in Recipient, Drop(r) PROVE IndInv'
    BY <1>3, RemoveIndInv DEF Drop, PickupExpired, Gone
  <1>4. ASSUME NEW r \in Recipient, PurgeSlot(r) PROVE IndInv'
    BY <1>4, RemoveIndInv DEF PurgeSlot, Purge, Gone
  <1>5. CASE UNCHANGED vars
    BY <1>5 DEF vars, IndInv, TypeOK, OnePlace, CallsFresh, ExpiryKnown, Empty
  <1>6. QED
    BY <1>1, <1>2, <1>3, <1>4, <1>5, CallStoreIndInv, EnterStoreIndInv DEF Next

(* The inductive invariant holds throughout. *)
THEOREM Invariance == Spec => []IndInv
  BY InitIndInv, StepIndInv, PTL DEF Spec

(* The map of RelayStore keeps its types. *)
THEOREM Typing == Spec => []TypeOK
  <1>1. IndInv => TypeOK
    BY DEF IndInv
  <1>2. QED
    BY <1>1, Invariance, PTL

(* An envelope is in one slot while it is held and in none afterwards. *)
THEOREM OnePlaceHolds == Spec => []OnePlace
  <1>1. IndInv => OnePlace
    BY DEF IndInv
  <1>2. QED
    BY <1>1, Invariance, PTL

(* RelayStore::pickup hands out an envelope at most once: no step changes  *)
(* the fate of an envelope that has left.                                  *)
THEOREM LeavesOnceHolds == Spec => LeavesOnce
  <1> DEFINE Once == \A e \in Envelope : fate[e] \in Gone => fate'[e] = fate[e]
  <1>1. ASSUME IndInv, [Next]_vars PROVE Once
    <2>1. \A r \in Recipient : inner[r] # Nothing => fate[inner[r].envelope] = "held"
      BY <1>1 DEF IndInv, OnePlace, TypeOK, Empty, Slot
    <2>2. ASSUME NEW r \in Recipient, NEW how, NEW f, f = Leaves(fate, r, how)
          PROVE  \A e \in Envelope : fate[e] \in Gone => f[e] = fate[e]
      BY <1>1, <2>1, <2>2 DEF Leaves, Empty, Gone, IndInv, TypeOK
    <2>3. CASE Tick \/ UNCHANGED vars
      BY <2>3 DEF Tick, vars
    <2>4. ASSUME NEW r \in Recipient, Deliver(r) \/ Drop(r) \/ PurgeSlot(r)
          PROVE  Once
      BY <2>2, <2>4 DEF Deliver, Drop, PurgeSlot
    <2>5. ASSUME NEW c \in Caller, NEW r \in Recipient, NEW e \in Envelope, CallStore(c, r, e)
          PROVE  Once
      BY <1>1, <2>5 DEF CallStore, Gone, IndInv, TypeOK
    <2>6. ASSUME NEW c \in Caller, EnterStore(c)
          PROVE  Once
      <3>1. /\ calls[c] \in Call /\ calls[c].to \in Recipient
            /\ fate[calls[c].envelope] = "calling"
        BY <1>1, <2>6 DEF EnterStore, IndInv, TypeOK, CallsFresh, Call
      <3>2. fate' = [Leaves(fate, calls[c].to, "overwritten") EXCEPT ![calls[c].envelope] = "held"]
        BY <2>6 DEF EnterStore
      <3>3. Leaves(fate, calls[c].to, "overwritten") \in [Envelope -> Fate]
        BY <1>1, <3>1 DEF Leaves, Empty, Gone, Fate, IndInv, TypeOK, Slot
      <3>4. QED
        BY <2>2, <3>1, <3>2, <3>3 DEF Gone
    <2>7. QED
      BY <1>1, <2>3, <2>4, <2>5, <2>6 DEF Next
  <1>2. IndInv /\ [Next]_vars => [Once]_vars
    BY <1>1
  <1>3. QED
    BY <1>2, Invariance, PTL DEF Spec, LeavesOnce

(* RelayStore::pickup delivers within the TTL of the call of `store` and   *)
(* discards only after it.                                                 *)
THEOREM TTLExactHolds == Spec => TTLExact
  <1> DEFINE Exact ==
        \A e \in Envelope :
         /\ fate[e] = "held" /\ fate'[e] = "delivered" => clock <= calledAt[e] + TTL
         /\ fate[e] = "held" /\ fate'[e] = "expired" => clock > calledAt[e] + TTL
  <1>1. ASSUME IndInv, [Next]_vars PROVE Exact
    <2> USE <1>1
    <2>1. ASSUME NEW r \in Recipient, NEW how, fate' = Leaves(fate, r, how),
                 NEW e \in Envelope, fate[e] = "held", fate'[e] # "held"
          PROVE  /\ inner[r] # Nothing /\ inner[r].envelope = e /\ fate'[e] = how
                 /\ inner[r].expiry = calledAt[e] + TTL
      BY <2>1 DEF Leaves, Empty, IndInv, TypeOK, ExpiryKnown, Slot
    <2>2. CASE Tick \/ UNCHANGED vars
      BY <2>2 DEF Tick, vars
    <2>3. ASSUME NEW r \in Recipient, Deliver(r) PROVE Exact
      <3>1. /\ fate' = Leaves(fate, r, "delivered")
            /\ inner[r] # Nothing => ~(clock > inner[r].expiry)
            /\ inner \in [Recipient -> Slot \cup {Nothing}] /\ clock \in Nat
        BY <2>3 DEF Deliver, PickupOk, Expired, Empty, IndInv, TypeOK
      <3>2. QED
        BY <2>1, <3>1 DEF Slot
    <2>4. ASSUME NEW r \in Recipient, Drop(r) PROVE Exact
      <3>1. /\ fate' = Leaves(fate, r, "expired")
            /\ inner[r] # Nothing => clock > inner[r].expiry
        BY <2>4 DEF Drop, PickupExpired, Expired, Empty
      <3>2. QED
        BY <2>1, <3>1
    <2>5. ASSUME NEW r \in Recipient, PurgeSlot(r) PROVE Exact
      <3>1. fate' = Leaves(fate, r, "purged")
        BY <2>5 DEF PurgeSlot
      <3>2. QED
        BY <2>1, <3>1
    <2>6. ASSUME NEW c \in Caller, NEW r \in Recipient, NEW e \in Envelope, CallStore(c, r, e)
          PROVE  Exact
      BY <2>6 DEF CallStore, IndInv, TypeOK
    <2>7. ASSUME NEW c \in Caller, EnterStore(c) PROVE Exact
      <3>1. fate' = [Leaves(fate, calls[c].to, "overwritten") EXCEPT ![calls[c].envelope] = "held"]
        BY <2>7 DEF EnterStore
      <3>2. QED
        BY <3>1 DEF Leaves, IndInv, TypeOK
    <2>8. QED
      BY <2>2, <2>3, <2>4, <2>5, <2>6, <2>7 DEF Next
  <1>2. IndInv /\ [Next]_vars => [Exact]_vars
    BY <1>1
  <1>3. QED
    BY <1>2, Invariance, PTL DEF Spec, TTLExact
=============================================================================
