----------------------------- MODULE RelayStore -----------------------------
(***************************************************************************)
(* The blind in-memory store of the relay (relay/src/store.rs): one slot   *)
(* per recipient, with a time to live.                                     *)
(*                                                                         *)
(* What the methods do under the map's mutex is in StoreSlots.  The        *)
(* machine of this module is a set of threads that call the methods:       *)
(* `store` reads the clock before it takes the mutex, so it takes two      *)
(* steps.  `calledAt` and `fate` record what becomes of each envelope;     *)
(* every envelope is stored by one call.                                   *)
(***************************************************************************)
EXTENDS StoreSlots

CONSTANTS Recipient,   \* recipient ids
          Caller,      \* threads
          TTL,         \* the time to live the callers pass
          MaxClock     \* bound on the clock

ASSUME StoreAssumption ==
    /\ TTL \in Nat
    /\ MaxClock \in Nat
    /\ Nothing \notin [envelope : Envelope, expiry : Nat]
    /\ Nothing \notin [to : Recipient, envelope : Envelope, expiry : Nat]

VARIABLES calls,       \* [Caller -> a `store` that waits for the mutex, or Nothing]
          calledAt,    \* [Envelope -> the time its `store` was called]
          fate         \* [Envelope -> what became of it]

vars == <<inner, clock, calls, calledAt, fate>>

Call == [to : Recipient, envelope : Envelope, expiry : Nat]

Gone == {"delivered", "expired", "overwritten", "purged"}

Fate == {"new", "calling", "held"} \cup Gone

-----------------------------------------------------------------------------
(* What becomes of the envelope in the slot of r when it leaves it. *)
Leaves(f, r, how) ==
    IF Empty(r) THEN f ELSE [f EXCEPT ![inner[r].envelope] = how]

Init ==
    /\ inner = [r \in Recipient |-> Nothing]
    /\ clock = 0
    /\ calls = [c \in Caller |-> Nothing]
    /\ calledAt = [e \in Envelope |-> 0]
    /\ fate = [e \in Envelope |-> "new"]

(* The head of `store`: the expiry is computed before the lock. *)
CallStore(c, r, e) ==
    /\ calls[c] = Nothing
    /\ fate[e] = "new"
    /\ calls' = [calls EXCEPT ![c] = [to |-> r, envelope |-> e, expiry |-> clock + TTL]]
    /\ calledAt' = [calledAt EXCEPT ![e] = clock]
    /\ fate' = [fate EXCEPT ![e] = "calling"]
    /\ UNCHANGED <<inner, clock>>

(* `store` takes the lock and inserts. *)
EnterStore(c) ==
    /\ calls[c] # Nothing
    /\ LET k == calls[c] IN
       /\ Insert(k.to, k.envelope, k.expiry)
       /\ fate' = [Leaves(fate, k.to, "overwritten") EXCEPT ![k.envelope] = "held"]
    /\ calls' = [calls EXCEPT ![c] = Nothing]
    /\ UNCHANGED <<clock, calledAt>>

Deliver(r) ==
    /\ PickupOk(r)
    /\ fate' = Leaves(fate, r, "delivered")
    /\ UNCHANGED <<clock, calls, calledAt>>

Drop(r) ==
    /\ PickupExpired(r)
    /\ fate' = Leaves(fate, r, "expired")
    /\ UNCHANGED <<clock, calls, calledAt>>

PurgeSlot(r) ==
    /\ Purge(r)
    /\ fate' = Leaves(fate, r, "purged")
    /\ UNCHANGED <<clock, calls, calledAt>>

Tick ==
    /\ clock < MaxClock
    /\ clock' = clock + 1
    /\ UNCHANGED <<inner, calls, calledAt, fate>>

Next ==
    \/ Tick
    \/ \E c \in Caller : EnterStore(c)
    \/ \E c \in Caller, r \in Recipient, e \in Envelope : CallStore(c, r, e)
    \/ \E r \in Recipient : Deliver(r) \/ Drop(r) \/ PurgeSlot(r)

Spec == Init /\ [][Next]_vars

-----------------------------------------------------------------------------
(* Every variable has its type; in particular every expiry is a time. *)
TypeOK ==
    /\ inner \in [Recipient -> Slot \cup {Nothing}]
    /\ clock \in Nat
    /\ calls \in [Caller -> Call \cup {Nothing}]
    /\ calledAt \in [Envelope -> Nat]
    /\ fate \in [Envelope -> Fate]

(* The map of RelayStore neither loses nor duplicates: an envelope that    *)
(* was stored and has not left sits in exactly one slot, and an envelope   *)
(* that left (picked up, expired, overwritten or purged) sits in none.     *)
OnePlace ==
    /\ \A e \in Envelope :
         fate[e] = "held" <=> \E r \in Recipient : ~Empty(r) /\ inner[r].envelope = e
    /\ \A r, s \in Recipient :
         ~Empty(r) /\ ~Empty(s) /\ inner[r].envelope = inner[s].envelope => r = s

(* RelayStore::pickup hands out an envelope at most once, and nothing that *)
(* expired, was overwritten or purged ever comes back.                     *)
LeavesOnce ==
    [][\A e \in Envelope : fate[e] \in Gone => fate'[e] = fate[e]]_vars

(* The time to live is kept to the tick, although `store` reads the clock  *)
(* before it waits for the mutex: `pickup` delivers only within the TTL of *)
(* the call, and discards as expired only after it.                        *)
TTLExact ==
    [][\A e \in Envelope :
         /\ fate[e] = "held" /\ fate'[e] = "delivered" => clock <= calledAt[e] + TTL
         /\ fate[e] = "held" /\ fate'[e] = "expired" => clock > calledAt[e] + TTL]_vars
=============================================================================
