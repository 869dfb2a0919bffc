----------------------------- MODULE PreKeyPool -----------------------------
(***************************************************************************)
(* The pool of one-time prekeys of a device (core/crypto/src/prekey.rs):   *)
(* OneTimePreKeyPool, whose keys are taken once, inside PreKeyPool, which  *)
(* refills it.  A record is an id and the key pair drawn for it; key pairs *)
(* are numbered as they are drawn, and `drawn` and `handed` keep every     *)
(* record minted and handed out.  Ids are u32: Width stands for 2^32,      *)
(* additions wrap as in a release build (a debug build stops), and         *)
(* `wrapped` records that one did.                                         *)
(***************************************************************************)
EXTENDS Naturals, FiniteSets

CONSTANTS Width,       \* number of ids
          MaxTarget,   \* bound on the watermark and on the targets of refills
          MaxPair      \* bound on the number of key pairs

ASSUME PoolAssumption ==
    /\ Width \in Nat /\ MaxTarget \in Nat /\ MaxPair \in Nat
    /\ MaxTarget + 2 < Width

VARIABLES available,       \* records in the pool
          consumed,        \* ids taken since the pool was last rebuilt
          issued,          \* ids taken from the pool or minted by a refill
          next_id,
          pairs,           \* number of key pairs drawn
          drawn, handed, wrapped

vars == <<available, consumed, issued, next_id, pairs, drawn, handed, wrapped>>

Id == 0..(Width - 1)

Record == [id : Id, pair : Nat]

-----------------------------------------------------------------------------
(* `count` records of new key pairs, with the ids from `start` on *)
GenerateOneTimePreKeys(start, count, p) ==
    {[id |-> (start + k) % Width, pair |-> p + k] : k \in 0..(count - 1)}

(* OneTimePreKeyPool::new keeps one record for each id, the last of the    *)
(* list it is given; a refill puts the new records last.                   *)
New(old, fresh) == {r \in old : \A s \in fresh : s.id # r.id} \cup
                   {r \in fresh : \A s \in fresh : s.id = r.id => s.pair <= r.pair}

WithLowWatermark(w) ==
    LET count == IF w = 0 THEN 1 ELSE w
        fresh == GenerateOneTimePreKeys(1, count, 0)
    IN  /\ available = New({}, fresh)
        /\ next_id = count + 1
        /\ pairs = count
        /\ drawn = fresh
        /\ consumed = {} /\ issued = {} /\ handed = {} /\ wrapped = FALSE

Init == \E w \in 0..MaxTarget : WithLowWatermark(w)

(* OneTimePreKeyPool::take of a record that is in the pool *)
Take(r) ==
    /\ available' = available \ {r}
    /\ consumed' = consumed \cup {r.id}

(* Mutant: the record is handed out and stays in the pool. *)
TakeOneTimeKeeps ==
    \E r \in available :
        /\ \A s \in available : r.id <= s.id
        /\ issued' = issued \cup {r.id}
        /\ handed' = handed \cup {r}
        /\ UNCHANGED <<available, consumed, next_id, pairs, drawn, wrapped>>

(* The record with the lowest id; an empty pool gives None. *)
TakeOneTime ==
    \E r \in available :
        /\ \A s \in available : r.id <= s.id
        /\ Take(r)
        /\ issued' = issued \cup {r.id}
        /\ handed' = handed \cup {r}
        /\ UNCHANGED <<next_id, pairs, drawn, wrapped>>

(* Mutant: the counter is not kept within u32. *)
NextIdUnbounded(needed) == next_id + needed

(* saturating_add(1).max(id + 1), for each new record in turn: the counter *)
(* follows the ids and stops at the last one when they wrap                *)
NextId(needed) == IF next_id + needed < Width THEN next_id + needed ELSE Width - 1

ReplenishToTarget(target) ==
    LET needed == target - Cardinality(available)
        fresh  == GenerateOneTimePreKeys(next_id, needed, pairs)
    IN  /\ target > Cardinality(available)
        /\ pairs + needed <= MaxPair
        /\ issued' = issued \cup {r.id : r \in fresh}
        /\ next_id' = NextId(needed)
        /\ wrapped' = (wrapped \/ next_id + needed >= Width)
        /\ available' = New(available, fresh)
        /\ consumed' = {}
        /\ pairs' = pairs + needed
        /\ drawn' = drawn \cup fresh
        /\ UNCHANGED handed

Next == TakeOneTime \/ \E target \in 0..MaxTarget : ReplenishToTarget(target)

Spec == Init /\ [][Next]_vars

-----------------------------------------------------------------------------
(* Every variable has its type; the pool is finite. *)
TypeOK ==
    /\ available \subseteq Record /\ IsFiniteSet(available)
    /\ drawn \subseteq Record /\ handed \subseteq Record
    /\ consumed \subseteq Id /\ issued \subseteq Id
    /\ next_id \in Id /\ pairs \in Nat
    /\ wrapped \in BOOLEAN

(* As long as the counter has not reached the end of u32, no two key pairs *)
(* ever get the same id, however takes and refills are mixed: "refill      *)
(* cannot collide".                                                        *)
UniqueIds == ~wrapped => \A r, s \in drawn : r.id = s.id => r = s

(* As long as the counter has not reached the end of u32, an id that was   *)
(* handed out is in the pool no more: no peer gets a prekey that another   *)
(* peer may have used, although a refill forgets which ids were consumed.  *)
NeverHandedAgain == ~wrapped => \A r \in available, h \in handed : r.id # h.id
=============================================================================
