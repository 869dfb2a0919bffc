---------------------------- MODULE LocalIdentity ----------------------------
(***************************************************************************)
(* The identity of the web client: getStorageKey (storage_key.ts), the     *)
(* gate (storage.ts), loadOrGenerateIdentity (identity.ts) and the effect  *)
(* of App.tsx that shows what it returns.                                  *)
(*                                                                         *)
(* Tabs of one browser profile share localStorage and the database.        *)
(* localStorage is read and written in one step; gate.get and gate.put are *)
(* transactions with other tabs' steps in between.  Identities and storage *)
(* keys are numbers.  The profile may lose its storage key, the record may *)
(* be damaged, and localStorage may be unavailable (`blocked`).            *)
(***************************************************************************)
EXTENDS Naturals, FiniteSets

CONSTANTS Tab, None,
          MaxId,           \* bound on the identities generated
          MaxKey           \* bound on the storage keys generated

Record == [id : 1..MaxId, under : 1..MaxKey, intact : BOOLEAN]

VARIABLES blocked,         \* localStorage is unavailable, fixed
          item,            \* the storage key in localStorage
          record,          \* the identity record
          tab,             \* [Tab -> [phase, key, id]]
          ids, keys,       \* numbers of identities and of storage keys generated
          addresses,       \* the identities ever shown
          raced            \* a tab found no record while another was about to write one

vars == <<blocked, item, record, tab, ids, keys, addresses, raced>>

Closed == [phase |-> "closed", key |-> None, id |-> None]

Init ==
    /\ blocked \in BOOLEAN
    /\ item = None /\ record = None
    /\ tab = [t \in Tab |-> Closed]
    /\ ids = 0 /\ keys = 0 /\ addresses = {} /\ raced = FALSE

-----------------------------------------------------------------------------
(* getStorageKey: the stored key, or a fresh one that is stored if it can. *)
GetStorageKey(key) ==
    IF item # None /\ ~blocked
      THEN key = item /\ UNCHANGED <<item, keys>>
      ELSE /\ keys < MaxKey
           /\ keys' = keys + 1 /\ key = keys'
           /\ item' = IF blocked THEN item ELSE key

Open(t, key) ==
    /\ tab[t].phase = "closed"
    /\ GetStorageKey(key)
    /\ tab' = [tab EXCEPT ![t] = [phase |-> "reading", key |-> key, id |-> None]]
    /\ UNCHANGED <<blocked, record, ids, addresses, raced>>

(* StorageGate.open or the get itself fails. *)
OpenFails(t) ==
    /\ tab[t].phase = "reading"
    /\ tab' = [tab EXCEPT ![t].phase = "failed"]
    /\ UNCHANGED <<blocked, item, record, ids, keys, addresses, raced>>

(* decrypt and identityFromRecord accept the record. *)
Opens(t) == record.intact /\ record.under = tab[t].key

Writing == {t \in Tab : tab[t].phase = "writing"}

Generate(t) ==
    /\ ids < MaxId
    /\ ids' = ids + 1
    /\ tab' = [tab EXCEPT ![t].phase = "writing", ![t].id = ids']
    /\ raced' = (raced \/ Writing # {})

(* Mutant: a record that cannot be opened is replaced. *)
LoadOrGenerateFailsOpen(t) ==
    /\ tab[t].phase = "reading"
    /\ \/ /\ record # None /\ Opens(t)
          /\ tab' = [tab EXCEPT ![t].phase = "shown", ![t].id = record.id]
          /\ addresses' = addresses \cup {record.id}
          /\ UNCHANGED <<ids, raced>>
       \/ /\ record # None => ~Opens(t)
          /\ Generate(t)
          /\ UNCHANGED addresses
    /\ UNCHANGED <<blocked, item, record, keys>>

(* loadOrGenerateIdentity up to its put. *)
LoadOrGenerate(t) ==
    /\ tab[t].phase = "reading"
    /\ \/ /\ record # None /\ Opens(t)
          /\ tab' = [tab EXCEPT ![t].phase = "shown", ![t].id = record.id]
          /\ addresses' = addresses \cup {record.id}
          /\ UNCHANGED <<ids, raced>>
       \/ /\ record # None /\ ~Opens(t)
          /\ tab' = [tab EXCEPT ![t].phase = "failed"]
          /\ UNCHANGED <<ids, addresses, raced>>
       \/ /\ record = None
          /\ Generate(t)
          /\ UNCHANGED addresses
    /\ UNCHANGED <<blocked, item, record, keys>>

PutFails(t) ==
    /\ tab[t].phase = "writing"
    /\ tab' = [tab EXCEPT ![t].phase = "failed", ![t].id = None]
    /\ UNCHANGED <<blocked, item, record, ids, keys, addresses, raced>>

PutLands(t) ==
    /\ tab[t].phase = "writing"
    /\ record' = [id |-> tab[t].id, under |-> tab[t].key, intact |-> TRUE]
    /\ tab' = [tab EXCEPT ![t].phase = "shown"]
    /\ addresses' = addresses \cup {tab[t].id}
    /\ UNCHANGED <<blocked, item, ids, keys, raced>>

(* The tab is closed, also between the get and the put. *)
Close(t) ==
    /\ tab[t].phase # "closed"
    /\ tab' = [tab EXCEPT ![t] = Closed]
    /\ UNCHANGED <<blocked, item, record, ids, keys, addresses, raced>>

(* The profile loses its localStorage; the record is damaged. *)
KeyLost ==
    /\ item # None
    /\ item' = None
    /\ UNCHANGED <<blocked, record, tab, ids, keys, addresses, raced>>

Damage ==
    /\ record # None /\ record.intact
    /\ record' = [record EXCEPT !.intact = FALSE]
    /\ UNCHANGED <<blocked, item, tab, ids, keys, addresses, raced>>

Next ==
    \/ KeyLost \/ Damage
    \/ \E t \in Tab :
         \/ OpenFails(t) \/ LoadOrGenerate(t) \/ PutFails(t) \/ PutLands(t) \/ Close(t)
         \/ \E key \in 1..MaxKey : Open(t, key)

Spec == Init /\ [][Next]_vars

-----------------------------------------------------------------------------
(* Every variable has its type, and a tab that shows an identity has one. *)
TypeOK ==
    /\ item \in 1..MaxKey \cup {None} /\ record \in Record \cup {None}
    /\ tab \in [Tab -> [phase : {"closed", "reading", "writing", "shown", "failed"},
                        key : 1..MaxKey \cup {None}, id : 1..MaxId \cup {None}]]
    /\ \A t \in Tab : tab[t].phase \in {"shown", "writing"} <=> tab[t].id # None

(* "it does NOT silently fall back to generating a new identity, which     *)
(* would silently change the user's address between sessions": once an     *)
(* identity was shown it is the one stored, so that it survives the tab    *)
(* and no tab ever shows another, although keys are lost, records damaged  *)
(* and writes fail, unless two tabs generated at once.                     *)
AddressStable == ~raced => \A a \in addresses : record # None /\ record.id = a
=============================================================================
