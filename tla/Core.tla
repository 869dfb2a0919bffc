-------------------------------- MODULE Core --------------------------------
(***************************************************************************)
(* The parts of the Rust core and of the Rust relay client that are        *)
(* machines: the prekey pool and the fan-out, whose modules are extended,  *)
(* ratchet sessions, the encrypted store and the relay client.  They share *)
(* no state.                                                               *)
(***************************************************************************)
EXTENDS PreKeyPool, Fanout

CONSTANTS None, Party, MaxBob, MaxAlice, MaxSent, Opener, Key, Value, Raw, Item, MaxRequest

VARIABLES bobs, alices, returned, kept, offered, shown
ratchet == <<bobs, alices, returned, kept, offered, shown>>
R == INSTANCE RatchetSession

VARIABLES file_key, schema_meta, version, state, row, at, key, got
store == <<file_key, schema_meta, version, state, row, at, key, got>>
S == INSTANCE CoreStore

VARIABLES stream, call, requests, replies, n, challenges, held, result, stored, cancelled, broken
client == <<stream, call, requests, replies, n, challenges, held, result, stored, cancelled, broken>>
C == INSTANCE RelayClient

Calls == [op : C!Operation, step : {"challenge", "request"}, n : Nat, item : Item]

(* No key and no call is the absence of one. *)
ASSUME CoreAssumption == None \notin Key /\ None \notin Calls /\ MaxRequest \in Nat

-----------------------------------------------------------------------------
(* RatchetSession: a message is returned once, as from its sender, by its receiver. *)
SentToMeOnce == R!SentToMeOnce

(* RatchetSession: what arrives as sent is refused only if returned before or the      *)
(* one-time prekey is another sender's.                                                *)
RefusedForAReason == R!RefusedForAReason

(* CoreStore: a store that was opened has the key of the file and its whole schema. *)
OpenStoreIsWhole == S!OpenStoreIsWhole

(* RelayClient: a write that returned Ok was stored. *)
OkIsStored == C!OkIsStored
=============================================================================
