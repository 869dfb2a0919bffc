------------------------------ MODULE CoreStore ------------------------------
(***************************************************************************)
(* The encrypted store of a device (core/storage/src/lib.rs): Store::open  *)
(* with its schema statements, and the typed identity row on top of it.    *)
(* Several processes may open the same path, with different keys, and any  *)
(* of them may stop between two statements.  SQLCipher (external) commits  *)
(* each statement on its own, takes any key for a file that has no page    *)
(* yet, and encrypts its first page under the key of the first writer.     *)
(* An envelope is <<declared length>> \o body; the four bytes of the       *)
(* length are one element.                                                 *)
(***************************************************************************)
EXTENDS Naturals, Sequences

CONSTANTS Opener,       \* processes that open the path
          Key,          \* 256-bit keys
          None,         \* no key, no row
          Value,        \* serialized identities: sequences of bytes
          Raw           \* blobs written with put_raw: sequences

VARIABLES file_key,     \* key the file is encrypted under, None while it is empty
          schema_meta,  \* the table exists
          version,      \* the row of schema_meta is there
          state,        \* the table exists
          row,          \* value of the "identity" row, None if there is none
          at,           \* [Opener -> how far `open` is]
          key,          \* [Opener -> key it was called with]
          got           \* what the last get_identity returned

vars == <<file_key, schema_meta, version, state, row, at, key, got>>

Init ==
    /\ file_key = None /\ schema_meta = FALSE /\ version = FALSE /\ state = FALSE /\ row = None
    /\ at = [o \in Opener |-> "closed"] /\ key = [o \in Opener |-> None]
    /\ got = [result |-> "none", value |-> None]

(* Connection::open and PRAGMA key: nothing is read yet *)
Connect(o, k) ==
    /\ at[o] = "closed"
    /\ at' = [at EXCEPT ![o] = "keyed"] /\ key' = [key EXCEPT ![o] = k]
    /\ UNCHANGED <<file_key, schema_meta, version, state, row, got>>

(* The key of o can read the file *)
Decrypts(o) == file_key \in {None, key[o]}

(* An error of any statement, a wrong key's included, ends `open`; a handle may be     *)
(* dropped and its process may stop.                                                   *)
Close(o) ==
    /\ at[o] # "closed"
    /\ at' = [at EXCEPT ![o] = "closed"] /\ key' = [key EXCEPT ![o] = None]
    /\ UNCHANGED <<file_key, schema_meta, version, state, row, got>>

(* The query that makes SQLCipher check the key; a failure is InvalidKey *)
Verify(o) ==
    /\ at[o] = "keyed" /\ Decrypts(o)
    /\ at' = [at EXCEPT ![o] = "verified"]
    /\ UNCHANGED <<file_key, schema_meta, version, state, row, key, got>>

(* The three statements of initialize_schema *)
CreateSchemaMeta(o) ==
    /\ at[o] = "verified" /\ Decrypts(o)
    /\ file_key' = key[o] /\ schema_meta' = TRUE
    /\ at' = [at EXCEPT ![o] = "meta"]
    /\ UNCHANGED <<version, state, row, key, got>>

(* Mutant: a store that has its version row is taken to be complete. *)
InsertVersionOnce(o) ==
    /\ at[o] = "meta" /\ Decrypts(o)
    /\ version' = TRUE
    /\ at' = [at EXCEPT ![o] = IF version THEN "open" ELSE "version"]
    /\ UNCHANGED <<file_key, schema_meta, state, row, key, got>>

InsertVersion(o) ==
    /\ at[o] = "meta" /\ Decrypts(o)
    /\ version' = TRUE
    /\ at' = [at EXCEPT ![o] = "version"]
    /\ UNCHANGED <<file_key, schema_meta, state, row, key, got>>

CreateState(o) ==
    /\ at[o] = "version" /\ Decrypts(o)
    /\ state' = TRUE
    /\ at' = [at EXCEPT ![o] = "open"]
    /\ UNCHANGED <<file_key, schema_meta, version, row, key, got>>

-----------------------------------------------------------------------------
PutTyped(o, v) ==
    /\ at[o] = "open" /\ Decrypts(o) /\ state
    /\ row' = <<Len(v)>> \o v
    /\ UNCHANGED <<file_key, schema_meta, version, state, at, key, got>>

PutRaw(o, blob) ==
    /\ at[o] = "open" /\ Decrypts(o) /\ state
    /\ row' = blob
    /\ UNCHANGED <<file_key, schema_meta, version, state, at, key, got>>

Corrupted == [result |-> "Corrupted", value |-> None]

(* parse_envelope *)
ParseEnvelope(e) ==
    IF Len(e) < 1 \/ Len(e) - 1 # e[1] THEN Corrupted
    ELSE [result |-> "ok", value |-> Tail(e)]

GetTyped(o) ==
    /\ at[o] = "open" /\ Decrypts(o) /\ state
    /\ got' = IF row = None THEN [result |-> "ok", value |-> None] ELSE ParseEnvelope(row)
    /\ UNCHANGED <<file_key, schema_meta, version, state, row, at, key>>

Next ==
    \E o \in Opener :
        \/ \E k \in Key : Connect(o, k)
        \/ Close(o)
        \/ Verify(o)
        \/ CreateSchemaMeta(o)
        \/ InsertVersion(o)
        \/ CreateState(o)
        \/ \E v \in Value : PutTyped(o, v)
        \/ \E b \in Raw : PutRaw(o, b)
        \/ GetTyped(o)

Spec == Init /\ [][Next]_vars

-----------------------------------------------------------------------------
(* Every variable has its type. *)
TypeOK ==
    /\ file_key \in Key \cup {None}
    /\ schema_meta \in BOOLEAN /\ version \in BOOLEAN /\ state \in BOOLEAN
    /\ row = None \/ row \in {<<Len(v)>> \o v : v \in Value} \cup Raw
    /\ at \in [Opener -> {"closed", "keyed", "verified", "meta", "version", "open"}]
    /\ key \in [Opener -> Key \cup {None}]
    /\ got.result \in {"none", "ok", "Corrupted"}

(* A store that `open` returned has the key of the file and the whole      *)
(* schema, also when several processes create the file at the same time    *)
(* with different keys, and when an earlier one stopped half way.          *)
OpenStoreIsWhole ==
    \A o \in Opener : at[o] = "open" => key[o] = file_key /\ schema_meta /\ version /\ state
=============================================================================
