---------------------------- MODULE BrowserBackup ----------------------------
(***************************************************************************)
(* The password-keyed store of the web client (browser_storage.ts) and the *)
(* backup panel over it (BackupPanel.tsx, backup.ts), on several           *)
(* installations (browser profiles) with tabs.                             *)
(*                                                                         *)
(* A value is encrypted under the key derived from a password and the      *)
(* installation's salt.  The password (getStoragePassword) is in           *)
(* localStorage; where that is unavailable every opening draws another     *)
(* one, and so does the next after it was lost.  A backup holds the        *)
(* encrypted values as they are, encrypted once more under a passphrase.   *)
(* Passwords and salts are numbers.                                        *)
(***************************************************************************)
EXTENDS Naturals, FiniteSets

CONSTANTS Inst,            \* installations
          Tab,             \* BrowserStorage instances
          Home,            \* [Tab -> Inst]
          Item, Value, Pass, None,
          MaxKey,          \* bound on the passwords drawn
          MaxSalt,         \* bound on the salts generated
          MaxFile          \* bound on the backup files

Cipher == [value : Value, key : 1..MaxKey, salt : 1..MaxSalt]
KV     == [Item -> Cipher \cup {None}]
File   == [pass : Pass, kv : KV, from : Inst, intact : BOOLEAN]

VARIABLES denied,          \* installations without localStorage, fixed
          password,        \* [Inst -> the password in localStorage]
          salt,            \* [Inst -> the stored salt]
          kv,              \* [Inst -> the store kv]
          tab,             \* [Tab -> [phase, key, salt]]
          drawn,           \* number of passwords drawn
          salts,           \* number of salts generated
          files,           \* the backup files
          cleared,         \* installations that lost their password
          raced,           \* installations where two tabs made a salt at once
          foreign          \* installations that restored the backup of another

vars == <<denied, password, salt, kv, tab, drawn, salts, files, cleared, raced, foreign>>

Closed == [phase |-> "closed", key |-> None, salt |-> None]
Empty  == [k \in Item |-> None]

Init ==
    /\ denied \in SUBSET Inst /\ password = [i \in Inst |-> None]
    /\ salt = [i \in Inst |-> None] /\ kv = [i \in Inst |-> Empty]
    /\ tab = [t \in Tab |-> Closed]
    /\ drawn = 0 /\ salts = 0 /\ files = {}
    /\ cleared = {} /\ raced = {} /\ foreign = {}

Ready(t) == tab[t].phase = "open"

-----------------------------------------------------------------------------
(* getStoragePassword, as it returns key: the one that is kept, or a new   *)
(* one, which is kept where that is possible.                              *)
GetStoragePassword(i, key) ==
    IF password[i] # None
      THEN key = password[i] /\ UNCHANGED <<password, drawn>>
      ELSE /\ drawn < MaxKey /\ drawn' = drawn + 1 /\ key = drawn'
           /\ password' = IF i \in denied THEN password ELSE [password EXCEPT ![i] = key]

(* getOrCreateSalt reads the salt; without one it draws one ...            *)
OpenRead(t) ==
    /\ tab[t].phase = "closed"
    /\ \E key \in 1..MaxKey :
         /\ GetStoragePassword(Home[t], key)
         /\ IF salt[Home[t]] # None
              THEN /\ tab' = [tab EXCEPT ![t] = [phase |-> "open", key |-> key, salt |-> salt[Home[t]]]]
                   /\ UNCHANGED <<salts, raced>>
              ELSE /\ salts < MaxSalt
                   /\ salts' = salts + 1
                   /\ tab' = [tab EXCEPT ![t] = [phase |-> "salting", key |-> key, salt |-> salts']]
                   /\ raced' = IF \E u \in Tab : Home[u] = Home[t] /\ tab[u].phase = "salting"
                                 THEN raced \cup {Home[t]} ELSE raced
    /\ UNCHANGED <<denied, salt, kv, files, cleared, foreign>>

(* Mutant: the salt that was drawn is not stored. *)
OpenWriteNot(t) ==
    /\ tab[t].phase = "salting"
    /\ tab' = [tab EXCEPT ![t].phase = "open"]
    /\ UNCHANGED <<denied, password, salt, kv, drawn, salts, files, cleared, raced, foreign>>

(* ... and stores it in a second transaction. *)
OpenWrite(t) ==
    /\ tab[t].phase = "salting"
    /\ salt' = [salt EXCEPT ![Home[t]] = tab[t].salt]
    /\ tab' = [tab EXCEPT ![t].phase = "open"]
    /\ UNCHANGED <<denied, password, kv, drawn, salts, files, cleared, raced, foreign>>

(* The open fails, or the tab is closed. *)
Close(t) ==
    /\ tab[t].phase # "closed"
    /\ tab' = [tab EXCEPT ![t] = Closed]
    /\ UNCHANGED <<denied, password, salt, kv, drawn, salts, files, cleared, raced, foreign>>

SetItem(t, k, v) ==
    /\ Ready(t)
    /\ kv' = [kv EXCEPT ![Home[t]][k] = [value |-> v, key |-> tab[t].key, salt |-> tab[t].salt]]
    /\ UNCHANGED <<denied, password, salt, tab, drawn, salts, files, cleared, raced, foreign>>

DeleteItem(t, k) ==
    /\ Ready(t)
    /\ kv' = [kv EXCEPT ![Home[t]][k] = None]
    /\ UNCHANGED <<denied, password, salt, tab, drawn, salts, files, cleared, raced, foreign>>

(* What getItem returns to a tab with this password and salt: the value,   *)
(* or None where it throws.                                                *)
GetItem(i, key, s, k) ==
    IF kv[i][k] # None /\ kv[i][k].key = key /\ kv[i][k].salt = s THEN kv[i][k].value ELSE None

(* The item of localStorage is removed or damaged, by the user or the      *)
(* browser.                                                                *)
LosePassword(i) ==
    /\ password[i] # None
    /\ password' = [password EXCEPT ![i] = None] /\ cleared' = cleared \cup {i}
    /\ UNCHANGED <<denied, salt, kv, tab, drawn, salts, files, raced, foreign>>

-----------------------------------------------------------------------------
(* handleExport: one read transaction over the store, refused when empty.  *)
Export(t, p) ==
    /\ Ready(t) /\ Cardinality(files) < MaxFile
    /\ kv[Home[t]] # Empty
    /\ files' = files \cup {[pass |-> p, kv |-> kv[Home[t]], from |-> Home[t], intact |-> TRUE]}
    /\ UNCHANGED <<denied, password, salt, kv, tab, drawn, salts, cleared, raced, foreign>>

(* A file is damaged outside the client. *)
Damage(f) ==
    /\ f \in files /\ f.intact
    /\ files' = (files \ {f}) \cup {[f EXCEPT !.intact = FALSE]}
    /\ UNCHANGED <<denied, password, salt, kv, tab, drawn, salts, cleared, raced, foreign>>

(* importBackup accepts the file. *)
Decrypts(f, p) == f.intact /\ f.pass = p

(* handleImport: the file is decrypted and parsed, then one transaction    *)
(* clears the store and writes the records; a failure before or in the     *)
(* transaction leaves the store as it was.                                 *)
Import(t, f, p) ==
    /\ Ready(t) /\ f \in files /\ Decrypts(f, p)
    /\ kv' = [kv EXCEPT ![Home[t]] = f.kv]
    /\ foreign' = IF f.from # Home[t] THEN foreign \cup {Home[t]} ELSE foreign
    /\ UNCHANGED <<denied, password, salt, tab, drawn, salts, files, cleared, raced>>

Next ==
    \/ \E t \in Tab :
         \/ OpenRead(t) \/ OpenWrite(t) \/ Close(t)
         \/ \E k \in Item : DeleteItem(t, k) \/ \E v \in Value : SetItem(t, k, v)
         \/ \E p \in Pass : Export(t, p) \/ \E f \in files : Import(t, f, p)
    \/ \E f \in files : Damage(f)
    \/ \E i \in Inst : LosePassword(i)

Spec == Init /\ [][Next]_vars

-----------------------------------------------------------------------------
(* Every variable has its type. *)
TypeOK ==
    /\ denied \subseteq Inst /\ password \in [Inst -> 1..MaxKey \cup {None}]
    /\ salt \in [Inst -> 1..MaxSalt \cup {None}] /\ kv \in [Inst -> KV]
    /\ tab \in [Tab -> [phase : {"closed", "salting", "open"}, key : 1..MaxKey \cup {None},
                        salt : 1..MaxSalt \cup {None}]]
    /\ files \subseteq File
    /\ cleared \subseteq Inst /\ raced \subseteq Inst /\ foreign \subseteq Inst

(* What an installation that keeps its password reads of its own store,    *)
(* except that two of its tabs made a salt at once.                        *)
Readable(i, k) ==
    i \notin denied \cup cleared \cup raced /\ kv[i][k] # None =>
        GetItem(i, password[i], salt[i], k) # None

(* What was set or restored can be read by every tab opened later, through *)
(* any opens, exports and imports, unless the installation's password is   *)
(* not kept, two of its tabs made its salt at once, or it restored another *)
(* installation's backup.  Without localStorage a value fails closed: no   *)
(* two tabs have one password, so that only the tab that set it reads it.  *)
ReadBack ==
    /\ \A i \in Inst \ foreign, k \in Item : Readable(i, k)
    /\ \A t, u \in Tab : t # u /\ Home[t] \in denied /\ tab[t].key # None => tab[u].key # tab[t].key

(* PLAN.md: "a documented, encrypted backup/export format. No lock-in;     *)
(* import on any client": what an import restores can be read there.       *)
ImportOnAnyClient == \A i \in Inst, k \in Item : Readable(i, k)
=============================================================================
