--------------------------- MODULE WebStateProofs ---------------------------
(***************************************************************************)
(* The local state of the clients, for every value of the constants.  Each *)
(* part has an inductive invariant of its own, which a behaviour of the    *)
(* composition keeps because its steps are steps of the one part or leave  *)
(* the part as it is.                                                      *)
(***************************************************************************)
EXTENDS MCWebState, Sequences, TLAPS

(* Most steps are first-order; the ones that name SMT are not. *)
USE Zenon

-----------------------------------------------------------------------------
(***************************************************************************)
(* DeviceLinking.  What a device shows is the number of its own key and    *)
(* the key it was given, so a number entered on one device that fits it    *)
(* names the device it was read from.                                      *)
(***************************************************************************)
Linking(d) ==
    /\ number[d] # None <=> stage[d] \in {"confirming", "linked"}
    /\ number[d] # None => remote[d] \in L!Keys /\ number[d] = {d, remote[d]}
    /\ stage[d] = "linked" => remote[d] = compared[d]

LinkingInv ==
    /\ mode \in [Device -> {"display", "scan", None}]
    /\ stage \in [Device -> {"idle", "displaying", "confirming", "linked", "aborted"}]
    /\ remote \in [Device -> L!Keys \cup {None}]
    /\ DOMAIN number = Device /\ DOMAIN compared = Device
    /\ \A d \in Device : Linking(d)

(* No device has begun to link. *)
LEMMA LinkingStarts == L!Init => LinkingInv
  BY DEF L!Init, LinkingInv, Linking, L!Everywhere

(* A step changes the state of one device; what it shows stays the number  *)
(* of its own key and the key it was given.                                *)
LEMMA LinkingStep == LinkingInv /\ [L!Next]_(L!vars) => LinkingInv'
<1> SUFFICES ASSUME LinkingInv, [L!Next]_(L!vars) PROVE LinkingInv'
  OBVIOUS
<1>1. CASE UNCHANGED L!vars
  BY <1>1 DEF LinkingInv, Linking, L!vars
<1>2. ASSUME NEW d \in Device, L!HandleDisplay(d) PROVE LinkingInv'
  BY <1>2, SMT DEF LinkingInv, Linking, L!HandleDisplay
<1>3. ASSUME NEW d \in Device, L!ChooseScan(d) PROVE LinkingInv'
  BY <1>3, SMT DEF LinkingInv, Linking, L!ChooseScan
<1>4. ASSUME NEW d \in Device, L!HandleScanMalformed(d) PROVE LinkingInv'
  BY <1>4, SMT DEF LinkingInv, Linking, L!HandleScanMalformed
<1>5. ASSUME NEW d \in Device, L!HandleAbort(d) PROVE LinkingInv'
  BY <1>5, SMT DEF LinkingInv, Linking, L!HandleAbort
<1>6. ASSUME NEW d \in Device, NEW key \in L!Keys, L!HandleScan(d, key) PROVE LinkingInv'
  <2>1. {d, key} # None
    BY WebAssumption DEF L!DeriveSafetyNumber, L!Keys
  <2> QED
    BY <1>6, <2>1, SMT DEF LinkingInv, Linking, L!HandleScan, L!DeriveSafetyNumber
<1>7. ASSUME NEW d \in Device, NEW e \in Device, L!HandleConfirm(d, e) PROVE LinkingInv'
  <2>1. number[e] = {e, remote[e]} /\ e # d
    BY <1>7 DEF LinkingInv, Linking, L!HandleConfirm
  <2>2. CASE L!ConfirmSafetyNumber(d, number[e])
    <3>1. remote[d] = e
      BY <2>1, <2>2 DEF L!ConfirmSafetyNumber, L!DeriveSafetyNumber
    <3> QED
      BY <1>7, <2>2, <3>1, SMT DEF LinkingInv, Linking, L!HandleConfirm
  <2>3. CASE ~L!ConfirmSafetyNumber(d, number[e])
    BY <1>7, <2>3, SMT DEF LinkingInv, Linking, L!HandleConfirm
  <2> QED
    BY <2>2, <2>3
<1> QED
  BY <1>1, <1>2, <1>3, <1>4, <1>5, <1>6, <1>7 DEF L!Next

-----------------------------------------------------------------------------
(***************************************************************************)
(* LocalIdentity.  Unless two tabs generated at once, at most one tab is   *)
(* about to write, and while it is there is no record, so nothing that was *)
(* shown is replaced.                                                      *)
(***************************************************************************)
Page == [phase : {"closed", "reading", "writing", "shown", "failed"},
         key : 1..MaxKey \cup {None}, id : 1..MaxId \cup {None}]

IdentityTypes ==
    /\ item \in 1..MaxKey \cup {None} /\ record \in I!Record \cup {None}
    /\ page \in [Tab -> Page]
    /\ ids \in Nat /\ keys \in Nat
    /\ \A t \in Tab :
         /\ page[t].phase \in {"shown", "writing"} <=> page[t].id # None
         /\ page[t].phase = "closed" \/ page[t].key # None

OneWriter == \A t, u \in Tab : page[t].phase = "writing" /\ page[u].phase = "writing" => t = u

WritesAFirst == \A t \in Tab : page[t].phase = "writing" => record = None

IdentityInv ==
    /\ IdentityTypes
    /\ ~twice => OneWriter /\ WritesAFirst /\ \A a \in addresses : record # None /\ record.id = a

(* There is no identity and no tab at first. *)
LEMMA IdentityStarts == I!Init => IdentityInv
  BY SMT DEF I!Init, IdentityInv, IdentityTypes, OneWriter, WritesAFirst, I!Closed, Page

(* A damaged record still has its id. *)
LEMMA DamagedRecord ==
  ASSUME NEW r \in I!Record
  PROVE  [r EXCEPT !.intact = FALSE] \in I!Record /\ [r EXCEPT !.intact = FALSE].id = r.id
<1> DEFINE A == 1..MaxId
           U == 1..MaxKey
<1>1. r \in [id : A, under : U, intact : BOOLEAN]
  BY DEF I!Record
<1> HIDE DEF A, U
<1>2. /\ [r EXCEPT !.intact = FALSE] \in [id : A, under : U, intact : BOOLEAN]
      /\ [r EXCEPT !.intact = FALSE].id = r.id
  BY <1>1
<1> QED
  BY <1>2 DEF A, U, I!Record

(* Every step keeps the types. *)
LEMMA IdentityTypesStep == IdentityTypes /\ [I!Next]_(I!vars) => IdentityTypes'
<1> SUFFICES ASSUME IdentityTypes, [I!Next]_(I!vars) PROVE IdentityTypes'
  OBVIOUS
<1>0. None \notin 1..MaxId /\ None \notin 1..MaxKey /\ MaxId \in Nat /\ None \notin I!Record
  BY WebAssumption
<1>1. CASE UNCHANGED I!vars
  BY <1>1 DEF IdentityTypes, I!vars
<1>2. ASSUME NEW t \in Tab, NEW key \in 1..MaxKey, I!Open(t, key) PROVE IdentityTypes'
  <2>1. item' \in 1..MaxKey \cup {None} /\ keys' \in Nat
    BY <1>2, SMT DEF IdentityTypes, I!Open, I!GetStorageKey
  <2>2. page' = [page EXCEPT ![t] = [phase |-> "reading", key |-> key, id |-> None]]
    BY <1>2 DEF I!Open
  <2>3. page' \in [Tab -> Page]
    BY <2>2, SMT DEF IdentityTypes, Page
  <2>4. \A u \in Tab :
          /\ page'[u].phase \in {"shown", "writing"} <=> page'[u].id # None
          /\ page'[u].phase = "closed" \/ page'[u].key # None
    BY <1>0, <2>2, SMT DEF IdentityTypes
  <2> QED
    BY <1>2, <2>1, <2>3, <2>4 DEF IdentityTypes, I!Open
<1>3. ASSUME NEW t \in Tab, I!OpenFails(t) PROVE IdentityTypes'
  BY <1>3, SMT DEF IdentityTypes, I!OpenFails, Page
<1>4. ASSUME NEW t \in Tab, I!LoadOrGenerate(t) PROVE IdentityTypes'
  <2>1. CASE record # None /\ I!Opens(t) /\ page' = [page EXCEPT ![t].phase = "shown", ![t].id = record.id]
                /\ UNCHANGED ids
    <3>1. record.id \in 1..MaxId
      BY <2>1 DEF IdentityTypes, I!Record
    <3> QED
      BY <1>0, <1>4, <2>1, <3>1, SMT DEF IdentityTypes, I!LoadOrGenerate, Page
  <2>2. CASE page' = [page EXCEPT ![t].phase = "failed"] /\ UNCHANGED ids
    BY <1>0, <1>4, <2>2, SMT DEF IdentityTypes, I!LoadOrGenerate, Page
  <2>3. CASE I!Generate(t)
    <3>1. ids' \in 1..MaxId /\ page' = [page EXCEPT ![t].phase = "writing", ![t].id = ids']
      BY <1>0, <2>3, SMT DEF IdentityTypes, I!Generate
    <3> QED
      BY <1>0, <1>4, <3>1, SMT DEF IdentityTypes, I!LoadOrGenerate, Page
  <2> QED
    BY <1>4, <2>1, <2>2, <2>3 DEF I!LoadOrGenerate
<1>5. ASSUME NEW t \in Tab, I!PutFails(t) PROVE IdentityTypes'
  BY <1>5, SMT DEF IdentityTypes, I!PutFails, Page
<1>6. ASSUME NEW t \in Tab, I!PutLands(t) PROVE IdentityTypes'
  <2>1. page' = [page EXCEPT ![t].phase = "shown"] /\ page[t].id # None
    BY <1>6 DEF IdentityTypes, I!PutLands
  <2>2. page' \in [Tab -> Page]
    BY <2>1, SMT DEF IdentityTypes, Page
  <2>3. record' \in I!Record
    BY <1>6, <2>1, SMT DEF IdentityTypes, I!PutLands, I!Record, Page
  <2> QED
    BY <1>6, <2>1, <2>2, <2>3, SMT DEF IdentityTypes, I!PutLands
<1>7. ASSUME NEW t \in Tab, I!Close(t) PROVE IdentityTypes'
  BY <1>7, SMT DEF IdentityTypes, I!Close, I!Closed, Page
<1>8. CASE I!KeyLost
  BY <1>8 DEF IdentityTypes, I!KeyLost
<1>9. CASE I!Damage
  BY <1>9, DamagedRecord DEF IdentityTypes, I!Damage
<1> QED
  BY <1>1, <1>2, <1>3, <1>4, <1>5, <1>6, <1>7, <1>8, <1>9 DEF I!Next

(* Every step of a tab keeps the invariant. *)
LEMMA IdentityStep == IdentityInv /\ [I!Next]_(I!vars) => IdentityInv'
<1> SUFFICES ASSUME IdentityInv, [I!Next]_(I!vars), ~twice'
             PROVE  (OneWriter /\ WritesAFirst /\ \A a \in addresses : record # None /\ record.id = a)'
  BY IdentityTypesStep DEF IdentityInv
<1>0. IdentityTypes /\ None \notin I!Record
  BY WebAssumption DEF IdentityInv
<1>t. ~twice
  BY DEF I!Next, I!Open, I!OpenFails, I!LoadOrGenerate, I!Generate, I!PutFails, I!PutLands,
         I!Close, I!KeyLost, I!Damage, I!vars
<1>i. OneWriter /\ WritesAFirst /\ \A a \in addresses : record # None /\ record.id = a
  BY <1>t DEF IdentityInv
<1>1. CASE UNCHANGED I!vars \/ I!KeyLost
  BY <1>1, <1>i DEF OneWriter, WritesAFirst, I!vars, I!KeyLost
<1>2. ASSUME UNCHANGED <<record, addresses>>,
             \A u \in Tab : page'[u].phase = "writing" => page[u].phase = "writing"
      PROVE  (OneWriter /\ WritesAFirst /\ \A a \in addresses : record # None /\ record.id = a)'
  BY <1>2, <1>i DEF OneWriter, WritesAFirst
<1>3. ASSUME NEW t \in Tab, NEW key \in 1..MaxKey, I!Open(t, key)
      PROVE  (OneWriter /\ WritesAFirst /\ \A a \in addresses : record # None /\ record.id = a)'
  BY <1>0, <1>2, <1>3, SMT DEF IdentityTypes, Page, I!Open
<1>4. ASSUME NEW t \in Tab, I!OpenFails(t) \/ I!PutFails(t) \/ I!Close(t)
      PROVE  (OneWriter /\ WritesAFirst /\ \A a \in addresses : record # None /\ record.id = a)'
  BY <1>0, <1>2, <1>4, SMT DEF IdentityTypes, Page, I!OpenFails, I!PutFails, I!Close, I!Closed
<1>5. ASSUME NEW t \in Tab, I!LoadOrGenerate(t)
      PROVE  (OneWriter /\ WritesAFirst /\ \A a \in addresses : record # None /\ record.id = a)'
  <2>1. CASE I!Generate(t) /\ record = None /\ UNCHANGED addresses
    <3>1. \A u \in Tab : page[u].phase # "writing"
      BY <2>1 DEF I!Generate, I!Writing
    <3>2. \A u \in Tab : page'[u].phase = "writing" => u = t
      BY <1>0, <2>1, <3>1, SMT DEF IdentityTypes, Page, I!Generate
    <3> QED
      BY <1>5, <1>i, <2>1, <3>2 DEF OneWriter, WritesAFirst, I!LoadOrGenerate
  <2>2. CASE page' = [page EXCEPT ![t].phase = "failed"] /\ UNCHANGED addresses
    <3>1. \A u \in Tab : page'[u].phase = "writing" => page[u].phase = "writing"
      BY <1>0, <2>2, SMT DEF IdentityTypes, Page
    <3> QED
      BY <1>2, <1>5, <2>2, <3>1 DEF I!LoadOrGenerate
  <2>3. CASE /\ record # None
             /\ page' = [page EXCEPT ![t].phase = "shown", ![t].id = record.id]
             /\ addresses' = addresses \cup {record.id}
    <3>1. \A u \in Tab : page'[u].phase = "writing" => page[u].phase = "writing"
      BY <1>0, <2>3, SMT DEF IdentityTypes, Page
    <3>2. record' = record
      BY <1>5 DEF I!LoadOrGenerate
    <3> QED
      BY <1>i, <2>3, <3>1, <3>2 DEF OneWriter, WritesAFirst
  <2> QED
    BY <1>5, <2>1, <2>2, <2>3 DEF I!LoadOrGenerate
<1>6. ASSUME NEW t \in Tab, I!PutLands(t)
      PROVE  (OneWriter /\ WritesAFirst /\ \A a \in addresses : record # None /\ record.id = a)'
  <2>1. addresses = {}
    BY <1>6, <1>i DEF WritesAFirst, I!PutLands
  <2>2. \A u \in Tab : page'[u].phase # "writing"
    BY <1>0, <1>6, <1>i, SMT DEF IdentityTypes, Page, OneWriter, I!PutLands
  <2>3. record' \in I!Record /\ record'.id = page[t].id
    BY <1>0, <1>6, SMT DEF IdentityTypes, Page, I!PutLands, I!Record
  <2> QED
    BY <1>0, <1>6, <2>1, <2>2, <2>3 DEF OneWriter, WritesAFirst, I!PutLands
<1>7. CASE I!Damage
  <2>1. record' \in I!Record /\ record'.id = record.id /\ record # None
    BY <1>0, <1>7, DamagedRecord DEF IdentityTypes, I!Damage
  <2> QED
    BY <1>0, <1>7, <1>i, <2>1 DEF OneWriter, WritesAFirst, I!Damage
<1> QED
  BY <1>1, <1>3, <1>4, <1>5, <1>6, <1>7 DEF I!Next

-----------------------------------------------------------------------------
(***************************************************************************)
(* BrowserBackup.  Unless two tabs of an installation drew its salt at     *)
(* once, its open tabs hold the stored salt, and a salt is drawn by one    *)
(* tab and only while none is stored.  Where the password is kept the open *)
(* tabs hold it; where it cannot be, each holds a password of its own.     *)
(* What an installation holds of its own, and what its backups hold, is    *)
(* under its salt and its password.                                        *)
(***************************************************************************)
Installation == {Old, New}

TabState == [phase : {"closed", "salting", "open"}, key : 1..MaxKey \cup {None},
             salt : 1..MaxSalt \cup {None}]

BackupTypes ==
    /\ password \in [Installation -> 1..MaxKey \cup {None}]
    /\ salt \in [Installation -> 1..MaxSalt \cup {None}]
    /\ kv \in [Installation -> B!KV]
    /\ tab \in [BackupTab -> TabState]
    /\ files \subseteq B!File
    /\ drawn \in Nat /\ salts \in Nat
    /\ \A t \in BackupTab : tab[t].phase = "closed" \/ (tab[t].key # None /\ tab[t].salt # None)

OpenTabs(i) ==
    \A t \in BackupTab : t[1] = i /\ tab[t].phase = "open" => salt[i] # None /\ tab[t].salt = salt[i]

Salting(i) == {t \in BackupTab : t[1] = i /\ tab[t].phase = "salting"}

OneSalt(i) ==
    /\ Salting(i) # {} => salt[i] = None
    /\ \A t, u \in Salting(i) : t = u

SaltsKept == \A i \in Installation \ raced : OpenTabs(i) /\ OneSalt(i)

KeyTabs(i) == \A t \in BackupTab : t[1] = i /\ tab[t].phase # "closed" => tab[t].key = password[i]

KeysKept == \A i \in Installation : i \notin denied /\ i \notin cleared => KeyTabs(i)

(* What has been drawn, and the passwords that are not kept. *)
KeysApart ==
    /\ \A t \in BackupTab : tab[t].key # None => tab[t].key <= drawn
    /\ \A i \in Installation : password[i] # None => password[i] <= drawn
    /\ \A i \in Installation : i \in denied => password[i] = None
    /\ \A t \in BackupTab : t[1] \in denied /\ tab[t].key # None =>
         /\ \A u \in BackupTab : u # t => tab[u].key # tab[t].key
         /\ \A i \in Installation : password[i] # tab[t].key

(* Record c is under the salt and the password of installation i. *)
Fits(c, i) ==
    c # None =>
        /\ i \notin raced => salt[i] # None /\ c.salt = salt[i]
        /\ i \notin denied /\ i \notin cleared => c.key = password[i]

OwnRecords ==
    \A i \in Installation \ foreign :
        /\ \A k \in Item : Fits(kv[i][k], i)
        /\ \A f \in files : f.from = i => \A k \in Item : Fits(f.kv[k], i)

BackupInv == BackupTypes /\ SaltsKept /\ KeysKept /\ KeysApart /\ OwnRecords

(* Home, of BrowserBackup, is the installation a tab belongs to. *)
LEMMA HomeOf == \A t \in BackupTab : [u \in BackupTab |-> u[1]][t] = t[1] /\ t[1] \in Installation
<1>1. \A t \in BackupTab : t[1] \in Installation
  BY SMT DEF BackupTab, Installation
<1> QED
  BY <1>1

(* Nothing is stored and no tab is open at first. *)
LEMMA BackupStarts == B!Init => BackupInv
<1> SUFFICES ASSUME B!Init PROVE BackupInv
  OBVIOUS
<1>1. \A i \in Installation : /\ salt[i] = None /\ password[i] = None
                              /\ \A k \in Item : kv[i][k] = None
  BY DEF B!Init, B!Empty, Installation
<1>2. \A t \in BackupTab : tab[t] = [phase |-> "closed", key |-> None, salt |-> None]
  BY DEF B!Init, B!Closed
<1>3. BackupTypes
  <2>1. B!Empty \in B!KV
    BY DEF B!Empty, B!KV
  <2>2. B!Closed \in TabState
    BY DEF B!Closed, TabState
  <2> QED
    BY <1>2, <2>1, <2>2, SMT DEF B!Init, BackupTypes, Installation
<1>4. \A t \in BackupTab : tab[t].phase = "closed" /\ tab[t].key = None
  BY <1>2, SMT
<1>5. SaltsKept
  BY <1>4, SMT DEF SaltsKept, OpenTabs, OneSalt, Salting
<1>6. KeysKept /\ KeysApart
  BY <1>1, <1>4 DEF KeysKept, KeyTabs, KeysApart
<1>7. OwnRecords
  BY <1>1 DEF OwnRecords, Fits, B!Init
<1> QED
  BY <1>3, <1>5, <1>6, <1>7 DEF BackupInv

(* A tab opens with phase p, this password and this salt. *)
Opens(t, p, key, s) ==
    /\ tab' = [tab EXCEPT ![t] = [phase |-> p, key |-> key, salt |-> s]]
    /\ tab[t].phase = "closed" /\ B!GetStoragePassword(t[1], key)
    /\ \/ p = "open" /\ salt[t[1]] = s /\ salts' = salts /\ raced' = raced
       \/ /\ p = "salting" /\ salt[t[1]] = None /\ salts' = salts + 1
          /\ raced' = IF Salting(t[1]) # {} THEN raced \cup {t[1]} ELSE raced
    /\ UNCHANGED <<denied, salt, kv, files, cleared, foreign>>

(* What the two steps of an opening have in common. *)
LEMMA OpensAs ==
  ASSUME BackupTypes, NEW t \in BackupTab, B!OpenRead(t)
  PROVE  \E p \in {"salting", "open"}, key \in 1..MaxKey, s \in 1..MaxSalt : Opens(t, p, key, s)
<1>0. MaxSalt \in Nat
  BY WebAssumption
<1>1. PICK j \in Installation : j = t[1] /\ [u \in BackupTab |-> u[1]][t] = j
  BY HomeOf
<1>2. PICK key \in 1..MaxKey :
        /\ B!GetStoragePassword(j, key)
        /\ IF salt[j] # None
             THEN /\ tab' = [tab EXCEPT ![t] = [phase |-> "open", key |-> key, salt |-> salt[j]]]
                  /\ UNCHANGED <<salts, raced>>
             ELSE /\ salts < MaxSalt
                  /\ salts' = salts + 1
                  /\ tab' = [tab EXCEPT ![t] = [phase |-> "salting", key |-> key, salt |-> salts']]
                  /\ raced' = IF \E u \in BackupTab : [v \in BackupTab |-> v[1]][u] = j /\ tab[u].phase = "salting"
                                THEN raced \cup {j} ELSE raced
  BY <1>1 DEF B!OpenRead
<1>3. tab[t].phase = "closed" /\ UNCHANGED <<denied, salt, kv, files, cleared, foreign>>
  BY DEF B!OpenRead
<1>4. CASE salt[j] # None
  <2>1. salt[j] \in 1..MaxSalt
    BY <1>4 DEF BackupTypes
  <2> QED
    BY <1>1, <1>2, <1>3, <1>4, <2>1 DEF Opens
<1>5. CASE salt[j] = None
  <2>1. salts' \in 1..MaxSalt
    BY <1>0, <1>2, <1>5, SMT DEF BackupTypes
  <2>2. raced' = IF Salting(t[1]) # {} THEN raced \cup {t[1]} ELSE raced
    BY <1>1, <1>2, <1>5, HomeOf DEF Salting
  <2>3. Opens(t, "salting", key, salts')
    BY <1>1, <1>2, <1>3, <1>5, <2>2 DEF Opens
  <2> QED
    BY <2>1, <2>3
<1> QED
  BY <1>4, <1>5

(* The password of an installation is read, or drawn. *)
LEMMA PasswordRead ==
  ASSUME BackupTypes, NEW j \in Installation, NEW key \in 1..MaxKey, B!GetStoragePassword(j, key)
  PROVE  /\ password' \in [Installation -> 1..MaxKey \cup {None}] /\ drawn' \in Nat /\ drawn <= drawn'
         /\ \A i \in Installation \ {j} : password'[i] = password[i]
         /\ \/ password[j] # None /\ key = password[j] /\ password' = password /\ drawn' = drawn
            \/ /\ password[j] = None /\ key = drawn' /\ drawn' = drawn + 1
               /\ j \in denied => password' = password
               /\ j \notin denied => password'[j] = key
<1>0. drawn \in Nat /\ password \in [Installation -> 1..MaxKey \cup {None}]
  BY DEF BackupTypes
<1>1. CASE password[j] # None
  <2>1. key = password[j] /\ password' = password /\ drawn' = drawn
    BY <1>1 DEF B!GetStoragePassword
  <2>2. drawn <= drawn'
    BY <1>0, <2>1, SMT
  <2> QED
    BY <1>0, <1>1, <2>1, <2>2
<1>2. CASE password[j] = None
  <2>1. /\ drawn' = drawn + 1 /\ key = drawn'
        /\ password' = IF j \in denied THEN password ELSE [password EXCEPT ![j] = key]
    BY <1>2 DEF B!GetStoragePassword
  <2>2. drawn' \in Nat /\ drawn <= drawn'
    BY <1>0, <2>1, SMT
  <2>3. password' \in [Installation -> 1..MaxKey \cup {None}]
    BY <1>0, <2>1
  <2> QED
    BY <1>0, <1>2, <2>1, <2>2, <2>3
<1> QED
  BY <1>1, <1>2

(* What one tab becomes. *)
LEMMA TabBecomes ==
  ASSUME BackupTypes, NEW t \in BackupTab, NEW p \in {"closed", "salting", "open"},
         NEW key \in 1..MaxKey \cup {None}, NEW s \in 1..MaxSalt \cup {None},
         p = "closed" \/ (key # None /\ s # None),
         tab' = [tab EXCEPT ![t] = [phase |-> p, key |-> key, salt |-> s]]
  PROVE  /\ tab'[t].phase = p /\ tab'[t].key = key /\ tab'[t].salt = s
         /\ \A u \in BackupTab \ {t} : tab'[u] = tab[u]
         /\ tab' \in [BackupTab -> TabState]
         /\ \A u \in BackupTab : tab'[u].phase = "closed" \/ (tab'[u].key # None /\ tab'[u].salt # None)
<1>1. PICK q : q = [phase |-> p, key |-> key, salt |-> s]
  OBVIOUS
<1>2. q \in TabState /\ q.phase = p /\ q.key = key /\ q.salt = s
  BY <1>1 DEF TabState
<1>3. tab' = [tab EXCEPT ![t] = q] /\ tab \in [BackupTab -> TabState]
  BY <1>1 DEF BackupTypes
<1>4. tab'[t] = q /\ \A u \in BackupTab \ {t} : tab'[u] = tab[u]
  BY <1>3
<1>5. tab' \in [BackupTab -> TabState]
  BY <1>2, <1>3
<1> QED
  BY <1>2, <1>4, <1>5 DEF BackupTypes

(* Tabs that stay as they are or are closed leave the salt as it was. *)
LEMMA SaltsLeft ==
  ASSUME NEW i \in Installation, OpenTabs(i), OneSalt(i), salt'[i] = salt[i],
         \A u \in BackupTab : u[1] = i => tab'[u] = tab[u] \/ tab'[u].phase = "closed"
  PROVE  (OpenTabs(i) /\ OneSalt(i))'
<1>1. OpenTabs(i)'
  BY DEF OpenTabs
<1>2. Salting(i)' \subseteq Salting(i)
  BY DEF Salting
<1>3. OneSalt(i)'
  BY <1>2 DEF OneSalt
<1> QED
  BY <1>1, <1>3

(* Passwords stay apart while tabs only forget theirs. *)
LEMMA KeysForgotten ==
  ASSUME KeysApart, password' = password, denied' = denied, drawn' = drawn,
         \A u \in BackupTab : tab'[u].key # None => tab'[u].key = tab[u].key
  PROVE  KeysApart'
<1>1. /\ \A t \in BackupTab : tab'[t].key # None => tab'[t].key <= drawn'
      /\ \A i \in Installation : password'[i] # None => password'[i] <= drawn'
      /\ \A i \in Installation : i \in denied' => password'[i] = None
  BY DEF KeysApart
<1>2. ASSUME NEW t \in BackupTab, t[1] \in denied', tab'[t].key # None
      PROVE  /\ \A u \in BackupTab : u # t => tab'[u].key # tab'[t].key
             /\ \A i \in Installation : password'[i] # tab'[t].key
  <2>1. tab'[t].key = tab[t].key
    BY <1>2
  <2>2. /\ \A u \in BackupTab : u # t => tab[u].key # tab[t].key
        /\ \A i \in Installation : password[i] # tab[t].key
    BY <1>2, <2>1 DEF KeysApart
  <2> QED
    BY <1>2, <2>1, <2>2
<1> QED
  BY <1>1, <1>2 DEF KeysApart

(* The records fit as they did when only the tabs, the password or the     *)
(* salt change.                                                            *)
LEMMA RecordsFit ==
  ASSUME BackupInv, kv' = kv, files' = files, foreign' = foreign,
         \A i \in Installation \ foreign, c \in B!Cipher : Fits(c, i) => Fits(c, i)'
  PROVE  OwnRecords'
<1>1. \A i \in Installation, k \in Item : kv[i][k] \in B!Cipher \cup {None}
  BY DEF BackupInv, BackupTypes, B!KV
<1>2. \A f \in files, k \in Item : f.kv[k] \in B!Cipher \cup {None}
  BY DEF BackupInv, BackupTypes, B!KV, B!File
<1>3. \A i \in Installation \ foreign, c \in B!Cipher \cup {None} : Fits(c, i) => Fits(c, i)'
  BY DEF Fits
<1> QED
  BY <1>1, <1>2, <1>3 DEF BackupInv, OwnRecords

(* A record has a salt and a password. *)
LEMMA CipherOf == \A c \in B!Cipher : c.key # None /\ c.salt # None /\ c # None /\ c.value # None
<1>1. \A c \in B!Cipher : c.key \in 1..MaxKey /\ c.salt \in 1..MaxSalt /\ c.value \in Value
  BY DEF B!Cipher
<1> QED
  BY <1>1, WebAssumption

(* A tab reads the password and the salt. *)
LEMMA OpenReadStep == ASSUME BackupInv, NEW t \in BackupTab, B!OpenRead(t) PROVE BackupInv'
<1>0. BackupTypes /\ SaltsKept /\ KeysKept /\ KeysApart
  BY DEF BackupInv
<1>1. PICK p \in {"salting", "open"}, key \in 1..MaxKey, s \in 1..MaxSalt : Opens(t, p, key, s)
  BY <1>0, OpensAs
<1>2. PICK j \in Installation : j = t[1]
  BY HomeOf
<1>3. /\ tab' = [tab EXCEPT ![t] = [phase |-> p, key |-> key, salt |-> s]]
      /\ tab[t].phase = "closed" /\ B!GetStoragePassword(j, key)
      /\ \/ p = "open" /\ salt[j] = s /\ salts' = salts /\ raced' = raced
         \/ /\ p = "salting" /\ salt[j] = None /\ salts' = salts + 1
            /\ raced' = IF Salting(j) # {} THEN raced \cup {j} ELSE raced
      /\ denied' = denied /\ salt' = salt /\ kv' = kv /\ files' = files /\ cleared' = cleared
      /\ foreign' = foreign
  BY <1>1, <1>2 DEF Opens
<1>4. key # None /\ s # None
  BY WebAssumption
<1>5. /\ tab'[t].phase = p /\ tab'[t].key = key /\ tab'[t].salt = s
      /\ \A u \in BackupTab \ {t} : tab'[u] = tab[u]
      /\ tab' \in [BackupTab -> TabState]
      /\ \A u \in BackupTab : tab'[u].phase = "closed" \/ (tab'[u].key # None /\ tab'[u].salt # None)
  <2>1. tab' = [tab EXCEPT ![t] = [phase |-> p, key |-> key, salt |-> s]]
    BY <1>3
  <2> QED
    BY <1>0, <1>4, <2>1, TabBecomes
<1>6. /\ password' \in [Installation -> 1..MaxKey \cup {None}] /\ drawn' \in Nat /\ drawn <= drawn'
      /\ \A i \in Installation \ {j} : password'[i] = password[i]
      /\ \/ password[j] # None /\ key = password[j] /\ password' = password /\ drawn' = drawn
         \/ /\ password[j] = None /\ key = drawn' /\ drawn' = drawn + 1
            /\ j \in denied => password' = password
            /\ j \notin denied => password'[j] = key
  BY <1>0, <1>3, PasswordRead
<1>7. BackupTypes'
  <2>1. salts' \in Nat
    BY <1>0, <1>3, SMT DEF BackupTypes
  <2> QED
    BY <1>0, <1>3, <1>5, <1>6, <2>1 DEF BackupTypes
<1>8. ASSUME NEW i \in Installation, i \notin raced' PROVE (OpenTabs(i) /\ OneSalt(i))'
  <2>0. i \notin raced /\ OpenTabs(i) /\ OneSalt(i)
    BY <1>0, <1>3, <1>8 DEF SaltsKept
  <2>1. CASE i # j
    <3>1. salt'[i] = salt[i] /\ \A u \in BackupTab : u[1] = i => tab'[u] = tab[u]
      BY <1>2, <1>3, <1>5, <2>1
    <3> QED
      BY <2>0, <3>1, SaltsLeft
  <2>2. CASE i = j /\ p = "open"
    BY <1>2, <1>3, <1>4, <1>5, <2>0, <2>2 DEF OpenTabs, OneSalt, Salting
  <2>3. CASE i = j /\ p = "salting"
    <3>1. salt[i] = None /\ Salting(i) = {}
      BY <1>3, <1>8, <2>3
    <3> QED
      BY <1>2, <1>3, <1>5, <2>0, <2>3, <3>1 DEF OpenTabs, OneSalt, Salting
  <2> QED
    BY <2>1, <2>2, <2>3
<1>9. ASSUME NEW i \in Installation, i \notin denied', i \notin cleared' PROVE KeyTabs(i)'
  <2>0. KeyTabs(i)
    BY <1>0, <1>3, <1>9 DEF KeysKept
  <2>1. CASE i # j
    BY <1>2, <1>5, <1>6, <2>0, <2>1 DEF KeyTabs
  <2>2. CASE i = j
    <3>1. password'[j] = key
      BY <1>3, <1>6, <1>9, <2>2
    <3>2. ASSUME NEW u \in BackupTab \ {t}, u[1] = i, tab[u].phase # "closed" PROVE tab[u].key = key
      BY <1>0, <1>6, <2>0, <2>2, <3>2 DEF KeyTabs, BackupTypes
    <3> QED
      BY <1>5, <2>2, <3>1, <3>2 DEF KeyTabs
  <2> QED
    BY <2>1, <2>2
<1>10. ASSUME NEW i \in Installation \ foreign, NEW c \in B!Cipher, Fits(c, i) PROVE Fits(c, i)'
  <2>1. i \notin raced' => salt'[i] # None /\ c.salt = salt'[i]
    BY <1>3, <1>10, CipherOf DEF Fits
  <2>2. i \notin denied' /\ i \notin cleared' => c.key = password'[i]
    BY <1>3, <1>6, <1>10, CipherOf DEF Fits
  <2> QED
    BY <2>1, <2>2 DEF Fits
<1>11. KeysApart'
  <2>0. /\ drawn \in Nat
        /\ \A u \in BackupTab : tab[u].key # None => tab[u].key \in Nat /\ tab[u].key <= drawn
        /\ \A i \in Installation : password[i] # None => password[i] \in Nat /\ password[i] <= drawn
    BY <1>0, SMT DEF KeysApart, BackupTypes, TabState
  <2>k. key \in Nat
    BY SMT
  <2>1. ASSUME password[j] # None, key = password[j], password' = password, drawn' = drawn
        PROVE  KeysApart'
    <3>1. j \notin denied
      BY <1>0, <2>1 DEF KeysApart
    <3>2. \A u \in BackupTab : tab'[u].key # None => tab'[u].key <= drawn'
      BY <1>0, <1>5, <2>1 DEF KeysApart
    <3>3. ASSUME NEW v \in BackupTab, v[1] \in denied, tab'[v].key # None
          PROVE  /\ \A u \in BackupTab : u # v => tab'[u].key # tab'[v].key
                 /\ \A i \in Installation : password'[i] # tab'[v].key
      <4>1. v # t /\ tab'[v] = tab[v]
        BY <1>2, <1>5, <3>1, <3>3
      <4>2. /\ \A u \in BackupTab : u # v => tab[u].key # tab[v].key
            /\ \A i \in Installation : password[i] # tab[v].key
        BY <1>0, <3>3, <4>1 DEF KeysApart
      <4> QED
        BY <1>5, <2>1, <4>1, <4>2
    <3> QED
      BY <1>0, <1>3, <2>1, <3>2, <3>3 DEF KeysApart
  <2>2. ASSUME password[j] = None, key = drawn', drawn' = drawn + 1,
               j \in denied => password' = password, j \notin denied => password'[j] = key
        PROVE  KeysApart'
    <3>1. /\ key <= drawn' /\ drawn <= drawn'
          /\ \A u \in BackupTab : tab[u].key # None => tab[u].key # key /\ tab[u].key <= drawn'
          /\ \A i \in Installation : password[i] # None => password[i] # key /\ password[i] <= drawn'
      BY <2>0, <2>k, <2>2, SMT
    <3>2. \A u \in BackupTab : tab'[u].key # None => tab'[u].key <= drawn'
      BY <1>5, <3>1
    <3>3. \A i \in Installation : password'[i] = password[i] \/ (i = j /\ j \notin denied /\ password'[i] = key)
      BY <1>6, <2>2
    <3>4. \A i \in Installation : password'[i] # None => password'[i] <= drawn'
      BY <3>1, <3>3
    <3>5. \A i \in Installation : i \in denied => password'[i] = None
      BY <1>0, <3>3 DEF KeysApart
    <3>6. ASSUME NEW v \in BackupTab, v[1] \in denied, tab'[v].key # None
          PROVE  /\ \A u \in BackupTab : u # v => tab'[u].key # tab'[v].key
                 /\ \A i \in Installation : password'[i] # tab'[v].key
      <4>1. CASE v = t
        BY <1>2, <1>4, <1>5, <3>1, <3>3, <3>6, <4>1
      <4>2. CASE v # t
        <5>1. tab'[v] = tab[v]
          BY <1>5, <4>2
        <5>2. /\ \A u \in BackupTab : u # v => tab[u].key # tab[v].key
              /\ \A i \in Installation : password[i] # tab[v].key
          BY <1>0, <3>6, <5>1 DEF KeysApart
        <5> QED
          BY <1>5, <3>1, <3>3, <3>6, <5>1, <5>2
      <4> QED
        BY <4>1, <4>2
    <3> QED
      BY <1>3, <3>2, <3>4, <3>5, <3>6 DEF KeysApart
  <2> QED
    BY <1>6, <2>1, <2>2
<1>12. OwnRecords'
  BY <1>3, <1>10, RecordsFit
<1> QED
  BY <1>7, <1>8, <1>9, <1>11, <1>12 DEF BackupInv, SaltsKept, KeysKept

(* A tab stores the salt that it drew. *)
LEMMA OpenWriteStep == ASSUME BackupInv, NEW t \in BackupTab, B!OpenWrite(t) PROVE BackupInv'
<1>0. BackupTypes /\ SaltsKept /\ KeysKept /\ KeysApart
  BY DEF BackupInv
<1>1. PICK j \in Installation : j = t[1] /\ [u \in BackupTab |-> u[1]][t] = j
  BY HomeOf
<1>2. /\ tab[t].phase = "salting" /\ salt' = [salt EXCEPT ![j] = tab[t].salt]
      /\ tab' = [tab EXCEPT ![t].phase = "open"]
      /\ denied' = denied /\ password' = password /\ kv' = kv /\ drawn' = drawn /\ salts' = salts
      /\ files' = files /\ cleared' = cleared /\ raced' = raced /\ foreign' = foreign
  BY <1>1 DEF B!OpenWrite
<1>3. tab[t] \in TabState /\ tab[t].key # None /\ tab[t].salt # None
  BY <1>0, <1>2 DEF BackupTypes
<1>4. /\ tab'[t].phase = "open" /\ tab'[t].key = tab[t].key /\ tab'[t].salt = tab[t].salt
      /\ \A u \in BackupTab \ {t} : tab'[u] = tab[u]
      /\ tab' \in [BackupTab -> TabState]
  BY <1>0, <1>2, <1>3, SMT DEF BackupTypes, TabState
<1>5. salt'[j] = tab[t].salt /\ \A i \in Installation \ {j} : salt'[i] = salt[i]
  BY <1>0, <1>2 DEF BackupTypes
<1>6. BackupTypes'
  <2>1. tab[t].salt \in 1..MaxSalt \cup {None}
    BY <1>3 DEF TabState
  <2>2. salt' \in [Installation -> 1..MaxSalt \cup {None}]
    BY <1>0, <1>2, <2>1 DEF BackupTypes
  <2> QED
    BY <1>0, <1>2, <1>3, <1>4, <2>2 DEF BackupTypes
<1>7. j \notin raced => salt[j] = None /\ \A u \in BackupTab \ {t} : u[1] = j => tab[u].phase = "closed"
  <2> SUFFICES ASSUME j \notin raced, NEW u \in BackupTab \ {t}, u[1] = j
               PROVE  salt[j] = None /\ tab[u].phase = "closed"
    BY <1>0, <1>1, <1>2 DEF SaltsKept, OneSalt, Salting
  <2>1. OpenTabs(j) /\ OneSalt(j) /\ t \in Salting(j)
    BY <1>0, <1>1, <1>2 DEF SaltsKept, Salting
  <2>2. salt[j] = None
    BY <2>1 DEF OneSalt
  <2>3. tab[u].phase # "open" /\ u \notin Salting(j)
    BY <2>1, <2>2 DEF OpenTabs, OneSalt
  <2>4. tab[u].phase \in {"closed", "salting", "open"}
    BY <1>0 DEF BackupTypes, TabState
  <2> QED
    BY <2>2, <2>3, <2>4 DEF Salting
<1>8. ASSUME NEW i \in Installation, i \notin raced' PROVE (OpenTabs(i) /\ OneSalt(i))'
  <2>0. i \notin raced /\ OpenTabs(i) /\ OneSalt(i)
    BY <1>0, <1>2, <1>8 DEF SaltsKept
  <2>1. CASE i # j
    <3>1. salt'[i] = salt[i] /\ \A u \in BackupTab : u[1] = i => tab'[u] = tab[u]
      BY <1>1, <1>4, <1>5, <2>1
    <3> QED
      BY <2>0, <3>1, SaltsLeft
  <2>2. CASE i = j
    <3>1. OpenTabs(i)'
      BY <1>3, <1>4, <1>5, <1>7, <2>0, <2>2 DEF OpenTabs
    <3>2. Salting(i)' = {}
      BY <1>4, <1>7, <2>0, <2>2 DEF Salting
    <3> QED
      BY <3>1, <3>2 DEF OneSalt
  <2> QED
    BY <2>1, <2>2
<1>9. KeysKept'
  <2>1. \A u \in BackupTab : tab'[u].key = tab[u].key /\ (tab'[u].phase # "closed" => tab[u].phase # "closed")
    BY <1>2, <1>4
  <2> QED
    BY <1>0, <1>2, <2>1 DEF KeysKept, KeyTabs
<1>10. KeysApart'
  <2>1. \A u \in BackupTab : tab'[u].key = tab[u].key
    BY <1>4
  <2> QED
    BY <1>0, <1>2, <2>1, KeysForgotten
<1>11. ASSUME NEW i \in Installation \ foreign, NEW c \in B!Cipher, Fits(c, i) PROVE Fits(c, i)'
  BY <1>2, <1>5, <1>7, <1>11, CipherOf DEF Fits
<1>12. OwnRecords'
  BY <1>2, <1>11, RecordsFit
<1> QED
  BY <1>6, <1>8, <1>9, <1>10, <1>12 DEF BackupInv, SaltsKept

(* A tab is closed. *)
LEMMA TabClosesStep == ASSUME BackupInv, NEW t \in BackupTab, B!Close(t) PROVE BackupInv'
<1>0. BackupTypes /\ SaltsKept /\ KeysKept /\ KeysApart
  BY DEF BackupInv
<1>1. /\ tab' = [tab EXCEPT ![t] = [phase |-> "closed", key |-> None, salt |-> None]]
      /\ denied' = denied /\ password' = password /\ salt' = salt /\ kv' = kv /\ drawn' = drawn
      /\ salts' = salts /\ files' = files /\ cleared' = cleared /\ raced' = raced
      /\ foreign' = foreign
  BY DEF B!Close, B!Closed
<1>2. /\ tab'[t].phase = "closed" /\ tab'[t].key = None
      /\ \A u \in BackupTab \ {t} : tab'[u] = tab[u]
      /\ tab' \in [BackupTab -> TabState]
      /\ \A u \in BackupTab : tab'[u].phase = "closed" \/ (tab'[u].key # None /\ tab'[u].salt # None)
  BY <1>0, <1>1, TabBecomes
<1>3. BackupTypes'
  BY <1>0, <1>1, <1>2 DEF BackupTypes
<1>4. ASSUME NEW i \in Installation, i \notin raced' PROVE (OpenTabs(i) /\ OneSalt(i))'
  <2>0. OpenTabs(i) /\ OneSalt(i)
    BY <1>0, <1>1, <1>4 DEF SaltsKept
  <2>1. salt'[i] = salt[i] /\ \A u \in BackupTab : tab'[u] = tab[u] \/ tab'[u].phase = "closed"
    BY <1>1, <1>2
  <2> QED
    BY <2>0, <2>1, SaltsLeft
<1>5. KeysKept'
  BY <1>0, <1>1, <1>2 DEF KeysKept, KeyTabs
<1>6. KeysApart'
  <2>1. \A u \in BackupTab : tab'[u].key # None => tab'[u].key = tab[u].key
    BY <1>2
  <2> QED
    BY <1>0, <1>1, <2>1, KeysForgotten
<1>7. OwnRecords'
  BY <1>1, RecordsFit DEF Fits
<1> QED
  BY <1>3, <1>4, <1>5, <1>6, <1>7 DEF BackupInv, SaltsKept

(* The tabs and the salts stay as they are. *)
LEMMA SaltsSame ==
  ASSUME SaltsKept, tab' = tab, salt' = salt, raced' = raced PROVE SaltsKept'
<1> SUFFICES ASSUME NEW i \in Installation, i \notin raced' PROVE (OpenTabs(i) /\ OneSalt(i))'
  BY DEF SaltsKept
<1>1. OpenTabs(i) /\ OneSalt(i)
  BY DEF SaltsKept
<1> QED
  BY <1>1 DEF OpenTabs, OneSalt, Salting

(* The password of an installation is lost. *)
LEMMA LosePasswordStep == ASSUME BackupInv, NEW j \in Installation, B!LosePassword(j) PROVE BackupInv'
<1>0. BackupTypes /\ SaltsKept /\ KeysKept /\ KeysApart
  BY DEF BackupInv
<1>1. /\ password' = [password EXCEPT ![j] = None] /\ cleared' = cleared \cup {j}
      /\ denied' = denied /\ tab' = tab /\ salt' = salt /\ kv' = kv /\ drawn' = drawn
      /\ salts' = salts /\ files' = files /\ raced' = raced /\ foreign' = foreign
  BY DEF B!LosePassword
<1>2. /\ password'[j] = None /\ \A i \in Installation \ {j} : password'[i] = password[i]
      /\ password' \in [Installation -> 1..MaxKey \cup {None}]
  BY <1>0, <1>1 DEF BackupTypes
<1>3. BackupTypes'
  BY <1>0, <1>1, <1>2 DEF BackupTypes
<1>4. SaltsKept'
  BY <1>0, <1>1, SaltsSame
<1>5. KeysKept'
  BY <1>0, <1>1, <1>2 DEF KeysKept, KeyTabs
<1>6. KeysApart'
  BY <1>0, <1>1, <1>2 DEF KeysApart
<1>7. ASSUME NEW i \in Installation \ foreign, NEW c \in B!Cipher, Fits(c, i) PROVE Fits(c, i)'
  BY <1>1, <1>2, <1>7 DEF Fits
<1>8. OwnRecords'
  BY <1>1, <1>7, RecordsFit
<1> QED
  BY <1>3, <1>4, <1>5, <1>6, <1>8 DEF BackupInv

(* The records or the files change, and nothing else. *)
OnlyRecords == UNCHANGED <<denied, password, salt, tab, drawn, salts, cleared, raced>>

(* It is enough that the records fit. *)
LEMMA RecordsStep ==
  ASSUME BackupInv, OnlyRecords, kv' \in [Installation -> B!KV], files' \subseteq B!File, OwnRecords'
  PROVE  BackupInv'
<1>1. /\ denied' = denied /\ password' = password /\ salt' = salt /\ tab' = tab /\ drawn' = drawn
      /\ salts' = salts /\ cleared' = cleared /\ raced' = raced
  BY DEF OnlyRecords
<1>2. BackupTypes' /\ KeysKept' /\ KeysApart'
  BY <1>1 DEF BackupInv, BackupTypes, KeysKept, KeyTabs, KeysApart
<1>3. SaltsKept'
  BY <1>1, SaltsSame DEF BackupInv
<1> QED
  BY <1>2, <1>3 DEF BackupInv

(* They are records that fit. *)
LEMMA FittingRecords ==
  ASSUME OnlyRecords,
         \A i \in Installation \ foreign', l \in Item : Fits(kv'[i][l], i),
         \A f \in files', i \in Installation \ foreign' : f.from = i => \A l \in Item : Fits(f.kv[l], i)
  PROVE  OwnRecords'
<1>1. /\ denied' = denied /\ password' = password /\ salt' = salt /\ cleared' = cleared
      /\ raced' = raced
  BY DEF OnlyRecords
<1>2. ASSUME NEW i \in Installation \ foreign', NEW k \in Item PROVE Fits(kv[i][k], i)'
  <2>1. Fits(kv'[i][k], i)
    BY <1>2
  <2> QED
    BY <1>1, <2>1 DEF Fits
<1>3. ASSUME NEW i \in Installation \ foreign', NEW f \in files', f.from = i, NEW k \in Item
      PROVE  Fits(f.kv[k], i)'
  <2>1. Fits(f.kv[k], i)
    BY <1>3
  <2> QED
    BY <1>1, <2>1 DEF Fits
<1> QED
  BY <1>2, <1>3 DEF OwnRecords

(* One item of an installation becomes a record that fits. *)
LEMMA ItemStep ==
  ASSUME BackupInv, OnlyRecords, files' = files, foreign' = foreign,
         NEW j \in Installation, NEW k \in Item, NEW c \in B!Cipher \cup {None}, Fits(c, j),
         kv' = [kv EXCEPT ![j] = [kv[j] EXCEPT ![k] = c]]
  PROVE  BackupInv'
<1>0. kv \in [Installation -> B!KV] /\ files \subseteq B!File
  BY DEF BackupInv, BackupTypes
<1>1. PICK h \in B!KV : h = [kv[j] EXCEPT ![k] = c] /\ h[k] = c /\ \A l \in Item \ {k} : h[l] = kv[j][l]
  <2>1. kv[j] \in [Item -> B!Cipher \cup {None}]
    BY <1>0 DEF B!KV
  <2>2. [kv[j] EXCEPT ![k] = c] \in [Item -> B!Cipher \cup {None}]
    BY <2>1
  <2>3. [kv[j] EXCEPT ![k] = c][k] = c /\ \A l \in Item \ {k} : [kv[j] EXCEPT ![k] = c][l] = kv[j][l]
    BY <2>1
  <2> QED
    BY <2>2, <2>3 DEF B!KV
<1>2. /\ kv' \in [Installation -> B!KV] /\ kv'[j] = h
      /\ \A i \in Installation \ {j} : kv'[i] = kv[i]
  BY <1>0, <1>1
<1>3. \A i \in Installation \ foreign, l \in Item : Fits(kv'[i][l], i)
  BY <1>1, <1>2 DEF BackupInv, OwnRecords
<1>4. \A f \in files', i \in Installation \ foreign : f.from = i => \A l \in Item : Fits(f.kv[l], i)
  BY DEF BackupInv, OwnRecords
<1>5. OwnRecords'
  BY <1>3, <1>4, FittingRecords
<1> QED
  BY <1>0, <1>2, <1>5, RecordsStep

(* A tab writes an item. *)
LEMMA SetItemStep ==
  ASSUME BackupInv, NEW t \in BackupTab, NEW k \in Item, NEW v \in Value, B!SetItem(t, k, v)
  PROVE  BackupInv'
<1>0. BackupTypes /\ SaltsKept /\ KeysKept
  BY DEF BackupInv
<1>1. PICK j \in Installation : j = t[1] /\ [u \in BackupTab |-> u[1]][t] = j
  BY HomeOf
<1>2. PICK c : c = [value |-> v, key |-> tab[t].key, salt |-> tab[t].salt]
  OBVIOUS
<1>3. tab[t].phase = "open" /\ kv' = [kv EXCEPT ![j][k] = c]
  BY <1>1, <1>2 DEF B!SetItem, B!Ready
<1>4. /\ denied' = denied /\ password' = password /\ salt' = salt /\ tab' = tab /\ drawn' = drawn
      /\ salts' = salts /\ files' = files /\ cleared' = cleared /\ raced' = raced
      /\ foreign' = foreign
  BY DEF B!SetItem
<1>5. tab[t].key \in 1..MaxKey /\ tab[t].salt \in 1..MaxSalt
  BY <1>0, <1>3 DEF BackupTypes, TabState
<1>6. c \in B!Cipher /\ c.key = tab[t].key /\ c.salt = tab[t].salt
  BY <1>2, <1>5 DEF B!Cipher
<1>7. Fits(c, j)
  <2>1. j \notin raced => salt[j] # None /\ tab[t].salt = salt[j]
    BY <1>0, <1>1, <1>3 DEF SaltsKept, OpenTabs
  <2>2. j \notin denied /\ j \notin cleared => tab[t].key = password[j]
    BY <1>0, <1>1, <1>3 DEF KeysKept, KeyTabs
  <2> QED
    BY <1>6, <2>1, <2>2 DEF Fits
<1>8. OnlyRecords
  BY <1>4 DEF OnlyRecords
<1> QED
  BY <1>3, <1>4, <1>6, <1>7, <1>8, ItemStep

(* A tab deletes an item. *)
LEMMA DeleteItemStep ==
  ASSUME BackupInv, NEW t \in BackupTab, NEW k \in Item, B!DeleteItem(t, k) PROVE BackupInv'
<1>1. PICK j \in Installation : j = t[1] /\ [u \in BackupTab |-> u[1]][t] = j
  BY HomeOf
<1>2. /\ kv' = [kv EXCEPT ![j] = [kv[j] EXCEPT ![k] = None]]
      /\ files' = files /\ foreign' = foreign
  BY <1>1 DEF B!DeleteItem
<1>3. OnlyRecords /\ Fits(None, j)
  BY DEF B!DeleteItem, OnlyRecords, Fits
<1> QED
  BY <1>2, <1>3, ItemStep

(* The store is exported. *)
LEMMA ExportStep ==
  ASSUME BackupInv, NEW t \in BackupTab, NEW p \in Pass, B!Export(t, p) PROVE BackupInv'
<1>0. kv \in [Installation -> B!KV] /\ files \subseteq B!File
  BY DEF BackupInv, BackupTypes
<1>1. PICK j \in Installation : j = t[1] /\ [u \in BackupTab |-> u[1]][t] = j
  BY HomeOf
<1>2. PICK g : g = [pass |-> p, kv |-> kv[j], from |-> j, intact |-> TRUE]
  OBVIOUS
<1>3. files' = files \cup {g} /\ kv' = kv /\ foreign' = foreign
  BY <1>1, <1>2 DEF B!Export
<1>4. g \in B!File /\ g.kv = kv[j] /\ g.from = j
  BY <1>0, <1>2 DEF B!File, Installation
<1>5. OnlyRecords
  BY DEF B!Export, OnlyRecords
<1>6. \A f \in files', i \in Installation \ foreign' : f.from = i => \A l \in Item : Fits(f.kv[l], i)
  BY <1>3, <1>4 DEF BackupInv, OwnRecords
<1>7. \A i \in Installation \ foreign', l \in Item : Fits(kv'[i][l], i)
  BY <1>3 DEF BackupInv, OwnRecords
<1>8. OwnRecords'
  BY <1>5, <1>6, <1>7, FittingRecords
<1> QED
  BY <1>0, <1>3, <1>4, <1>5, <1>8, RecordsStep

(* A file is damaged. *)
LEMMA DamageStep == ASSUME BackupInv, NEW f \in files, B!Damage(f) PROVE BackupInv'
<1>0. kv \in [Installation -> B!KV] /\ files \subseteq B!File
  BY DEF BackupInv, BackupTypes
<1>1. PICK g : g = [f EXCEPT !.intact = FALSE]
  OBVIOUS
<1>2. files' = (files \ {f}) \cup {g} /\ kv' = kv /\ foreign' = foreign
  BY <1>1 DEF B!Damage
<1>3. g \in B!File /\ g.kv = f.kv /\ g.from = f.from
  <2> DEFINE K == B!KV
             N == Installation
  <2>1. f \in [pass : Pass, kv : K, from : N, intact : BOOLEAN]
    BY <1>0 DEF B!File, Installation
  <2> HIDE DEF K, N
  <2>2. g \in [pass : Pass, kv : K, from : N, intact : BOOLEAN] /\ g.kv = f.kv /\ g.from = f.from
    BY <1>1, <2>1
  <2> QED
    BY <2>2 DEF K, N, B!File, Installation
<1>4. OnlyRecords
  BY DEF B!Damage, OnlyRecords
<1>5. \A h \in files', i \in Installation \ foreign' : h.from = i => \A l \in Item : Fits(h.kv[l], i)
  BY <1>2, <1>3 DEF BackupInv, OwnRecords
<1>6. \A i \in Installation \ foreign', l \in Item : Fits(kv'[i][l], i)
  BY <1>2 DEF BackupInv, OwnRecords
<1>7. OwnRecords'
  BY <1>4, <1>5, <1>6, FittingRecords
<1> QED
  BY <1>0, <1>2, <1>3, <1>4, <1>7, RecordsStep

(* A backup is imported. *)
LEMMA ImportStep ==
  ASSUME BackupInv, NEW t \in BackupTab, NEW p \in Pass, NEW f \in files, B!Import(t, f, p)
  PROVE  BackupInv'
<1>0. kv \in [Installation -> B!KV] /\ files \subseteq B!File /\ f.kv \in B!KV
  BY DEF BackupInv, BackupTypes, B!File
<1>1. PICK j \in Installation : j = t[1] /\ [u \in BackupTab |-> u[1]][t] = j
  BY HomeOf
<1>2. /\ kv' = [kv EXCEPT ![j] = f.kv] /\ files' = files
      /\ foreign' = IF f.from # j THEN foreign \cup {j} ELSE foreign
  BY <1>1 DEF B!Import
<1>3. /\ kv' \in [Installation -> B!KV] /\ kv'[j] = f.kv
      /\ \A i \in Installation \ {j} : kv'[i] = kv[i]
  BY <1>0, <1>2
<1>4. OnlyRecords
  BY DEF B!Import, OnlyRecords
<1>5. \A h \in files', i \in Installation \ foreign' : h.from = i => \A l \in Item : Fits(h.kv[l], i)
  BY <1>2 DEF BackupInv, OwnRecords
<1>6. ASSUME NEW i \in Installation \ foreign', NEW l \in Item PROVE Fits(kv'[i][l], i)
  <2>1. i \notin foreign /\ (i = j => f.from = j)
    BY <1>2, <1>6
  <2> QED
    BY <1>3, <1>6, <2>1 DEF BackupInv, OwnRecords
<1>7. OwnRecords'
  BY <1>4, <1>5, <1>6, FittingRecords
<1> QED
  BY <1>0, <1>2, <1>3, <1>4, <1>7, RecordsStep

(* Every step of a tab keeps the invariant. *)
LEMMA BackupStep == BackupInv /\ [B!Next]_(B!vars) => BackupInv'
<1> SUFFICES ASSUME BackupInv, [B!Next]_(B!vars) PROVE BackupInv'
  OBVIOUS
<1>1. CASE UNCHANGED B!vars
  <2>1. OnlyRecords /\ kv' = kv /\ files' = files /\ foreign' = foreign
    BY <1>1 DEF B!vars, OnlyRecords
  <2>2. kv \in [Installation -> B!KV] /\ files \subseteq B!File
    BY DEF BackupInv, BackupTypes
  <2>3. OwnRecords'
    <3>1. \A i \in Installation \ foreign', l \in Item : Fits(kv'[i][l], i)
      BY <2>1 DEF BackupInv, OwnRecords
    <3>2. \A f \in files', i \in Installation \ foreign' : f.from = i => \A l \in Item : Fits(f.kv[l], i)
      BY <2>1 DEF BackupInv, OwnRecords
    <3> QED
      BY <2>1, <3>1, <3>2, FittingRecords
  <2> QED
    BY <2>1, <2>2, <2>3, RecordsStep
<1>2. CASE B!Next
  BY <1>2, OpenReadStep, OpenWriteStep, TabClosesStep, LosePasswordStep, SetItemStep, DeleteItemStep,
     ExportStep, DamageStep, ImportStep DEF B!Next, Installation
<1> QED
  BY <1>1, <1>2

(* The invariant gives the property. *)
LEMMA BackupReads == BackupInv => B!ReadBack
<1> SUFFICES ASSUME BackupInv PROVE B!ReadBack
  OBVIOUS
<1>1. ASSUME NEW i \in Installation \ foreign, NEW k \in Item PROVE B!Readable(i, k)
  <2> SUFFICES ASSUME i \notin denied, i \notin cleared, i \notin raced, kv[i][k] # None
               PROVE  B!GetItem(i, password[i], salt[i], k) # None
    BY DEF B!Readable
  <2>1. kv[i][k].key = password[i] /\ kv[i][k].salt = salt[i]
    BY DEF BackupInv, OwnRecords, Fits
  <2>2. kv[i][k] \in B!Cipher
    <3>1. kv[i] \in B!KV
      BY DEF BackupInv, BackupTypes
    <3> QED
      BY <3>1 DEF B!KV
  <2> QED
    BY <2>1, <2>2, CipherOf DEF B!GetItem
<1>2. ASSUME NEW t \in BackupTab, NEW u \in BackupTab, t # u, t[1] \in denied, tab[t].key # None
      PROVE  tab[u].key # tab[t].key
  BY <1>2 DEF BackupInv, KeysApart
<1> QED
  BY <1>1, <1>2, HomeOf DEF B!ReadBack, Installation

-----------------------------------------------------------------------------
(***************************************************************************)
(* History.  A tab that is not behind has read the record as it is, or has *)
(* on its screen what the record has, or is about to empty it; unless      *)
(* writes overlap there is one on its way at most, it has what is on the   *)
(* screen of its tab, and so it extends the record.                        *)
(***************************************************************************)
HistoryTypes ==
    /\ view \in {"direct", "group"}
    /\ phase \in [Tab -> {"off", "reading", "read", "loaded", "grouped", "failed"}]
    /\ snapshot \in [Tab -> H!History \cup {None}] /\ messages \in [Tab -> H!History]
    /\ puts \in [H!Write -> Nat]
    /\ stored \in H!History \cup {None}
    /\ count \in Nat

(* The writes on their way. *)
Flying == {w \in H!Write : puts[w] > 0}

Alone == ~overlap => (\A w, x \in Flying : w = x) /\ (\A w \in H!Write : puts[w] <= 1)

Within(ms) == stored = None \/ stored \subseteq ms

Grounded(t) == \A ms \in H!History : <<t, ms>> \notin Flying

WasRead(t) ==
    phase[t] = "read" => (t \notin behind => snapshot[t] = stored) /\ (~overlap => Grounded(t))

Blank(t) == phase[t] \in {"reading", "read"} /\ t \notin unsaved => messages[t] = {}

Holds(t) == H!Loaded(t) /\ t \notin behind => Within(messages[t]) \/ <<t, {}>> \in Flying

Saved(t) ==
    H!Loaded(t) /\ t \notin behind /\ t \notin unsaved /\ Grounded(t) =>
        stored = messages[t] \/ (stored = None /\ messages[t] = {})

Extends(t) ==
    ~overlap => \A ms \in H!History : <<t, ms>> \in Flying =>
                   /\ H!Loaded(t) => ms = messages[t]
                   /\ t \notin behind => Within(ms) \/ (view = "group" /\ ms = {})

TabInv(t) == WasRead(t) /\ Blank(t) /\ Holds(t) /\ Saved(t) /\ Extends(t)

HistoryInv == HistoryTypes /\ Alone /\ \A t \in Tab : TabInv(t)

(* A write is a tab and a history. *)
LEMMA WritePairs ==
  /\ \A t \in Tab, ms \in H!History : <<t, ms>> \in H!Write
  /\ \A t, u, ms, m : <<t, ms>> = <<u, m>> => t = u /\ ms = m
  /\ {} \in H!History
<1>1. \A t \in Tab, ms \in H!History : <<t, ms>> \in H!Write
  BY DEF H!Write
<1>2. \A t, u, ms, m : <<t, ms>> = <<u, m>> => t = u /\ ms = m
  OBVIOUS
<1>3. {} \in H!History
  BY DEF H!History
<1> QED
  BY <1>1, <1>2, <1>3

(* Quiet is that no write is on its way. *)
LEMMA QuietIsGrounded == puts \in [H!Write -> Nat] => (puts = H!Quiet <=> Flying = {})
<1> SUFFICES ASSUME puts \in [H!Write -> Nat] PROVE puts = H!Quiet <=> Flying = {}
  OBVIOUS
<1>1. puts = H!Quiet => Flying = {}
  BY SMT DEF H!Quiet, Flying
<1>2. ASSUME Flying = {} PROVE puts = H!Quiet
  <2>1. \A w \in H!Write : puts[w] = 0
    BY <1>2, SMT DEF Flying
  <2> QED
    BY <2>1, SMT DEF H!Quiet
<1> QED
  BY <1>1, <1>2

(* Nothing is saved at first. *)
LEMMA HistoryStarts == H!Init => HistoryInv
<1> SUFFICES ASSUME H!Init PROVE HistoryInv
  OBVIOUS
<1>1. HistoryTypes
  BY SMT DEF H!Init, HistoryTypes, H!Quiet, H!History
<1>2. Flying = {} /\ \A w \in H!Write : puts[w] <= 1
  BY SMT DEF H!Init, H!Quiet, Flying
<1>3. \A t \in Tab : phase[t] = "off"
  BY DEF H!Init
<1>4. \A t \in Tab : TabInv(t)
  BY <1>2, <1>3 DEF TabInv, WasRead, Blank, Holds, Saved, Extends, H!Loaded
<1> QED
  BY <1>1, <1>2, <1>4 DEF HistoryInv, Alone

(* A write begins. *)
LEMMA Begins ==
  ASSUME HistoryTypes, Alone, NEW t \in Tab, NEW ms \in H!History, H!Persist(t, ms, TRUE)
  PROVE  /\ puts' \in [H!Write -> Nat] /\ unsaved' = unsaved \ {t}
         /\ Flying' = Flying \cup {<<t, ms>>}
         /\ ~overlap' => ~overlap /\ Flying = {}
         /\ Alone'
<1>1. PICK w \in H!Write : w = <<t, ms>>
  BY WritePairs
<1>2. /\ puts' = [puts EXCEPT ![w] = @ + 1] /\ overlap' = (overlap \/ puts # H!Quiet)
      /\ unsaved' = unsaved \ {t}
  BY <1>1 DEF H!Persist
<1>3. puts \in [H!Write -> Nat]
  BY DEF HistoryTypes
<1>4. puts' \in [H!Write -> Nat] /\ \A x \in H!Write : puts'[x] = IF x = w THEN puts[x] + 1 ELSE puts[x]
  BY <1>2, <1>3, SMT
<1>5. Flying' = Flying \cup {w}
  BY <1>3, <1>4, SMT DEF Flying
<1>6. ~overlap' => ~overlap /\ Flying = {}
  BY <1>2, <1>3, QuietIsGrounded
<1>7. ASSUME Flying = {} PROVE \A x \in H!Write : puts'[x] <= 1
  <2>1. \A x \in H!Write : puts[x] = 0
    BY <1>3, <1>7, SMT DEF Flying
  <2> QED
    BY <1>4, <2>1, SMT
<1> QED
  BY <1>1, <1>2, <1>4, <1>5, <1>6, <1>7 DEF Alone

(* A write ends; when no writes overlap it was the only one. *)
LEMMA EndsWrite ==
  ASSUME HistoryTypes, Alone, NEW t \in Tab, NEW ms \in H!History, H!Ends(t, ms)
  PROVE  /\ puts' \in [H!Write -> Nat]
         /\ <<t, ms>> \in Flying /\ Flying' \subseteq Flying
         /\ \A x \in Flying : x # <<t, ms>> => x \in Flying'
         /\ ~overlap' => Flying' = {}
         /\ Alone'
<1>1. PICK w \in H!Write : w = <<t, ms>>
  BY WritePairs
<1>2. /\ puts' = [puts EXCEPT ![w] = @ - 1] /\ puts[w] > 0
      /\ overlap' = (overlap /\ puts' # H!Quiet)
  BY <1>1 DEF H!Ends
<1>3. puts \in [H!Write -> Nat]
  BY DEF HistoryTypes
<1>4. puts' \in [H!Write -> Nat] /\ \A x \in H!Write : puts'[x] = IF x = w THEN puts[x] - 1 ELSE puts[x]
  BY <1>2, <1>3, SMT
<1>5. w \in Flying /\ Flying' \subseteq Flying /\ \A x \in Flying : x # w => x \in Flying'
  BY <1>2, <1>3, <1>4, SMT DEF Flying
<1>6. ASSUME ~overlap PROVE Flying' = {}
  <2>1. puts[w] = 1
    BY <1>2, <1>3, <1>6, SMT DEF Alone
  <2>2. w \notin Flying'
    BY <1>4, <2>1, SMT DEF Flying
  <2> QED
    BY <1>5, <1>6, <2>2 DEF Alone
<1>7. ~overlap' => Flying' = {}
  <2>1. puts' = H!Quiet => Flying' = {}
    BY SMT DEF H!Quiet, Flying
  <2> QED
    BY <1>2, <1>6, <2>1
<1>8. ASSUME Flying' = {} PROVE \A x \in H!Write : puts'[x] <= 1
  BY <1>4, <1>8, SMT DEF Flying
<1> QED
  BY <1>1, <1>4, <1>5, <1>7, <1>8 DEF Alone

(* A tab that a step of another leaves as it is. *)
LEMMA Steady ==
  ASSUME HistoryInv, NEW u \in Tab, view' = view,
         phase'[u] = phase[u], snapshot'[u] = snapshot[u], messages'[u] = messages[u],
         u \notin behind' => u \notin behind /\ stored' = stored,
         u \notin unsaved' => u \notin unsaved,
         \A ms \in H!History : <<u, ms>> \in Flying' => <<u, ms>> \in Flying,
         u \notin behind' => \A ms \in H!History : <<u, ms>> \in Flying => <<u, ms>> \in Flying',
         ~overlap' => ~overlap \/ Flying' = {}
  PROVE  TabInv(u)'
<1>1. TabInv(u) /\ {} \in H!History
  BY WritePairs DEF HistoryInv
<1>2. WasRead(u)' /\ Blank(u)'
  BY <1>1 DEF TabInv, WasRead, Blank, Grounded
<1>3. Holds(u)'
  BY <1>1 DEF TabInv, Holds, Within, H!Loaded
<1>4. Saved(u)'
  BY <1>1 DEF TabInv, Saved, Grounded, H!Loaded
<1>5. Extends(u)'
  BY <1>1 DEF TabInv, Extends, Within, H!Loaded
<1> QED
  BY <1>2, <1>3, <1>4, <1>5 DEF TabInv

(* The other tabs are as they were. *)
Elsewhere(t) ==
    \A u \in Tab \ {t} :
        phase'[u] = phase[u] /\ snapshot'[u] = snapshot[u] /\ messages'[u] = messages[u]

(* One tab changes, and no write begins or ends. *)
LEMMA OneTab ==
  ASSUME HistoryInv, NEW t \in Tab,
         HistoryTypes', Elsewhere(t),
         view' = view, puts' = puts, stored' = stored,
         \A u \in Tab \ {t} : (u \notin unsaved' => u \notin unsaved) /\ (u \notin behind' => u \notin behind),
         ~overlap' => ~overlap,
         Flying' = Flying => TabInv(t)'
  PROVE  HistoryInv'
<1>0. HistoryTypes /\ Alone
  BY DEF HistoryInv
<1>1. Flying' = Flying
  BY DEF Flying
<1>3. Alone'
  BY <1>0, <1>1 DEF Alone
<1>4. ASSUME NEW u \in Tab, u # t PROVE TabInv(u)'
  <2>1. phase'[u] = phase[u] /\ snapshot'[u] = snapshot[u] /\ messages'[u] = messages[u]
    BY <1>4 DEF Elsewhere
  <2>2. (u \notin unsaved' => u \notin unsaved) /\ (u \notin behind' => u \notin behind)
    BY <1>4
  <2> QED
    BY <1>1, <1>4, <2>1, <2>2, Steady
<1> QED
  BY <1>1, <1>3, <1>4 DEF HistoryInv

(* A tab as it is. *)
LEMMA TabOf ==
  ASSUME HistoryInv, NEW t \in Tab
  PROVE  /\ HistoryTypes /\ Alone /\ TabInv(t)
         /\ phase[t] \in {"off", "reading", "read", "loaded", "grouped", "failed"}
         /\ snapshot[t] \in H!History \cup {None} /\ messages[t] \in H!History
         /\ stored \in H!History \cup {None} /\ count \in Nat
         /\ puts = H!Quiet <=> Flying = {}
<1>1. HistoryTypes /\ Alone /\ TabInv(t)
  BY DEF HistoryInv
<1>2. puts = H!Quiet <=> Flying = {}
  BY <1>1, QuietIsGrounded DEF HistoryTypes
<1> QED
  BY <1>1, <1>2 DEF HistoryTypes

(* Entering a view. *)
LEMMA MountStep == ASSUME HistoryInv, NEW t \in Tab, H!Mount(t) PROVE HistoryInv'
<1>1. /\ phase' = [phase EXCEPT ![t] = "reading"] /\ messages' = [messages EXCEPT ![t] = {}]
      /\ unsaved' = unsaved \ {t} /\ snapshot' = snapshot
      /\ view' = view /\ puts' = puts /\ stored' = stored /\ count' = count
      /\ overlap' = overlap /\ behind' = behind
  BY DEF H!Mount
<1>t. HistoryTypes' /\ Elsewhere(t) /\ phase'[t] = "reading" /\ messages'[t] = {}
  BY <1>1, TabOf, WritePairs DEF HistoryTypes, Elsewhere
<1>2. ASSUME Flying' = Flying PROVE TabInv(t)'
  BY <1>1, <1>t, <1>2, TabOf DEF TabInv, WasRead, Blank, Holds, Saved, Extends, Within, H!Loaded
<1> QED
  BY <1>1, <1>t, <1>2, OneTab

(* The record is read. *)
LEMMA ReadStep == ASSUME HistoryInv, NEW t \in Tab, H!Read(t) PROVE HistoryInv'
<1>1. /\ phase' = [phase EXCEPT ![t] = "read"] /\ snapshot' = [snapshot EXCEPT ![t] = stored]
      /\ phase[t] = "reading" /\ overlap' = (overlap \/ puts # H!Quiet) /\ behind' = behind \ {t}
      /\ view' = view /\ puts' = puts /\ stored' = stored /\ count' = count
      /\ messages' = messages /\ unsaved' = unsaved
  BY DEF H!Read
<1>2. ~overlap' => ~overlap /\ Flying = {}
  BY <1>1, TabOf
<1>t. HistoryTypes' /\ Elsewhere(t) /\ phase'[t] = "read" /\ snapshot'[t] = stored
  BY <1>1, TabOf, WritePairs DEF HistoryTypes, Elsewhere
<1>3. ASSUME Flying' = Flying PROVE TabInv(t)'
  BY <1>1, <1>t, <1>2, <1>3, TabOf DEF TabInv, WasRead, Blank, Holds, Saved, Extends, Grounded, H!Loaded
<1> QED
  BY <1>1, <1>t, <1>2, <1>3, OneTab

(* The read, or what follows it, fails. *)
LEMMA LoadFailsStep == ASSUME HistoryInv, NEW t \in Tab, H!LoadFails(t) PROVE HistoryInv'
<1>1. PICK p \in {"loaded", "failed"} : phase' = [phase EXCEPT ![t] = p]
  BY DEF H!LoadFails
<1>2. /\ overlap' = (overlap \/ puts # H!Quiet) /\ behind' = behind \cup {t}
      /\ view' = view /\ puts' = puts /\ stored' = stored /\ count' = count
      /\ messages' = messages /\ snapshot' = snapshot /\ unsaved' = unsaved
  BY DEF H!LoadFails
<1>3. ~overlap' => ~overlap /\ Flying = {}
  BY <1>2, TabOf
<1>t. HistoryTypes' /\ Elsewhere(t) /\ phase'[t] = p
  BY <1>1, <1>2, TabOf, WritePairs DEF HistoryTypes, Elsewhere
<1>4. ASSUME Flying' = Flying PROVE TabInv(t)'
  BY <1>1, <1>t, <1>2, <1>3, <1>4 DEF TabInv, WasRead, Blank, Holds, Saved, Extends
<1> QED
  BY <1>t, <1>2, <1>3, <1>4, OneTab

(* Leaving a view. *)
LEMMA UnmountStep == ASSUME HistoryInv, NEW t \in Tab, H!Unmount(t) PROVE HistoryInv'
<1>1. /\ phase' = [phase EXCEPT ![t] = "off"]
      /\ view' = view /\ puts' = puts /\ stored' = stored /\ count' = count
      /\ messages' = messages /\ snapshot' = snapshot /\ unsaved' = unsaved
      /\ overlap' = overlap /\ behind' = behind
  BY DEF H!Unmount
<1>t. HistoryTypes' /\ Elsewhere(t) /\ phase'[t] = "off"
  BY <1>1, TabOf, WritePairs DEF HistoryTypes, Elsewhere
<1>2. ASSUME Flying' = Flying PROVE TabInv(t)'
  BY <1>1, <1>t, <1>2, TabOf DEF TabInv, WasRead, Blank, Holds, Saved, Extends, Within, H!Loaded
<1> QED
  BY <1>1, <1>t, <1>2, OneTab

(* A tab changes and a write of it begins. *)
LEMMA TabWrites ==
  ASSUME HistoryInv, NEW t \in Tab, NEW ms \in H!History, H!Persist(t, ms, TRUE),
         NEW p \in {"loaded", "grouped"},
         phase' = [phase EXCEPT ![t] = p], messages' = [messages EXCEPT ![t] = ms],
         snapshot' = snapshot, view' = view, stored' = stored, count' \in Nat, behind' = behind,
         t \notin behind => Within(ms) \/ (view = "group" /\ ms = {}) \/ <<t, {}>> \in Flying
  PROVE  HistoryInv'
<1>0. HistoryTypes /\ Alone
  BY TabOf
<1>1. /\ puts' \in [H!Write -> Nat] /\ unsaved' = unsaved \ {t}
      /\ Flying' = Flying \cup {<<t, ms>>}
      /\ ~overlap' => ~overlap /\ Flying = {}
      /\ Alone'
  BY <1>0, Begins
<1>2. HistoryTypes'
  BY <1>0, <1>1 DEF HistoryTypes
<1>3. ASSUME NEW u \in Tab, u # t PROVE TabInv(u)'
  <2>1. phase'[u] = phase[u] /\ snapshot'[u] = snapshot[u] /\ messages'[u] = messages[u]
    BY <1>0, <1>3 DEF HistoryTypes
  <2>2. \A m \in H!History : <<u, m>> \in Flying' <=> <<u, m>> \in Flying
    BY <1>1, <1>3, WritePairs
  <2>3. u \notin unsaved' => u \notin unsaved
    BY <1>1, <1>3
  <2> QED
    BY <1>1, <1>3, <2>1, <2>2, <2>3, Steady
<1>4. TabInv(t)'
  <2>1. phase'[t] = p /\ messages'[t] = ms /\ <<t, ms>> \in Flying'
    BY <1>0, <1>1 DEF HistoryTypes
  <2>2. WasRead(t)' /\ Blank(t)' /\ Saved(t)'
    BY <2>1 DEF WasRead, Blank, Saved, Grounded
  <2>3. Holds(t)'
    BY <1>1, <2>1 DEF Holds, Within
  <2>4. Extends(t)'
    <3>1. ASSUME ~overlap', NEW m \in H!History, <<t, m>> \in Flying' PROVE m = ms
      BY <1>1, <3>1, WritePairs
    <3>2. ~overlap' => Flying = {}
      BY <1>1
    <3> QED
      BY <2>1, <3>1, <3>2 DEF Extends, Within
  <2> QED
    BY <2>2, <2>3, <2>4 DEF TabInv
<1> QED
  BY <1>1, <1>2, <1>3, <1>4 DEF HistoryInv

(* The record is put on the screen. *)
LEMMA LoadOkStep == ASSUME HistoryInv, NEW t \in Tab, H!LoadOk(t) PROVE HistoryInv'
<1>1. /\ phase[t] = "read" /\ phase' = [phase EXCEPT ![t] = "loaded"]
      /\ view' = view /\ snapshot' = snapshot /\ stored' = stored /\ count' = count
      /\ behind' = behind
  BY DEF H!LoadOk
<1>2. CASE H!Shows(t)
  <2>1. PICK ms \in H!History : ms = snapshot[t]
    BY <1>2, TabOf DEF H!Shows
  <2>2. messages' = [messages EXCEPT ![t] = ms] /\ H!Persist(t, ms, TRUE)
    BY <1>2, <2>1 DEF H!LoadOk
  <2>3. t \notin behind => Within(ms)
    BY <1>1, <2>1, TabOf DEF TabInv, WasRead, Within
  <2>4. count' \in Nat
    BY <1>1, TabOf
  <2> QED
    BY <1>1, <2>2, <2>3, <2>4, TabWrites
<1>3. CASE ~H!Shows(t)
  <2>1. messages' = messages /\ puts' = puts /\ overlap' = overlap /\ unsaved' = unsaved
    BY <1>3 DEF H!LoadOk
  <2>t. HistoryTypes' /\ Elsewhere(t) /\ phase'[t] = "loaded"
    BY <1>1, <2>1, TabOf DEF HistoryTypes, Elsewhere
  <2>2. ASSUME Flying' = Flying PROVE TabInv(t)'
    <3>1. TabInv(t)
      BY TabOf
    <3>2. WasRead(t)' /\ Blank(t)'
      BY <2>t DEF WasRead, Blank
    <3>3. t \notin behind => stored = None \/ stored = {}
      BY <1>1, <1>3, <3>1 DEF TabInv, WasRead, H!Shows
    <3>4. t \notin unsaved => messages[t] = {}
      BY <1>1, <3>1 DEF TabInv, Blank
    <3>5. Holds(t)' /\ Saved(t)'
      BY <1>1, <2>1, <2>2, <3>3, <3>4 DEF Holds, Saved, Within
    <3>6. Extends(t)'
      BY <1>1, <2>1, <2>2, <3>1 DEF TabInv, WasRead, Extends, Grounded
    <3> QED
      BY <3>2, <3>5, <3>6 DEF TabInv
  <2> QED
    BY <1>1, <2>t, <2>1, <2>2, OneTab
<1> QED
  BY <1>2, <1>3

(* A message is appended. *)
LEMMA AppendStep == ASSUME HistoryInv, NEW t \in Tab, H!Append(t) PROVE HistoryInv'
<1>1. /\ phase[t] # "off" /\ H!Persist(t, messages'[t], H!Loaded(t))
      /\ view' = view /\ snapshot' = snapshot /\ stored' = stored /\ behind' = behind
  BY DEF H!Append
<1>2. PICK ms \in H!History : /\ ms = messages'[t] /\ messages[t] \subseteq ms
                              /\ messages' = [messages EXCEPT ![t] = ms]
  <2>1. count + 1 \in 1..MaxMsg /\ count' = count + 1
    BY TabOf, WebAssumption, SMT DEF H!Append
  <2>2. messages' = [messages EXCEPT ![t] = messages[t] \cup {count + 1}]
    BY <2>1 DEF H!Append
  <2>3. messages[t] \cup {count + 1} \in H!History
    BY <2>1, TabOf DEF H!History
  <2>4. messages'[t] = messages[t] \cup {count + 1}
    BY <2>2, TabOf DEF HistoryTypes
  <2> QED
    BY <2>2, <2>3, <2>4
<1>3. count' \in Nat
  BY TabOf, SMT DEF H!Append
<1>4. PICK p \in {"off", "reading", "read", "loaded", "grouped", "failed"} :
        /\ phase' = [phase EXCEPT ![t] = p]
        /\ IF H!Loaded(t) THEN p \in {"loaded", "grouped"} ELSE p = phase[t]
  <2>1. PICK p : /\ phase' = [phase EXCEPT ![t] = p]
                 /\ p = IF view = "group" /\ phase[t] = "loaded" THEN "grouped" ELSE phase[t]
    BY DEF H!Append
  <2> QED
    BY <2>1, TabOf DEF H!Loaded
<1>5. CASE H!Loaded(t)
  <2>1. H!Persist(t, ms, TRUE)
    BY <1>1, <1>2, <1>5
  <2>2. t \notin behind => Within(ms) \/ <<t, {}>> \in Flying
    BY <1>2, <1>5, TabOf DEF TabInv, Holds, Within
  <2> QED
    BY <1>1, <1>2, <1>3, <1>4, <1>5, <2>1, <2>2, TabWrites
<1>6. CASE ~H!Loaded(t)
  <2>1. unsaved' = unsaved \cup {t} /\ puts' = puts /\ overlap' = overlap
    BY <1>1, <1>6 DEF H!Persist
  <2>2. HistoryTypes' /\ Elsewhere(t) /\ phase'[t] = phase[t]
    BY <1>1, <1>2, <1>3, <1>4, <1>6, <2>1, TabOf DEF HistoryTypes, Elsewhere
  <2>3. ASSUME Flying' = Flying PROVE TabInv(t)'
    <3>1. ~H!Loaded(t)'
      BY <1>6, <2>2 DEF H!Loaded
    <3>2. WasRead(t)' /\ Blank(t)'
      BY <1>1, <2>1, <2>2, <2>3, TabOf DEF TabInv, WasRead, Blank, Grounded
    <3>3. Holds(t)' /\ Saved(t)'
      BY <3>1 DEF Holds, Saved
    <3>4. Extends(t)'
      BY <1>1, <2>1, <2>3, <3>1, TabOf DEF TabInv, Extends, Within
    <3> QED
      BY <3>2, <3>3, <3>4 DEF TabInv
  <2> QED
    BY <1>1, <2>1, <2>2, <2>3, OneTab
<1> QED
  BY <1>5, <1>6

(* A group is created. *)
LEMMA CreateGroupStep == ASSUME HistoryInv, NEW t \in Tab, H!CreateGroup(t) PROVE HistoryInv'
<1>1. /\ view = "group" /\ phase' = [phase EXCEPT ![t] = "grouped"]
      /\ messages' = [messages EXCEPT ![t] = {}] /\ H!Persist(t, {}, TRUE)
      /\ view' = view /\ snapshot' = snapshot /\ stored' = stored /\ count' = count
      /\ behind' = behind
  BY DEF H!CreateGroup
<1>2. PICK ms \in H!History : ms = {}
  BY WritePairs
<1>3. count' \in Nat
  BY <1>1, TabOf
<1> QED
  BY <1>1, <1>2, <1>3, TabWrites

(* A write is done. *)
LEMMA PutLandsStep ==
  ASSUME HistoryInv, NEW t \in Tab, NEW ms \in H!History, H!PutLands(t, ms) PROVE HistoryInv'
<1>1. /\ H!Ends(t, ms) /\ stored' = ms
      /\ view' = view /\ phase' = phase /\ snapshot' = snapshot /\ messages' = messages
      /\ count' = count /\ unsaved' = unsaved
      /\ behind' = IF overlap THEN Tab ELSE IF ms = stored THEN behind \ {t} ELSE Tab \ {t}
  BY DEF H!PutLands
<1>2. HistoryTypes /\ Alone /\ TabInv(t)
  BY TabOf
<1>3. /\ puts' \in [H!Write -> Nat]
      /\ <<t, ms>> \in Flying /\ Flying' \subseteq Flying
      /\ \A x \in Flying : x # <<t, ms>> => x \in Flying'
      /\ ~overlap' => Flying' = {}
      /\ Alone'
  BY <1>1, <1>2, EndsWrite
<1>4. HistoryTypes'
  BY <1>1, <1>2, <1>3 DEF HistoryTypes
<1>5. ASSUME NEW u \in Tab, overlap \/ u # t PROVE TabInv(u)'
  <2>1. u \notin behind' => u # t /\ u \notin behind /\ stored' = stored
    BY <1>1, <1>5
  <2>2. u \notin behind' => \A m \in H!History : <<u, m>> \in Flying => <<u, m>> \in Flying'
    BY <1>3, <2>1, WritePairs
  <2> QED
    BY <1>1, <1>3, <2>1, <2>2, Steady
<1>6. ASSUME ~overlap PROVE TabInv(t)'
  <2>1. H!Loaded(t) => messages[t] = ms
    BY <1>2, <1>3, <1>6 DEF TabInv, Extends
  <2>2. phase[t] # "read"
    BY <1>2, <1>3, <1>6 DEF TabInv, WasRead, Grounded
  <2>3. ~overlap'
    BY <1>1, <1>6 DEF H!Ends
  <2>4. Flying' = {}
    BY <1>3, <2>3
  <2>5. WasRead(t)' /\ Blank(t)'
    BY <1>1, <1>2, <2>2 DEF TabInv, WasRead, Blank
  <2>6. Holds(t)' /\ Saved(t)'
    BY <1>1, <2>1 DEF Holds, Saved, Within, H!Loaded
  <2>7. Extends(t)'
    BY <2>4 DEF Extends
  <2> QED
    BY <2>5, <2>6, <2>7 DEF TabInv
<1> QED
  BY <1>3, <1>4, <1>5, <1>6 DEF HistoryInv

(* A write fails. *)
LEMMA PutFailsStep ==
  ASSUME HistoryInv, NEW t \in Tab, NEW ms \in H!History, H!PutFails(t, ms) PROVE HistoryInv'
<1>1. /\ H!Ends(t, ms) /\ stored' = stored
      /\ view' = view /\ phase' = phase /\ snapshot' = snapshot /\ messages' = messages
      /\ count' = count /\ unsaved' = unsaved \cup {t}
      /\ behind' = IF overlap THEN Tab ELSE IF ms = {} THEN behind \cup {t} ELSE behind
  BY DEF H!PutFails
<1>2. HistoryTypes /\ Alone /\ TabInv(t)
  BY TabOf
<1>3. /\ puts' \in [H!Write -> Nat]
      /\ <<t, ms>> \in Flying /\ Flying' \subseteq Flying
      /\ \A x \in Flying : x # <<t, ms>> => x \in Flying'
      /\ ~overlap' => Flying' = {}
      /\ Alone'
  BY <1>1, <1>2, EndsWrite
<1>4. HistoryTypes'
  BY <1>1, <1>2, <1>3 DEF HistoryTypes
<1>5. ASSUME NEW u \in Tab, u \in behind' \/ u # t PROVE TabInv(u)'
  <2>1. u \notin behind' => u # t /\ u \notin behind
    BY <1>1, <1>5
  <2>2. u \notin behind' => \A m \in H!History : <<u, m>> \in Flying => <<u, m>> \in Flying'
    BY <1>3, <2>1, WritePairs
  <2> QED
    BY <1>1, <1>3, <2>1, <2>2, Steady
<1>6. ASSUME t \notin behind' PROVE TabInv(t)'
  <2>1. ~overlap /\ t \notin behind /\ ms # {}
    BY <1>1, <1>6
  <2>2. Flying' = {}
    <3>1. ~overlap'
      BY <1>1, <2>1 DEF H!Ends
    <3> QED
      BY <1>3, <3>1
  <2>3. <<t, {}>> \notin Flying
    BY <1>2, <1>3, <2>1, WritePairs DEF Alone
  <2>4. WasRead(t)' /\ Blank(t)'
    BY <1>1, <1>2, <2>1, <2>2 DEF TabInv, WasRead, Blank, Grounded
  <2>5. Holds(t)' /\ Saved(t)'
    BY <1>1, <1>2, <2>1, <2>3 DEF TabInv, Holds, Saved, Within, H!Loaded
  <2>6. Extends(t)'
    BY <2>2 DEF Extends
  <2> QED
    BY <2>4, <2>5, <2>6 DEF TabInv
<1> QED
  BY <1>3, <1>4, <1>5, <1>6 DEF HistoryInv

(* A page is closed, and its writes with it. *)
LEMMA CloseStep == ASSUME HistoryInv, NEW t \in Tab, H!Close(t) PROVE HistoryInv'
<1>1. /\ phase' = [phase EXCEPT ![t] = "off"]
      /\ puts' = [w \in H!Write |-> IF w[1] = t THEN 0 ELSE puts[w]]
      /\ overlap' = (overlap /\ puts' # H!Quiet)
      /\ view' = view /\ snapshot' = snapshot /\ messages' = messages /\ stored' = stored
      /\ count' = count /\ behind' = behind /\ unsaved' = unsaved
  BY DEF H!Close
<1>2. HistoryTypes /\ Alone
  BY TabOf
<1>3. puts' \in [H!Write -> Nat] /\ \A w \in H!Write : puts'[w] = 0 \/ puts'[w] = puts[w]
  BY <1>1, <1>2, SMT DEF HistoryTypes
<1>4. Flying' \subseteq Flying
  BY <1>2, <1>3, SMT DEF Flying, HistoryTypes
<1>5. \A u \in Tab, m \in H!History : <<u, m>> \in Flying' <=> <<u, m>> \in Flying /\ u # t
  <2> SUFFICES ASSUME NEW u \in Tab, NEW m \in H!History
               PROVE  <<u, m>> \in Flying' <=> <<u, m>> \in Flying /\ u # t
    OBVIOUS
  <2>1. PICK w \in H!Write : w = <<u, m>> /\ w[1] = u
    <3>1. <<u, m>>[1] = u
      OBVIOUS
    <3> QED
      BY <3>1, WritePairs
  <2>2. puts'[w] = IF u = t THEN 0 ELSE puts[w]
    BY <1>1, <2>1
  <2>3. w \in Flying' <=> w \in Flying /\ u # t
    BY <1>2, <2>2, SMT DEF Flying, HistoryTypes
  <2> QED
    BY <2>1, <2>3
<1>6. ~overlap' => ~overlap \/ Flying' = {}
  <2>1. puts' = H!Quiet => Flying' = {}
    BY SMT DEF H!Quiet, Flying
  <2> QED
    BY <1>1, <2>1
<1>7. Alone'
  <2>1. ASSUME Flying' = {} PROVE \A w \in H!Write : puts'[w] <= 1
    BY <1>3, <2>1, SMT DEF Flying
  <2>2. ASSUME ~overlap PROVE \A w \in H!Write : puts'[w] <= 1
    BY <1>2, <1>3, <2>2, SMT DEF Alone
  <2> QED
    BY <1>2, <1>4, <1>6, <2>1, <2>2 DEF Alone
<1>8. HistoryTypes' /\ Elsewhere(t) /\ phase'[t] = "off"
  BY <1>1, <1>2, <1>3 DEF HistoryTypes, Elsewhere
<1>9. ASSUME NEW u \in Tab, u # t PROVE TabInv(u)'
  <2>1. phase'[u] = phase[u] /\ snapshot'[u] = snapshot[u] /\ messages'[u] = messages[u]
    BY <1>8, <1>9 DEF Elsewhere
  <2>2. \A m \in H!History : <<u, m>> \in Flying' <=> <<u, m>> \in Flying
    BY <1>5, <1>9
  <2> QED
    BY <1>1, <1>6, <1>9, <2>1, <2>2, Steady
<1>10. TabInv(t)'
  BY <1>5, <1>8 DEF TabInv, WasRead, Blank, Holds, Saved, Extends, H!Loaded
<1> QED
  BY <1>7, <1>8, <1>9, <1>10 DEF HistoryInv

(* Every step of the tabs keeps the invariant. *)
LEMMA HistoryStep == HistoryInv /\ [H!Next]_(H!vars) => HistoryInv'
<1> SUFFICES ASSUME HistoryInv, [H!Next]_(H!vars) PROVE HistoryInv'
  OBVIOUS
<1>1. CASE UNCHANGED H!vars
  <2>1. /\ view' = view /\ phase' = phase /\ snapshot' = snapshot /\ messages' = messages
        /\ puts' = puts /\ stored' = stored /\ count' = count /\ overlap' = overlap
        /\ behind' = behind /\ unsaved' = unsaved
    BY <1>1 DEF H!vars
  <2>2. Flying' = Flying
    BY <2>1 DEF Flying
  <2>3. HistoryTypes' /\ Alone'
    BY <2>1, <2>2 DEF HistoryInv, HistoryTypes, Alone
  <2>4. ASSUME NEW t \in Tab PROVE TabInv(t)'
    BY <2>1, <2>2, <2>4, Steady
  <2> QED
    BY <2>3, <2>4 DEF HistoryInv
<1>2. CASE H!Next
  BY <1>2, MountStep, ReadStep, LoadOkStep, LoadFailsStep, AppendStep, CreateGroupStep, UnmountStep,
     CloseStep, PutLandsStep, PutFailsStep DEF H!Next
<1> QED
  BY <1>1, <1>2

(* What the property of the steps says. *)
LEMMA HistoryGrowsStep == HistoryInv => H!Grows
<1> SUFFICES ASSUME HistoryInv, NEW t \in Tab, NEW ms \in H!History, H!PutLands(t, ms),
                    stored # None, ~overlap, t \notin behind
             PROVE  stored \subseteq ms \/ (view = "group" /\ ms = {})
  BY DEF H!Grows
<1>1. <<t, ms>> \in Flying
  BY TabOf, EndsWrite DEF H!PutLands
<1> QED
  BY <1>1, TabOf DEF TabInv, Extends, Within

(* What the property of the screens says. *)
LEMMA HistoryIsShown == HistoryInv => H!ShownIsSaved
<1> SUFFICES ASSUME HistoryInv, NEW t \in Tab, H!Loaded(t), puts = H!Quiet,
                    t \notin behind, t \notin unsaved
             PROVE  stored = messages[t] \/ (stored = None /\ messages[t] = {})
  BY DEF H!ShownIsSaved
<1>1. Grounded(t)
  BY TabOf DEF Grounded
<1> QED
  BY <1>1, TabOf DEF TabInv, Saved

-----------------------------------------------------------------------------
(***************************************************************************)
(* Verification.  Unless the component was changed in place with its state *)
(* loaded, a verified mark is for a key the user verified wherever it is:  *)
(* on the screen, in a record, in a write on its way and in a record that  *)
(* was read.                                                               *)
(***************************************************************************)
VerificationTypes ==
    /\ props \in Session \cup {None}
    /\ verified \in BOOLEAN /\ loaded \in BOOLEAN /\ derived \in BOOLEAN
    /\ reading \in [at : {"open", "read", "done"}, found : V!Record \cup {None}]
    /\ writes \in [V!Put -> Nat]
    /\ records \in [Conv -> V!Record \cup {None}]
    /\ props = None => reading = V!Idle /\ ~verified /\ ~loaded

(* A record of conversation c marks a key the user verified. *)
Honest(c, r) == r.verified => <<c, r.key>> \in checked

Shown == props # None /\ loaded /\ verified => <<props.conv, props.key>> \in checked

Found == reading.found # None => Honest(props.conv, reading.found)

Kept == \A c \in Conv : records[c] # None => Honest(c, records[c])

OnTheWay == \A p \in V!Put : writes[p] > 0 => Honest(p.conv, p.record)

VerificationInv ==
    /\ VerificationTypes
    /\ ~carried => Shown /\ Found /\ Kept /\ OnTheWay

(* A session has a conversation and a key. *)
LEMMA SessionType == \A s \in Session : s \in [conv : Conv, key : Key] /\ s # None
<1>1. (CHOOSE c \in Conv : TRUE) \in Conv /\ (CHOOSE k \in Key : TRUE) \in Key
  BY WebAssumption
<1>2. None \notin Session
  BY WebAssumption
<1>3. Session \subseteq [conv : Conv, key : Key]
  <2> DEFINE a == CHOOSE c \in Conv : TRUE
             b == CHOOSE k \in Key : TRUE
  <2>1. Session = {[conv |-> a, key |-> j] : j \in Key} \cup {[conv |-> d, key |-> b] : d \in Conv}
    BY DEF Session
  <2>2. a \in Conv /\ b \in Key
    BY <1>1
  <2> HIDE DEF a, b
  <2> QED
    BY <2>1, <2>2, SMT
<1> QED
  BY <1>2, <1>3

(* Nothing is shown or marked at first. *)
LEMMA VerificationStarts == V!Init => VerificationInv
<1> SUFFICES ASSUME V!Init PROVE VerificationInv
  OBVIOUS
<1>1. V!Idle \in [at : {"open", "read", "done"}, found : V!Record \cup {None}] /\ V!Idle.found = None
  BY DEF V!Idle
<1>2. writes \in [V!Put -> Nat] /\ \A p \in V!Put : writes[p] = 0
  BY SMT DEF V!Init
<1>3. OnTheWay
  BY <1>2, SMT DEF OnTheWay
<1> QED
  BY <1>1, <1>2, <1>3 DEF V!Init, VerificationInv, VerificationTypes, Shown, Found, Kept

(* The persist effect writes what it is given, if anything. *)
LEMMA PersistWrites ==
  ASSUME VerificationTypes, NEW s \in [conv : Conv, key : Key], NEW v \in BOOLEAN,
         NEW l \in BOOLEAN, NEW d \in BOOLEAN, V!Persist(s, v, l, d)
  PROVE  /\ writes' \in [V!Put -> Nat]
         /\ /\ OnTheWay /\ checked \subseteq checked'
            /\ l /\ d /\ v => <<s.conv, s.key>> \in checked'
            => OnTheWay'
<1>1. CASE ~(l /\ d)
  <2>1. writes' = writes
    BY <1>1 DEF V!Persist
  <2> QED
    BY <2>1 DEF VerificationTypes, OnTheWay, Honest
<1>2. CASE l /\ d
  <2>1. PICK w \in V!Put : /\ w.conv = s.conv /\ w.record.verified = v /\ w.record.key = s.key
                           /\ writes' = [writes EXCEPT ![w] = @ + 1]
    <3> DEFINE r == [verified |-> v, key |-> s.key]
               w == [conv |-> s.conv, record |-> r]
    <3>1. r \in V!Record /\ r.verified = v /\ r.key = s.key
      BY DEF V!Record
    <3> HIDE DEF r
    <3>2. w \in V!Put /\ w.conv = s.conv /\ w.record = r
      BY <3>1 DEF V!Put
    <3>3. writes' = [writes EXCEPT ![w] = @ + 1]
      BY <1>2 DEF V!Persist, r
    <3> HIDE DEF w
    <3> QED
      BY <3>1, <3>2, <3>3
  <2>2. writes' \in [V!Put -> Nat]
    BY <2>1, SMT DEF VerificationTypes
  <2>3. \A p \in V!Put : p # w => writes'[p] = writes[p]
    BY <2>1 DEF VerificationTypes
  <2>4. ASSUME OnTheWay, checked \subseteq checked', l /\ d /\ v => <<s.conv, s.key>> \in checked'
        PROVE  OnTheWay'
    BY <1>2, <2>1, <2>3, <2>4 DEF OnTheWay, Honest
  <2> QED
    BY <2>2, <2>4
<1> QED
  BY <1>1, <1>2

(* A write ends: it is on its way once less. *)
LEMMA WriteEnds ==
  ASSUME VerificationTypes, NEW p \in V!Put, writes[p] > 0, writes' = [writes EXCEPT ![p] = @ - 1]
  PROVE  /\ writes' \in [V!Put -> Nat]
         /\ \A q \in V!Put : writes'[q] > 0 => writes[q] > 0
  BY SMT DEF VerificationTypes

(* Every step of the component keeps the invariant. *)
LEMMA VerificationStep == VerificationInv /\ [V!Next]_(V!vars) => VerificationInv'
<1> SUFFICES ASSUME VerificationInv, [V!Next]_(V!vars) PROVE VerificationInv'
  OBVIOUS
<1>0. VerificationTypes /\ (~carried => Shown /\ Found /\ Kept /\ OnTheWay)
  BY DEF VerificationInv
<1>o. /\ [at |-> "open", found |-> None] \in [at : {"open", "read", "done"}, found : V!Record \cup {None}]
      /\ [at |-> "open", found |-> None].found = None
      /\ V!Idle \in [at : {"open", "read", "done"}, found : V!Record \cup {None}]
      /\ V!Idle.found = None /\ V!Idle.at = "done"
  BY DEF V!Idle
<1>1. CASE UNCHANGED V!vars
  BY <1>0, <1>1 DEF VerificationInv, VerificationTypes, Shown, Found, Kept, OnTheWay, Honest,
                    V!vars, V!screen
<1>2. ASSUME NEW s \in Session, V!Mount(s) PROVE VerificationInv'
  BY <1>0, <1>2, <1>o, SessionType DEF VerificationInv, VerificationTypes, Shown, Found, Kept,
     OnTheWay, Honest, V!Mount
<1>3. ASSUME NEW s \in Session, V!Change(s) PROVE VerificationInv'
  <2>1. /\ props' = s /\ loaded' = FALSE /\ reading' = [at |-> "open", found |-> None]
        /\ V!Persist(s, verified, loaded, derived) /\ carried' = (carried \/ (loaded /\ derived))
        /\ UNCHANGED <<verified, derived, records, checked>>
    BY <1>3 DEF V!Change
  <2>2. s \in [conv : Conv, key : Key] /\ s # None
    BY SessionType
  <2>3. verified \in BOOLEAN /\ loaded \in BOOLEAN /\ derived \in BOOLEAN
    BY <1>0 DEF VerificationTypes
  <2>4. writes' \in [V!Put -> Nat] /\ (~carried' => OnTheWay')
    BY <1>0, <2>1, <2>2, <2>3, PersistWrites
  <2>5. VerificationTypes'
    BY <1>0, <1>o, <2>1, <2>2, <2>4 DEF VerificationTypes
  <2> QED
    BY <1>0, <1>o, <2>1, <2>4, <2>5 DEF VerificationInv, Shown, Found, Kept, Honest
<1>4. CASE V!Unmount
  BY <1>0, <1>4, <1>o DEF VerificationInv, VerificationTypes, Shown, Found, Kept, OnTheWay,
     Honest,
     V!Unmount
<1>5. CASE V!Derive
  <2>1. /\ V!Persist(props, verified, loaded, TRUE) /\ derived' = TRUE /\ props # None
        /\ UNCHANGED <<props, verified, loaded, reading, records, checked, carried>>
    BY <1>5 DEF V!Derive
  <2>2. props \in [conv : Conv, key : Key] /\ verified \in BOOLEAN /\ loaded \in BOOLEAN
    BY <1>0, <2>1, SessionType DEF VerificationTypes
  <2>3. writes' \in [V!Put -> Nat] /\ (~carried => OnTheWay')
    BY <1>0, <2>1, <2>2, PersistWrites DEF Shown
  <2> QED
    BY <1>0, <2>1, <2>3 DEF VerificationInv, VerificationTypes, Shown, Found, Kept, Honest
<1>6. CASE V!Read
  <2>1. /\ reading' = [at |-> "read", found |-> records[props.conv]] /\ props # None
        /\ UNCHANGED <<props, verified, loaded, derived, writes, records, checked, carried>>
    BY <1>0, <1>6, <1>o DEF V!Read, VerificationTypes
  <2>2. props.conv \in Conv
    BY <1>0, <2>1, SessionType DEF VerificationTypes
  <2>3. reading' \in [at : {"open", "read", "done"}, found : V!Record \cup {None}]
    BY <1>0, <2>1, <2>2 DEF VerificationTypes
  <2>4. reading'.found = records[props.conv]
    BY <2>1
  <2> QED
    BY <1>0, <2>1, <2>2, <2>3, <2>4 DEF VerificationInv, VerificationTypes, Shown, Found, Kept,
       OnTheWay, Honest
<1>7. CASE V!Load
  <2> DEFINE r == reading.found
             same == r # None /\ r.key = props.key
  <2>1. /\ verified' = (same /\ r.verified) /\ loaded' = TRUE /\ reading' = V!Idle
        /\ V!Persist(props, same /\ r.verified, TRUE, derived) /\ reading.at = "read"
        /\ UNCHANGED <<props, derived, records, checked, carried>>
    BY <1>7 DEF V!Load
  <2>2. props # None /\ props \in [conv : Conv, key : Key] /\ derived \in BOOLEAN
    BY <1>0, <1>o, <2>1, SessionType DEF VerificationTypes
  <2>3. r \in V!Record \cup {None} /\ (r # None => r.verified \in BOOLEAN)
    BY <1>0 DEF VerificationTypes, V!Record
  <2>4. ~carried /\ same /\ r.verified => <<props.conv, props.key>> \in checked
    BY <1>0 DEF Found, Honest
  <2> HIDE DEF r
  <2>5. (same /\ r.verified) \in BOOLEAN
    BY <2>3
  <2> HIDE DEF same
  <2>6. writes' \in [V!Put -> Nat] /\ (~carried => OnTheWay')
    BY <1>0, <2>1, <2>2, <2>4, <2>5, PersistWrites
  <2>7. VerificationTypes'
    BY <1>0, <1>o, <2>1, <2>2, <2>5, <2>6 DEF VerificationTypes
  <2>8. ~carried => Shown' /\ Found' /\ Kept'
    BY <1>0, <1>o, <2>1, <2>4 DEF Shown, Found, Kept, Honest
  <2> QED
    BY <2>1, <2>6, <2>7, <2>8 DEF VerificationInv
<1>8. CASE V!LoadFails
  BY <1>0, <1>8, <1>o DEF VerificationInv, VerificationTypes, Shown, Found, Kept, OnTheWay,
     Honest,
     V!LoadFails
<1>9. CASE V!HandleVerify
  <2>1. /\ V!Persist(props, TRUE, loaded, derived) /\ verified' = TRUE /\ props # None
        /\ checked' = checked \cup {<<props.conv, props.key>>}
        /\ UNCHANGED <<props, loaded, derived, reading, records, carried>>
    BY <1>9 DEF V!HandleVerify
  <2>2. props \in [conv : Conv, key : Key] /\ derived \in BOOLEAN /\ loaded \in BOOLEAN
    BY <1>0, <2>1, SessionType DEF VerificationTypes
  <2>3. writes' \in [V!Put -> Nat] /\ (~carried => OnTheWay')
    BY <1>0, <2>1, <2>2, PersistWrites
  <2> QED
    BY <1>0, <2>1, <2>3 DEF VerificationInv, VerificationTypes, Shown, Found, Kept, Honest
<1>10. CASE V!HandleUnverify
  <2>1. /\ V!Persist(props, FALSE, loaded, derived) /\ verified' = FALSE /\ props # None
        /\ UNCHANGED <<props, loaded, derived, reading, records, checked, carried>>
    BY <1>10 DEF V!HandleUnverify
  <2>2. props \in [conv : Conv, key : Key] /\ derived \in BOOLEAN /\ loaded \in BOOLEAN
    BY <1>0, <2>1, SessionType DEF VerificationTypes
  <2>3. writes' \in [V!Put -> Nat] /\ (~carried => OnTheWay')
    BY <1>0, <2>1, <2>2, PersistWrites
  <2> QED
    BY <1>0, <2>1, <2>3 DEF VerificationInv, VerificationTypes, Shown, Found, Kept, Honest
<1>11. ASSUME NEW p \in V!Put, V!PutLands(p) PROVE VerificationInv'
  <2>1. /\ writes[p] > 0 /\ writes' = [writes EXCEPT ![p] = @ - 1]
        /\ records' = [records EXCEPT ![p.conv] = p.record]
        /\ UNCHANGED <<props, verified, loaded, derived, reading, checked, carried>>
    BY <1>11 DEF V!PutLands, V!screen
  <2>2. writes' \in [V!Put -> Nat] /\ \A q \in V!Put : writes'[q] > 0 => writes[q] > 0
    BY <1>0, <2>1, WriteEnds
  <2>3. p.conv \in Conv /\ p.record \in V!Record
    BY DEF V!Put
  <2>4. /\ records' \in [Conv -> V!Record \cup {None}]
        /\ \A c \in Conv : records'[c] = IF c = p.conv THEN p.record ELSE records[c]
    BY <1>0, <2>1, <2>3 DEF VerificationTypes
  <2>5. VerificationTypes'
    BY <1>0, <2>1, <2>2, <2>4 DEF VerificationTypes
  <2>6. ~carried => Kept' /\ OnTheWay'
    BY <1>0, <2>1, <2>2, <2>4 DEF Kept, OnTheWay, Honest
  <2> QED
    BY <1>0, <2>1, <2>5, <2>6 DEF VerificationInv, Shown, Found, Honest
<1>12. ASSUME NEW p \in V!Put, V!PutFails(p) PROVE VerificationInv'
  <2>1. /\ writes[p] > 0 /\ writes' = [writes EXCEPT ![p] = @ - 1]
        /\ UNCHANGED <<props, verified, loaded, derived, reading, records, checked, carried>>
    BY <1>12 DEF V!PutFails, V!screen
  <2>2. writes' \in [V!Put -> Nat] /\ \A q \in V!Put : writes'[q] > 0 => writes[q] > 0
    BY <1>0, <2>1, WriteEnds
  <2> QED
    BY <1>0, <2>1, <2>2 DEF VerificationInv, VerificationTypes, Shown, Found, Kept, OnTheWay,
       Honest
<1> QED
  BY <1>1, <1>2, <1>3, <1>4, <1>5, <1>6, <1>7, <1>8, <1>9, <1>10, <1>11, <1>12 DEF V!Next

-----------------------------------------------------------------------------
(***************************************************************************)
(* GroupConversation.  Unless a lookup ended after the group had changed,  *)
(* a lookup that holds the current handle holds the current member list    *)
(* too, and the chain keys used so far are of earlier roots or behind the  *)
(* handle's step, or of the given identity, of which a group was made      *)
(* twice.                                                                  *)
(***************************************************************************)
Handles == [root : Nat, step : Nat, roster : SUBSET (Demo \cup Peer)]

Lookups == [peer : Peer, handle : Handles \cup {None}, real : SUBSET Peer]

GroupTypes ==
    /\ load \in {"loading", "ready"} /\ group \in Handles \cup {None}
    /\ memberNames \subseteq Demo /\ realMembers \subseteq Peer /\ removedRealMembers \subseteq Peer
    /\ adding \in Lookups \cup {None}
    /\ roster \subseteq Peer /\ saves \in [SUBSET Peer -> Nat]
    /\ roots \in Nat /\ made \in Nat /\ used \subseteq [root : Nat, step : Nat]
    /\ load = "loading" => group = None
    /\ group = None => memberNames = {} /\ realMembers = {} /\ removedRealMembers = {} /\ adding = None

Drawn ==
    /\ group # None => group.root <= roots /\ (group.root = 0 => made > 0)
    /\ \A k \in used : k.root <= roots /\ (k.root = 0 => made > 0)

Rostered ==
    group # None => /\ group.roster = memberNames \cup (realMembers \ lost)
                    /\ realMembers \cap removedRealMembers = {}

Fresh ==
    adding # None /\ adding.handle = None =>
        adding.real = realMembers /\ adding.peer \notin removedRealMembers

Again(k) == made > 1 /\ k.root = 0

Behind == \A k \in used : group # None /\ k.root = group.root => k.step < group.step \/ Again(k)

Repeats == \A k \in reused : Again(k)

GroupInv ==
    /\ GroupTypes
    /\ ~stale => Rostered /\ Fresh /\ Drawn /\ Behind /\ Repeats

(* There is no group at first. *)
LEMMA GroupStarts == G!Init => GroupInv
  BY SMT DEF G!Init, GroupInv, GroupTypes, Drawn, Rostered, Fresh, Behind, Repeats,
         G!NoGroup, G!Quiet

(* The first chain key of handle g is fresh, or the one of the given       *)
(* identity.                                                               *)
Rekeys(g) ==
    \/ g.root = roots + 1 /\ roots' = roots + 1 /\ made' = made
    \/ g.root = 0 /\ roots' = roots /\ made' = made + 1

(* A handle made with a fresh chain key. *)
LEMMA NewHandle ==
  ASSUME GroupTypes, NEW m \in SUBSET (Demo \cup Peer), NEW g, g = [root |-> roots + 1, step |-> 0, roster |-> m]
  PROVE  g \in Handles /\ g # None /\ g.root = roots + 1 /\ g.step = 0 /\ g.roster = m
<1>1. g \in Handles /\ g.root = roots + 1 /\ g.step = 0 /\ g.roster = m
  BY SMT DEF GroupTypes, Handles
<1> QED
  BY <1>1, WebAssumption DEF Handles

(* The handle of a new group. *)
LEMMA CreatedHandle ==
  ASSUME GroupTypes, NEW g, g = G!GroupCreate, G!Created
  PROVE  /\ g \in Handles /\ g # None /\ g.roster = {}
         /\ roots' \in Nat /\ made' \in Nat
         /\ Rekeys(g)
<1>1. roots \in Nat /\ made \in Nat /\ roots + 1 \in Nat /\ made + 1 \in Nat /\ 0 \in Nat
  BY SMT DEF GroupTypes
<1>2. PICK r \in Nat : /\ g = [root |-> r, step |-> 0, roster |-> {}]
                       /\ roots' \in Nat /\ made' \in Nat
                       /\ \/ r = roots + 1 /\ roots' = roots + 1 /\ made' = made
                          \/ r = 0 /\ roots' = roots /\ made' = made + 1
  <2>1. CASE given
    <3>1. g = [root |-> 0, step |-> 0, roster |-> {}] /\ roots' = roots /\ made' = made + 1
      BY <2>1 DEF G!GroupCreate, G!Created
    <3> QED
      BY <1>1, <3>1
  <2>2. CASE ~given
    <3>1. g = [root |-> roots + 1, step |-> 0, roster |-> {}] /\ roots' = roots + 1 /\ made' = made
      BY <2>2 DEF G!GroupCreate, G!Created, G!Drawn
    <3> QED
      BY <1>1, <3>1
  <2> QED
    BY <2>1, <2>2
<1>3. g \in Handles /\ g.root = r /\ g.roster = {}
  BY <1>2, SMT DEF Handles
<1> QED
  BY <1>2, <1>3, WebAssumption DEF Handles, Rekeys

(* A handle with a member added. *)
LEMMA GrownHandle ==
  ASSUME NEW h \in Handles, NEW m \in Demo \cup Peer
  PROVE  /\ G!GroupAddMember(h, m) \in Handles /\ G!GroupAddMember(h, m) # None
         /\ G!GroupAddMember(h, m).root = h.root /\ G!GroupAddMember(h, m).step = h.step
         /\ G!GroupAddMember(h, m).roster = h.roster \cup {m}
<1>1. PICK g : g = [h EXCEPT !.roster = @ \cup {m}]
  OBVIOUS
<1>2. g \in Handles /\ g.root = h.root /\ g.step = h.step /\ g.roster = h.roster \cup {m}
  BY <1>1, SMT DEF Handles
<1>3. g # None
  BY <1>2, WebAssumption DEF Handles
<1> QED
  BY <1>1, <1>2, <1>3 DEF G!GroupAddMember

(* setGroup: no lookup holds the new handle. *)
LEMMA SetsGroup ==
  ASSUME GroupTypes, group # None \/ adding = None, NEW g \in Handles, g # None, G!SetGroup(g)
  PROVE  group' = g /\ adding' \in Lookups \cup {None} /\ Fresh'
<1>1. group' = g
  BY DEF G!SetGroup
<1>2. CASE adding # None /\ adding.handle = None
  <2>1. adding' = [adding EXCEPT !.handle = group] /\ adding \in Lookups /\ group \in Handles
    BY <1>2 DEF G!SetGroup, GroupTypes
  <2>2. adding' \in Lookups /\ adding'.handle = group
    BY <2>1, SMT DEF Lookups
  <2> QED
    BY <1>1, <1>2, <2>2 DEF Fresh
<1>3. CASE ~(adding # None /\ adding.handle = None)
  <2>1. adding' = adding
    BY <1>3 DEF G!SetGroup
  <2> QED
    BY <1>1, <1>3, <2>1 DEF Fresh, GroupTypes
<1> QED
  BY <1>2, <1>3

(* A write of the roster begins. *)
LEMMA SavesGrow ==
  ASSUME GroupTypes, NEW m \in SUBSET Peer, saves' = [saves EXCEPT ![m] = @ + 1]
  PROVE  saves' \in [SUBSET Peer -> Nat]
  BY SMT DEF GroupTypes

(* A write of the roster ends. *)
LEMMA SaveEnds ==
  ASSUME GroupTypes, NEW m \in SUBSET Peer, saves[m] > 0, saves' = [saves EXCEPT ![m] = @ - 1]
  PROVE  saves' \in [SUBSET Peer -> Nat]
  BY SMT DEF GroupTypes

(* A handle with another first chain key replaces the group's. *)
LEMMA Rekeyed ==
  ASSUME GroupInv, group' # None, Rekeys(group'), UNCHANGED <<used, reused, stale>>
  PROVE  ~stale' => Drawn' /\ Behind' /\ Repeats'
<1>1. \A k \in used : k.root \in Nat /\ (~stale => k.root <= roots /\ (k.root = 0 => made > 0))
  BY DEF GroupInv, GroupTypes, Drawn
<1>2. roots \in Nat /\ made \in Nat /\ used' = used /\ reused' = reused /\ stale' = stale
  BY DEF GroupInv, GroupTypes
<1>3. ~stale => \A k \in reused : made > 1 /\ k.root = 0
  BY DEF GroupInv, Repeats, Again
<1>4. CASE group'.root = roots + 1 /\ roots' = roots + 1 /\ made' = made
  BY <1>1, <1>2, <1>3, <1>4, SMT DEF Drawn, Behind, Repeats, Again
<1>5. CASE group'.root = 0 /\ roots' = roots /\ made' = made + 1
  BY <1>1, <1>2, <1>3, <1>5, SMT DEF Drawn, Behind, Repeats, Again
<1> QED
  BY <1>4, <1>5 DEF Rekeys

(* The handle that replaces the group's has its chain key. *)
LEMMA SameKey ==
  ASSUME GroupInv, group # None, group' # None, group'.root = group.root, group'.step = group.step,
         UNCHANGED <<used, reused, stale, roots, made>>
  PROVE  ~stale' => Drawn' /\ Behind' /\ Repeats'
  BY DEF GroupInv, Drawn, Behind, Repeats, Again

(* Every step of the view keeps the invariant. *)
LEMMA GroupStep == GroupInv /\ [G!Next]_(G!vars) => GroupInv'
<1> SUFFICES ASSUME GroupInv, [G!Next]_(G!vars) PROVE GroupInv'
  OBVIOUS
<1>0. GroupTypes /\ (~stale => Rostered /\ Fresh /\ Drawn /\ Behind /\ Repeats)
  BY DEF GroupInv
<1>d. \A d \in Demo : d \notin Peer
  BY WebAssumption
<1>1. CASE UNCHANGED G!vars
  BY <1>0, <1>1 DEF GroupInv, GroupTypes, Drawn, Rostered, Fresh, Behind, Repeats, Again,
     G!vars, G!page
<1>2. CASE G!LoadOk
  <2>1. /\ load = "loading" /\ load' = "ready" /\ realMembers' = roster /\ lost' = roster
        /\ UNCHANGED <<memberNames, removedRealMembers, adding, roster, saves, used, reused, stale>>
        /\ group = None /\ memberNames = {} /\ removedRealMembers = {} /\ adding = None
    BY <1>0, <1>2 DEF G!LoadOk, GroupTypes
  <2>2. CASE roster = {}
    <3>1. UNCHANGED <<group, roots, made>>
      BY <1>2, <2>2 DEF G!LoadOk
    <3> QED
      BY <1>0, <2>1, <2>2, <3>1 DEF GroupInv, GroupTypes, Drawn, Rostered, Fresh, Behind, Repeats,
       Again
  <2>3. CASE roster # {}
    <3>1. PICK g : g = group' /\ g = G!GroupCreate /\ G!Created
      BY <1>2, <2>3 DEF G!LoadOk
    <3>2. /\ group' \in Handles /\ group' # None /\ group'.roster = {}
          /\ roots' \in Nat /\ made' \in Nat /\ Rekeys(group')
      BY <1>0, <3>1, CreatedHandle
    <3>3. ~stale' => Drawn' /\ Behind' /\ Repeats'
      BY <2>1, <3>2, Rekeyed
    <3> QED
      BY <1>0, <2>1, <3>2, <3>3 DEF GroupInv, GroupTypes, Rostered, Fresh
  <2> QED
    BY <2>2, <2>3
<1>3. CASE G!LoadFails
  BY <1>0, <1>3 DEF GroupInv, GroupTypes, Drawn, Rostered, Fresh, Behind, Repeats, Again,
     G!LoadFails
<1>4. CASE G!CreateGroup
  <2>1. /\ load = "ready" /\ group = None /\ adding = None /\ removedRealMembers = {}
        /\ G!Created /\ memberNames' = {} /\ realMembers' = {}
        /\ G!SetGroup(G!GroupCreate) /\ saves' = [saves EXCEPT ![{}] = @ + 1]
        /\ UNCHANGED <<load, removedRealMembers, roster, used, reused, lost, stale>>
    BY <1>0, <1>4 DEF G!CreateGroup, G!NoGroup, G!PersistGroupState, GroupTypes
  <2>2. PICK g : g = G!GroupCreate
    OBVIOUS
  <2>3. /\ g \in Handles /\ g # None /\ g.roster = {}
        /\ roots' \in Nat /\ made' \in Nat /\ Rekeys(g)
    BY <1>0, <2>1, <2>2, CreatedHandle
  <2>4. group' = g /\ adding' \in Lookups \cup {None} /\ Fresh'
    BY <1>0, <2>1, <2>2, <2>3, SetsGroup
  <2>5. ~stale' => Drawn' /\ Behind' /\ Repeats'
    BY <2>1, <2>3, <2>4, Rekeyed
  <2>6. saves' \in [SUBSET Peer -> Nat]
    BY <1>0, <2>1, SMT DEF GroupTypes
  <2>7. GroupTypes'
    BY <1>0, <2>1, <2>3, <2>4, <2>6 DEF GroupTypes
  <2>8. Rostered'
    BY <2>1, <2>3, <2>4 DEF Rostered
  <2> QED
    BY <2>4, <2>5, <2>7, <2>8 DEF GroupInv
<1>5. ASSUME NEW d \in Demo, G!AddMember(d) PROVE GroupInv'
  <2>1. /\ group # None /\ G!SetGroup(G!GroupAddMember(group, d))
        /\ memberNames' = memberNames \cup {d}
        /\ UNCHANGED <<load, realMembers, removedRealMembers, roster, saves, roots, used, reused,
                       lost, made, stale>>
    BY <1>5 DEF G!AddMember, G!NoGroup
  <2>2. group \in Handles
    BY <1>0, <2>1 DEF GroupTypes
  <2>3. PICK g : g = G!GroupAddMember(group, d)
    OBVIOUS
  <2>4. /\ g \in Handles /\ g # None /\ g.root = group.root /\ g.step = group.step
        /\ g.roster = group.roster \cup {d}
    BY <2>2, <2>3, GrownHandle
  <2>5. group' = g /\ adding' \in Lookups \cup {None} /\ Fresh'
    BY <1>0, <2>1, <2>3, <2>4, SetsGroup
  <2>6. ~stale' => Drawn' /\ Behind' /\ Repeats'
    BY <2>1, <2>4, <2>5, SameKey
  <2>7. GroupTypes'
    BY <1>0, <2>1, <2>4, <2>5 DEF GroupTypes
  <2>8. ~stale => Rostered'
    BY <1>0, <2>1, <2>4, <2>5 DEF Rostered
  <2> QED
    BY <2>1, <2>5, <2>6, <2>7, <2>8 DEF GroupInv
<1>6. ASSUME NEW d \in Demo, G!RemoveMember(d) PROVE GroupInv'
  <2>1. /\ group # None /\ G!SetGroup(G!GroupRemoveMember(group, d)) /\ roots' = roots + 1
        /\ memberNames' = memberNames \ {d}
        /\ UNCHANGED <<load, realMembers, removedRealMembers, roster, saves, used, reused, lost,
                       made, stale>>
    BY <1>6 DEF G!RemoveMember, G!Drawn, G!NoGroup
  <2>2. group.roster \ {d} \in SUBSET (Demo \cup Peer)
    BY <1>0, <2>1 DEF GroupTypes, Handles
  <2>3. PICK g : g = G!GroupRemoveMember(group, d)
    OBVIOUS
  <2>4. g \in Handles /\ g # None /\ g.root = roots + 1 /\ g.roster = group.roster \ {d}
    BY <1>0, <2>2, <2>3, NewHandle DEF G!GroupRemoveMember
  <2>5. group' = g /\ adding' \in Lookups \cup {None} /\ Fresh'
    BY <1>0, <2>1, <2>3, <2>4, SetsGroup
  <2>6. ~stale' => Drawn' /\ Behind' /\ Repeats'
    BY <2>1, <2>4, <2>5, Rekeyed DEF Rekeys
  <2>7. roots' \in Nat
    BY <1>0, <2>1, SMT DEF GroupTypes
  <2>8. GroupTypes'
    BY <1>0, <2>1, <2>4, <2>5, <2>7 DEF GroupTypes
  <2>9. d \notin realMembers
    BY <1>0, <1>d DEF GroupTypes
  <2>10. ~stale => Rostered'
    BY <1>0, <2>1, <2>4, <2>5, <2>9 DEF Rostered
  <2> QED
    BY <2>1, <2>5, <2>6, <2>8, <2>10 DEF GroupInv
<1>7. ASSUME NEW p \in Peer, G!ReAddPeer(p) PROVE GroupInv'
  <2>1. /\ group # None /\ G!SetGroup(G!GroupAddMember(group, p))
        /\ realMembers' = realMembers \cup {p} /\ removedRealMembers' = removedRealMembers \ {p}
        /\ saves' = [saves EXCEPT ![realMembers \cup {p}] = @ + 1] /\ lost' = lost \ {p}
        /\ UNCHANGED <<load, memberNames, roster, roots, used, reused, made, stale>>
    BY <1>7 DEF G!ReAddPeer, G!NoGroup, G!PersistGroupState
  <2>2. group \in Handles /\ realMembers \cup {p} \in SUBSET Peer
    BY <1>0, <2>1 DEF GroupTypes
  <2>3. PICK g : g = G!GroupAddMember(group, p)
    OBVIOUS
  <2>4. /\ g \in Handles /\ g # None /\ g.root = group.root /\ g.step = group.step
        /\ g.roster = group.roster \cup {p}
    BY <2>2, <2>3, GrownHandle
  <2>5. group' = g /\ adding' \in Lookups \cup {None} /\ Fresh'
    BY <1>0, <2>1, <2>3, <2>4, SetsGroup
  <2>6. ~stale' => Drawn' /\ Behind' /\ Repeats'
    BY <2>1, <2>4, <2>5, SameKey
  <2>7. saves' \in [SUBSET Peer -> Nat]
    BY <1>0, <2>1, <2>2, SavesGrow
  <2>8. GroupTypes'
    BY <1>0, <2>1, <2>4, <2>5, <2>7 DEF GroupTypes
  <2>9. ~stale => Rostered'
    BY <1>0, <2>1, <2>4, <2>5 DEF Rostered
  <2> QED
    BY <2>1, <2>5, <2>6, <2>8, <2>9 DEF GroupInv
<1>8. ASSUME NEW p \in Peer, G!AddPeer(p) PROVE GroupInv'
  <2>1. /\ group # None /\ p \notin removedRealMembers
        /\ adding' = [peer |-> p, handle |-> None, real |-> realMembers]
        /\ UNCHANGED <<load, group, memberNames, realMembers, removedRealMembers, roster, saves,
                       roots, used, reused, lost, made, stale>>
    BY <1>8 DEF G!AddPeer, G!NoGroup
  <2>2. adding' \in Lookups /\ adding'.peer = p /\ adding'.real = realMembers
    BY <1>0, <2>1 DEF GroupTypes, Lookups
  <2> QED
    BY <1>0, <2>1, <2>2 DEF GroupInv, GroupTypes, Drawn, Rostered, Fresh, Behind, Repeats,
       Again
<1>9. CASE G!LookupFails
  BY <1>0, <1>9 DEF GroupInv, GroupTypes, Drawn, Rostered, Fresh, Behind, Repeats, Again,
     G!LookupFails
<1>10. CASE G!LookupOk
  <2>1. PICK c : c = IF adding.handle = None THEN group ELSE adding.handle
    OBVIOUS
  <2>2. PICK m : m = adding.real \cup {adding.peer}
    OBVIOUS
  <2>3. /\ adding # None /\ group' = G!GroupAddMember(c, adding.peer) /\ realMembers' = m
        /\ stale' = (stale \/ adding.handle # None) /\ adding' = None
        /\ saves' = [saves EXCEPT ![m] = @ + 1] /\ lost' = lost \ {adding.peer}
        /\ UNCHANGED <<load, memberNames, removedRealMembers, roster, roots, used, reused, made>>
    BY <1>10, <2>1, <2>2 DEF G!LookupOk, G!PersistGroupState
  <2>4. adding \in Lookups /\ group # None /\ group \in Handles
    BY <1>0, <2>3 DEF GroupTypes
  <2>5. adding.peer \in Peer /\ adding.handle \in Handles \cup {None} /\ adding.real \in SUBSET Peer
    BY <2>4 DEF Lookups
  <2>6. c \in Handles /\ m \in SUBSET Peer
    BY <2>1, <2>2, <2>4, <2>5
  <2>7. /\ group' \in Handles /\ group' # None /\ group'.root = c.root /\ group'.step = c.step
        /\ group'.roster = c.roster \cup {adding.peer}
    BY <2>3, <2>5, <2>6, GrownHandle
  <2>8. saves' \in [SUBSET Peer -> Nat]
    BY <1>0, <2>3, <2>6, SavesGrow
  <2>9. GroupTypes'
    BY <1>0, <2>3, <2>4, <2>6, <2>7, <2>8 DEF GroupTypes
  <2>10. ASSUME ~stale' PROVE Rostered' /\ Fresh' /\ Drawn' /\ Behind' /\ Repeats'
    <3>1. c = group /\ m = realMembers \cup {adding.peer} /\ adding.peer \notin removedRealMembers
      BY <1>0, <2>1, <2>2, <2>3, <2>10 DEF Fresh
    <3>2. ~stale /\ Rostered /\ Drawn /\ Behind /\ Repeats
      BY <1>0, <2>3, <2>10
    <3>3. Rostered'
      BY <2>3, <2>4, <2>7, <3>1, <3>2 DEF Rostered
    <3>4. Drawn' /\ Behind' /\ Repeats'
      BY <2>3, <2>4, <2>7, <3>1, <3>2 DEF Drawn, Behind, Repeats, Again
    <3> QED
      BY <2>3, <3>2, <3>3, <3>4 DEF Fresh
  <2> QED
    BY <2>9, <2>10 DEF GroupInv
<1>11. ASSUME NEW p \in Peer, G!RemovePeer(p) PROVE GroupInv'
  <2>1. /\ group # None /\ G!SetGroup(G!GroupRemoveMember(group, p)) /\ roots' = roots + 1
        /\ realMembers' = realMembers \ {p} /\ removedRealMembers' = removedRealMembers \cup {p}
        /\ saves' = [saves EXCEPT ![realMembers \ {p}] = @ + 1] /\ lost' = lost \ {p}
        /\ UNCHANGED <<load, memberNames, roster, used, reused, made, stale>>
    BY <1>11 DEF G!RemovePeer, G!Drawn, G!NoGroup, G!PersistGroupState
  <2>2. group.roster \ {p} \in SUBSET (Demo \cup Peer) /\ realMembers \ {p} \in SUBSET Peer
    BY <1>0, <2>1 DEF GroupTypes, Handles
  <2>3. PICK g : g = G!GroupRemoveMember(group, p)
    OBVIOUS
  <2>4. g \in Handles /\ g # None /\ g.root = roots + 1 /\ g.roster = group.roster \ {p}
    BY <1>0, <2>2, <2>3, NewHandle DEF G!GroupRemoveMember
  <2>5. group' = g /\ adding' \in Lookups \cup {None} /\ Fresh'
    BY <1>0, <2>1, <2>3, <2>4, SetsGroup
  <2>6. ~stale' => Drawn' /\ Behind' /\ Repeats'
    BY <2>1, <2>4, <2>5, Rekeyed DEF Rekeys
  <2>7. roots' \in Nat
    BY <1>0, <2>1, SMT DEF GroupTypes
  <2>8. saves' \in [SUBSET Peer -> Nat]
    BY <1>0, <2>1, <2>2, SavesGrow
  <2>9. GroupTypes'
    BY <1>0, <2>1, <2>4, <2>5, <2>7, <2>8 DEF GroupTypes
  <2>10. p \notin memberNames
    BY <1>0, <1>d DEF GroupTypes
  <2>11. ~stale => Rostered'
    BY <1>0, <2>1, <2>4, <2>5, <2>10 DEF Rostered
  <2> QED
    BY <2>1, <2>5, <2>6, <2>9, <2>11 DEF GroupInv
<1>12. CASE G!Send
  <2>1. PICK k : k = G!MessageKey
    OBVIOUS
  <2>2. /\ group # None /\ used' = used \cup {k} /\ reused' = reused \cup (used \cap {k})
        /\ group' = [group EXCEPT !.step = @ + 1]
        /\ UNCHANGED <<load, memberNames, realMembers, removedRealMembers, adding, roster, saves,
                       roots, lost, made, stale>>
    BY <1>12, <2>1 DEF G!Send, G!NoGroup
  <2>3. group \in Handles /\ group.root \in Nat /\ group.step \in Nat
    BY <1>0, <2>2 DEF GroupTypes, Handles
  <2>4. k \in [root : Nat, step : Nat] /\ k.root = group.root /\ k.step = group.step
    BY <2>1, <2>3 DEF G!MessageKey
  <2>5. /\ group' \in Handles /\ group'.root = group.root /\ group'.step = group.step + 1
        /\ group'.roster = group.roster
    BY <2>2, <2>3, SMT DEF Handles
  <2>6. group' # None
    BY <2>5, WebAssumption DEF Handles
  <2>7. GroupTypes'
    BY <1>0, <2>2, <2>4, <2>5, <2>6 DEF GroupTypes
  <2>8. ~stale => Drawn'
    BY <1>0, <2>2, <2>4, <2>5 DEF Drawn
  <2>9. \A j \in used : j.step \in Nat
    BY <1>0 DEF GroupTypes
  <2>10. ~stale => Behind' /\ Repeats'
    <3>1. ~stale => k \notin used \/ Again(k)
      BY <1>0, <2>2, <2>3, <2>4, SMT DEF Behind
    <3>2. ~stale => Behind'
      BY <1>0, <2>2, <2>3, <2>4, <2>5, <2>9, SMT DEF Behind, Again
    <3> QED
      BY <1>0, <2>2, <3>1, <3>2 DEF Repeats, Again
  <2>11. ~stale => Rostered' /\ Fresh'
    BY <1>0, <2>2, <2>5 DEF Rostered, Fresh
  <2> QED
    BY <2>2, <2>7, <2>8, <2>10, <2>11 DEF GroupInv
<1>13. ASSUME NEW v \in SUBSET Peer, G!PutLands(v) \/ G!PutFails(v) PROVE GroupInv'
  <2>1. /\ saves[v] > 0 /\ saves' = [saves EXCEPT ![v] = @ - 1] /\ roster' \in {roster, v}
        /\ UNCHANGED <<load, group, memberNames, realMembers, removedRealMembers, adding, roots,
                       used, reused, lost, made, stale>>
    BY <1>13 DEF G!PutLands, G!PutFails, G!page
  <2>2. saves' \in [SUBSET Peer -> Nat] /\ roster' \subseteq Peer
    BY <1>0, <2>1, SaveEnds DEF GroupTypes
  <2> QED
    BY <1>0, <2>1, <2>2 DEF GroupInv, GroupTypes, Drawn, Rostered, Fresh, Behind, Repeats,
       Again
<1>14. CASE G!Reload
  <2>1. G!Quiet \in [SUBSET Peer -> Nat]
    BY SMT DEF G!Quiet
  <2> QED
    BY <1>0, <1>14, <2>1 DEF GroupInv, GroupTypes, Drawn, Rostered, Fresh, Behind, Repeats, Again,
       G!Reload, G!NoGroup
<1> QED
  BY <1>1, <1>2, <1>3, <1>4, <1>5, <1>6, <1>7, <1>8, <1>9, <1>10, <1>11, <1>12, <1>13, <1>14
     DEF G!Next, G!AddPeerKnown

-----------------------------------------------------------------------------
(***************************************************************************)
(* DesktopVerification.  What a view shows follows from the numbers        *)
(* entered in it, in their order.                                          *)
(***************************************************************************)
Same(q, n) == {i \in DOMAIN q : q[i] = n}

After(q, n) == {j \in DOMAIN q \ Same(q, n) : \E i \in Same(q, n) : i < j}

(* State s is what the numbers q make of a view whose own number is n. *)
Follows(s, q, n) ==
    \/ Same(q, n) = {} /\ s = D!Unverified
    \/ Same(q, n) # {} /\ After(q, n) = {} /\ s = D!Verified
    \/ /\ Same(q, n) # {}
       /\ \E j \in After(q, n) :
            (\A i \in After(q, n) : j <= i) /\ s = D!KeyChangedWarning(n, q[j])

DesktopInv ==
    /\ DOMAIN states = View /\ DOMAIN own = View
    /\ inputs \in [View -> Seq(D!Input)]
    /\ \A v \in View : states[v] # None => own[v] # None
    /\ \A v \in View \ mixed : states[v] # None => Follows(states[v], inputs[v], own[v])

(* No view exists at first. *)
LEMMA DesktopStarts == D!Init => DesktopInv
  BY SMT DEF D!Init, DesktopInv

(* One more number. *)
LEMMA OneMore ==
  ASSUME NEW q \in Seq(D!Input), NEW x \in D!Input, NEW n, n # None, NEW s, Follows(s, q, n)
  PROVE  Follows(D!Compared(s, n, x), Append(q, x), n)
<1> DEFINE r == Append(q, x)
           N == Len(q) + 1
<1>1. /\ N \in Nat /\ DOMAIN q = 1..Len(q) /\ DOMAIN r = 1..N
      /\ \A i \in DOMAIN q : i \in Nat /\ i < N /\ i \in DOMAIN r /\ r[i] = q[i]
      /\ N \in DOMAIN r /\ r[N] = x
      /\ \A i \in DOMAIN r : i \in DOMAIN q \/ i = N
      /\ N \notin DOMAIN q
  BY SMT
<1> HIDE DEF r, N
<1>2. Same(r, n) = Same(q, n) \cup (IF x = n THEN {N} ELSE {})
  BY <1>1 DEF Same
<1>3. \A i \in Same(q, n) : i < N /\ i \in DOMAIN q
  BY <1>1 DEF Same
<1>u. /\ D!Unverified.is = "Unverified" /\ D!Verified.is = "Verified"
      /\ \A p, c : D!KeyChangedWarning(p, c).is = "KeyChangedWarning"
  BY DEF D!Unverified, D!Verified, D!KeyChangedWarning
<1>4. CASE Same(q, n) = {} /\ s = D!Unverified
  <2>1. CASE x = n
    <3>1. D!Compared(s, n, x) = D!Verified
      BY <1>4, <1>u, <2>1 DEF D!Compared
    <3>2. Same(r, n) = {N}
      BY <1>2, <1>4, <2>1
    <3>3. After(r, n) = {}
      BY <1>1, <3>2, SMT DEF After
    <3> QED
      BY <3>1, <3>2, <3>3 DEF Follows, r
  <2>2. CASE x # n
    <3>1. D!Compared(s, n, x) = D!Unverified
      BY <1>4, <1>u, <2>2 DEF D!Compared
    <3>2. Same(r, n) = {}
      BY <1>2, <1>4, <2>2
    <3> QED
      BY <3>1, <3>2 DEF Follows, r
  <2> QED
    BY <2>1, <2>2
<1>5. CASE Same(q, n) # {} /\ After(q, n) = {} /\ s = D!Verified
  <2>1. \A i \in Same(q, n), j \in DOMAIN q \ Same(q, n) : ~(i < j)
    BY <1>5 DEF After
  <2>2. CASE x = n
    <3>1. D!Compared(s, n, x) = D!Verified
      BY <1>5, <1>u, <2>2 DEF D!Compared
    <3>2. Same(r, n) = Same(q, n) \cup {N}
      BY <1>2, <2>2
    <3>3. \A j \in DOMAIN r \ Same(r, n) : j \in DOMAIN q \ Same(q, n) /\ ~(N < j)
      BY <1>1, <3>2, SMT
    <3>4. After(r, n) = {}
      BY <2>1, <3>2, <3>3 DEF After
    <3> QED
      BY <1>5, <3>1, <3>2, <3>4 DEF Follows, r
  <2>3. CASE x # n
    <3>1. D!Compared(s, n, x) = D!KeyChangedWarning(n, x)
      BY <1>5, <1>u, <2>3 DEF D!Compared
    <3>2. Same(r, n) = Same(q, n)
      BY <1>2, <2>3
    <3>3. N \in After(r, n)
      BY <1>1, <1>3, <1>5, <3>2 DEF After
    <3>4. \A j \in After(r, n) : j = N
      BY <1>1, <2>1, <3>2 DEF After
    <3>5. N <= N
      BY <1>1, SMT
    <3> QED
      BY <1>1, <1>5, <3>1, <3>2, <3>3, <3>4, <3>5 DEF Follows, r
  <2> QED
    BY <2>2, <2>3
<1>6. ASSUME Same(q, n) # {}, NEW j \in After(q, n), \A i \in After(q, n) : j <= i,
             s = D!KeyChangedWarning(n, q[j])
      PROVE  Follows(D!Compared(s, n, x), r, n)
  <2>1. D!Compared(s, n, x) = s
    BY <1>6, <1>u DEF D!Compared
  <2>2. j \in DOMAIN q /\ j \notin Same(q, n) /\ j # N /\ r[j] = q[j] /\ j \in DOMAIN r
    BY <1>1, <1>6 DEF After
  <2>3. j \notin Same(r, n)
    BY <1>2, <2>2
  <2>4. j \in After(r, n)
    BY <1>2, <1>6, <2>2, <2>3 DEF After
  <2>5. ASSUME NEW i \in After(r, n) PROVE j <= i
    <3>1. CASE i = N
      BY <1>1, <2>2, <3>1, SMT
    <3>2. CASE i # N
      <4>1. i \in DOMAIN q /\ i \notin Same(q, n)
        BY <1>1, <1>2, <3>2 DEF After
      <4>2. PICK l \in Same(r, n) : l < i
        BY DEF After
      <4>3. l \in Same(q, n)
        <5>1. ~(N < i)
          BY <1>1, <4>1, SMT
        <5> QED
          BY <1>2, <4>2, <5>1
      <4> QED
        BY <1>6, <4>1, <4>2, <4>3 DEF After
    <3> QED
      BY <3>1, <3>2
  <2>6. Same(r, n) # {}
    BY <1>2, <1>6
  <2> QED
    BY <1>6, <2>1, <2>2, <2>4, <2>5, <2>6 DEF Follows
<1> QED
  BY <1>4, <1>5, <1>6 DEF Follows, r

(* Both commands keep the invariant. *)
LEMMA DesktopStep == DesktopInv /\ [D!Next]_(D!vars) => DesktopInv'
<1> SUFFICES ASSUME DesktopInv, [D!Next]_(D!vars) PROVE DesktopInv'
  OBVIOUS
<1>1. CASE UNCHANGED D!vars
  BY <1>1 DEF DesktopInv, D!vars
<1>2. ASSUME NEW v \in View, NEW t \in Thread, NEW k \in Key \cup {None}, D!NewState(v, t, k)
      PROVE  DesktopInv'
  <2>1. PICK n : /\ n # None /\ states' = [states EXCEPT ![v] = D!Unverified]
                 /\ own' = [own EXCEPT ![v] = n] /\ inputs' = [inputs EXCEPT ![v] = <<>>]
                 /\ mixed' = mixed \ {v}
    BY <1>2 DEF D!NewState
  <2>2. /\ DOMAIN states' = View /\ DOMAIN own' = View /\ inputs' \in [View -> Seq(D!Input)]
        /\ states'[v] = D!Unverified /\ own'[v] = n /\ inputs'[v] = <<>>
        /\ \A w \in View \ {v} :
              states'[w] = states[w] /\ own'[w] = own[w] /\ inputs'[w] = inputs[w]
    BY <2>1, SMT DEF DesktopInv
  <2>3. Follows(D!Unverified, <<>>, n)
    <3>1. DOMAIN <<>> = {}
      BY SMT
    <3> QED
      BY <3>1 DEF Follows, Same
  <2> QED
    BY <2>1, <2>2, <2>3 DEF DesktopInv
<1>3. ASSUME NEW v \in View, NEW t \in Thread, NEW x \in D!Input, D!VerifySafetyNumber(v, t, x)
      PROVE  DesktopInv'
  <2>1. /\ states[v] # None /\ states' = [states EXCEPT ![v] = D!Compared(@, expected[t], x)]
        /\ inputs' = [inputs EXCEPT ![v] = Append(@, x)] /\ own' = own
        /\ mixed' = IF expected[t] = own[v] THEN mixed ELSE mixed \cup {v}
    BY <1>3 DEF D!VerifySafetyNumber
  <2>2. /\ DOMAIN states' = View /\ inputs' \in [View -> Seq(D!Input)]
        /\ states'[v] = D!Compared(states[v], expected[t], x) /\ inputs'[v] = Append(inputs[v], x)
        /\ \A w \in View \ {v} : states'[w] = states[w] /\ inputs'[w] = inputs[w]
    BY <2>1, SMT DEF DesktopInv
  <2>3. inputs[v] \in Seq(D!Input) /\ own[v] # None
    BY <2>1 DEF DesktopInv
  <2>4. ASSUME v \notin mixed' PROVE Follows(states'[v], inputs'[v], own[v])
    <3>1. expected[t] = own[v] /\ v \notin mixed
      BY <2>1, <2>4
    <3>2. Follows(states[v], inputs[v], own[v])
      BY <2>1, <3>1 DEF DesktopInv
    <3>3. PICK s, q, n : s = states[v] /\ q = inputs[v] /\ n = own[v]
      OBVIOUS
    <3>4. Follows(D!Compared(s, n, x), Append(q, x), n)
      BY <2>3, <3>2, <3>3, OneMore
    <3> QED
      BY <2>2, <3>1, <3>3, <3>4
  <2>5. \A w \in View \ mixed' : w \notin mixed
    BY <2>1
  <2> QED
    BY <2>1, <2>2, <2>3, <2>4, <2>5 DEF DesktopInv
<1> QED
  BY <1>1, <1>2, <1>3 DEF D!Next

(* The invariant gives the property. *)
LEMMA DesktopVerifies == DesktopInv => D!VerifiedByUser
<1> SUFFICES ASSUME DesktopInv, NEW v \in View \ mixed, states[v] # None
             PROVE  CASE Same(inputs[v], own[v]) = {} -> states[v] = D!Unverified
                      [] Same(inputs[v], own[v]) # {} /\ After(inputs[v], own[v]) = {} ->
                           states[v] = D!Verified
                      [] OTHER -> \E j \in After(inputs[v], own[v]) :
                           /\ \A i \in After(inputs[v], own[v]) : j <= i
                           /\ states[v] = D!KeyChangedWarning(own[v], inputs[v][j])
  BY DEF D!VerifiedByUser, Same, After
<1>1. Follows(states[v], inputs[v], own[v])
  BY DEF DesktopInv
<1> HIDE DEF DesktopInv
<1> QED
  BY <1>1 DEF Follows

-----------------------------------------------------------------------------
(***************************************************************************)
(* The composition.                                                        *)
(***************************************************************************)
WebInv ==
    /\ HistoryInv /\ VerificationInv /\ IdentityInv /\ BackupInv /\ LinkingInv /\ GroupInv
    /\ DesktopInv

(* The parts share no state, so their invariants hold together. *)
LEMMA WebInvariant == Spec => []WebInv
<1>1. Init => WebInv
  BY HistoryStarts, VerificationStarts, IdentityStarts, BackupStarts, LinkingStarts,
     GroupStarts,
     DesktopStarts DEF Init, WebInv
<1>2. WebInv /\ [Next]_vars => WebInv'
  <2> SUFFICES ASSUME WebInv, [Next]_vars PROVE WebInv'
    OBVIOUS
  <2>1. [H!Next]_(H!vars)
    BY DEF Next, vars, hist, H!vars
  <2>2. [V!Next]_(V!vars)
    BY DEF Next, vars, veri, V!vars, V!screen
  <2>3. [I!Next]_(I!vars)
    BY DEF Next, vars, iden, I!vars
  <2>4. [B!Next]_(B!vars)
    BY DEF Next, vars, back, B!vars
  <2>5. [L!Next]_(L!vars)
    BY DEF Next, vars, link, L!vars
  <2>6. [G!Next]_(G!vars)
    BY DEF Next, vars, grup, G!vars, G!page
  <2>7. [D!Next]_(D!vars)
    BY DEF Next, vars, desk, D!vars
  <2> QED
    BY <2>1, <2>2, <2>3, <2>4, <2>5, <2>6, <2>7, HistoryStep, VerificationStep, IdentityStep,
       BackupStep, LinkingStep, GroupStep, DesktopStep DEF WebInv
<1> QED
  BY <1>1, <1>2, PTL DEF Spec

(* The effects of Conversation.tsx and GroupConversation.tsx in any number *)
(* of tabs: a message that was saved stays saved unless writes overlap, or *)
(* a tab writes that another has written past since it read the record.    *)
THEOREM SavedStaysSaved == Spec => HistoryGrows
<1>1. WebInv => H!Grows
  BY HistoryGrowsStep DEF WebInv
<1> QED
  BY <1>1, WebInvariant, PTL DEF HistoryGrows

(* The same effects: once nothing is on its way, what is on the screen of  *)
(* a tab is what is saved, unless the tab is behind the record or has a    *)
(* message that no effect saved.                                           *)
THEOREM ScreenIsSaved == Spec => []ShownIsSaved
<1>1. WebInv => ShownIsSaved
  BY HistoryIsShown DEF WebInv, ShownIsSaved
<1> QED
  BY <1>1, WebInvariant, PTL

(* SafetyNumberVerification.tsx and the desktop's verify_safety_number: a  *)
(* verified mark is for a key, and a number, that the user verified.       *)
THEOREM MarksAreTheUsers == Spec => []VerifiedByUser
<1>1. VerificationInv => V!VerifiedByUser
  BY DEF VerificationInv, Shown, Kept, Honest, V!VerifiedByUser
<1>2. WebInv => VerifiedByUser
  BY <1>1, DesktopVerifies DEF WebInv, VerifiedByUser
<1> QED
  BY <1>2, WebInvariant, PTL

(* identity.ts, loadOrGenerateIdentity: the address a user was shown is    *)
(* the one that is stored, unless two tabs generated at once.              *)
THEOREM AddressIsStable == Spec => []AddressStable
<1>1. WebInv => AddressStable
  BY DEF WebInv, IdentityInv, AddressStable, I!AddressStable
<1> QED
  BY <1>1, WebInvariant, PTL

(* browser_storage.ts, storage_key.ts and BackupPanel.tsx: what was set or *)
(* restored can be read where the password is kept, unless the salt was    *)
(* made twice or the backup came from elsewhere; where it is not kept, no  *)
(* tab reads what another has set.                                         *)
THEOREM RestoredIsReadable == Spec => []ReadBack
<1>1. WebInv => ReadBack
  BY BackupReads DEF WebInv, ReadBack
<1> QED
  BY <1>1, WebInvariant, PTL

(* device_linking.ts, confirmSafetyNumber: a device links with the keys    *)
(* whose safety number was compared.                                       *)
THEOREM LinksAreCompared == Spec => []LinkedToCompared
<1>1. WebInv => LinkedToCompared
  BY DEF WebInv, LinkingInv, Linking, LinkedToCompared, L!LinkedToCompared
<1> QED
  BY <1>1, WebInvariant, PTL

(* GroupConversation.tsx over group_encrypt: messages are encrypted to the *)
(* members shown, and no two under one chain key, but for the first keys   *)
(* of a group that is made again of the same given identity.               *)
THEOREM RosterIsShown == Spec => []RosterShown
<1>1. WebInv => RosterShown
  BY DEF WebInv, GroupInv, Rostered, RosterShown, G!RosterShown, G!KeysUsedOnce, G!NoGroup,
         Repeats, Again
<1> QED
  BY <1>1, WebInvariant, PTL

=============================================================================
