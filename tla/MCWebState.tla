----------------------------- MODULE MCWebState -----------------------------
(***************************************************************************)
(* The local state of the clients for TLC: the parts of the web client     *)
(* that keep records in the browser's storage, its device linking, and the *)
(* desktop's verification.  They share no state, so a behaviour works on   *)
(* the one part that `focus` names and the others stay as they are.        *)
(***************************************************************************)
EXTENDS Naturals, FiniteSets

CONSTANTS None, MaxMsg, MaxMount, Conv, Key, MaxWrite, Tab, MaxId, MaxKey,
          Old, New, Item, Value, Pass, MaxSalt, MaxFile, Device, Stranger,
          Demo, Peer, MaxRoot, MaxSend, Thread, View, MaxInput

(* A peer with two keys and a peer with one of them. *)
Session == LET c == CHOOSE c \in Conv : TRUE
               k == CHOOSE k \in Key : TRUE
           IN  {[conv |-> c, key |-> j] : j \in Key} \cup {[conv |-> d, key |-> k] : d \in Conv}

(* An installation with two tabs and a new one. *)
BackupTab == {<<Old, 1>>, <<Old, 2>>, <<New, 1>>}

VARIABLES focus

VARIABLES view, phase, snapshot, messages, puts, stored, count, mounts, overlap, behind, unsaved
hist == <<view, phase, snapshot, messages, puts, stored, count, mounts, overlap, behind, unsaved>>
H == INSTANCE History

VARIABLES props, verified, loaded, derived, warning, reading, writes, records, checked, carried
veri == <<props, verified, loaded, derived, warning, reading, writes, records, checked, carried>>
V == INSTANCE Verification WITH puts <- writes, stored <- records

VARIABLES blocked, item, record, page, ids, keys, addresses, twice
iden == <<blocked, item, record, page, ids, keys, addresses, twice>>
I == INSTANCE LocalIdentity WITH tab <- page, raced <- twice

VARIABLES denied, password, salt, kv, tab, drawn, salts, files, cleared, raced, foreign
back == <<denied, password, salt, kv, tab, drawn, salts, files, cleared, raced, foreign>>
B == INSTANCE BrowserBackup WITH Inst <- {Old, New}, Tab <- BackupTab,
                                 Home <- [t \in BackupTab |-> t[1]]

VARIABLES mode, stage, remote, number, compared
link == <<mode, stage, remote, number, compared>>
L == INSTANCE DeviceLinking WITH phase <- stage

VARIABLES given, load, group, memberNames, realMembers, removedRealMembers, adding, roster, saves,
          roots, used, reused, lost, made, stale
grup == <<given, load, group, memberNames, realMembers, removedRealMembers, adding, roster, saves,
          roots, used, reused, lost, made, stale>>
G == INSTANCE GroupConversation WITH phase <- load, stored <- roster, puts <- saves

VARIABLES expected, states, own, inputs, mixed
desk == <<expected, states, own, inputs, mixed>>
D == INSTANCE DesktopVerification

(* The bounds are numbers, and nothing that a part keeps is None; the demo *)
(* members are no peers.                                                   *)
ASSUME WebAssumption ==
    /\ {MaxMsg, MaxId, MaxKey, MaxSalt} \subseteq Nat
    /\ Conv # {} /\ Key # {} /\ Demo \cap Peer = {}
    /\ None \notin Session /\ None \notin V!Record
    /\ None \notin I!Record /\ None \notin 1..MaxId /\ None \notin 1..MaxKey
    /\ None \notin B!Cipher /\ None \notin 1..MaxSalt /\ None \notin Value
    /\ None \notin L!Keys /\ \A a, b \in L!Keys : L!DeriveSafetyNumber(a, b) # None
    /\ None \notin [root : Nat, step : Nat, roster : SUBSET (Demo \cup Peer)]

Init ==
    /\ focus \in {"history", "verification", "identity", "backup", "linking", "group", "desktop"}
    /\ H!Init /\ (focus # "history" => view = "direct")
    /\ V!Init
    /\ I!Init /\ (focus # "identity" => ~blocked)
    /\ B!Init /\ (focus # "backup" => denied = {})
    /\ L!Init
    /\ G!Init /\ (focus # "group" => ~given)
    /\ D!Init

Next ==
    /\ UNCHANGED focus
    /\ \/ focus = "history" /\ H!Next /\ UNCHANGED <<veri, iden, back, link, grup, desk>>
       \/ focus = "verification" /\ V!Next /\ UNCHANGED <<hist, iden, back, link, grup, desk>>
       \/ focus = "identity" /\ I!Next /\ UNCHANGED <<hist, veri, back, link, grup, desk>>
       \/ focus = "backup" /\ B!Next /\ UNCHANGED <<hist, veri, iden, link, grup, desk>>
       \/ focus = "linking" /\ L!Next /\ UNCHANGED <<hist, veri, iden, back, grup, desk>>
       \/ focus = "group" /\ G!Next /\ UNCHANGED <<hist, veri, iden, back, link, desk>>
       \/ focus = "desktop" /\ D!Next /\ UNCHANGED <<hist, veri, iden, back, link, grup>>

vars == <<focus, hist, veri, iden, back, link, grup, desk>>

Spec == Init /\ [][Next]_vars

-----------------------------------------------------------------------------
(* Every variable of every part has its type. *)
TypeOK ==
    /\ focus = "history" => H!TypeOK
    /\ focus = "verification" => V!TypeOK
    /\ focus = "identity" => I!TypeOK
    /\ focus = "backup" => B!TypeOK
    /\ focus = "linking" => L!TypeOK
    /\ focus = "group" => G!TypeOK
    /\ focus = "desktop" => D!TypeOK

(* History: what was saved stays saved. *)
HistoryGrows == [][H!Grows]_hist

(* History: the saved messages are those on the screen. *)
ShownIsSaved == focus = "history" => H!ShownIsSaved

(* Verification and DesktopVerification: a verified mark is for a key the user verified. *)
VerifiedByUser ==
    /\ focus = "verification" => V!VerifiedByUser
    /\ focus = "desktop" => D!VerifiedByUser

(* Verification: the same, whatever the component is changed to in place. *)
NeverCarriedForward == focus = "verification" => V!NeverCarriedForward

(* LocalIdentity: the user's address never changes. *)
AddressStable == focus = "identity" => I!AddressStable

(* BrowserBackup: what was set or restored can be read. *)
ReadBack == focus = "backup" => B!ReadBack

(* BrowserBackup: a backup can be read on any client. *)
ImportOnAnyClient == focus = "backup" => B!ImportOnAnyClient

(* DeviceLinking: a device links with the one it was compared with. *)
LinkedToCompared == focus = "linking" => L!LinkedToCompared

(* GroupConversation: messages are encrypted to the members shown, no two with one key. *)
RosterShown == focus = "group" => G!RosterShown /\ G!KeysUsedOnce
=============================================================================
