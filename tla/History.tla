------------------------------- MODULE History -------------------------------
(***************************************************************************)
(* The saved message history of the two views of the web client:           *)
(* Conversation.tsx ("direct") and GroupConversation.tsx ("group"), each   *)
(* with its record in StorageGate (storage.ts), which the tabs share.      *)
(*                                                                         *)
(* A mount reads the record and puts it on the screen when the read is     *)
(* done; messages may be appended before that.  An effect writes the whole *)
(* history of its tab whenever that changes, each write through a gate of  *)
(* its own, so writes end in any order, and no tab looks at the record     *)
(* again.  A write goes on after its view is unmounted and ends with the   *)
(* page.  Messages are numbers, a history is a set.                        *)
(***************************************************************************)
EXTENDS Naturals, Functions

CONSTANTS None, Tab,
          MaxMsg,          \* bound on the messages
          MaxMount,        \* bound on the mounts
          MaxWrite         \* bound on the writes on their way

History == SUBSET (1..MaxMsg)
Write == Tab \X History

VARIABLES view,            \* direct or group, fixed
          phase,           \* [Tab -> off, reading, read, loaded, grouped, failed]
          snapshot,        \* [Tab -> the record as it was read]
          messages,        \* [Tab -> the state `messages`]
          puts,            \* [Write -> how many of them are on their way]
          stored,          \* the record, None: there is none
          count,           \* number of messages made
          mounts,
          overlap,         \* a write or a read began while a write was under way,
                           \* and some write has been under way since
          behind,          \* tabs that may lack what the record has
          unsaved          \* tabs that may have what was not saved

vars == <<view, phase, snapshot, messages, puts, stored, count, mounts, overlap, behind, unsaved>>

(* No write is on its way. *)
Quiet == [w \in Write |-> 0]

Init ==
    /\ view \in {"direct", "group"}
    /\ phase = [t \in Tab |-> "off"] /\ snapshot = [t \in Tab |-> None]
    /\ messages = [t \in Tab |-> {}]
    /\ puts = Quiet /\ stored = None
    /\ count = 0 /\ mounts = 0
    /\ overlap = FALSE /\ behind = {} /\ unsaved = {}

(* loadedRef, messagesLoadedRef; in the group view "grouped" is a mount    *)
(* that has a group for certain, and so no button to create one.           *)
Loaded(t) == phase[t] \in {"loaded", "grouped"}

-----------------------------------------------------------------------------
(* Mutant: the history is written before it is loaded. *)
PersistAlways(t, ms, loaded) ==
    /\ SumFunction(puts) < MaxWrite
    /\ puts' = [puts EXCEPT ![<<t, ms>>] = @ + 1]
    /\ overlap' = (overlap \/ puts # Quiet)
    /\ unsaved' = unsaved \ {t}

(* The persist effect, after a change of `messages` to ms. *)
Persist(t, ms, loaded) ==
    IF loaded
      THEN /\ SumFunction(puts) < MaxWrite
           /\ puts' = [puts EXCEPT ![<<t, ms>>] = @ + 1]
           /\ overlap' = (overlap \/ puts # Quiet)
           /\ unsaved' = unsaved \ {t}
      ELSE unsaved' = unsaved \cup {t} /\ UNCHANGED <<puts, overlap>>

Mount(t) ==
    /\ phase[t] = "off" /\ mounts < MaxMount
    /\ phase' = [phase EXCEPT ![t] = "reading"] /\ mounts' = mounts + 1
    /\ messages' = [messages EXCEPT ![t] = {}] /\ unsaved' = unsaved \ {t}
    /\ UNCHANGED <<view, snapshot, puts, stored, count, overlap, behind>>

(* The read of gate.get; what follows it runs after the decryption. *)
Read(t) ==
    /\ phase[t] = "reading"
    /\ phase' = [phase EXCEPT ![t] = "read"] /\ snapshot' = [snapshot EXCEPT ![t] = stored]
    /\ overlap' = (overlap \/ puts # Quiet) /\ behind' = behind \ {t}
    /\ UNCHANGED <<view, messages, puts, stored, count, mounts, unsaved>>

(* The direct view shows whatever record there is, the group view one that *)
(* is not empty.                                                           *)
Shows(t) == snapshot[t] # None /\ (view = "group" => snapshot[t] # {})

LoadOk(t) ==
    /\ phase[t] = "read"
    /\ phase' = [phase EXCEPT ![t] = "loaded"]
    /\ IF Shows(t)
         THEN messages' = [messages EXCEPT ![t] = snapshot[t]] /\ Persist(t, snapshot[t], TRUE)
         ELSE UNCHANGED <<messages, puts, overlap, unsaved>>
    /\ UNCHANGED <<view, snapshot, stored, count, mounts, behind>>

(* The direct view never writes after a failed load, the group view does. *)
LoadFails(t) ==
    /\ phase[t] \in {"reading", "read"}
    /\ phase' = [phase EXCEPT ![t] = IF view = "direct" THEN "failed" ELSE "loaded"]
    /\ overlap' = (overlap \/ puts # Quiet) /\ behind' = behind \cup {t}
    /\ UNCHANGED <<view, snapshot, messages, puts, stored, count, mounts, unsaved>>

(* A message was sent, or picked up and decrypted. *)
Append(t) ==
    /\ phase[t] # "off" /\ count < MaxMsg
    /\ count' = count + 1
    /\ messages' = [messages EXCEPT ![t] = @ \cup {count'}]
    /\ phase' = [phase EXCEPT ![t] = IF view = "group" /\ @ = "loaded" THEN "grouped" ELSE @]
    /\ Persist(t, messages'[t], Loaded(t))
    /\ UNCHANGED <<view, snapshot, stored, mounts, behind>>

(* Mutant: the emptied history is not saved. *)
CreateGroupUnsaved(t) ==
    /\ view = "group" /\ phase[t] = "loaded"
    /\ phase' = [phase EXCEPT ![t] = "grouped"]
    /\ messages' = [messages EXCEPT ![t] = {}]
    /\ UNCHANGED <<view, snapshot, puts, stored, count, mounts, overlap, behind, unsaved>>

(* createGroup empties the history. *)
CreateGroup(t) ==
    /\ view = "group" /\ phase[t] = "loaded"
    /\ phase' = [phase EXCEPT ![t] = "grouped"]
    /\ messages' = [messages EXCEPT ![t] = {}] /\ Persist(t, {}, TRUE)
    /\ UNCHANGED <<view, snapshot, stored, count, mounts, behind>>

-----------------------------------------------------------------------------
(* The writes that overlap end when the last of them has. *)
Ends(t, ms) ==
    /\ puts[<<t, ms>>] > 0
    /\ puts' = [puts EXCEPT ![<<t, ms>>] = @ - 1]
    /\ overlap' = (overlap /\ puts' # Quiet)

(* A write that changes the record leaves the other tabs behind; of writes *)
(* that overlap any may be the last.                                       *)
PutLands(t, ms) ==
    /\ Ends(t, ms)
    /\ stored' = ms
    /\ behind' = IF overlap THEN Tab ELSE IF ms = stored THEN behind \ {t} ELSE Tab \ {t}
    /\ UNCHANGED <<view, phase, snapshot, messages, count, mounts, unsaved>>

(* A tab whose emptied history was not saved lacks what the record has. *)
PutFails(t, ms) ==
    /\ Ends(t, ms)
    /\ behind' = IF overlap THEN Tab ELSE IF ms = {} THEN behind \cup {t} ELSE behind
    /\ unsaved' = unsaved \cup {t}
    /\ UNCHANGED <<view, phase, snapshot, messages, stored, count, mounts>>

(* Another view is chosen. *)
Unmount(t) ==
    /\ phase[t] # "off"
    /\ phase' = [phase EXCEPT ![t] = "off"]
    /\ UNCHANGED <<view, snapshot, messages, puts, stored, count, mounts, overlap, behind, unsaved>>

(* The page of a tab is closed. *)
Close(t) ==
    /\ phase[t] # "off"
    /\ phase' = [phase EXCEPT ![t] = "off"]
    /\ puts' = [w \in Write |-> IF w[1] = t THEN 0 ELSE puts[w]]
    /\ overlap' = (overlap /\ puts' # Quiet)
    /\ UNCHANGED <<view, snapshot, messages, stored, count, mounts, behind, unsaved>>

Next ==
    \E t \in Tab :
        \/ Mount(t) \/ Read(t) \/ LoadOk(t) \/ LoadFails(t) \/ Append(t) \/ CreateGroup(t)
        \/ Unmount(t) \/ Close(t)
        \/ \E ms \in History : PutLands(t, ms) \/ PutFails(t, ms)

Spec == Init /\ [][Next]_vars

-----------------------------------------------------------------------------
(* Every variable has its type. *)
TypeOK ==
    /\ phase \in [Tab -> {"off", "reading", "read", "loaded", "grouped", "failed"}]
    /\ snapshot \in [Tab -> History \cup {None}] /\ messages \in [Tab -> History]
    /\ puts \in [Write -> Nat]
    /\ stored \in History \cup {None}
    /\ behind \subseteq Tab /\ unsaved \subseteq Tab
    /\ \A t \in Tab : phase[t] = "failed" => view = "direct"

(* A message that was saved stays saved, whatever is appended, loaded,     *)
(* unmounted and closed in between and in whatever tab, apart from two     *)
(* cases: writes that overlap, and a tab that writes although another one  *)
(* has written since it read the record, or although its read failed (the  *)
(* group view).  Only createGroup empties the record.                      *)
Grows ==
    \A t \in Tab, ms \in History :
        PutLands(t, ms) /\ stored # None /\ ~overlap /\ t \notin behind =>
            stored \subseteq ms \/ (view = "group" /\ ms = {})

(* When nothing is on its way, the saved history is the one on the screen  *)
(* of every tab that is neither behind nor has a message that no effect    *)
(* saves: one that was appended before there was a record to load, or      *)
(* whose write failed.                                                     *)
ShownIsSaved ==
    \A t \in Tab :
        Loaded(t) /\ puts = Quiet /\ t \notin behind \cup unsaved =>
            stored = messages[t] \/ (stored = None /\ messages[t] = {})
=============================================================================
