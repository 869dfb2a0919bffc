-------------------------- MODULE GroupConversation --------------------------
(***************************************************************************)
(* The members of the group view (clients/web/src/GroupConversation.tsx)   *)
(* and the wasm handles under it (core/bindings/wasm/src/lib.rs): loading, *)
(* creating a group, adding and removing demo members and peers, sending,  *)
(* saving the member list and reloading the page.                          *)
(*                                                                         *)
(* A handle is an object: group_encrypt advances its chain key in place,   *)
(* group_add_member and group_remove_member return a new object.  addPeer  *)
(* goes on after its lookup with the handle and the member list it was     *)
(* called with.  A chain key is named as in GroupSession: root 0 descends  *)
(* from the identity that the parent component gives, the others from an   *)
(* identity generated by the mount or from a rotation.  Member lists are   *)
(* sets.  Receiving and the message history are in History.                *)
(***************************************************************************)
EXTENDS Naturals, FiniteSets, Functions

CONSTANTS Demo,            \* the local demo members, none of them a peer
          Peer,            \* recipient ids, each with the identity key of its bundle
          None,
          MaxRoot,         \* bound on the groups made and the rotations
          MaxSend,         \* bound on the messages
          MaxWrite         \* bound on the writes on their way

Handle == [root : 0..MaxRoot, step : 0..MaxSend, roster : SUBSET (Demo \cup Peer)]

(* A lookup of addPeer; handle is None while the handle it holds is still  *)
(* the current one.                                                        *)
Lookup == [peer : Peer, handle : Handle \cup {None}, real : SUBSET Peer]

VARIABLES given,           \* the prop `identity` is given, fixed
          phase,           \* loading, ready
          group, memberNames, realMembers, removedRealMembers,
          adding,          \* the lookup addPeer awaits, None: addingPeer is false
          stored,          \* the members of the saved record
          puts,            \* [member list -> how many such writes are on their way]
          roots,           \* number of chain keys made
          used,            \* chain keys that messages were encrypted under
          reused,          \* those that two messages were encrypted under
          lost,            \* peers restored by the load and not added again since
          made,            \* number of groups made of the given identity
          stale            \* a lookup ended after the group had changed

page == <<phase, group, memberNames, realMembers, removedRealMembers, adding>>
vars == <<given, page, stored, puts, roots, used, reused, lost, made, stale>>

NoGroup == None

(* No write is on its way. *)
Quiet == [members \in SUBSET Peer |-> 0]

Init ==
    /\ given \in BOOLEAN
    /\ phase = "loading" /\ group = NoGroup
    /\ memberNames = {} /\ realMembers = {} /\ removedRealMembers = {}
    /\ adding = None
    /\ stored = {} /\ puts = Quiet
    /\ roots = 0 /\ used = {} /\ reused = {}
    /\ lost = {} /\ made = 0 /\ stale = FALSE

-----------------------------------------------------------------------------
(* The handles.  The first chain key of a group is a function of the       *)
(* identity: the one given, or the one this mount has generated.           *)
GroupCreate == [root |-> IF given THEN 0 ELSE roots + 1, step |-> 0, roster |-> {}]

GroupAddMember(g, m) == [g EXCEPT !.roster = @ \cup {m}]

GroupRemoveMember(g, m) == [root |-> roots + 1, step |-> 0, roster |-> g.roster \ {m}]

Drawn == roots + made < MaxRoot /\ roots' = roots + 1

Created ==
    \/ given /\ roots + made < MaxRoot /\ made' = made + 1 /\ UNCHANGED roots
    \/ ~given /\ Drawn /\ UNCHANGED made

(* setGroup: a lookup that holds the current handle holds an old one now. *)
SetGroup(g) ==
    /\ group' = g
    /\ adding' = IF adding # None /\ adding.handle = None
                   THEN [adding EXCEPT !.handle = group]
                   ELSE adding

PersistGroupState(members) == SumFunction(puts) < MaxWrite /\ puts' = [puts EXCEPT ![members] = @ + 1]

-----------------------------------------------------------------------------
(* Mutant: the group is not restored with the member list. *)
LoadOkNoGroup ==
    /\ phase = "loading"
    /\ phase' = "ready"
    /\ realMembers' = stored /\ lost' = stored
    /\ UNCHANGED <<given, group, roots, memberNames, removedRealMembers, adding, stored, puts, used,
                   reused, made, stale>>

(* The initial load: a handle is made and the saved members are listed.    *)
(* What group_add_member returns is dropped: its `members` is no property  *)
(* of a handle.                                                            *)
LoadOk ==
    /\ phase = "loading"
    /\ phase' = "ready"
    /\ IF stored = {} THEN UNCHANGED <<group, roots, made>>
                      ELSE group' = GroupCreate /\ Created
    /\ realMembers' = stored /\ lost' = stored
    /\ UNCHANGED <<given, memberNames, removedRealMembers, adding, stored, puts, used, reused, stale>>

LoadFails ==
    /\ phase = "loading"
    /\ phase' = "ready"
    /\ UNCHANGED <<given, group, memberNames, realMembers, removedRealMembers, adding, stored, puts,
                   roots, used, reused, lost, made, stale>>

CreateGroup ==
    /\ phase = "ready" /\ group = NoGroup
    /\ Created /\ SetGroup(GroupCreate)
    /\ memberNames' = {} /\ realMembers' = {}
    /\ PersistGroupState({})
    /\ UNCHANGED <<given, phase, removedRealMembers, stored, used, reused, lost, stale>>

AddMember(d) ==
    /\ group # NoGroup /\ d \notin memberNames
    /\ SetGroup(GroupAddMember(group, d))
    /\ memberNames' = memberNames \cup {d}
    /\ UNCHANGED <<given, phase, realMembers, removedRealMembers, stored, puts, roots, used, reused,
                   lost, made, stale>>

RemoveMember(d) ==
    /\ group # NoGroup /\ d \in memberNames
    /\ Drawn /\ SetGroup(GroupRemoveMember(group, d))
    /\ memberNames' = memberNames \ {d}
    /\ UNCHANGED <<given, phase, realMembers, removedRealMembers, stored, puts, used, reused, lost,
                   made, stale>>

(* A peer that was removed before: the Add button (reAddPeer), or addPeer  *)
(* with its id.                                                            *)
ReAddPeer(p) ==
    /\ group # NoGroup /\ p \in removedRealMembers
    /\ SetGroup(GroupAddMember(group, p))
    /\ realMembers' = realMembers \cup {p}
    /\ removedRealMembers' = removedRealMembers \ {p}
    /\ PersistGroupState(realMembers')
    /\ lost' = lost \ {p}
    /\ UNCHANGED <<given, phase, memberNames, stored, roots, used, reused, made, stale>>

AddPeerKnown(p) == adding = None /\ p \notin realMembers /\ ReAddPeer(p)

(* addPeer up to its await. *)
AddPeer(p) ==
    /\ group # NoGroup /\ adding = None
    /\ p \notin realMembers /\ p \notin removedRealMembers
    /\ adding' = [peer |-> p, handle |-> None, real |-> realMembers]
    /\ UNCHANGED <<given, phase, group, memberNames, realMembers, removedRealMembers, stored, puts,
                   roots, used, reused, lost, made, stale>>

LookupFails ==
    /\ adding # None
    /\ adding' = None
    /\ UNCHANGED <<given, phase, group, memberNames, realMembers, removedRealMembers, stored, puts,
                   roots, used, reused, lost, made, stale>>

(* addPeer after its await, with the group and the members of the call. *)
LookupOk ==
    /\ adding # None
    /\ LET captured == IF adding.handle = None THEN group ELSE adding.handle
       IN  group' = GroupAddMember(captured, adding.peer)
    /\ realMembers' = adding.real \cup {adding.peer}
    /\ stale' = (stale \/ adding.handle # None)
    /\ adding' = None
    /\ PersistGroupState(realMembers')
    /\ lost' = lost \ {adding.peer}
    /\ UNCHANGED <<given, phase, memberNames, removedRealMembers, stored, roots, used, reused,
                   made>>

(* Mutant: the member is taken off the list only. *)
RemovePeerListOnly(p) ==
    /\ group # NoGroup /\ p \in realMembers
    /\ Drawn /\ SetGroup(group)
    /\ realMembers' = realMembers \ {p}
    /\ removedRealMembers' = removedRealMembers \cup {p}
    /\ PersistGroupState(realMembers')
    /\ lost' = lost \ {p}
    /\ UNCHANGED <<given, phase, memberNames, stored, used, reused, made, stale>>

RemovePeer(p) ==
    /\ group # NoGroup /\ p \in realMembers
    /\ Drawn /\ SetGroup(GroupRemoveMember(group, p))
    /\ realMembers' = realMembers \ {p}
    /\ removedRealMembers' = removedRealMembers \cup {p}
    /\ PersistGroupState(realMembers')
    /\ lost' = lost \ {p}
    /\ UNCHANGED <<given, phase, memberNames, stored, used, reused, made, stale>>

MessageKey == [root |-> group.root, step |-> group.step]

(* send: the handle is advanced in place. *)
Send ==
    /\ group # NoGroup /\ Cardinality(used) < MaxSend
    /\ used' = used \cup {MessageKey}
    /\ reused' = reused \cup (used \cap {MessageKey})
    /\ group' = [group EXCEPT !.step = @ + 1]
    /\ UNCHANGED <<given, phase, memberNames, realMembers, removedRealMembers, adding, stored, puts,
                   roots, lost, made, stale>>

-----------------------------------------------------------------------------
(* A write is done, in whatever order the encryptions end, or fails. *)
PutLands(v) ==
    /\ puts[v] > 0
    /\ puts' = [puts EXCEPT ![v] = @ - 1]
    /\ stored' = v
    /\ UNCHANGED <<given, page, roots, used, reused, lost, made, stale>>

PutFails(v) ==
    /\ puts[v] > 0
    /\ puts' = [puts EXCEPT ![v] = @ - 1]
    /\ UNCHANGED <<given, page, stored, roots, used, reused, lost, made, stale>>

(* The page is closed and opened again. *)
Reload ==
    /\ phase = "ready"
    /\ phase' = "loading" /\ group' = NoGroup
    /\ memberNames' = {} /\ realMembers' = {} /\ removedRealMembers' = {}
    /\ adding' = None
    /\ puts' = Quiet
    /\ lost' = {}
    /\ UNCHANGED <<given, stored, roots, used, reused, made, stale>>

Next ==
    \/ LoadOk \/ LoadFails \/ CreateGroup \/ LookupOk \/ LookupFails \/ Send \/ Reload
    \/ \E d \in Demo : AddMember(d) \/ RemoveMember(d)
    \/ \E p \in Peer : AddPeer(p) \/ AddPeerKnown(p) \/ ReAddPeer(p) \/ RemovePeer(p)
    \/ \E v \in SUBSET Peer : PutLands(v) \/ PutFails(v)

Spec == Init /\ [][Next]_vars

-----------------------------------------------------------------------------
(* Every variable has its type, and there are members only in a group. *)
TypeOK ==
    /\ phase \in {"loading", "ready"} /\ group \in Handle \cup {NoGroup}
    /\ memberNames \subseteq Demo
    /\ realMembers \subseteq Peer /\ removedRealMembers \subseteq Peer
    /\ adding \in Lookup \cup {None}
    /\ stored \subseteq Peer /\ puts \in [SUBSET Peer -> Nat]
    /\ made \in Nat
    /\ group = NoGroup =>
         memberNames \cup realMembers \cup removedRealMembers = {} /\ adding = None

(* The members that messages are encrypted to are those that are shown,    *)
(* through any sequence of additions, removals, lookups and reloads, apart *)
(* from two cases: peers restored by a reload, which are shown and not in  *)
(* the group, and a lookup that ends after the group has changed.          *)
RosterShown ==
    group # NoGroup /\ ~stale =>
        /\ group.roster = memberNames \cup (realMembers \ lost)
        /\ realMembers \cap removedRealMembers = {}

(* group_encrypt: "no two messages reuse the same (key, nonce) pair",      *)
(* although handles are cloned: no chain key is used for two messages,     *)
(* apart from two cases: a lookup that ends after the group has changed,   *)
(* and a group made again of the same given identity, which repeats the    *)
(* keys of its first chain up to the next removal, and no others.          *)
KeysUsedOnce == ~stale => \A k \in reused : made > 1 /\ k.root = 0
=============================================================================
