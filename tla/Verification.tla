---------------------------- MODULE Verification ----------------------------
(***************************************************************************)
(* Verification of safety numbers                                          *)
(* (clients/web/src/SafetyNumberVerification.tsx), shown by App.tsx for    *)
(* the peer that Conversation reports, with the peer's identity key.       *)
(*                                                                         *)
(* Effects run after the render that changed what they depend on, with the *)
(* state of that render: when the peer or the key changes in place, the    *)
(* load effect resets `loaded` and starts a read, and the persist effect   *)
(* of the same render still sees `loaded` and `verified` as they were.     *)
(* Reads and writes use gates of their own and end in any order.           *)
(***************************************************************************)
EXTENDS Naturals, Functions

CONSTANTS Conv,            \* conversation ids
          Key,             \* identity keys
          Session,         \* the [conv, key] that Conversation may report
          None,
          MaxWrite         \* bound on the writes on their way

Record == [verified : BOOLEAN, key : Key]
Put    == [conv : Conv, record : Record]

VARIABLES props,           \* [conv, key] shown, None: not mounted
          verified, loaded,
          derived,         \* safetyNumber is not null
          warning,
          reading,         \* the load that was not cancelled, and the record it read
          puts,            \* [Put -> how many such writes are on their way]
          stored,          \* [Conv -> record or None]
          checked,         \* {<<conv, key>>} the user has marked as verified
          carried          \* conversation or key changed in place while the state was loaded

screen == <<props, verified, loaded, derived, warning, reading>>
vars == <<screen, puts, stored, checked, carried>>

Idle == [at |-> "done", found |-> None]

Init ==
    /\ props = None /\ verified = FALSE /\ loaded = FALSE /\ derived = FALSE
    /\ warning = FALSE /\ reading = Idle
    /\ puts = [p \in Put |-> 0] /\ stored = [c \in Conv |-> None]
    /\ checked = {} /\ carried = FALSE

-----------------------------------------------------------------------------
(* The persist effect. *)
Persist(p, v, isLoaded, isDerived) ==
    IF isLoaded /\ isDerived
      THEN /\ SumFunction(puts) < MaxWrite
           /\ LET put == [conv |-> p.conv, record |-> [verified |-> v, key |-> p.key]]
              IN puts' = [puts EXCEPT ![put] = @ + 1]
      ELSE UNCHANGED puts

(* A session with the peer exists: the component is mounted. *)
Mount(s) ==
    /\ props = None
    /\ props' = s
    /\ verified' = FALSE /\ loaded' = FALSE /\ derived' = FALSE /\ warning' = FALSE
    /\ reading' = [at |-> "open", found |-> None]
    /\ UNCHANGED <<puts, stored, checked, carried>>

(* Another peer is entered, or the peer's key changes, while the component *)
(* stays mounted.                                                          *)
Change(s) ==
    /\ props # None /\ props # s
    /\ props' = s
    /\ loaded' = FALSE /\ warning' = FALSE /\ reading' = [at |-> "open", found |-> None]
    /\ Persist(s, verified, loaded, derived)
    /\ carried' = (carried \/ (loaded /\ derived))
    /\ UNCHANGED <<verified, derived, stored, checked>>

(* No session with the peer entered, or another view. *)
Unmount ==
    /\ props # None
    /\ props' = None
    /\ verified' = FALSE /\ loaded' = FALSE /\ derived' = FALSE /\ warning' = FALSE
    /\ reading' = Idle
    /\ UNCHANGED <<puts, stored, checked, carried>>

(* The safety number is derived (the wasm module is ready). *)
Derive ==
    /\ props # None /\ ~derived
    /\ derived' = TRUE
    /\ Persist(props, verified, loaded, TRUE)
    /\ UNCHANGED <<props, verified, loaded, warning, reading, stored, checked, carried>>

(* The read of gate.get; what follows it runs after the decryption. *)
Read ==
    /\ reading.at = "open"
    /\ reading' = [at |-> "read", found |-> stored[props.conv]]
    /\ UNCHANGED <<props, verified, loaded, derived, warning, puts, stored, checked, carried>>

(* Mutant: the key of the record is not compared. *)
LoadAnyKey ==
    /\ reading.at = "read"
    /\ LET r == reading.found
       IN  /\ verified' = (r # None /\ r.verified)
           /\ warning' = warning
           /\ Persist(props, r # None /\ r.verified, TRUE, derived)
    /\ loaded' = TRUE /\ reading' = Idle
    /\ UNCHANGED <<props, derived, stored, checked, carried>>

Load ==
    /\ reading.at = "read"
    /\ LET r    == reading.found
           same == r # None /\ r.key = props.key
       IN  /\ verified' = (same /\ r.verified)
           /\ warning' = (warning \/ (r # None /\ ~same))
           /\ Persist(props, same /\ r.verified, TRUE, derived)
    /\ loaded' = TRUE /\ reading' = Idle
    /\ UNCHANGED <<props, derived, stored, checked, carried>>

(* The load fails: `loaded` stays false, so nothing is written. *)
LoadFails ==
    /\ reading # Idle
    /\ reading' = Idle
    /\ UNCHANGED <<props, verified, loaded, derived, warning, puts, stored, checked, carried>>

HandleVerify ==
    /\ props # None /\ derived /\ ~verified
    /\ verified' = TRUE
    /\ checked' = checked \cup {<<props.conv, props.key>>}
    /\ Persist(props, TRUE, loaded, derived)
    /\ UNCHANGED <<props, loaded, derived, warning, reading, stored, carried>>

HandleUnverify ==
    /\ props # None /\ verified
    /\ verified' = FALSE
    /\ Persist(props, FALSE, loaded, derived)
    /\ UNCHANGED <<props, loaded, derived, warning, reading, stored, checked, carried>>

-----------------------------------------------------------------------------
PutLands(p) ==
    /\ puts[p] > 0
    /\ puts' = [puts EXCEPT ![p] = @ - 1]
    /\ stored' = [stored EXCEPT ![p.conv] = p.record]
    /\ UNCHANGED <<screen, checked, carried>>

PutFails(p) ==
    /\ puts[p] > 0
    /\ puts' = [puts EXCEPT ![p] = @ - 1]
    /\ UNCHANGED <<screen, stored, checked, carried>>

Next ==
    \/ Unmount \/ Derive \/ Read \/ Load \/ LoadFails \/ HandleVerify \/ HandleUnverify
    \/ \E s \in Session : Mount(s) \/ Change(s)
    \/ \E p \in Put : PutLands(p) \/ PutFails(p)

Spec == Init /\ [][Next]_vars

-----------------------------------------------------------------------------
(* Every variable has its type. *)
TypeOK ==
    /\ props \in Session \cup {None}
    /\ {verified, loaded, derived, warning, carried} \subseteq BOOLEAN
    /\ reading \in [at : {"open", "read", "done"}, found : Record \cup {None}]
    /\ puts \in [Put -> Nat]
    /\ stored \in [Conv -> Record \cup {None}]
    /\ checked \subseteq Conv \X Key
    /\ props = None => reading = Idle /\ ~verified /\ ~loaded

(* A verified mark that was loaded, and one that is saved, is for a key    *)
(* the user verified in that conversation, whatever order reads and writes *)
(* end in and through any changes of peer, key and page, unless the        *)
(* component was changed in place with its state loaded.                   *)
VerifiedByUser ==
    ~carried =>
        /\ props # None /\ loaded /\ verified => <<props.conv, props.key>> \in checked
        /\ \A c \in Conv : stored[c] # None /\ stored[c].verified => <<c, stored[c].key>> \in checked

(* "the verified flag is cleared [...] it is never silently carried        *)
(* forward onto a changed key": what is loaded and shown as verified is a  *)
(* key the user verified.                                                  *)
NeverCarriedForward == props # None /\ loaded /\ verified => <<props.conv, props.key>> \in checked
=============================================================================
