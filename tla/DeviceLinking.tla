---------------------------- MODULE DeviceLinking ----------------------------
(***************************************************************************)
(* Device linking in the web client (device_linking.ts, DeviceLinking.tsx) *)
(* on devices that run it side by side: one shows its identity key as a    *)
(* code, another takes a code, derives the safety number and links when    *)
(* the user enters the number that the other device shows.                 *)
(*                                                                         *)
(* The handlers await only ensureWasmInit, which has ended when a button   *)
(* can be pressed, so each is one step.  A code is a device's key or a     *)
(* malformed text; the safety number of two keys is the set of the two.    *)
(***************************************************************************)
EXTENDS Naturals, FiniteSets

CONSTANTS Device, Stranger, None   \* a stranger's key is a code too

Keys == Device \cup {Stranger}

VARIABLES mode,            \* [Device -> display, scan or None]
          phase,           \* [Device -> LinkingPhase]
          remote,          \* [Device -> remoteKey]
          number,          \* [Device -> safetyNumber]
          compared         \* [Device -> the device whose number the user entered last]

vars == <<mode, phase, remote, number, compared>>

Everywhere(x) == [d \in Device |-> x]

Init ==
    /\ mode = Everywhere(None) /\ phase = Everywhere("idle")
    /\ remote = Everywhere(None) /\ number = Everywhere(None)
    /\ compared = Everywhere(None)

DeriveSafetyNumber(a, b) == {a, b}

-----------------------------------------------------------------------------
HandleDisplay(d) ==
    /\ mode[d] = None /\ phase[d] = "idle"
    /\ mode' = [mode EXCEPT ![d] = "display"]
    /\ phase' = [phase EXCEPT ![d] = "displaying"]
    /\ UNCHANGED <<remote, number, compared>>

ChooseScan(d) ==
    /\ mode[d] = None /\ phase[d] = "idle"
    /\ mode' = [mode EXCEPT ![d] = "scan"]
    /\ UNCHANGED <<phase, remote, number, compared>>

(* beginScan with a well-formed code and with a malformed one. *)
HandleScan(d, key) ==
    /\ mode[d] = "scan" /\ phase[d] = "idle"
    /\ phase' = [phase EXCEPT ![d] = "confirming"]
    /\ remote' = [remote EXCEPT ![d] = key]
    /\ number' = [number EXCEPT ![d] = DeriveSafetyNumber(d, key)]
    /\ UNCHANGED <<mode, compared>>

HandleScanMalformed(d) ==
    /\ mode[d] = "scan" /\ phase[d] = "idle"
    /\ phase' = [phase EXCEPT ![d] = "aborted"]
    /\ UNCHANGED <<mode, remote, number, compared>>

(* Mutant: the number entered is compared with nothing. *)
ConfirmSafetyNumberAny(d, input) == TRUE

ConfirmSafetyNumber(d, input) == input = DeriveSafetyNumber(d, remote[d])

(* confirmLink: the user enters what device e shows. *)
HandleConfirm(d, e) ==
    /\ phase[d] = "confirming" /\ e # d /\ number[e] # None
    /\ compared' = [compared EXCEPT ![d] = e]
    /\ IF ConfirmSafetyNumber(d, number[e])
         THEN phase' = [phase EXCEPT ![d] = "linked"] /\ UNCHANGED number
         ELSE /\ phase' = [phase EXCEPT ![d] = "aborted"]
              /\ number' = [number EXCEPT ![d] = None]
    /\ UNCHANGED <<mode, remote>>

HandleAbort(d) ==
    /\ \/ mode[d] = "scan" /\ phase[d] = "idle"
       \/ phase[d] # "idle"
    /\ mode' = [mode EXCEPT ![d] = None]
    /\ phase' = [phase EXCEPT ![d] = "idle"]
    /\ remote' = [remote EXCEPT ![d] = None]
    /\ number' = [number EXCEPT ![d] = None]
    /\ compared' = [compared EXCEPT ![d] = None]

Next ==
    \E d \in Device :
        \/ HandleDisplay(d) \/ ChooseScan(d) \/ HandleScanMalformed(d) \/ HandleAbort(d)
        \/ \E key \in Keys : HandleScan(d, key)
        \/ \E e \in Device : HandleConfirm(d, e)

Spec == Init /\ [][Next]_vars

-----------------------------------------------------------------------------
(* Every variable has its type, and a device shows a safety number exactly *)
(* while it confirms or is linked.                                         *)
TypeOK ==
    /\ mode \in [Device -> {"display", "scan", None}]
    /\ phase \in [Device -> {"idle", "displaying", "confirming", "linked", "aborted"}]
    /\ remote \in [Device -> Keys \cup {None}]
    /\ \A d \in Device : number[d] # None <=> phase[d] \in {"confirming", "linked"}
    /\ \A d \in Device : phase[d] = "linked" => remote[d] # None

(* "the link proceeds only if [the] safety numbers match": a device links  *)
(* with the very device whose number was compared, whatever code it had    *)
(* been given before (a malformed one, its own, a stranger's).             *)
LinkedToCompared == \A d \in Device : phase[d] = "linked" => remote[d] = compared[d]
=============================================================================
