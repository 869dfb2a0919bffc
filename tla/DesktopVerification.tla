------------------------- MODULE DesktopVerification -------------------------
(***************************************************************************)
(* Verification of safety numbers in the desktop shell                     *)
(* (clients/desktop-tauri/src-tauri/src/verify.rs), with the derivation of *)
(* the numbers (core/crypto/src/lib.rs and device_qr.rs).  A view holds a  *)
(* VerificationState; the number it was created with is in a thread-local, *)
(* EXPECTED, which every `new` on that thread overwrites, and commands may *)
(* run on any thread.  A fingerprint (libsignal, external) shows the same  *)
(* digits on both sides and differs for different keys, so that a number   *)
(* is the set of the two keys.                                             *)
(***************************************************************************)
EXTENDS Naturals, Sequences, Functions

CONSTANTS Thread,       \* threads of the shell
          View,         \* verification states the shell holds
          Key,          \* identity keys of peers
          None,
          MaxInput      \* bound on the numbers entered, in all views

VARIABLES expected,     \* [thread -> EXPECTED]
          states,       \* [view -> VerificationState, None before `new`]
          own,          \* [view -> the number it was created with]
          inputs,       \* [view -> the numbers entered, in their order]
          mixed         \* views that were compared with another number than their own

vars == <<expected, states, own, inputs, mixed>>

(* derive_safety_number and safety_number_for_display: bytes that are no key are       *)
(* refused; the order of the two sides does not matter.                                *)
Me == "my key"
DeriveSafetyNumber(local, remote) == IF None \in {local, remote} THEN None ELSE {local, remote}

(* What the peer reads out: the number on its device, or a slip *)
Input == {DeriveSafetyNumber(k, Me) : k \in Key} \cup {{}}

Unverified == [is |-> "Unverified", previous |-> {}, current |-> {}]
Verified == [is |-> "Verified", previous |-> {}, current |-> {}]
KeyChangedWarning(p, c) == [is |-> "KeyChangedWarning", previous |-> p, current |-> c]

Init ==
    /\ expected = [t \in Thread |-> None]
    /\ states = [v \in View |-> None] /\ own = [v \in View |-> None]
    /\ inputs = [v \in View |-> <<>>] /\ mixed = {}

-----------------------------------------------------------------------------
(* VerificationState::new; a view whose peer's key is malformed has no number to show. *)
NewState(v, t, k) ==
    LET number == DeriveSafetyNumber(Me, k)
    IN  /\ number # None
        /\ expected' = [expected EXCEPT ![t] = number]
        /\ states' = [states EXCEPT ![v] = Unverified]
        /\ own' = [own EXCEPT ![v] = number]
        /\ inputs' = [inputs EXCEPT ![v] = <<>>] /\ mixed' = mixed \ {v}

(* What verify_safety_number returns *)
Compared(s, e, input) ==
    IF e = None \/ s.is = "KeyChangedWarning" THEN s
    ELSE IF input = e THEN Verified
    ELSE IF s.is = "Verified" THEN KeyChangedWarning(e, input)
    ELSE Unverified

(* The shell keeps what verify_safety_number returns as the view's state. *)
VerifySafetyNumber(v, t, input) ==
    /\ states[v] # None /\ SumFunction([u \in View |-> Len(inputs[u])]) < MaxInput
    /\ states' = [states EXCEPT ![v] = Compared(@, expected[t], input)]
    /\ inputs' = [inputs EXCEPT ![v] = Append(@, input)]
    /\ mixed' = IF expected[t] = own[v] THEN mixed ELSE mixed \cup {v}
    /\ UNCHANGED <<expected, own>>

Next ==
    \E v \in View, t \in Thread :
        \/ \E k \in Key \cup {None} : NewState(v, t, k)
        \/ \E i \in Input : VerifySafetyNumber(v, t, i)

Spec == Init /\ [][Next]_vars

-----------------------------------------------------------------------------
(* Every variable has its type. *)
TypeOK ==
    LET number == SUBSET (Key \cup {Me})
    IN  /\ expected \in [Thread -> number \cup {None}] /\ own \in [View -> number \cup {None}]
        /\ inputs \in [View -> Seq(number)] /\ mixed \subseteq View
        /\ \A v \in View : states[v] # None => states[v].previous \in number /\ states[v].current \in number

(* "Compare `input` against the safety number the state was created with": *)
(* a view is verified if the user entered its number, so that the peer has *)
(* the key the view is about, and nothing else since; the first other      *)
(* number after that is reported with the old one, and the warning stays.  *)
(* Excepted are views that were compared on a thread whose EXPECTED was    *)
(* not their own.                                                          *)
VerifiedByUser ==
    \A v \in View \ mixed :
        LET same == {i \in DOMAIN inputs[v] : inputs[v][i] = own[v]}
            after == {j \in DOMAIN inputs[v] \ same : \E i \in same : i < j}
        IN  states[v] # None =>
                CASE same = {} -> states[v] = Unverified
                  [] same # {} /\ after = {} -> states[v] = Verified
                  [] OTHER -> \E j \in after :
                       /\ \A i \in after : j <= i
                       /\ states[v] = KeyChangedWarning(own[v], inputs[v][j])
=============================================================================
