---------------------------- MODULE MCRelayStore ----------------------------
(* Two threads store three envelopes for two recipients; the clock runs    *)
(* two ticks past the time to live of the first.                           *)
EXTENDS RelayStore, TLC

Symmetry ==
    Permutations(Recipient) \cup Permutations(Envelope) \cup Permutations(Caller)
=============================================================================
