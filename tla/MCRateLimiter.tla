--------------------------- MODULE MCRateLimiter ---------------------------
(* Two identities with a budget of 2 per 2-second window: 5 seconds hold   *)
(* three windows, so 2 * capacity + 1 grants happen.                       *)
EXTENDS RateLimiter, TLC

Symmetry == Permutations(Identity)
=============================================================================
