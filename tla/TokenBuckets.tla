---------------------------- MODULE TokenBuckets ----------------------------
(***************************************************************************)
(* The token buckets of the rate limiter (relay/src/ratelimit/mod.rs), one *)
(* per identity.  Admit and Exceeded are the two outcomes of               *)
(* RateLimiter::check for an identity and the time `now` that its caller   *)
(* passes; they only touch `buckets`, so that RateLimiter and WsRelay, who *)
(* read the clock at different moments, can both use them.                 *)
(***************************************************************************)
EXTENDS Naturals

CONSTANTS PerMinute,   \* the capacity the limiter is built with
          WindowArg,   \* the window (in seconds) the limiter is built with
          NoBucket     \* "no entry in the map"

VARIABLES buckets      \* [identity -> Bucket or NoBucket]

(* per_identity_in clamps the capacity, check clamps the window. *)
Capacity == IF PerMinute > 1 THEN PerMinute ELSE 1

WindowSecs == IF WindowArg > 1 THEN WindowArg ELSE 1

Bucket == [tokens : 0..Capacity, start : Nat]

(* Mutant: the request that opens the window is counted twice. *)
FreshBucketShort(now) == [tokens |-> Capacity - 1, start |-> now]

FreshBucket(now) == [tokens |-> Capacity, start |-> now]

(* Mutant: a plain subtraction wraps around when `now` is behind. *)
ElapsedWrapping(b, now) == IF now >= b.start THEN now - b.start ELSE WindowSecs

(* saturating_sub *)
Elapsed(b, now) == IF now >= b.start THEN now - b.start ELSE 0

(* Mutant: the budget is refilled but the window keeps its old start. *)
RolledNoAnchor(b, now) ==
    IF Elapsed(b, now) >= WindowSecs THEN [b EXCEPT !.tokens = Capacity] ELSE b

(* A bucket whose window has elapsed is replaced by a full one. *)
Rolled(b, now) ==
    IF Elapsed(b, now) >= WindowSecs THEN FreshBucket(now) ELSE b

(* The bucket `check` works on: the entry or a new one, then rolled. *)
BucketAt(i, now) ==
    Rolled(IF buckets[i] = NoBucket THEN FreshBucket(now) ELSE buckets[i], now)

RetryAfter(b, now) == WindowSecs - Elapsed(b, now)

(* check returns Ok(()) *)
Admit(i, now) ==
    LET b == BucketAt(i, now) IN
    /\ b.tokens # 0
    /\ buckets' = [buckets EXCEPT ![i] = [b EXCEPT !.tokens = b.tokens - 1]]

(* check returns Err(Exceeded) *)
Exceeded(i, now) ==
    LET b == BucketAt(i, now) IN
    /\ b.tokens = 0
    /\ buckets' = [buckets EXCEPT ![i] = b]
=============================================================================
