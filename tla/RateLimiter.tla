---------------------------- MODULE RateLimiter ----------------------------
(***************************************************************************)
(* The per-identity fixed-window rate limiter of the relay                 *)
(* (relay/src/ratelimit/mod.rs).                                           *)
(*                                                                         *)
(* The two outcomes of RateLimiter::check are Admit and Exceeded of        *)
(* TokenBuckets.  The machine of this module is a caller that keeps the    *)
(* documented contract: `now` never decreases.  `granted` and `refused`    *)
(* record the calls for the properties.                                    *)
(***************************************************************************)
EXTENDS TokenBuckets, Sequences

CONSTANTS Identity,    \* the identities that make requests
          MaxClock     \* bound on the clock

ASSUME LimiterAssumption ==
    /\ PerMinute \in Nat
    /\ WindowArg \in Nat
    /\ MaxClock \in Nat
    /\ NoBucket \notin [tokens : Nat, start : Nat]

VARIABLES clock,       \* the seconds counter the caller reads
          granted,     \* [Identity -> sequence of the times of Ok(())]
          refused      \* [Identity -> the last refusal, or NoRefusal]

vars == <<buckets, clock, granted, refused>>

-----------------------------------------------------------------------------
NoRefusal == [at |-> 0, retry |-> 0]    \* a real refusal has retry >= 1

Init ==
    /\ buckets = [i \in Identity |-> NoBucket]
    /\ clock = 0
    /\ granted = [i \in Identity |-> <<>>]
    /\ refused = [i \in Identity |-> NoRefusal]

CheckOk(i) ==
    /\ Admit(i, clock)
    /\ granted' = [granted EXCEPT ![i] = Append(granted[i], clock)]
    /\ UNCHANGED <<clock, refused>>

CheckErr(i) ==
    /\ Exceeded(i, clock)
    /\ refused' = [refused EXCEPT ![i] =
                     [at |-> clock, retry |-> RetryAfter(buckets[i], clock)]]
    /\ UNCHANGED <<clock, granted>>

Tick ==
    /\ clock < MaxClock
    /\ clock' = clock + 1
    /\ UNCHANGED <<buckets, granted, refused>>

Next == Tick \/ \E i \in Identity : CheckOk(i) \/ CheckErr(i)

Spec == Init /\ [][Next]_vars

-----------------------------------------------------------------------------
(* Every variable has its type; in particular `tokens` stays in            *)
(* 0..capacity, so the unsigned decrement in `check` cannot wrap.          *)
TypeOK ==
    /\ buckets \in [Identity -> Bucket \cup {NoBucket}]
    /\ clock \in Nat
    /\ granted \in [Identity -> Seq(Nat)]
    /\ refused \in [Identity -> [at : Nat, retry : Nat]]

(* RateLimiter::check: a fixed window lets a burst through at the end of   *)
(* one window and another at the start of the next, but never more: any    *)
(* 2 * capacity + 1 requests granted to one identity span at least one     *)
(* whole window.                                                           *)
SlidingBudget ==
    \A i \in Identity : \A k \in 1..Len(granted[i]) :
        k + 2 * Capacity <= Len(granted[i])
            => granted[i][k] + WindowSecs <= granted[i][k + 2 * Capacity]

(* RateLimiter::check refuses a request only if `capacity` requests of     *)
(* that identity were granted during the last window, and the retry_after  *)
(* it reports ends exactly when the oldest of these leaves the window.  A  *)
(* window is over at start + window_secs, as check has it; the comment on  *)
(* Bucket says "once `now > start + window_secs`", a second later.         *)
RefusalJustified ==
    \A i \in Identity : refused[i].retry # 0 =>
        \E k \in 1..Len(granted[i]) :
            LET r == refused[i] IN
            /\ k + Capacity - 1 <= Len(granted[i])
            /\ granted[i][k + Capacity - 1] <= r.at
            /\ r.at < granted[i][k] + WindowSecs
            /\ r.at + r.retry = granted[i][k] + WindowSecs

(* "Time until the bucket refills enough to admit one more request": once  *)
(* retry_after has passed, the whole budget is available again to an       *)
(* identity that was granted nothing in the meantime.                      *)
RetryIsEnough ==
    \A i \in Identity :
        LET r == refused[i] IN
        /\ r.retry # 0
        /\ r.at + r.retry <= clock
        /\ \A k \in 1..Len(granted[i]) : granted[i][k] <= r.at
        => BucketAt(i, clock).tokens = Capacity
=============================================================================
