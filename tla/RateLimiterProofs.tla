------------------------- MODULE RateLimiterProofs -------------------------
(***************************************************************************)
(* The properties of RateLimiter for every set of identities, capacity and *)
(* window.                                                                 *)
(*                                                                         *)
(* The argument: the first grant of a window is made at the very second    *)
(* the window is anchored at, so the log of grants shows where the current *)
(* window starts (WindowInLog); and every grant that is at least a full    *)
(* budget older than that entry was made a whole window before it          *)
(* (PreviousWindow).                                                       *)
(***************************************************************************)
EXTENDS RateLimiter, TLAPS

(* The index of the log entry that opened the current window of i. *)
WindowIndex(i) == Len(granted[i]) - Capacity + buckets[i].tokens + 1

LogSorted(i) ==
    /\ \A k \in 1..Len(granted[i]) : granted[i][k] <= clock
    /\ \A j, k \in 1..Len(granted[i]) : j <= k => granted[i][j] <= granted[i][k]

WindowInLog(i) ==
    IF buckets[i] = NoBucket
      THEN granted[i] = <<>> /\ refused[i].retry = 0
      ELSE /\ buckets[i].tokens < Capacity
           /\ WindowIndex(i) >= 1
           /\ granted[i][WindowIndex(i)] = buckets[i].start

PreviousWindow(i) ==
    buckets[i] # NoBucket =>
        \A k \in 1..Len(granted[i]) :
            k + Capacity <= WindowIndex(i)
                => granted[i][k] + WindowSecs <= buckets[i].start

RefusalWindow(i) ==
    refused[i].retry # 0 =>
        \/ buckets[i].start + WindowSecs = refused[i].at + refused[i].retry
        \/ buckets[i].start >= refused[i].at + refused[i].retry

IndInv ==
    /\ TypeOK
    /\ \A i \in Identity : LogSorted(i)
    /\ \A i \in Identity : WindowInLog(i)
    /\ \A i \in Identity : PreviousWindow(i)
    /\ \A i \in Identity : RefusalWindow(i)
    /\ SlidingBudget
    /\ RefusalJustified

-----------------------------------------------------------------------------
(* The clamps of per_identity_in and check make both constants positive. *)
LEMMA ClampFacts ==
    /\ Capacity \in Nat /\ Capacity >= 1
    /\ WindowSecs \in Nat /\ WindowSecs >= 1
  BY LimiterAssumption DEF Capacity, WindowSecs

(* The two cases of the head of `check`: a full bucket anchored at `now`,  *)
(* for a new identity or an elapsed window, or the bucket as it stands.    *)
LEMMA BucketCases ==
    ASSUME TypeOK, NEW i \in Identity
    PROVE  /\ \/ /\ BucketAt(i, clock) = FreshBucket(clock)
                 /\ buckets[i] # NoBucket => buckets[i].start + WindowSecs <= clock
              \/ /\ BucketAt(i, clock) = buckets[i]
                 /\ buckets[i] # NoBucket
                 /\ clock < buckets[i].start + WindowSecs
           /\ BucketAt(i, clock) \in Bucket
           /\ buckets[i] \in Bucket \cup {NoBucket}
  <1>1. buckets[i] \in Bucket \cup {NoBucket} /\ clock \in Nat
    BY DEF TypeOK
  <1>2. FreshBucket(clock) \in Bucket
    BY <1>1, ClampFacts DEF FreshBucket, Bucket
  <1>3. CASE buckets[i] = NoBucket
    <2>1. Elapsed(FreshBucket(clock), clock) = 0
      BY <1>1 DEF Elapsed, FreshBucket
    <2>2. BucketAt(i, clock) = FreshBucket(clock)
      BY <1>3, <2>1, ClampFacts DEF BucketAt, Rolled
    <2>3. QED
      BY <1>1, <1>2, <1>3, <2>2
  <1>4. CASE buckets[i] # NoBucket
    <2>1. buckets[i] \in Bucket /\ buckets[i].start \in Nat
      BY <1>1, <1>4 DEF Bucket
    <2>2. BucketAt(i, clock) = Rolled(buckets[i], clock)
      BY <1>4 DEF BucketAt
    <2>3. CASE buckets[i].start + WindowSecs <= clock
      <3>1. Elapsed(buckets[i], clock) >= WindowSecs
        BY <1>1, <2>1, <2>3, ClampFacts DEF Elapsed
      <3>2. QED
        BY <1>1, <1>2, <2>2, <2>3, <3>1 DEF Rolled
    <2>4. CASE clock < buckets[i].start + WindowSecs
      <3>1. ~(Elapsed(buckets[i], clock) >= WindowSecs)
        BY <1>1, <2>1, <2>4, ClampFacts DEF Elapsed
      <3>2. QED
        BY <1>1, <1>4, <2>1, <2>2, <2>4, <3>1 DEF Rolled
    <2>5. QED
      BY <1>1, <2>1, <2>3, <2>4, ClampFacts
  <1>5. QED
    BY <1>3, <1>4

-----------------------------------------------------------------------------
(* per_identity_in builds an empty map, which satisfies the invariant. *)
LEMMA InitIndInv == Init => IndInv
  <1> SUFFICES ASSUME Init PROVE IndInv
    OBVIOUS
  <1>1. TypeOK
    BY DEF Init, TypeOK, NoRefusal
  <1>2. \A i \in Identity : /\ buckets[i] = NoBucket
                            /\ granted[i] = <<>> /\ Len(granted[i]) = 0
                            /\ refused[i].retry = 0
    BY DEF Init, NoRefusal
  <1>3. ASSUME NEW i \in Identity PROVE LogSorted(i)
    <2>1. 1..Len(granted[i]) = {}
      BY <1>2
    <2>2. QED
      BY <2>1 DEF LogSorted
  <1>4. \A i \in Identity : WindowInLog(i) /\ PreviousWindow(i) /\ RefusalWindow(i)
    BY <1>2 DEF WindowInLog, PreviousWindow, RefusalWindow
  <1>5. SlidingBudget /\ RefusalJustified
    BY <1>2 DEF SlidingBudget, RefusalJustified
  <1>6. QED
    BY <1>1, <1>3, <1>4, <1>5 DEF IndInv

(* The clock only moves the bound on the log. *)
LEMMA TickIndInv == IndInv /\ Tick => IndInv'
  <1> SUFFICES ASSUME IndInv, Tick PROVE IndInv'
    OBVIOUS
  <1>1. /\ clock' = clock + 1 /\ clock \in Nat
        /\ buckets' = buckets /\ granted' = granted /\ refused' = refused
    BY DEF IndInv, TypeOK, Tick
  <1>2. TypeOK'
    BY <1>1 DEF IndInv, TypeOK, Bucket
  <1>3. ASSUME NEW i \in Identity PROVE LogSorted(i)'
    <2>1. granted[i] \in Seq(Nat) /\ LogSorted(i)
      BY DEF IndInv, TypeOK
    <2>2. QED
      BY <1>1, <2>1 DEF LogSorted
  <1>4. ASSUME NEW i \in Identity
        PROVE  WindowInLog(i)' /\ PreviousWindow(i)' /\ RefusalWindow(i)'
    BY <1>1 DEF IndInv, WindowInLog, PreviousWindow, RefusalWindow, WindowIndex
  <1>5. SlidingBudget' /\ RefusalJustified'
    BY <1>1 DEF IndInv, SlidingBudget, RefusalJustified
  <1>6. QED
    BY <1>2, <1>3, <1>4, <1>5 DEF IndInv

(* A refusal leaves the bucket as it stands: a bucket that was just refilled *)
(* has a token.                                                              *)
LEMMA CheckErrIndInv == ASSUME IndInv, NEW i \in Identity, CheckErr(i) PROVE IndInv'
  <1>1. /\ clock' = clock /\ clock \in Nat /\ granted' = granted
        /\ granted[i] \in Seq(Nat) /\ TypeOK
    BY DEF IndInv, TypeOK, CheckErr
  <1>2. /\ BucketAt(i, clock).tokens = 0
        /\ buckets' = [buckets EXCEPT ![i] = BucketAt(i, clock)]
    BY DEF CheckErr, Exceeded
  <1>3. /\ BucketAt(i, clock) = buckets[i] /\ buckets[i] # NoBucket
        /\ clock < buckets[i].start + WindowSecs
        /\ buckets[i] \in Bucket
    <2>1. FreshBucket(clock).tokens # 0
      BY ClampFacts DEF FreshBucket
    <2>2. BucketAt(i, clock) # FreshBucket(clock)
      BY <1>2, <2>1
    <2>3. QED
      BY <1>1, <2>2, BucketCases
  <1>4. buckets' = buckets
    BY <1>1, <1>2, <1>3 DEF TypeOK
  <1> DEFINE n == Len(granted[i])
             r == [at |-> clock, retry |-> RetryAfter(buckets[i], clock)]
  <1>5. /\ refused' = [refused EXCEPT ![i] = r] /\ refused \in [Identity -> [at : Nat, retry : Nat]]
        /\ refused'[i] = r /\ \A j \in Identity : j # i => refused'[j] = refused[j]
    BY <1>1 DEF CheckErr, TypeOK
  <1>6. /\ n \in Nat /\ n - Capacity + 1 >= 1
        /\ granted[i][n - Capacity + 1] = buckets[i].start
        /\ n - Capacity + 1 \in 1..n
    <2>1. WindowInLog(i)
      BY DEF IndInv
    <2>2. WindowIndex(i) = n - Capacity + 1
      BY <1>1, <1>2, <1>3, ClampFacts DEF WindowIndex
    <2>3. WindowIndex(i) >= 1 /\ granted[i][WindowIndex(i)] = buckets[i].start
      BY <1>3, <2>1 DEF WindowInLog
    <2>4. n \in Nat
      BY <1>1
    <2> HIDE DEF n
    <2>5. n - Capacity + 1 >= 1 /\ n - Capacity + 1 \in 1..n
      BY <2>2, <2>3, <2>4, ClampFacts
    <2>6. QED
      BY <2>2, <2>3, <2>4, <2>5
  <1>7. buckets[i].start <= clock /\ granted[i][n] <= clock /\ buckets[i].start \in Nat
    <2>1. LogSorted(i) /\ n \in 1..n
      BY <1>1, <1>6 DEF IndInv
    <2>2. \A k \in 1..n : granted[i][k] <= clock
      BY <2>1 DEF LogSorted
    <2>3. QED
      BY <1>3, <1>6, <2>1, <2>2 DEF Bucket
  <1>8. /\ r.at = clock /\ r.retry \in Nat /\ r.retry >= 1
        /\ r.at + r.retry = buckets[i].start + WindowSecs
    <2>1. clock \in Nat /\ buckets[i].start \in Nat /\ buckets[i].start <= clock
          /\ clock < buckets[i].start + WindowSecs /\ WindowSecs \in Nat
      BY <1>1, <1>3, <1>7, ClampFacts
    <2>2. RetryAfter(buckets[i], clock) = WindowSecs - (clock - buckets[i].start)
      BY <2>1 DEF RetryAfter, Elapsed
    <2>3. r.at = clock /\ r.retry = RetryAfter(buckets[i], clock)
      OBVIOUS
    <2> HIDE DEF r
    <2>4. QED
      BY <2>1, <2>2, <2>3
  <1>9. TypeOK'
    BY <1>1, <1>4, <1>5, <1>8 DEF TypeOK, Bucket
  <1>10. ASSUME NEW j \in Identity
         PROVE  LogSorted(j)' /\ WindowInLog(j)' /\ PreviousWindow(j)' /\ RefusalWindow(j)'
    <2>1. LogSorted(j)' /\ PreviousWindow(j)'
      BY <1>1, <1>4 DEF IndInv, LogSorted, PreviousWindow, WindowIndex
    <2>2. WindowInLog(j)'
      BY <1>1, <1>3, <1>4, <1>5 DEF IndInv, WindowInLog, WindowIndex
    <2>3. RefusalWindow(j)'
      BY <1>4, <1>5, <1>8 DEF IndInv, RefusalWindow
    <2>4. QED
      BY <2>1, <2>2, <2>3
  <1>11. SlidingBudget'
    BY <1>1 DEF IndInv, SlidingBudget
  <1>12. RefusalJustified'
    <2> SUFFICES ASSUME NEW j \in Identity, refused'[j].retry # 0
                 PROVE  \E k \in 1..Len(granted[j]) :
                          /\ k + Capacity - 1 <= Len(granted[j])
                          /\ granted[j][k + Capacity - 1] <= refused'[j].at
                          /\ refused'[j].at < granted[j][k] + WindowSecs
                          /\ refused'[j].at + refused'[j].retry = granted[j][k] + WindowSecs
      BY <1>1 DEF RefusalJustified
    <2>1. CASE j = i
      <3> DEFINE k == n - Capacity + 1
      <3>1. k \in 1..n /\ k + Capacity - 1 = n
        BY <1>6, ClampFacts
      <3>2. /\ granted[i][k + Capacity - 1] <= r.at
            /\ r.at < granted[i][k] + WindowSecs
            /\ r.at + r.retry = granted[i][k] + WindowSecs
        BY <1>3, <1>6, <1>7, <1>8, <3>1
      <3> k \in 1..Len(granted[j])
        BY <2>1, <3>1
      <3>3. WITNESS k \in 1..Len(granted[j])
      <3>4. QED
        BY <1>5, <2>1, <3>1, <3>2
    <2>2. CASE j # i
      BY <1>5, <2>2 DEF IndInv, RefusalJustified
    <2>3. QED
      BY <2>1, <2>2
  <1>13. QED
    BY <1>9, <1>10, <1>11, <1>12 DEF IndInv

(* A grant: the log grows by `clock`; the bucket is a new window opened by *)
(* this very entry, or the current one with a token less.                  *)
LEMMA CheckOkIndInv == ASSUME IndInv, NEW i \in Identity, CheckOk(i) PROVE IndInv'
  <1> DEFINE n == Len(granted[i])
             b == BucketAt(i, clock)
             C == Capacity
             W == WindowSecs
  <1>1. /\ clock' = clock /\ clock \in Nat /\ refused' = refused
        /\ granted[i] \in Seq(Nat) /\ n \in Nat /\ TypeOK
        /\ C \in Nat /\ C >= 1 /\ W \in Nat /\ W >= 1
    BY ClampFacts DEF IndInv, TypeOK, CheckOk
  <1>N. clock \in Nat /\ n \in Nat /\ C \in Nat /\ C >= 1 /\ W \in Nat
    BY <1>1
  <1>2. /\ b.tokens # 0
        /\ buckets' = [buckets EXCEPT ![i] = [b EXCEPT !.tokens = b.tokens - 1]]
        /\ granted' = [granted EXCEPT ![i] = Append(granted[i], clock)]
    BY DEF CheckOk, Admit
  <1>3. /\ b \in Bucket /\ b.tokens \in 1..C /\ b.start \in Nat
        /\ b.tokens - 1 \in 0..C
    BY <1>1, <1>2, BucketCases DEF Bucket
  <1>S. b.start \in Nat
    BY <1>3
  <1>4. /\ buckets'[i] = [b EXCEPT !.tokens = b.tokens - 1]
        /\ buckets'[i].tokens = b.tokens - 1
        /\ buckets'[i].start = b.start
        /\ buckets'[i] \in Bucket
        /\ \A j \in Identity : j # i => buckets'[j] = buckets[j]
    BY <1>1, <1>2, <1>3 DEF TypeOK, Bucket
  <1>5. buckets'[i] # NoBucket
    BY <1>4, LimiterAssumption, ClampFacts DEF Bucket
  <1>6. /\ granted'[i] = Append(granted[i], clock) /\ granted'[i] \in Seq(Nat)
        /\ Len(granted'[i]) = n + 1 /\ granted'[i][n + 1] = clock
        /\ \A k \in 1..n : granted'[i][k] = granted[i][k] /\ granted[i][k] \in Nat
        /\ \A j \in Identity : j # i => granted'[j] = granted[j]
    BY <1>1, <1>2 DEF TypeOK
  <1>7. TypeOK'
    BY <1>1, <1>2, <1>4, <1>6 DEF TypeOK, Bucket
  <1>8. /\ \A k \in 1..n : granted[i][k] <= clock
        /\ \A j, k \in 1..n : j <= k => granted[i][j] <= granted[i][k]
    BY DEF IndInv, LogSorted
  <1>9. LogSorted(i)'
    <2>1. \A k \in 1..n + 1 : granted'[i][k] <= clock
      BY <1>1, <1>6, <1>8
    <2>2. ASSUME NEW j \in 1..n + 1, NEW k \in 1..n + 1, j <= k
          PROVE  granted'[i][j] <= granted'[i][k]
      <3>1. CASE k = n + 1
        BY <1>6, <2>1, <3>1
      <3>2. CASE k # n + 1
        <4>1. j \in 1..n /\ k \in 1..n
          BY <1>N, <2>2, <3>2
        <4>2. QED
          BY <1>6, <1>8, <2>2, <4>1
      <3>3. QED
        BY <3>1, <3>2
    <2>3. QED
      BY <1>1, <1>6, <2>1, <2>2 DEF LogSorted
  <1> DEFINE Wx == Len(granted'[i]) - C + buckets'[i].tokens + 1
  <1>W. Wx = n + 1 - C + b.tokens /\ b.tokens \in 1..C
    <2>1. Len(granted'[i]) = n + 1
      BY <1>6
    <2>2. buckets'[i].tokens = b.tokens - 1 /\ b.tokens \in 1..C
      BY <1>3, <1>4
    <2>3. QED
      BY <1>1, <2>1, <2>2
  \* where the window is, and what lies a budget before it
  <1>10. /\ Wx \in 1..n + 1
         /\ granted'[i][Wx] = b.start
         /\ b.start <= clock
         /\ \A k \in 1..n : k + C <= Wx => granted[i][k] + W <= b.start
         /\ buckets[i] # NoBucket => b.start = buckets[i].start \/ b.start >= buckets[i].start + W
         /\ buckets[i] = NoBucket => n = 0
    <2>1. CASE /\ b = FreshBucket(clock)
               /\ buckets[i] # NoBucket => buckets[i].start + W <= clock
      <3>1. b.start = clock /\ b.tokens = C
        BY <2>1 DEF FreshBucket
      <3>2. Wx = n + 1
        BY <1>1, <1>W, <3>1
      <3>3. buckets[i] = NoBucket => n = 0
        BY DEF IndInv, WindowInLog
      <3>4. ASSUME NEW k \in 1..n, k + C <= Wx
            PROVE  granted[i][k] + W <= clock
        <4>1. buckets[i] # NoBucket /\ buckets[i] \in Bucket
          BY <1>1, <3>3 DEF TypeOK
        <4>2. /\ WindowIndex(i) \in 1..n
              /\ granted[i][WindowIndex(i)] = buckets[i].start
              /\ k <= WindowIndex(i)
              /\ buckets[i].start \in Nat
          <5>1. WindowInLog(i)
            BY DEF IndInv
          <5>2. buckets[i].tokens \in 0..C /\ buckets[i].start \in Nat
            BY <4>1 DEF Bucket
          <5>3. WindowIndex(i) = n - C + buckets[i].tokens + 1
            BY DEF WindowIndex
          <5>4. /\ buckets[i].tokens < C /\ WindowIndex(i) >= 1
                /\ granted[i][WindowIndex(i)] = buckets[i].start
            BY <4>1, <5>1 DEF WindowInLog
          <5>5. QED
            BY <1>N, <3>2, <3>4, <5>2, <5>3, <5>4
        <4>3. granted[i][k] <= buckets[i].start
          BY <1>8, <4>2
        <4>4. QED
          <5>1. granted[i][k] \in Nat /\ buckets[i].start + W <= clock
            BY <1>6, <2>1, <4>1
          <5>2. buckets[i].start \in Nat /\ clock \in Nat /\ W \in Nat
            BY <1>1, <4>2
          <5>3. QED
            BY <4>3, <5>1, <5>2
      <3>5. QED
        BY <1>1, <1>6, <2>1, <3>1, <3>2, <3>3, <3>4
    <2>2. CASE b = buckets[i] /\ buckets[i] # NoBucket
      <3>1. Wx = WindowIndex(i)
        BY <1>1, <1>W, <2>2 DEF WindowIndex
      <3>2. Wx \in 1..n /\ granted[i][Wx] = b.start
        <4>1. WindowInLog(i)
          BY DEF IndInv
        <4>2. /\ b.tokens < C /\ Wx >= 1
              /\ granted[i][Wx] = b.start
          BY <2>2, <3>1, <4>1 DEF WindowInLog
        <4>3. QED
          BY <1>1, <1>W, <4>2
      <3>3. \A k \in 1..n : k + C <= Wx => granted[i][k] + W <= b.start
        BY <2>2, <3>1 DEF IndInv, PreviousWindow
      <3>4. QED
        BY <1>1, <1>6, <1>8, <2>2, <3>2, <3>3
    <2>3. QED
      BY <1>1, <2>1, <2>2, BucketCases
  <1>11. WindowInLog(i)'
    <2>1. buckets'[i].tokens < C
      BY <1>1, <1>3, <1>4
    <2>2. Wx >= 1 /\ granted'[i][Wx] = buckets'[i].start
      BY <1>1, <1>4, <1>10
    <2>3. QED
      BY <1>5, <2>1, <2>2 DEF WindowInLog, WindowIndex
  <1>12. PreviousWindow(i)'
    <2>1. ASSUME NEW k \in 1..n + 1, k + C <= Wx
          PROVE  granted'[i][k] + W <= b.start
      <3>1. Wx \in 1..n + 1
        BY <1>10
      <3>2. k \in 1..n
        BY <1>N, <2>1, <3>1
      <3>3. QED
        BY <1>6, <1>10, <2>1, <3>2
    <2>2. QED
      BY <1>4, <1>6, <2>1 DEF PreviousWindow, WindowIndex
  <1>13. RefusalWindow(i)'
    <2>1. ASSUME refused[i].retry # 0
          PROVE  \/ b.start + W = refused[i].at + refused[i].retry
                 \/ b.start >= refused[i].at + refused[i].retry
      <3>1. buckets[i] # NoBucket /\ buckets[i] \in Bucket
        BY <1>1, <2>1 DEF IndInv, WindowInLog, TypeOK
      <3>2. /\ buckets[i].start \in Nat
            /\ refused[i].at \in Nat /\ refused[i].retry \in Nat
        BY <1>1, <3>1 DEF TypeOK, Bucket
      <3>3. \/ buckets[i].start + W = refused[i].at + refused[i].retry
            \/ buckets[i].start >= refused[i].at + refused[i].retry
        BY <2>1 DEF IndInv, RefusalWindow
      <3>4. b.start = buckets[i].start \/ b.start >= buckets[i].start + W
        BY <1>10, <3>1
      <3>5. QED
        BY <1>N, <1>S, <3>2, <3>3, <3>4
    <2>2. QED
      BY <1>1, <1>4, <2>1 DEF RefusalWindow
  <1>14. ASSUME NEW j \in Identity, j # i
         PROVE  LogSorted(j)' /\ WindowInLog(j)' /\ PreviousWindow(j)' /\ RefusalWindow(j)'
    <2>1. granted'[j] = granted[j] /\ buckets'[j] = buckets[j]
      BY <1>4, <1>6, <1>14
    <2>2. QED
      BY <1>1, <2>1
      DEF IndInv, LogSorted, WindowInLog, PreviousWindow, RefusalWindow, WindowIndex
  <1>15. SlidingBudget'
    <2> SUFFICES ASSUME NEW j \in Identity, NEW k \in 1..Len(granted'[j]),
                        k + 2 * C <= Len(granted'[j])
                 PROVE  granted'[j][k] + W <= granted'[j][k + 2 * C]
      BY DEF SlidingBudget
    <2>1. CASE j # i
      BY <1>6, <2>1 DEF IndInv, SlidingBudget
    <2>2. CASE j = i /\ k + 2 * C <= n
      <3>1. k \in 1..n /\ k + 2 * C \in 1..n
        BY <1>1, <1>6, <2>2
      <3>2. granted[i][k] + W <= granted[i][k + 2 * C]
        BY <2>2, <3>1 DEF IndInv, SlidingBudget
      <3>3. QED
        BY <1>6, <2>2, <3>1, <3>2
    <2>3. CASE j = i /\ k + 2 * C = n + 1
      <3>1. k \in 1..n /\ k + C <= Wx
        <4>1. k \in Nat /\ k >= 1 /\ k + 2 * C = n + 1
          BY <2>3
        <4>2. QED
          BY <1>N, <1>W, <4>1
      <3>2. granted[i][k] + W <= b.start
        BY <1>10, <3>1
      <3>3. /\ granted'[i][k] = granted[i][k] /\ granted[i][k] \in Nat
            /\ granted'[i][k + 2 * C] = clock
        BY <1>6, <2>3, <3>1
      <3>4. b.start <= clock
        BY <1>10
      <3>5. granted[i][k] + W <= clock
        BY <1>N, <1>S, <3>2, <3>3, <3>4
      <3>6. QED
        BY <2>3, <3>3, <3>5
    <2>4. QED
      <3>1. j = i => k + 2 * C <= n + 1 /\ k \in Nat
        BY <1>1, <1>6
      <3>2. j = i => k + 2 * C <= n \/ k + 2 * C = n + 1
        BY <1>1, <3>1
      <3>3. QED
        BY <2>1, <2>2, <2>3, <3>2
  <1>16. RefusalJustified'
    <2> SUFFICES ASSUME NEW j \in Identity, refused[j].retry # 0
                 PROVE  \E k \in 1..Len(granted'[j]) :
                          /\ k + C - 1 <= Len(granted'[j])
                          /\ granted'[j][k + C - 1] <= refused[j].at
                          /\ refused[j].at < granted'[j][k] + W
                          /\ refused[j].at + refused[j].retry = granted'[j][k] + W
      BY <1>1 DEF RefusalJustified
    <2>1. PICK k \in 1..Len(granted[j]) :
                          /\ k + C - 1 <= Len(granted[j])
                          /\ granted[j][k + C - 1] <= refused[j].at
                          /\ refused[j].at < granted[j][k] + W
                          /\ refused[j].at + refused[j].retry = granted[j][k] + W
      BY DEF IndInv, RefusalJustified
    <2>2. CASE j # i
      BY <1>6, <2>1, <2>2
    <2>3. CASE j = i
      <3>1. k \in 1..n /\ k + C - 1 \in 1..n /\ k \in 1..n + 1 /\ k + C - 1 <= n + 1
        BY <1>1, <2>1, <2>3
      <3>2. granted'[i][k] = granted[i][k] /\ granted'[i][k + C - 1] = granted[i][k + C - 1]
        BY <1>6, <3>1
      <3>3. QED
        BY <1>6, <2>1, <2>3, <3>1, <3>2
    <2>4. QED
      BY <2>2, <2>3
  <1>17. QED
    BY <1>7, <1>9, <1>11, <1>12, <1>13, <1>14, <1>15, <1>16 DEF IndInv

-----------------------------------------------------------------------------
(* Every call of `check`, and the passing of time, keeps the invariant. *)
LEMMA StepIndInv == IndInv /\ [Next]_vars => IndInv'
  <1>1. ASSUME IndInv, UNCHANGED vars PROVE IndInv'
    BY <1>1 DEF vars, IndInv, TypeOK, Bucket, LogSorted, WindowInLog, PreviousWindow,
                RefusalWindow, WindowIndex, SlidingBudget, RefusalJustified
  <1>2. QED
    BY <1>1, TickIndInv, CheckOkIndInv, CheckErrIndInv DEF Next

(* The inductive invariant holds in every state the limiter reaches. *)
THEOREM Invariance == Spec => []IndInv
  BY InitIndInv, StepIndInv, PTL DEF Spec

(* RateLimiter::check keeps the types of its map: `tokens` is in           *)
(* 0..capacity, whatever the capacity and the window.                      *)
THEOREM Typing == Spec => []TypeOK
  <1>1. IndInv => TypeOK
    BY DEF IndInv
  <1>2. QED
    BY <1>1, Invariance, PTL

(* RateLimiter::check never grants more than 2 * capacity requests of one  *)
(* identity within less than a window.                                     *)
THEOREM BudgetHolds == Spec => []SlidingBudget
  <1>1. IndInv => SlidingBudget
    BY DEF IndInv
  <1>2. QED
    BY <1>1, Invariance, PTL

(* RateLimiter::check refuses only an identity that used up its capacity   *)
(* within the last window, and reports the exact wait.                     *)
THEOREM RefusalsHold == Spec => []RefusalJustified
  <1>1. IndInv => RefusalJustified
    BY DEF IndInv
  <1>2. QED
    BY <1>1, Invariance, PTL

(* Waiting for retry_after is enough to get the whole budget back.         *)
THEOREM RetryHolds == Spec => []RetryIsEnough
  <1>1. IndInv => RetryIsEnough
    <2> SUFFICES ASSUME IndInv, NEW i \in Identity,
                        refused[i].retry # 0,
                        refused[i].at + refused[i].retry <= clock,
                        \A k \in 1..Len(granted[i]) : granted[i][k] <= refused[i].at
                 PROVE  BucketAt(i, clock).tokens = Capacity
      BY DEF RetryIsEnough
    <2>1. /\ TypeOK /\ buckets[i] # NoBucket /\ buckets[i] \in Bucket
          /\ granted[i] \in Seq(Nat)
      BY DEF IndInv, WindowInLog, TypeOK
    <2>2. /\ buckets[i].start \in Nat /\ buckets[i].tokens \in 0..Capacity
          /\ clock \in Nat /\ Len(granted[i]) \in Nat
          /\ refused[i].at \in Nat /\ refused[i].retry \in Nat
      BY <2>1 DEF TypeOK, Bucket
    <2>3. /\ buckets[i].tokens < Capacity /\ WindowIndex(i) >= 1
          /\ granted[i][WindowIndex(i)] = buckets[i].start
      BY <2>1 DEF IndInv, WindowInLog
    <2>4. WindowIndex(i) \in 1..Len(granted[i])
      BY <2>2, <2>3, ClampFacts DEF WindowIndex
    <2>5. buckets[i].start <= refused[i].at
      BY <2>3, <2>4
    <2>6. buckets[i].start + WindowSecs = refused[i].at + refused[i].retry
      <3>1. \/ buckets[i].start + WindowSecs = refused[i].at + refused[i].retry
            \/ buckets[i].start >= refused[i].at + refused[i].retry
        BY DEF IndInv, RefusalWindow
      <3>2. QED
        BY <2>2, <2>5, <3>1
    <2>7. ~(clock < buckets[i].start + WindowSecs)
      BY <2>2, <2>6, ClampFacts
    <2>8. BucketAt(i, clock) = FreshBucket(clock)
      BY <2>1, <2>7, BucketCases
    <2>9. QED
      BY <2>8 DEF FreshBucket
  <1>2. QED
    BY <1>1, Invariance, PTL
=============================================================================
