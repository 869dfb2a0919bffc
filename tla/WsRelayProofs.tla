--------------------------- MODULE WsRelayProofs ---------------------------
(***************************************************************************)
(* The properties of WsRelay for every set of connections and identities,  *)
(* every time to live and every bound, and its two stores as RelayStores.  *)
(*                                                                         *)
(* The argument: a payload has one owner at a time.  Until its fate is     *)
(* settled it belongs to the one task whose request carried it             *)
(* (PayloadInv, OneCarrier), then to the slot of its operation and         *)
(* recipient, then to the response of the task that took it (AtMostOnce).  *)
(* A challenge likewise passes from the active set to the one payload it   *)
(* paid for (PaidInv).  Numbers not yet given out are untouched            *)
(* (UnusedInv), so that the next frame cannot meet an old payload.         *)
(***************************************************************************)
EXTENDS WsStores, TLAPS

(* Most steps are first-order; the ones that name SMT are not. *)
USE Zenon

Working == {"limiting", "issuing", "proving", "decoding", "inserting", "taking"}

Unsettled == {"limiting", "proving", "decoding", "inserting"}

(* The request of c has a payload. *)
Carries(c) == req[c] # Nothing /\ req[c].op \in WriteOp

(* What a task holds at each of its steps. *)
TaskInv(c) ==
    /\ pc[c] \in {"closed", "idle"} => req[c] = Nothing
    /\ pc[c] \in Working => req[c] # Nothing
    /\ pc[c] = "issuing" => req[c].op = "challenge"
    /\ pc[c] \in {"proving", "decoding", "inserting"} => req[c].op \in WriteOp
    /\ pc[c] = "taking" => req[c].op \in ReadOp
    /\ pc[c] # "replying" => resp[c] = Silent
    /\ resp[c].kind = "data" => resp[c].msg \in Msg

(* The payload of a request arrived with it, and is undecided until the    *)
(* handler returns; verify_pow comes before the decoding.                  *)
PayloadInv(c) ==
    Carries(c) =>
        /\ req[c].msg \in 1..arrived
        /\ origin[req[c].msg] = [op |-> req[c].op, id |-> req[c].id]
        /\ pc[c] \in Unsettled => fate[req[c].msg] = "arrived"
        /\ pc[c] \in {"decoding", "inserting"} => paid[req[c].msg] # 0

OneCarrier ==
    \A c, d \in Conn : Carries(c) /\ Carries(d) /\ req[c].msg = req[d].msg => c = d

(* FailClosed, for one connection. *)
ToldInv(c) ==
    pc[c] = "replying" /\ Carries(c) =>
        /\ resp[c].kind = "error" => fate[req[c].msg] = "rejected"
        /\ resp[c].kind = "ok" => fate[req[c].msg] \in Stored

UnusedInv ==
    \A m \in Msg : m > arrived => origin[m] = Nothing /\ fate[m] = "new" /\ calledAt[m] = 0

PaidInv ==
    /\ challenges \subseteq 1..issued
    /\ \A m \in Msg : paid[m] # 0 => paid[m] \in (1..issued) \ challenges
    /\ \A m \in Msg : fate[m] \in Stored => paid[m] # 0
    /\ \A m, n \in Msg : paid[m] # 0 /\ paid[m] = paid[n] => m = n

(* The three parts of AtMostOnce: the types, ... *)
TaskTypes ==
    /\ pc \in [Conn -> Step]
    /\ req \in [Conn -> Request \cup {Nothing}]
    /\ now \in [Conn -> Nat]
    /\ resp \in [Conn -> Response]

WorldTypes ==
    /\ split \subseteq Identity
    /\ clock \in Nat
    /\ buckets \in [Identity -> Limiter!Bucket \cup {NoBucket}]
    /\ challenges \subseteq ChallengeId /\ issued \in Nat
    /\ store \in [Identity -> Envelopes!Slot \cup {Nothing}]
    /\ prekeys \in [Identity -> Prekeys!Slot \cup {Nothing}]
    /\ arrived \in 0..MaxMsg
    /\ origin \in [Msg -> Origin \cup {Nothing}]
    /\ paid \in [Msg -> ChallengeId \cup {0}]
    /\ calledAt \in [Msg -> Nat]
    /\ fate \in [Msg -> Fate]

(* ... the boxes, with the operation that fills them as their name ... *)
Box(op) == IF op = "publish_prekey" THEN prekeys ELSE store

Lies(op, i, m) == Box(op)[i] # Nothing /\ Box(op)[i].envelope = m

BoxInv ==
    /\ \A m \in Msg : fate[m] = "held" <=> \E op \in WriteOp, i \in Identity : Lies(op, i, m)
    /\ \A op \in WriteOp, i \in Identity : \A m \in Msg :
         Lies(op, i, m) => origin[m] = [op |-> op, id |-> i]

(* ... and the responses. *)
Shows(c, m) == resp[c].kind = "data" /\ resp[c].msg = m

ResponseInv ==
    /\ \A m \in Msg : fate[m] = "taken" <=> \E c \in Conn : Shows(c, m)
    /\ \A c, d \in Conn : \A m \in Msg : Shows(c, m) /\ Shows(d, m) => c = d

IndInv ==
    /\ TaskTypes /\ WorldTypes /\ BoxInv /\ ResponseInv
    /\ \A c \in Conn : TaskInv(c) /\ PayloadInv(c) /\ ToldInv(c)
    /\ OneCarrier /\ UnusedInv /\ PaidInv

-----------------------------------------------------------------------------
(* The constants of WsRelay as the proofs use them. *)
LEMMA ConstantFacts ==
    /\ MaxMsg \in Nat /\ MaxClock \in Nat
    /\ PrekeyTTL \in Nat /\ EnvelopeTTL \in Nat
    /\ Nothing \notin Request /\ Nothing \notin Origin
    /\ Nothing \notin Envelopes!Slot /\ Nothing \notin Prekeys!Slot
    /\ Msg \subseteq Nat
  BY WsAssumption, SMT DEF Msg, Envelopes!Slot, Prekeys!Slot

(* Payloads are numbered as they arrive. *)
LEMMA ArrivedNat ==
    ASSUME IndInv
    PROVE  arrived \in Nat
  BY ConstantFacts, SMT DEF IndInv, WorldTypes

(* The inductive invariant implies the properties of handle_request that   *)
(* the run checks.                                                         *)
LEMMA InvariantImplies ==
    IndInv => PaidOnce /\ AtMostOnce /\ FailClosed
  <1> SUFFICES ASSUME IndInv
               PROVE  PaidOnce /\ AtMostOnce /\ FailClosed
    OBVIOUS
  <1>1. PaidOnce
    BY DEF IndInv, PaidInv, PaidOnce
  <1>2. TypeOK
    BY DEF IndInv, TaskTypes, WorldTypes, TypeOK
  <1>3. \A c, d \in Conn :
          resp[c].kind = "data" /\ resp[d].kind = "data" /\ resp[c].msg = resp[d].msg => c = d
    BY DEF IndInv, TaskInv, ResponseInv, Shows
  <1>4. \A m \in Msg : InBox(m) <=> \E op \in WriteOp, i \in Identity : Lies(op, i, m)
    BY DEF InBox, Lies, Box, WriteOp
  <1>5. ASSUME NEW i \in Identity
        PROVE  /\ store[i] # Nothing =>
                    origin[store[i].envelope] = [op |-> "send_envelope", id |-> i]
               /\ prekeys[i] # Nothing =>
                    origin[prekeys[i].envelope] = [op |-> "publish_prekey", id |-> i]
    <2>1. /\ store[i] # Nothing => store[i].envelope \in Msg
          /\ prekeys[i] # Nothing => prekeys[i].envelope \in Msg
      BY DEF IndInv, WorldTypes, Envelopes!Slot, Prekeys!Slot
    <2>2. \A op \in WriteOp : \A m \in Msg : Lies(op, i, m) => origin[m] = [op |-> op, id |-> i]
      BY DEF IndInv, BoxInv
    <2>3. QED
      BY <2>1, <2>2 DEF Lies, Box, WriteOp
  <1>6. AtMostOnce
    BY <1>2, <1>3, <1>4, <1>5 DEF IndInv, BoxInv, ResponseInv, Shows, AtMostOnce
  <1>7. FailClosed
    BY DEF IndInv, ToldInv, Carries, FailClosed
  <1>8. QED
    BY <1>1, <1>6, <1>7

(* No connection and no payload exists at first. *)
LEMMA InitEstablishes ==
    Init => IndInv
  <1> SUFFICES ASSUME Init
               PROVE  IndInv
    OBVIOUS
  <1> USE DEF Init
  <1>1. TaskTypes
    BY ConstantFacts, SMT DEF TaskTypes, Step, Response, Silent
  <1>2. WorldTypes
    BY ConstantFacts, SMT DEF WorldTypes, Fate
  <1>3. BoxInv
    BY DEF BoxInv, Lies, Box
  <1>4. ResponseInv
    BY DEF ResponseInv, Shows, Silent
  <1>5. \A c \in Conn : TaskInv(c) /\ PayloadInv(c) /\ ToldInv(c)
    BY DEF TaskInv, PayloadInv, ToldInv, Carries, Working, Silent
  <1>6. OneCarrier /\ UnusedInv
    BY DEF OneCarrier, Carries, UnusedInv
  <1>7. PaidInv
    BY DEF PaidInv, Stored
  <1>8. QED
    BY <1>1, <1>2, <1>3, <1>4, <1>5, <1>6, <1>7 DEF IndInv

-----------------------------------------------------------------------------
(* What a step of the task of c leaves alone. *)
Others(c) ==
    \A d \in Conn : d # c => pc'[d] = pc[d] /\ req'[d] = req[d] /\ resp'[d] = resp[d]

(* The task of c is over ... *)
Ended(c) == pc'[c] = "closed" /\ req'[c] = Nothing /\ resp'[c] = Silent

(* ... or its handler has returned. *)
Returned(c, kind, m) ==
    pc'[c] = "replying" /\ req'[c] = req[c] /\ resp'[c] = [kind |-> kind, msg |-> m]

Kind == {"none", "ok", "challenge", "data", "error", "badframe"}

(* What the end of a task does to its state. *)
LEMMA EndTaskEffect ==
    ASSUME TaskTypes, NEW c \in Conn, EndTask(c)
    PROVE  TaskTypes' /\ Others(c) /\ Ended(c)
  <1>1. Silent \in Response
    BY ConstantFacts, SMT DEF Silent, Response
  <1>2. QED
    BY <1>1 DEF TaskTypes, EndTask, Goto, Others, Ended, Step

(* What a response does to the state of its task. *)
LEMMA ReturnEffect ==
    ASSUME TaskTypes, NEW c \in Conn, NEW kind \in Kind, NEW m \in 0..MaxMsg,
           Return(c, kind, m), UNCHANGED <<req, now>>
    PROVE  TaskTypes' /\ Others(c) /\ Returned(c, kind, m)
  <1>1. [kind |-> kind, msg |-> m] \in Response
    BY DEF Response, Kind
  <1>2. QED
    BY <1>1 DEF TaskTypes, Return, Goto, Others, Returned, Step

(* The same for a response that is logged. *)
LEMMA LogAndReturnEffect ==
    ASSUME TaskTypes, NEW c \in Conn, NEW kind \in Kind, LogAndReturn(c, kind, 0)
    PROVE  TaskTypes' /\ Others(c) /\ (Ended(c) \/ Returned(c, kind, 0))
  <1>1. 0 \in 0..MaxMsg
    BY ConstantFacts, SMT
  <1>2. CASE EndTask(c)
    BY <1>2, EndTaskEffect
  <1>3. CASE Return(c, kind, 0) /\ UNCHANGED <<req, now>>
    BY <1>1, <1>3, ReturnEffect
  <1>4. QED
    BY <1>2, <1>3 DEF LogAndReturn

(* What going on to the next step does. *)
LEMMA GotoEffect ==
    ASSUME TaskTypes, NEW c \in Conn, NEW step \in Step, Goto(c, step), UNCHANGED <<req, now, resp>>
    PROVE  TaskTypes' /\ Others(c) /\ pc'[c] = step /\ req'[c] = req[c] /\ resp'[c] = resp[c]
  BY DEF TaskTypes, Goto, Others

-----------------------------------------------------------------------------
(* A step of the task of c keeps what the payloads of the others rely on:  *)
(* undecided and rejected payloads stay so unless c carries them, stored   *)
(* ones stay stored, and c carries its own payload or a new one.           *)
Separate(c) ==
    /\ arrived \in Nat /\ arrived' \in Nat /\ arrived <= arrived'
    /\ \A m \in 1..arrived : origin'[m] = origin[m] /\ (paid[m] # 0 => paid'[m] # 0)
    /\ \A m \in Msg : fate[m] \in {"arrived", "rejected"} =>
          \/ fate'[m] = fate[m]
          \/ Carries(c) /\ m = req[c].msg
    /\ \A m \in Msg : fate[m] \in Stored => fate'[m] \in Stored
    /\ Carries(c)' => \/ Carries(c) /\ req'[c].msg = req[c].msg
                      \/ req'[c].msg \in Nat /\ req'[c].msg > arrived

(* The tasks that do not move keep their invariant. *)
LEMMA TasksPreserved ==
    ASSUME IndInv, NEW c \in Conn, Others(c), Separate(c),
           TaskInv(c)', PayloadInv(c)', ToldInv(c)'
    PROVE  /\ \A d \in Conn : TaskInv(d)' /\ PayloadInv(d)' /\ ToldInv(d)'
           /\ OneCarrier'
  <1>1. arrived \in 0..MaxMsg /\ MaxMsg \in Nat
    BY ConstantFacts DEF IndInv, WorldTypes
  <1>2. ASSUME NEW d \in Conn, d # c
        PROVE  TaskInv(d)'
    <2>1. TaskInv(d) /\ pc'[d] = pc[d] /\ req'[d] = req[d] /\ resp'[d] = resp[d]
      BY <1>2 DEF IndInv, Others
    <2>2. QED
      BY <2>1 DEF TaskInv, Msg
  <1>3. ASSUME NEW d \in Conn, d # c, Carries(d)
        PROVE  /\ req[d].msg \in 1..arrived /\ req[d].msg \in Msg
               /\ ~(Carries(c) /\ req[d].msg = req[c].msg)
    <2>1. req[d].msg \in 1..arrived
      BY <1>3 DEF IndInv, PayloadInv
    <2>2. ~(Carries(c) /\ req[d].msg = req[c].msg)
      BY <1>3 DEF IndInv, OneCarrier
    <2>3. QED
      BY <1>1, <2>1, <2>2, SMT DEF Msg
  <1>4. ASSUME NEW d \in Conn, d # c
        PROVE  PayloadInv(d)' /\ ToldInv(d)'
    <2>1. PayloadInv(d) /\ ToldInv(d) /\ pc'[d] = pc[d] /\ req'[d] = req[d] /\ resp'[d] = resp[d]
      BY <1>4 DEF IndInv, Others
    <2>2. CASE ~Carries(d)
      BY <2>1, <2>2 DEF PayloadInv, ToldInv, Carries
    <2>3. CASE Carries(d)
      <3> DEFINE m == req[d].msg
      <3>1. m \in 1..arrived /\ m \in Msg /\ ~(Carries(c) /\ m = req[c].msg)
        BY <1>3, <1>4, <2>3
      <3>2. m \in 1..arrived'
        BY <3>1, SMT DEF Separate
      <3>3. origin'[m] = origin[m] /\ (paid[m] # 0 => paid'[m] # 0)
        BY <3>1 DEF Separate
      <3>4. /\ fate[m] \in {"arrived", "rejected"} => fate'[m] = fate[m]
            /\ fate[m] \in Stored => fate'[m] \in Stored
        BY <3>1 DEF Separate
      <3>5. PayloadInv(d)'
        BY <2>1, <2>3, <3>2, <3>3, <3>4 DEF PayloadInv, Carries
      <3>6. ToldInv(d)'
        BY <2>1, <2>3, <3>4 DEF ToldInv, Carries
      <3>7. QED
        BY <3>5, <3>6
    <2>4. QED
      BY <2>2, <2>3
  <1>5. ASSUME NEW d \in Conn, d # c, Carries(d)', Carries(c)', req'[c].msg = req'[d].msg
        PROVE  FALSE
    <2>1. Carries(d) /\ req'[d] = req[d]
      BY <1>5 DEF Others, Carries
    <2>2. req[d].msg \in 1..arrived /\ ~(Carries(c) /\ req[d].msg = req[c].msg)
      BY <1>3, <1>5, <2>1
    <2>3. QED
      BY <1>1, <1>5, <2>1, <2>2, SMT DEF Separate
  <1>6. ASSUME NEW d \in Conn, NEW e \in Conn, d # c, e # c,
               Carries(d)', Carries(e)', req'[d].msg = req'[e].msg
        PROVE  d = e
    BY <1>6 DEF IndInv, OneCarrier, Others, Carries
  <1>7. OneCarrier'
    BY <1>5, <1>6 DEF OneCarrier
  <1>8. QED
    BY <1>2, <1>4, <1>7

-----------------------------------------------------------------------------
(* The responses: c may drop what it shows, and show what nobody shows. *)
Replaces(c) ==
    \A m \in Msg :
        /\ fate'[m] = "taken" <=> (fate[m] = "taken" /\ ~Shows(c, m)) \/ Shows(c, m)'
        /\ Shows(c, m)' => fate[m] # "taken" \/ Shows(c, m)

(* The responses that stay show what they showed. *)
LEMMA ResponsesPreserved ==
    ASSUME ResponseInv, NEW c \in Conn, Others(c), Replaces(c)
    PROVE  ResponseInv'
  <1>1. \A d \in Conn : d # c => \A m \in Msg : Shows(d, m)' <=> Shows(d, m)
    BY DEF Others, Shows
  <1>2. ASSUME NEW m \in Msg
        PROVE  (fate'[m] = "taken") <=> \E d \in Conn : Shows(d, m)'
    <2>1. CASE Shows(c, m)'
      BY <2>1 DEF Replaces
    <2>2. CASE ~Shows(c, m)'
      <3>1. (fate'[m] = "taken") <=> (fate[m] = "taken" /\ ~Shows(c, m))
        BY <2>2 DEF Replaces
      <3>2. (fate[m] = "taken") <=> \E d \in Conn : Shows(d, m)
        BY DEF ResponseInv
      <3>3. \A d, e \in Conn : Shows(d, m) /\ Shows(e, m) => d = e
        BY DEF ResponseInv
      <3>4. QED
        BY <1>1, <2>2, <3>1, <3>2, <3>3
    <2>3. QED
      BY <2>1, <2>2
  <1>3. ASSUME NEW d \in Conn, NEW m \in Msg, d # c, Shows(d, m)', Shows(c, m)'
        PROVE  FALSE
    <2>1. Shows(d, m)
      BY <1>1, <1>3
    <2>2. fate[m] = "taken"
      BY <2>1 DEF ResponseInv
    <2>3. Shows(c, m)
      BY <1>3, <2>2 DEF Replaces
    <2>4. QED
      BY <1>3, <2>1, <2>3 DEF ResponseInv
  <1>4. ASSUME NEW d \in Conn, NEW e \in Conn, NEW m \in Msg, Shows(d, m)', Shows(e, m)'
        PROVE  d = e
    <2>1. CASE d # c /\ e # c
      BY <1>1, <1>4, <2>1 DEF ResponseInv
    <2>2. CASE d = c \/ e = c
      BY <1>3, <1>4, <2>2
    <2>3. QED
      BY <2>1, <2>2
  <1>5. QED
    BY <1>2, <1>4 DEF ResponseInv, Shows

(* The challenges: nothing is paid, and no challenge comes back. *)
LEMMA PaidPreserved ==
    ASSUME PaidInv, paid' = paid, issued \in Nat, issued' \in Nat, issued <= issued',
           challenges' \subseteq 1..issued',
           \A k \in 1..issued : k \in challenges' => k \in challenges,
           \A m \in Msg : fate'[m] \in Stored => fate[m] \in Stored \/ paid[m] # 0
    PROVE  PaidInv'
  BY SMT DEF PaidInv, Msg, Stored

(* The boxes: no payload enters or leaves. *)
LEMMA BoxesPreserved ==
    ASSUME BoxInv, UNCHANGED <<store, prekeys>>,
           \A m \in Msg : (fate'[m] = "held") <=> (fate[m] = "held"),
           \A m \in Msg : fate[m] = "held" => origin'[m] = origin[m]
    PROVE  BoxInv'
  <1>1. \A op \in WriteOp, i \in Identity : \A m \in Msg : Lies(op, i, m)' <=> Lies(op, i, m)
    BY DEF Lies, Box
  <1>2. QED
    BY <1>1 DEF BoxInv, Msg

(* The parts of the invariant put together, for a step of the task of c. *)
LEMMA Assembled ==
    ASSUME IndInv, NEW c \in Conn, Others(c), Separate(c), TaskTypes', WorldTypes',
           TaskInv(c)', PayloadInv(c)', ToldInv(c)',
           BoxInv', ResponseInv', UnusedInv', PaidInv'
    PROVE  IndInv'
  <1>1. /\ \A d \in Conn : TaskInv(d)' /\ PayloadInv(d)' /\ ToldInv(d)'
        /\ OneCarrier'
    BY TasksPreserved
  <1>2. QED
    BY <1>1 DEF IndInv

(* A step that decides nothing about any payload. *)
LEMMA QuietStep ==
    ASSUME IndInv, NEW c \in Conn, Others(c), TaskTypes', WorldTypes',
           UNCHANGED <<store, prekeys, arrived, origin, paid, fate>>,
           TaskInv(c)', PayloadInv(c)', ToldInv(c)',
           Carries(c)' => Carries(c) /\ req'[c].msg = req[c].msg,
           resp[c].kind # "data", resp'[c].kind # "data",
           UnusedInv', PaidInv'
    PROVE  IndInv'
  <1>1. Separate(c)
    BY ArrivedNat, SMT DEF Separate
  <1>2. BoxInv'
    BY BoxesPreserved DEF IndInv
  <1>3. ResponseInv'
    <2>1. \A m \in Msg : ~Shows(c, m) /\ ~Shows(c, m)'
      BY DEF Shows
    <2>2. QED
      BY <2>1, ResponsesPreserved DEF IndInv, Replaces
  <1>4. QED
    BY <1>1, <1>2, <1>3, Assembled

(* The limiter's answers keep the type of its map; a window is kept or     *)
(* replaced by one that starts after its end, whatever the `now` passed.   *)
LEMMA LimiterStep ==
    ASSUME buckets \in [Identity -> Limiter!Bucket \cup {NoBucket}],
           NEW j \in Identity, NEW t \in Nat,
           Limiter!Admit(j, t) \/ Limiter!Exceeded(j, t)
    PROVE  /\ buckets' \in [Identity -> Limiter!Bucket \cup {NoBucket}]
           /\ \A i \in Identity : buckets[i] # NoBucket =>
                \/ buckets'[i].start = buckets[i].start
                \/ buckets'[i].start >= buckets[i].start + Limiter!WindowSecs
  <1> DEFINE b == Limiter!BucketAt(j, t)
  <1>1. Limiter!Capacity \in Nat /\ Limiter!WindowSecs \in Nat /\ Limiter!WindowSecs >= 1
    BY WsAssumption, SMT DEF Limiter!Capacity, Limiter!WindowSecs
  <1>2. Limiter!FreshBucket(t) \in Limiter!Bucket /\ Limiter!FreshBucket(t).start = t
    BY <1>1, SMT DEF Limiter!FreshBucket, Limiter!Bucket
  <1>3. buckets[j] # NoBucket => buckets[j] \in Limiter!Bucket /\ buckets[j].start \in Nat
    BY DEF Limiter!Bucket
  <1>4. b \in Limiter!Bucket
    BY <1>2, <1>3 DEF Limiter!BucketAt, Limiter!Rolled
  <1>5. buckets[j] # NoBucket =>
          b.start = buckets[j].start \/ b.start >= buckets[j].start + Limiter!WindowSecs
    BY <1>1, <1>2, <1>3, SMT DEF Limiter!BucketAt, Limiter!Rolled, Limiter!Elapsed
  <1> HIDE DEF b
  <1>6. PICK n \in 0..Limiter!Capacity :
          buckets' = [buckets EXCEPT ![j] = [tokens |-> n, start |-> b.start]]
    <2>1. CASE Limiter!Exceeded(j, t)
      <3>1. b = [tokens |-> b.tokens, start |-> b.start] /\ b.tokens \in 0..Limiter!Capacity
        BY <1>4 DEF Limiter!Bucket
      <3>2. buckets' = [buckets EXCEPT ![j] = b]
        BY <2>1 DEF Limiter!Exceeded, b
      <3>3. QED
        BY <3>1, <3>2
    <2>2. CASE Limiter!Admit(j, t)
      <3>1. b.tokens # 0 /\ buckets' = [buckets EXCEPT ![j] = [b EXCEPT !.tokens = b.tokens - 1]]
        BY <2>2 DEF Limiter!Admit, b
      <3>2. b.tokens - 1 \in 0..Limiter!Capacity
        BY <1>1, <1>4, <3>1, SMT DEF Limiter!Bucket
      <3>3. [b EXCEPT !.tokens = b.tokens - 1] = [tokens |-> b.tokens - 1, start |-> b.start]
        BY <1>4, SMT DEF Limiter!Bucket
      <3>4. QED
        BY <3>1, <3>2, <3>3
    <2>3. QED
      BY <2>1, <2>2
  <1>7. [tokens |-> n, start |-> b.start] \in Limiter!Bucket
    BY <1>4 DEF Limiter!Bucket
  <1>8. buckets' \in [Identity -> Limiter!Bucket \cup {NoBucket}]
    BY <1>6, <1>7
  <1>9. buckets'[j].start = b.start /\ \A i \in Identity : i # j => buckets'[i] = buckets[i]
    BY <1>6
  <1>10. QED
    BY <1>5, <1>8, <1>9

-----------------------------------------------------------------------------
(* A task that is not replying shows nothing. *)
LEMMA NotReplying ==
    ASSUME IndInv, NEW c \in Conn, pc[c] # "replying"
    PROVE  resp[c] = Silent /\ resp[c].kind # "data"
  BY SMT DEF IndInv, TaskInv, Silent

(* What the actions that leave the shared state alone have in common. *)
LEMMA WorldUnchanged ==
    ASSUME IndInv, UNCHANGED <<split, clock, buckets, challenges, issued, store, prekeys,
                               arrived, origin, paid, calledAt, fate>>
    PROVE  WorldTypes' /\ UnusedInv' /\ PaidInv'
  <1>1. WorldTypes'
    BY DEF IndInv, WorldTypes
  <1>2. UnusedInv'
    BY DEF IndInv, UnusedInv, Msg
  <1>3. PaidInv'
    BY DEF IndInv, PaidInv, Msg
  <1>4. QED
    BY <1>1, <1>2, <1>3

(* A payload that a request carries is one that has arrived. *)
LEMMA Carried ==
    ASSUME IndInv, NEW c \in Conn, Carries(c)
    PROVE  /\ req[c].msg \in Msg /\ req[c].msg <= arrived
           /\ pc[c] \in Unsettled => fate[req[c].msg] = "arrived"
  <1>1. arrived \in 0..MaxMsg /\ PayloadInv(c)
    BY DEF IndInv, WorldTypes
  <1>2. req[c].msg \in 1..arrived /\ (pc[c] \in Unsettled => fate[req[c].msg] = "arrived")
    BY <1>1 DEF PayloadInv
  <1>3. QED
    BY <1>1, <1>2, ConstantFacts, SMT DEF Msg

-----------------------------------------------------------------------------
(* A task that works on a request has one, and shows nothing. *)
LEMMA Serving ==
    ASSUME IndInv, NEW c \in Conn, pc[c] \in Working
    PROVE  /\ req[c] \in Request /\ req[c] # Nothing /\ req[c].id \in Identity
           /\ now[c] \in Nat
           /\ \A m \in Msg : ~Shows(c, m)
  <1>1. req[c] \in Request /\ req[c] # Nothing /\ now[c] \in Nat
    BY DEF IndInv, TaskInv, TaskTypes
  <1>2. resp[c].kind # "data"
    BY NotReplying DEF Working
  <1>3. QED
    BY <1>1, <1>2 DEF Request, Shows

(* The handler of c returns without a payload, or its task ends. *)
LEMMA HandlerReturns ==
    ASSUME IndInv, NEW c \in Conn, pc[c] \in Working, UNCHANGED <<arrived, origin>>,
           NEW kind \in {"ok", "error"}, Ended(c) \/ Returned(c, kind, 0)
    PROVE  /\ TaskInv(c)' /\ PayloadInv(c)'
           /\ Carries(c)' => Carries(c) /\ req'[c] = req[c]
           /\ \A m \in Msg : ~Shows(c, m)'
  <1>1. CASE Ended(c)
    <2>1. TaskInv(c)' /\ ~Carries(c)'
      BY <1>1, SMT DEF Ended, TaskInv, Carries, Working, Silent
    <2>2. \A m \in Msg : ~Shows(c, m)'
      BY <1>1, SMT DEF Ended, Shows, Silent
    <2>3. QED
      BY <2>1, <2>2 DEF PayloadInv
  <1>2. CASE Returned(c, kind, 0)
    <2>1. pc'[c] = "replying" /\ req'[c] = req[c] /\ resp'[c].kind = kind /\ kind # "data"
      BY <1>2, SMT DEF Returned
    <2>2. TaskInv(c)' /\ \A m \in Msg : ~Shows(c, m)'
      BY <2>1 DEF TaskInv, Working, Shows
    <2>3. PayloadInv(c)
      BY DEF IndInv
    <2>4. PayloadInv(c)' /\ (Carries(c)' => Carries(c))
      BY <2>1, <2>3 DEF PayloadInv, Carries, Unsettled
    <2>5. QED
      BY <2>1, <2>2, <2>4
  <1>3. QED
    BY <1>1, <1>2

(* How a step of the task of c may change what became of the payloads: a   *)
(* stored one stays stored; another one changes only in the hands of c,    *)
(* and is stored only when it was paid for.                                *)
Settles(c) ==
    \A m \in Msg :
        \/ fate'[m] = fate[m]
        \/ fate[m] \in Stored /\ fate'[m] \in Stored
        \/ Carries(c) /\ m = req[c].msg /\ fate[m] \notin Stored
           /\ (fate'[m] \in Stored => paid[m] # 0)

(* What the step does besides. *)
SameCarrier(c) ==
    /\ Carries(c)' => Carries(c) /\ req'[c] = req[c]
    /\ UNCHANGED <<issued, arrived, origin, paid, calledAt>>
    /\ challenges' \subseteq challenges

(* A step of one task that touches no other task's payload. *)
LEMMA SettleStep ==
    ASSUME IndInv, NEW c \in Conn, Others(c), TaskTypes', WorldTypes',
           TaskInv(c)', PayloadInv(c)', ToldInv(c)',
           SameCarrier(c), Settles(c), BoxInv', ResponseInv'
    PROVE  IndInv'
  <1>1. arrived \in Nat /\ issued \in Nat /\ challenges' \subseteq 1..issued
    BY ArrivedNat DEF IndInv, WorldTypes, PaidInv, SameCarrier
  <1>2. /\ \A m \in Msg : fate[m] \in Stored => fate'[m] \in Stored
        /\ \A m \in Msg : fate'[m] \in Stored => fate[m] \in Stored \/ paid[m] # 0
    BY DEF Settles
  <1>3. \A m \in Msg : fate[m] \in {"arrived", "rejected"} =>
           fate'[m] = fate[m] \/ (Carries(c) /\ m = req[c].msg)
    BY DEF Settles, Stored
  <1>4. Separate(c)
    BY <1>1, <1>2, <1>3, SMT DEF Separate, SameCarrier
  <1>5. UnusedInv'
    <2>1. ASSUME NEW m \in Msg, m > arrived, Carries(c), m = req[c].msg
          PROVE  FALSE
      <3>1. m <= arrived
        BY <2>1, Carried
      <3>2. m \in Nat
        BY ConstantFacts
      <3>3. QED
        BY <1>1, <2>1, <3>1, <3>2, SMT
    <2>2. \A m \in Msg : m > arrived => fate'[m] = fate[m]
      BY <2>1 DEF Settles, IndInv, UnusedInv, Stored
    <2>3. QED
      BY <2>2 DEF IndInv, UnusedInv, Msg, SameCarrier
  <1>6. PaidInv'
    <2>1. /\ PaidInv /\ UNCHANGED <<issued, paid>>
          /\ \A k \in 1..issued : k \in challenges' => k \in challenges
      BY DEF IndInv, SameCarrier
    <2>2. QED
      BY <1>1, <1>2, <2>1, PaidPreserved, SMT
  <1>7. QED
    BY <1>4, <1>5, <1>6, Assembled

-----------------------------------------------------------------------------
(* A connection is accepted. *)
LEMMA AcceptStep ==
    ASSUME IndInv, NEW c \in Conn, Accept(c)
    PROVE  IndInv'
  <1>1. TaskTypes' /\ Others(c) /\ pc'[c] = "idle" /\ req'[c] = req[c] /\ resp'[c] = resp[c]
    BY GotoEffect DEF Accept, Step, IndInv
  <1>2. req[c] = Nothing /\ resp[c] = Silent /\ resp[c].kind # "data"
    BY NotReplying DEF IndInv, TaskInv, Accept
  <1>3. TaskInv(c)' /\ PayloadInv(c)' /\ ToldInv(c)' /\ ~Carries(c)'
    BY <1>1, <1>2 DEF TaskInv, PayloadInv, ToldInv, Carries, Working, Silent
  <1>4. WorldTypes' /\ UnusedInv' /\ PaidInv'
    BY WorldUnchanged DEF Accept
  <1>5. QED
    BY <1>1, <1>2, <1>3, <1>4, QuietStep DEF Accept

(* A client disconnects. *)
LEMMA DisconnectStep ==
    ASSUME IndInv, NEW c \in Conn, Disconnect(c)
    PROVE  IndInv'
  <1>1. TaskTypes' /\ Others(c) /\ Ended(c)
    BY EndTaskEffect DEF Disconnect, IndInv
  <1>2. resp[c].kind # "data"
    BY NotReplying DEF Disconnect
  <1>3. TaskInv(c)' /\ PayloadInv(c)' /\ ToldInv(c)' /\ ~Carries(c)' /\ resp'[c].kind # "data"
    BY <1>1, SMT DEF Ended, TaskInv, PayloadInv, ToldInv, Carries, Working, Silent
  <1>4. WorldTypes' /\ UnusedInv' /\ PaidInv'
    BY WorldUnchanged DEF Disconnect
  <1>5. QED
    BY <1>1, <1>2, <1>3, <1>4, QuietStep DEF Disconnect

(* A frame that is no request. *)
LEMMA BadFrameStep ==
    ASSUME IndInv, NEW c \in Conn, BadFrame(c)
    PROVE  IndInv'
  <1>1. TaskTypes' /\ Others(c) /\ Returned(c, "badframe", 0)
    BY ReturnEffect, ConstantFacts, SMT DEF BadFrame, IndInv, Kind
  <1>2. resp[c].kind # "data" /\ req[c] = Nothing
    BY NotReplying DEF BadFrame, IndInv, TaskInv
  <1>3. TaskInv(c)' /\ PayloadInv(c)' /\ ToldInv(c)' /\ ~Carries(c)' /\ resp'[c].kind # "data"
    BY <1>1, <1>2, SMT DEF Returned, TaskInv, PayloadInv, ToldInv, Carries, Working, Silent
  <1>4. WorldTypes' /\ UnusedInv' /\ PaidInv'
    BY WorldUnchanged DEF BadFrame
  <1>5. QED
    BY <1>1, <1>2, <1>3, <1>4, QuietStep DEF BadFrame

(* The head of handle_request, for every kind of request. *)
LEMMA ReceiveEffect ==
    ASSUME IndInv, NEW c \in Conn, NEW r \in Request, Receive(c, r)
    PROVE  /\ TaskTypes' /\ Others(c)
           /\ pc'[c] = "limiting" /\ req'[c] = r /\ resp'[c] = Silent
           /\ resp[c].kind # "data" /\ resp'[c].kind # "data"
           /\ TaskInv(c)' /\ ToldInv(c)'
           /\ ~Carries(c)
  <1>1. resp[c] = Silent /\ resp[c].kind # "data" /\ req[c] = Nothing /\ clock \in Nat
    BY NotReplying DEF Receive, IndInv, TaskInv, WorldTypes
  <1>2. TaskTypes' /\ Others(c)
    BY <1>1 DEF Receive, Goto, Step, TaskTypes, IndInv, Others
  <1>3. pc'[c] = "limiting" /\ req'[c] = r /\ resp'[c] = resp[c]
    BY DEF Receive, Goto, TaskTypes, IndInv
  <1>4. r # Nothing
    BY ConstantFacts
  <1>5. TaskInv(c)' /\ ToldInv(c)'
    BY <1>1, <1>3, <1>4 DEF TaskInv, ToldInv, Carries, Working, Silent
  <1>6. QED
    BY <1>1, <1>2, <1>3, <1>5, SMT DEF Carries

(* A request for a challenge arrives. *)
LEMMA ReceiveChallengeStep ==
    ASSUME IndInv, NEW c \in Conn, NEW i \in Identity, ReceiveChallenge(c, i)
    PROVE  IndInv'
  <1> DEFINE r == [op |-> "challenge", id |-> i, msg |-> 0, cid |-> 0]
  <1>1. r \in Request /\ r.op = "challenge"
    BY ConstantFacts, SMT DEF Request
  <1>2. Receive(c, r)
    BY DEF ReceiveChallenge
  <1> HIDE DEF r
  <1>3. /\ TaskTypes' /\ Others(c)
        /\ pc'[c] = "limiting" /\ req'[c] = r
        /\ resp[c].kind # "data" /\ resp'[c].kind # "data"
        /\ TaskInv(c)' /\ ToldInv(c)'
    BY <1>1, <1>2, ReceiveEffect
  <1>4. ~Carries(c)' /\ PayloadInv(c)'
    BY <1>1, <1>3 DEF Carries, PayloadInv, WriteOp
  <1>5. UNCHANGED <<split, clock, buckets, challenges, issued, store, prekeys,
                    arrived, origin, paid, calledAt, fate>>
    BY DEF ReceiveChallenge, Receive
  <1>6. WorldTypes' /\ UnusedInv' /\ PaidInv'
    BY <1>5, WorldUnchanged
  <1>7. QED
    BY <1>3, <1>4, <1>5, <1>6, QuietStep

(* A lookup or a pickup arrives. *)
LEMMA ReceiveReadStep ==
    ASSUME IndInv, NEW c \in Conn, NEW op \in ReadOp, NEW i \in Identity, ReceiveRead(c, op, i)
    PROVE  IndInv'
  <1> DEFINE r == [op |-> op, id |-> i, msg |-> 0, cid |-> 0]
  <1>1. r \in Request /\ r.op \in ReadOp
    BY ConstantFacts, SMT DEF Request
  <1>2. Receive(c, r)
    BY DEF ReceiveRead
  <1> HIDE DEF r
  <1>3. /\ TaskTypes' /\ Others(c)
        /\ pc'[c] = "limiting" /\ req'[c] = r
        /\ resp[c].kind # "data" /\ resp'[c].kind # "data"
        /\ TaskInv(c)' /\ ToldInv(c)'
    BY <1>1, <1>2, ReceiveEffect
  <1>4. ~Carries(c)' /\ PayloadInv(c)'
    BY <1>1, <1>3 DEF Carries, PayloadInv, WriteOp, ReadOp
  <1>5. UNCHANGED <<split, clock, buckets, challenges, issued, store, prekeys,
                    arrived, origin, paid, calledAt, fate>>
    BY DEF ReceiveRead, Receive
  <1>6. WorldTypes' /\ UnusedInv' /\ PaidInv'
    BY <1>5, WorldUnchanged
  <1>7. QED
    BY <1>3, <1>4, <1>5, <1>6, QuietStep

(* A frame with a payload: the next number is new to every task and box. *)
LEMMA ReceiveWriteStep ==
    ASSUME IndInv, NEW c \in Conn, NEW op \in WriteOp, NEW i \in Identity, NEW cid \in 0..issued,
           ReceiveWrite(c, op, i, cid)
    PROVE  IndInv'
  <1> DEFINE m == arrived + 1
             r == [op |-> op, id |-> i, msg |-> m, cid |-> cid]
  <1>1. /\ arrived \in Nat /\ arrived' = m /\ m \in Msg /\ m \in 0..MaxMsg
        /\ issued \in Nat
    BY ConstantFacts, SMT DEF ReceiveWrite, IndInv, WorldTypes, Msg
  <1>2. r \in Request /\ r.op = op /\ r.id = i /\ r.msg = m
    BY <1>1, ConstantFacts, SMT DEF Request, ChallengeId
  <1>3. Receive(c, r)
    BY <1>1 DEF ReceiveWrite
  <1>4. /\ origin' = [origin EXCEPT ![m] = [op |-> op, id |-> i]]
        /\ fate' = [fate EXCEPT ![m] = "arrived"]
        /\ UNCHANGED <<split, clock, buckets, challenges, issued, store, prekeys, paid, calledAt>>
    BY <1>1 DEF ReceiveWrite, Receive
  <1> HIDE DEF r
  <1>5. /\ TaskTypes' /\ Others(c)
        /\ pc'[c] = "limiting" /\ req'[c] = r
        /\ resp[c].kind # "data" /\ resp'[c].kind # "data"
        /\ TaskInv(c)' /\ ToldInv(c)' /\ ~Carries(c)
    BY <1>2, <1>3, ReceiveEffect
  <1>6. /\ origin'[m] = [op |-> op, id |-> i] /\ fate'[m] = "arrived"
        /\ \A n \in Msg : n # m => origin'[n] = origin[n] /\ fate'[n] = fate[n]
    BY <1>1, <1>4 DEF IndInv, WorldTypes
  <1>7. [op |-> op, id |-> i] \in Origin
    BY DEF Origin
  <1>8. WorldTypes'
    <2>1. origin' \in [Msg -> Origin \cup {Nothing}] /\ fate' \in [Msg -> Fate]
      BY <1>1, <1>4, <1>7 DEF IndInv, WorldTypes, Fate
    <2>2. QED
      BY <1>1, <1>4, <2>1 DEF IndInv, WorldTypes
  <1>9. fate[m] = "new" /\ origin[m] = Nothing
    BY <1>1, SMT DEF IndInv, UnusedInv
  <1>10. PayloadInv(c)'
    <2>1. m \in 1..arrived'
      BY <1>1, SMT
    <2>2. QED
      BY <1>2, <1>5, <1>6, <2>1 DEF PayloadInv, Unsettled
  <1>11. Separate(c)
    <2>1. arrived' \in Nat /\ arrived <= arrived' /\ r.msg \in Nat /\ r.msg > arrived
      BY <1>1, <1>2, SMT
    <2>2. \A n \in 1..arrived : n \in Msg /\ n # m
      BY <1>1, ConstantFacts, SMT DEF Msg
    <2>3. \A n \in 1..arrived : origin'[n] = origin[n] /\ (paid[n] # 0 => paid'[n] # 0)
      BY <1>4, <1>6, <2>2
    <2>4. \A n \in Msg : fate[n] \in {"arrived", "rejected"} \cup Stored => fate'[n] = fate[n]
      BY <1>6, <1>9 DEF Stored
    <2>5. QED
      BY <1>1, <1>5, <2>1, <2>3, <2>4 DEF Separate
  <1>12. BoxInv'
    BY <1>4, <1>6, <1>9, BoxesPreserved DEF IndInv
  <1>13. ResponseInv'
    <2>1. \A n \in Msg : ~Shows(c, n) /\ ~Shows(c, n)'
      BY <1>5 DEF Shows
    <2>2. \A n \in Msg : (fate'[n] = "taken") <=> (fate[n] = "taken")
      BY <1>6, <1>9
    <2>3. QED
      BY <1>5, <2>1, <2>2, ResponsesPreserved DEF IndInv, Replaces
  <1>14. UnusedInv'
    BY <1>1, <1>4, <1>6, SMT DEF IndInv, UnusedInv, Msg
  <1>15. PaidInv'
    <2>1. \A n \in Msg : fate'[n] \in Stored => fate[n] \in Stored
      BY <1>6 DEF Stored
    <2>2. QED
      BY <1>1, <1>4, <2>1, PaidPreserved DEF IndInv, PaidInv
  <1>16. QED
    BY <1>5, <1>8, <1>10, <1>11, <1>12, <1>13, <1>14, <1>15, Assembled

(* The limiter admits a request. *)
LEMMA RateOkStep ==
    ASSUME IndInv, NEW c \in Conn, RateOk(c)
    PROVE  IndInv'
  <1> DEFINE step == CASE req[c].op = "challenge" -> "issuing"
                       [] req[c].op \in WriteOp -> "proving"
                       [] req[c].op \in ReadOp -> "taking"
  <1>1. req[c] \in Request /\ now[c] \in Nat /\ req[c].id \in Identity
    BY DEF RateOk, IndInv, TaskInv, TaskTypes, Working, Request
  <1>2. req[c].op \in {"challenge"} \cup ReadOp \cup WriteOp
    BY <1>1 DEF Request
  <1>3. /\ step \in Step
        /\ req[c].op = "challenge" => step = "issuing"
        /\ req[c].op \in WriteOp => step = "proving"
        /\ req[c].op \in ReadOp => step = "taking"
    BY <1>2 DEF Step, WriteOp, ReadOp
  <1>4. Goto(c, step)
    BY DEF RateOk
  <1> HIDE DEF step
  <1>5. /\ TaskTypes' /\ Others(c) /\ pc'[c] = step /\ req'[c] = req[c] /\ resp'[c] = resp[c]
    BY <1>3, <1>4, GotoEffect DEF RateOk, IndInv
  <1>6. resp[c] = Silent /\ resp[c].kind # "data" /\ req[c] # Nothing
    BY NotReplying DEF RateOk, IndInv, TaskInv, Working
  <1>7. TaskInv(c)' /\ ToldInv(c)'
    BY <1>2, <1>3, <1>5, <1>6 DEF TaskInv, ToldInv, Silent, WriteOp, ReadOp
  <1>8. PayloadInv(c)'
    <2>1. Carries(c)' => Carries(c) /\ pc'[c] = "proving"
      BY <1>3, <1>5 DEF Carries
    <2>2. PayloadInv(c) /\ pc[c] = "limiting"
      BY DEF IndInv, RateOk
    <2>3. QED
      BY <1>5, <2>1, <2>2 DEF PayloadInv, RateOk, Unsettled
  <1>9. buckets' \in [Identity -> Limiter!Bucket \cup {NoBucket}]
    BY <1>1, LimiterStep DEF RateOk, IndInv, WorldTypes
  <1>10. WorldTypes'
    BY <1>9 DEF RateOk, IndInv, WorldTypes
  <1>11. UnusedInv' /\ PaidInv'
    BY DEF RateOk, IndInv, UnusedInv, PaidInv, Msg
  <1>12. QED
    BY <1>5, <1>6, <1>7, <1>8, <1>10, <1>11, QuietStep DEF RateOk, Carries

(* A challenge is issued. *)
LEMMA IssueChallengeStep ==
    ASSUME IndInv, NEW c \in Conn, IssueChallenge(c)
    PROVE  IndInv'
  <1>1. TaskTypes' /\ Others(c) /\ Returned(c, "challenge", 0)
    BY ReturnEffect, ConstantFacts, SMT DEF IssueChallenge, IndInv, Kind
  <1>2. resp[c].kind # "data" /\ req[c] # Nothing /\ req[c].op = "challenge"
    BY NotReplying DEF IssueChallenge, IndInv, TaskInv, Working
  <1>3. TaskInv(c)' /\ PayloadInv(c)' /\ ToldInv(c)' /\ ~Carries(c)' /\ resp'[c].kind # "data"
    BY <1>1, <1>2, SMT DEF Returned, TaskInv, PayloadInv, ToldInv, Carries, Working, WriteOp
  <1>4. issued \in Nat /\ issued' = issued + 1 /\ challenges' = challenges \cup {issued + 1}
    BY DEF IssueChallenge, IndInv, WorldTypes
  <1>5. WorldTypes'
    <2>1. challenges' \subseteq ChallengeId
      BY <1>4, ConstantFacts, SMT DEF IndInv, WorldTypes, ChallengeId
    <2>2. QED
      BY <2>1, SMT DEF IssueChallenge, IndInv, WorldTypes
  <1>6. UnusedInv'
    BY DEF IssueChallenge, IndInv, UnusedInv, Msg
  <1>7. PaidInv'
    <2>1. challenges' \subseteq 1..issued' /\ \A k \in 1..issued : k \in challenges' => k \in challenges
      BY <1>4, SMT DEF IndInv, PaidInv
    <2>2. QED
      BY <1>4, <2>1, PaidPreserved, SMT DEF IssueChallenge, IndInv
  <1>8. QED
    BY <1>1, <1>2, <1>3, <1>5, <1>6, <1>7, QuietStep DEF IssueChallenge

(* The payload is decoded and the clock read. *)
LEMMA DecodeStep ==
    ASSUME IndInv, NEW c \in Conn, Decode(c)
    PROVE  IndInv'
  <1>1. /\ TaskTypes' /\ Others(c)
        /\ pc'[c] = "inserting" /\ req'[c] = req[c] /\ resp'[c] = resp[c]
    BY GotoEffect DEF Decode, Step, IndInv
  <1>2. resp[c] = Silent /\ resp[c].kind # "data" /\ Carries(c)
    BY NotReplying DEF Decode, IndInv, TaskInv, Working, Carries
  <1>3. TaskInv(c)' /\ ToldInv(c)'
    BY <1>1, <1>2 DEF TaskInv, ToldInv, Carries
  <1>4. PayloadInv(c) /\ pc[c] = "decoding"
    BY DEF IndInv, Decode
  <1>5. PayloadInv(c)'
    BY <1>1, <1>2, <1>4 DEF PayloadInv, Carries, Unsettled, Decode
  <1>6. req[c].msg \in Msg /\ req[c].msg <= arrived
    BY <1>2, Carried
  <1>7. calledAt' = [calledAt EXCEPT ![req[c].msg] = clock] /\ clock \in Nat
    BY DEF Decode, IndInv, WorldTypes
  <1>8. WorldTypes'
    <2>1. calledAt' \in [Msg -> Nat]
      BY <1>6, <1>7 DEF IndInv, WorldTypes
    <2>2. QED
      BY <2>1 DEF Decode, IndInv, WorldTypes
  <1>9. UnusedInv'
    <2>1. \A m \in Msg : m > arrived => m # req[c].msg
      BY <1>6, ArrivedNat, ConstantFacts, SMT
    <2>2. \A m \in Msg : m > arrived => calledAt'[m] = calledAt[m]
      BY <1>7, <2>1 DEF IndInv, WorldTypes
    <2>3. QED
      BY <2>2 DEF Decode, IndInv, UnusedInv, Msg
  <1>10. PaidInv'
    BY DEF Decode, IndInv, PaidInv, Msg
  <1>11. QED
    BY <1>1, <1>2, <1>3, <1>5, <1>8, <1>9, <1>10, QuietStep DEF Decode, Carries

(* A handler returns an error before it has touched a store: its payload,  *)
(* if there is one, is rejected, and no other payload changes.             *)
Rejects(c) ==
    /\ pc[c] \in {"limiting", "proving", "decoding"}
    /\ TaskTypes' /\ Others(c) /\ Rejected(c)
    /\ Ended(c) \/ Returned(c, "error", 0)
    /\ buckets' \in [Identity -> Limiter!Bucket \cup {NoBucket}]
    /\ challenges' \subseteq challenges
    /\ UNCHANGED <<split, clock, issued, store, prekeys, arrived, origin, paid, calledAt>>

(* A request ends with an error, and nothing was stored. *)
LEMMA RejectStep ==
    ASSUME IndInv, NEW c \in Conn, Rejects(c)
    PROVE  IndInv'
  <1>1. pc[c] \in Working /\ pc[c] \in Unsettled
    BY DEF Working, Unsettled, Rejects
  <1>2. req[c] # Nothing /\ \A m \in Msg : ~Shows(c, m)
    BY <1>1, Serving
  <1>3. /\ TaskInv(c)' /\ PayloadInv(c)'
        /\ Carries(c)' => Carries(c) /\ req'[c] = req[c]
        /\ \A m \in Msg : ~Shows(c, m)'
    BY <1>1, HandlerReturns DEF Rejects
  <1>4. Carries(c) => req[c].msg \in Msg /\ fate[req[c].msg] = "arrived"
    BY <1>1, Carried
  <1>5. /\ fate' \in [Msg -> Fate]
        /\ Carries(c) => fate'[req[c].msg] = "rejected"
        /\ \A m \in Msg : ~(Carries(c) /\ m = req[c].msg) => fate'[m] = fate[m]
    <2>1. fate \in [Msg -> Fate] /\ "rejected" \in Fate
      BY DEF IndInv, WorldTypes, Fate
    <2>2. CASE Carries(c)
      <3>1. fate' = [fate EXCEPT ![req[c].msg] = "rejected"]
        BY <2>2 DEF Rejects, Rejected, Carries
      <3>2. QED
        BY <1>4, <2>1, <2>2, <3>1
    <2>3. CASE ~Carries(c)
      <3>1. fate' = fate
        BY <1>2, <2>3 DEF Rejects, Rejected, Carries
      <3>2. QED
        BY <2>1, <2>3, <3>1
    <2>4. QED
      BY <2>2, <2>3
  <1>6. Settles(c)
    BY <1>4, <1>5 DEF Settles, Stored
  <1>7. \A m \in Msg : fate'[m] = fate[m] \/ (fate[m] = "arrived" /\ fate'[m] = "rejected")
    BY <1>4, <1>5
  <1>8. ToldInv(c)'
    <2>1. Carries(c)' => fate'[req'[c].msg] = "rejected" /\ (pc'[c] = "replying" => resp'[c].kind = "error")
      BY <1>3, <1>5, SMT DEF Rejects, Ended, Returned
    <2>2. QED
      BY <2>1 DEF ToldInv
  <1>9. WorldTypes'
    BY <1>5 DEF Rejects, IndInv, WorldTypes
  <1>10. BoxInv'
    BY <1>7, BoxesPreserved DEF Rejects, IndInv
  <1>11. ResponseInv'
    <2>1. Replaces(c)
      BY <1>2, <1>3, <1>7 DEF Replaces
    <2>2. QED
      BY <2>1, ResponsesPreserved DEF Rejects, IndInv
  <1>12. SameCarrier(c) /\ Others(c) /\ TaskTypes'
    BY <1>3 DEF SameCarrier, Rejects
  <1>13. QED
    BY <1>3, <1>6, <1>8, <1>9, <1>10, <1>11, <1>12, SettleStep

(* The limiter's refusal is such an end. *)
LEMMA RateLimitExceededRejects ==
    ASSUME IndInv, NEW c \in Conn, RateLimitExceeded(c)
    PROVE  Rejects(c)
  <1>1. TaskTypes' /\ Others(c) /\ (Ended(c) \/ Returned(c, "error", 0))
    BY LogAndReturnEffect DEF RateLimitExceeded, IndInv, Kind
  <1>2. req[c].id \in Identity /\ now[c] \in Nat
    BY Serving DEF RateLimitExceeded, Working
  <1>3. buckets' \in [Identity -> Limiter!Bucket \cup {NoBucket}]
    BY <1>2, LimiterStep DEF RateLimitExceeded, IndInv, WorldTypes
  <1>4. QED
    BY <1>1, <1>3 DEF Rejects, RateLimitExceeded

(* A failed proof of work is such an end. *)
LEMMA PowFailedRejects ==
    ASSUME IndInv, NEW c \in Conn, PowFailed(c)
    PROVE  Rejects(c)
  <1>1. TaskTypes' /\ Others(c) /\ (Ended(c) \/ Returned(c, "error", 0))
    BY LogAndReturnEffect DEF PowFailed, IndInv, Kind
  <1>2. challenges' \subseteq challenges
    BY DEF PowFailed, Redeem
  <1>3. buckets' \in [Identity -> Limiter!Bucket \cup {NoBucket}]
    BY DEF PowFailed, IndInv, WorldTypes
  <1>4. QED
    BY <1>1, <1>2, <1>3 DEF Rejects, PowFailed

(* A malformed payload is such an end. *)
LEMMA InvalidBase64Rejects ==
    ASSUME IndInv, NEW c \in Conn, InvalidBase64(c)
    PROVE  Rejects(c)
  <1>1. TaskTypes' /\ Others(c) /\ Returned(c, "error", 0)
    BY ReturnEffect, ConstantFacts, SMT DEF InvalidBase64, IndInv, Kind
  <1>2. buckets' \in [Identity -> Limiter!Bucket \cup {NoBucket}]
    BY DEF InvalidBase64, IndInv, WorldTypes
  <1>3. QED
    BY <1>1, <1>2 DEF Rejects, InvalidBase64

(* verify_pow: the challenge passes from the active set to the payload. *)
LEMMA PowOkStep ==
    ASSUME IndInv, NEW c \in Conn, PowOk(c)
    PROVE  IndInv'
  <1> DEFINE m == req[c].msg
             k == req[c].cid
  <1>1. /\ TaskTypes' /\ Others(c)
        /\ pc'[c] = "decoding" /\ req'[c] = req[c] /\ resp'[c] = resp[c]
    BY GotoEffect DEF PowOk, Step, IndInv
  <1>2. resp[c] = Silent /\ resp[c].kind # "data" /\ Carries(c)
    BY NotReplying DEF PowOk, IndInv, TaskInv, Working, Carries
  <1>3. m \in Msg /\ m <= arrived /\ fate[m] = "arrived"
    BY <1>2, Carried DEF PowOk, Unsettled
  <1>4. k \in challenges /\ k \in 1..issued /\ issued \in Nat /\ k # 0 /\ k \in ChallengeId \cup {0}
    <2>1. k \in challenges /\ issued \in Nat /\ k \in 1..issued /\ k \in ChallengeId
      BY DEF PowOk, IndInv, WorldTypes, PaidInv
    <2>2. k # 0
      BY <2>1, SMT
    <2>3. QED
      BY <2>1, <2>2
  <1>5. challenges' = challenges \ {k} /\ paid' = [paid EXCEPT ![m] = k]
    BY DEF PowOk, Redeem
  <1> HIDE DEF m, k
  <1>6. /\ paid' \in [Msg -> ChallengeId \cup {0}] /\ paid'[m] = k
        /\ \A n \in Msg : n # m => paid'[n] = paid[n]
    BY <1>3, <1>4, <1>5 DEF IndInv, WorldTypes
  <1>7. TaskInv(c)' /\ ToldInv(c)'
    BY <1>1, <1>2 DEF TaskInv, ToldInv, Carries
  <1>8. PayloadInv(c)'
    <2>1. PayloadInv(c) /\ pc[c] = "proving"
      BY DEF IndInv, PowOk
    <2>2. paid'[req[c].msg] # 0
      BY <1>4, <1>6 DEF m
    <2>3. QED
      BY <1>1, <1>2, <2>1, <2>2 DEF PayloadInv, Carries, Unsettled, PowOk
  <1>9. WorldTypes'
    <2>1. challenges' \subseteq ChallengeId
      BY <1>5 DEF IndInv, WorldTypes
    <2>2. QED
      BY <1>6, <2>1 DEF PowOk, IndInv, WorldTypes
  <1>10. \A n \in Msg : paid[n] # 0 => paid'[n] # 0
    BY <1>4, <1>6
  <1>11. Separate(c)
    <2>1. 1..arrived \subseteq Msg /\ arrived \in Nat
      BY ConstantFacts, SMT DEF IndInv, WorldTypes, Msg
    <2>2. UNCHANGED <<arrived, origin, fate>>
      BY DEF PowOk
    <2>3. Carries(c)' => Carries(c) /\ req'[c].msg = req[c].msg
      BY <1>1 DEF Carries
    <2>4. QED
      BY <1>10, <2>1, <2>2, <2>3, SMT DEF Separate
  <1>12. BoxInv'
    BY BoxesPreserved DEF PowOk, IndInv
  <1>13. ResponseInv'
    <2>1. \A n \in Msg : ~Shows(c, n) /\ ~Shows(c, n)'
      BY <1>1, <1>2 DEF Shows
    <2>2. QED
      BY <1>1, <2>1, ResponsesPreserved DEF PowOk, IndInv, Replaces
  <1>14. UnusedInv'
    BY DEF PowOk, IndInv, UnusedInv, Msg
  <1>15. PaidInv'
    <2>1. PaidInv /\ UNCHANGED <<issued, fate>>
      BY DEF IndInv, PowOk
    <2>2. challenges' \subseteq 1..issued'
      BY <1>5, <2>1 DEF PaidInv
    <2>3. \A n \in Msg : paid'[n] # 0 => paid'[n] \in (1..issued') \ challenges'
      BY <1>4, <1>5, <1>6, <2>1 DEF PaidInv
    <2>4. \A n \in Msg : fate'[n] \in Stored => paid'[n] # 0
      BY <1>4, <1>6, <2>1 DEF PaidInv
    <2>5. \A n \in Msg : n # m => paid[n] # k
      BY <1>4, <2>1 DEF PaidInv
    <2>6. ASSUME NEW n \in Msg, NEW o \in Msg, paid'[n] # 0, paid'[n] = paid'[o]
          PROVE  n = o
      <3>1. CASE n # m /\ o # m
        BY <1>6, <2>1, <2>6, <3>1 DEF PaidInv
      <3>2. CASE n = m \/ o = m
        BY <1>6, <2>5, <2>6, <3>2
      <3>3. QED
        BY <3>1, <3>2
    <2>7. QED
      BY <2>2, <2>3, <2>4, <2>6 DEF PaidInv, Msg
  <1>16. QED
    BY <1>1, <1>7, <1>8, <1>9, <1>11, <1>12, <1>13, <1>14, <1>15, Assembled

-----------------------------------------------------------------------------
(***************************************************************************)
(* The invariant through the steps that fill and empty the stores and      *)
(* through the reply, and with it what the bridge promises.                *)
(***************************************************************************)
Slot == [envelope : Msg, expiry : Nat]

(* A slot is empty or holds an entry. *)
LEMMA BoxTypes ==
    ASSUME IndInv, NEW op \in WriteOp
    PROVE  Box(op) \in [Identity -> Slot \cup {Nothing}]
  BY DEF IndInv, WorldTypes, Box, Slot, Envelopes!Slot, Prekeys!Slot

(* A payload lies in one slot of one box. *)
LEMMA LiesOnce ==
    ASSUME IndInv, NEW op \in WriteOp, NEW i \in Identity, NEW m \in Msg, Lies(op, i, m)
    PROVE  /\ fate[m] = "held"
           /\ \A o \in WriteOp, j \in Identity : Lies(o, j, m) => o = op /\ j = i
  <1>1. fate[m] = "held" /\ origin[m] = [op |-> op, id |-> i]
    BY DEF IndInv, BoxInv
  <1>2. ASSUME NEW o \in WriteOp, NEW j \in Identity, Lies(o, j, m)
        PROVE  o = op /\ j = i
    <2>1. origin[m] = [op |-> o, id |-> j]
      BY <1>2 DEF IndInv, BoxInv
    <2>2. origin[m].op = o /\ origin[m].id = j /\ origin[m].op = op /\ origin[m].id = i
      BY <1>1, <2>1, SMT
    <2>3. QED
      BY <2>2
  <1>3. QED
    BY <1>1, <1>2

(* RelayStore::store: the payload takes the slot, the one there is lost. *)
PutsInBox(c, op, s) ==
    /\ pc[c] = "inserting" /\ req[c].op = op /\ s # Nothing /\ s.envelope = req[c].msg
    /\ Box(op)' = [Box(op) EXCEPT ![req[c].id] = s]
    /\ \A o \in WriteOp : o # op => Box(o)' = Box(o)
    /\ store' \in [Identity -> Envelopes!Slot \cup {Nothing}]
    /\ prekeys' \in [Identity -> Prekeys!Slot \cup {Nothing}]
    /\ Enters(c, Box(op))

(* A payload enters a store. *)
LEMMA EnterStep ==
    ASSUME IndInv, NEW c \in Conn, NEW op \in WriteOp, NEW s \in Slot, PutsInBox(c, op, s)
    PROVE  IndInv'
  <1> DEFINE m == req[c].msg
             i == req[c].id
  <1>1. TaskTypes' /\ Others(c) /\ (Ended(c) \/ Returned(c, "ok", 0))
    BY LogAndReturnEffect DEF PutsInBox, Enters, IndInv, Kind
  <1>2. UNCHANGED <<split, clock, buckets, challenges, issued, arrived, origin, paid, calledAt>>
    BY DEF PutsInBox, Enters
  <1>3. i \in Identity /\ req[c] # Nothing /\ \A n \in Msg : ~Shows(c, n)
    BY Serving DEF PutsInBox, Working
  <1>4. /\ TaskInv(c)' /\ PayloadInv(c)'
        /\ Carries(c)' => Carries(c) /\ req'[c] = req[c]
        /\ \A n \in Msg : ~Shows(c, n)'
    BY <1>1, <1>2, HandlerReturns DEF PutsInBox, Working
  <1>5. Carries(c) /\ m \in Msg /\ fate[m] = "arrived"
    BY <1>3, Carried DEF PutsInBox, Carries, Unsettled
  <1>6. origin[m] = [op |-> op, id |-> i] /\ paid[m] # 0
    BY <1>5 DEF PutsInBox, IndInv, PayloadInv
  <1>7. Box(op)[i] # Nothing => Box(op)[i].envelope \in Msg
    BY <1>3, BoxTypes DEF Slot
  <1>8. \A n \in Msg : Lies(op, i, n) => fate[n] = "held"
    BY <1>3, LiesOnce
  <1>9. fate' = [Leaves(fate, Box(op), i, "overwritten") EXCEPT ![m] = "held"]
    BY DEF PutsInBox, Enters
  <1>10. fate \in [Msg -> Fate] /\ {"overwritten", "held"} \subseteq Fate
    BY DEF IndInv, WorldTypes, Fate, Stored
  <1>11. /\ fate' \in [Msg -> Fate] /\ fate'[m] = "held"
         /\ \A n \in Msg : Lies(op, i, n) => fate'[n] = "overwritten"
         /\ \A n \in Msg : n # m /\ ~Lies(op, i, n) => fate'[n] = fate[n]
    BY <1>5, <1>7, <1>8, <1>9, <1>10 DEF Leaves, Lies
  <1>12. \A o \in WriteOp, j \in Identity : \A n \in Msg :
           Lies(o, j, n)' <=> IF o = op /\ j = i THEN n = m ELSE Lies(o, j, n)
    <2>1. Box(op)'[i] = s /\ \A j \in Identity : j # i => Box(op)'[j] = Box(op)[j]
      BY <1>3, BoxTypes DEF PutsInBox
    <2>2. s # Nothing /\ s.envelope = m /\ \A o \in WriteOp : o # op => Box(o)' = Box(o)
      BY DEF PutsInBox
    <2>3. QED
      BY <2>1, <2>2 DEF Lies
  <1>13. WorldTypes'
    BY <1>2, <1>11 DEF PutsInBox, IndInv, WorldTypes
  <1>14. Settles(c)
    BY <1>5, <1>6, <1>8, <1>11 DEF Settles, Stored
  <1> HIDE DEF m, i
  <1>15. ToldInv(c)'
    <2>1. Carries(c)' => fate'[req'[c].msg] = "held" /\ (pc'[c] = "replying" => resp'[c].kind = "ok")
      BY <1>1, <1>4, <1>11, SMT DEF Ended, Returned, m
    <2>2. QED
      BY <2>1 DEF ToldInv, Stored
  <1>16. BoxInv'
    <2>1. \A n \in Msg : (fate'[n] = "held") <=> (n = m \/ (fate[n] = "held" /\ ~Lies(op, i, n)))
      BY <1>5, <1>8, <1>11
    <2>2. ASSUME NEW n \in Msg, fate'[n] = "held"
          PROVE  \E o \in WriteOp, j \in Identity : Lies(o, j, n)'
      <3>1. CASE n = m
        BY <1>3, <1>12, <3>1
      <3>2. CASE fate[n] = "held" /\ ~Lies(op, i, n)
        <4>1. PICK o \in WriteOp, j \in Identity : Lies(o, j, n)
          BY <3>2 DEF IndInv, BoxInv
        <4>2. QED
          BY <1>12, <3>2, <4>1
      <3>3. QED
        BY <2>1, <2>2, <3>1, <3>2
    <2>3. ASSUME NEW n \in Msg, NEW o \in WriteOp, NEW j \in Identity, Lies(o, j, n)'
          PROVE  fate'[n] = "held" /\ origin'[n] = [op |-> o, id |-> j]
      <3>1. CASE o = op /\ j = i
        BY <1>2, <1>6, <1>11, <1>12, <2>3, <3>1 DEF m, i
      <3>2. CASE ~(o = op /\ j = i)
        <4>1. Lies(o, j, n)
          BY <1>12, <2>3, <3>2
        <4>2. fate[n] = "held" /\ ~Lies(op, i, n)
          BY <1>3, <3>2, <4>1, LiesOnce
        <4>3. QED
          BY <1>2, <2>1, <4>1, <4>2 DEF IndInv, BoxInv
      <3>3. QED
        BY <3>1, <3>2
    <2>4. \A n \in Msg : (fate'[n] = "held") <=> \E o \in WriteOp, j \in Identity : Lies(o, j, n)'
      BY <2>2, <2>3
    <2>5. QED
      BY <2>3, <2>4 DEF BoxInv, Msg
  <1>17. ResponseInv'
    <2>1. \A n \in Msg : (fate'[n] = "taken") <=> (fate[n] = "taken")
      BY <1>5, <1>8, <1>11
    <2>2. Replaces(c)
      BY <1>3, <1>4, <2>1 DEF Replaces
    <2>3. QED
      BY <1>1, <2>2, ResponsesPreserved DEF IndInv
  <1>18. SameCarrier(c)
    BY <1>2, <1>4 DEF SameCarrier
  <1>19. QED
    BY <1>1, <1>4, <1>13, <1>14, <1>15, <1>16, <1>17, <1>18, SettleStep

(* publish_prekey enters the prekey store. *)
LEMMA PublishPrekeyStep ==
    ASSUME IndInv, NEW c \in Conn, PublishPrekey(c)
    PROVE  IndInv'
  <1> DEFINE s == [envelope |-> req[c].msg, expiry |-> calledAt[req[c].msg] + PrekeyTTL]
  <1>1. req[c] # Nothing /\ req[c].id \in Identity
    BY Serving DEF PublishPrekey, Working
  <1>2. req[c].msg \in Msg
    BY <1>1, Carried DEF PublishPrekey, Carries, WriteOp
  <1>3. calledAt[req[c].msg] \in Nat
    BY <1>2 DEF IndInv, WorldTypes
  <1>4. s \in Slot /\ s.envelope = req[c].msg
    BY <1>2, <1>3, ConstantFacts, SMT DEF Slot
  <1>5. prekeys' = [prekeys EXCEPT ![req[c].id] = s] /\ UNCHANGED store
    BY DEF PublishPrekey, Prekeys!Insert
  <1>6. Enters(c, prekeys) /\ pc[c] = "inserting" /\ req[c].op = "publish_prekey"
    BY DEF PublishPrekey
  <1> HIDE DEF s
  <1>7. s # Nothing /\ s \in Prekeys!Slot
    BY <1>4, ConstantFacts DEF Slot, Prekeys!Slot
  <1>8. /\ store' \in [Identity -> Envelopes!Slot \cup {Nothing}]
        /\ prekeys' \in [Identity -> Prekeys!Slot \cup {Nothing}]
    BY <1>1, <1>5, <1>7 DEF IndInv, WorldTypes
  <1>9. Box("publish_prekey") = prekeys /\ Box("publish_prekey")' = prekeys' /\ "publish_prekey" \in WriteOp
    BY DEF Box, WriteOp
  <1>10. \A o \in WriteOp : o # "publish_prekey" => Box(o)' = Box(o)
    BY <1>5 DEF Box
  <1>11. QED
    BY <1>4, <1>5, <1>6, <1>7, <1>8, <1>9, <1>10, EnterStep DEF PutsInBox

(* send_envelope enters the envelope store. *)
LEMMA SendEnvelopeStep ==
    ASSUME IndInv, NEW c \in Conn, SendEnvelope(c)
    PROVE  IndInv'
  <1> DEFINE s == [envelope |-> req[c].msg, expiry |-> calledAt[req[c].msg] + EnvelopeTTL]
  <1>1. req[c] # Nothing /\ req[c].id \in Identity
    BY Serving DEF SendEnvelope, Working
  <1>2. req[c].msg \in Msg
    BY <1>1, Carried DEF SendEnvelope, Carries, WriteOp
  <1>3. calledAt[req[c].msg] \in Nat
    BY <1>2 DEF IndInv, WorldTypes
  <1>4. s \in Slot /\ s.envelope = req[c].msg
    BY <1>2, <1>3, ConstantFacts, SMT DEF Slot
  <1>5. store' = [store EXCEPT ![req[c].id] = s] /\ UNCHANGED prekeys
    BY DEF SendEnvelope, Envelopes!Insert
  <1>6. Enters(c, store) /\ pc[c] = "inserting" /\ req[c].op = "send_envelope"
    BY DEF SendEnvelope
  <1> HIDE DEF s
  <1>7. s # Nothing /\ s \in Envelopes!Slot
    BY <1>4, ConstantFacts DEF Slot, Envelopes!Slot
  <1>8. /\ store' \in [Identity -> Envelopes!Slot \cup {Nothing}]
        /\ prekeys' \in [Identity -> Prekeys!Slot \cup {Nothing}]
    BY <1>1, <1>5, <1>7 DEF IndInv, WorldTypes
  <1>9. Box("send_envelope") = store /\ Box("send_envelope")' = store' /\ "send_envelope" \in WriteOp
    BY DEF Box, WriteOp
  <1>10. \A o \in WriteOp : o # "send_envelope" => Box(o)' = Box(o)
    BY <1>5 DEF Box, WriteOp
  <1>11. QED
    BY <1>4, <1>5, <1>6, <1>7, <1>8, <1>9, <1>10, EnterStep DEF PutsInBox

(* RelayStore::pickup: the payload leaves its slot, and is on its way to   *)
(* the one task that took it unless it had expired.                        *)
TakesFromBox(c, op) ==
    /\ pc[c] = "taking"
    /\ Box(op)[req[c].id] # Nothing
    /\ Box(op)' = [Box(op) EXCEPT ![req[c].id] = Nothing]
    /\ \A o \in WriteOp : o # op => Box(o)' = Box(o)
    /\ store' \in [Identity -> Envelopes!Slot \cup {Nothing}]
    /\ prekeys' \in [Identity -> Prekeys!Slot \cup {Nothing}]
    /\ Hands(c, Box(op)) \/ Misses(c, Box(op))
    /\ UNCHANGED <<split, clock, buckets, challenges, issued, req, now,
                   arrived, origin, paid, calledAt>>

(* A payload leaves a store for a response. *)
LEMMA TakeStep ==
    ASSUME IndInv, NEW c \in Conn, NEW op \in WriteOp, TakesFromBox(c, op)
    PROVE  IndInv'
  <1> DEFINE i == req[c].id
             e == Box(op)[i].envelope
  <1>1. i \in Identity /\ req[c] # Nothing /\ \A m \in Msg : ~Shows(c, m)
    BY Serving DEF TakesFromBox, Working
  <1>2. ~Carries(c)
    BY DEF TakesFromBox, IndInv, TaskInv, Carries, ReadOp, WriteOp
  <1>3. e \in Msg /\ Lies(op, i, e)
    BY <1>1, BoxTypes, SMT DEF TakesFromBox, Slot, Lies
  <1>4. fate[e] = "held" /\ \A o \in WriteOp, j \in Identity : Lies(o, j, e) => o = op /\ j = i
    BY <1>1, <1>3, LiesOnce, SMT
  <1>5. \A o \in WriteOp, j \in Identity : \A m \in Msg :
          Lies(o, j, m)' <=> Lies(o, j, m) /\ ~(o = op /\ j = i)
    <2>1. Box(op)'[i] = Nothing /\ \A j \in Identity : j # i => Box(op)'[j] = Box(op)[j]
      BY <1>1, BoxTypes DEF TakesFromBox
    <2>2. \A o \in WriteOp : o # op => Box(o)' = Box(o)
      BY DEF TakesFromBox
    <2>3. QED
      BY <2>1, <2>2 DEF Lies
  <1>6. PICK how \in {"taken", "expired"}, kind \in Kind, n \in 0..MaxMsg :
          /\ fate' = [fate EXCEPT ![e] = how] /\ Return(c, kind, n)
          /\ kind \in {"data", "error"}
          /\ kind = "data" <=> how = "taken"
          /\ kind = "data" => n = e
    <2>1. CASE Hands(c, Box(op))
      <3>1. fate' = [fate EXCEPT ![e] = "taken"] /\ Return(c, "data", e)
        BY <2>1 DEF TakesFromBox, Hands, Leaves
      <3>2. e \in 0..MaxMsg
        BY <1>3, ConstantFacts, SMT DEF Msg
      <3>3. QED
        BY <3>1, <3>2 DEF Kind
    <2>2. CASE Misses(c, Box(op))
      <3>1. fate' = [fate EXCEPT ![e] = "expired"] /\ Return(c, "error", 0)
        BY <2>2 DEF TakesFromBox, Misses, Leaves
      <3>2. 0 \in 0..MaxMsg
        BY ConstantFacts, SMT
      <3>3. QED
        BY <3>1, <3>2 DEF Kind
    <2>3. QED
      BY <2>1, <2>2 DEF TakesFromBox
  <1> HIDE DEF i, e
  <1>7. TaskTypes' /\ Others(c) /\ Returned(c, kind, n)
    BY <1>6, ReturnEffect DEF TakesFromBox, IndInv
  <1>8. pc'[c] = "replying" /\ req'[c] = req[c] /\ resp'[c].kind = kind /\ resp'[c].msg = n
    BY <1>7, SMT DEF Returned
  <1>9. \A m \in Msg : Shows(c, m)' <=> how = "taken" /\ m = e
    BY <1>6, <1>8 DEF Shows
  <1>10. TaskInv(c)'
    BY <1>1, <1>3, <1>6, <1>8 DEF TaskInv, Working, Msg
  <1>11. ~Carries(c)' /\ PayloadInv(c)' /\ ToldInv(c)'
    BY <1>2, <1>8 DEF Carries, PayloadInv, ToldInv
  <1>12. /\ fate' \in [Msg -> Fate] /\ fate'[e] = how
         /\ \A m \in Msg : m # e => fate'[m] = fate[m]
    <2>1. fate \in [Msg -> Fate] /\ how \in Fate
      BY DEF IndInv, WorldTypes, Fate, Stored
    <2>2. QED
      BY <1>3, <1>6, <2>1
  <1>13. WorldTypes'
    BY <1>12 DEF TakesFromBox, IndInv, WorldTypes
  <1>14. Settles(c)
    BY <1>4, <1>12 DEF Settles, Stored
  <1>15. BoxInv'
    <2>1. \A m \in Msg : (fate'[m] = "held") <=> (fate[m] = "held" /\ m # e)
      BY <1>12
    <2>2. ASSUME NEW m \in Msg, fate'[m] = "held"
          PROVE  \E o \in WriteOp, j \in Identity : Lies(o, j, m)'
      <3>1. PICK o \in WriteOp, j \in Identity : Lies(o, j, m)
        BY <2>1, <2>2 DEF IndInv, BoxInv
      <3>2. ~(o = op /\ j = i)
        BY <2>1, <2>2, <3>1 DEF Lies, e
      <3>3. QED
        BY <1>5, <3>1, <3>2
    <2>3. ASSUME NEW m \in Msg, NEW o \in WriteOp, NEW j \in Identity, Lies(o, j, m)'
          PROVE  fate'[m] = "held" /\ origin'[m] = [op |-> o, id |-> j]
      <3>1. Lies(o, j, m) /\ ~(o = op /\ j = i)
        BY <1>5, <2>3
      <3>2. m # e
        BY <1>4, <3>1
      <3>3. QED
        BY <2>1, <3>1, <3>2 DEF TakesFromBox, IndInv, BoxInv
    <2>4. \A m \in Msg : (fate'[m] = "held") <=> \E o \in WriteOp, j \in Identity : Lies(o, j, m)'
      BY <2>2, <2>3
    <2>5. QED
      BY <2>3, <2>4 DEF BoxInv, Msg
  <1>16. ResponseInv'
    <2>1. \A m \in Msg : (fate'[m] = "taken") <=> (fate[m] = "taken" \/ Shows(c, m)')
      BY <1>4, <1>9, <1>12
    <2>2. \A m \in Msg : Shows(c, m)' => fate[m] # "taken"
      BY <1>4, <1>9
    <2>3. Replaces(c)
      BY <1>1, <2>1, <2>2 DEF Replaces
    <2>4. QED
      BY <1>7, <2>3, ResponsesPreserved DEF IndInv
  <1>17. SameCarrier(c)
    BY <1>11 DEF SameCarrier, TakesFromBox
  <1>18. QED
    BY <1>7, <1>10, <1>11, <1>13, <1>14, <1>15, <1>16, <1>17, SettleStep

(* RelayStore::pickup finds nothing. *)
LEMMA MissStep ==
    ASSUME IndInv, NEW c \in Conn, pc[c] = "taking", NEW op \in WriteOp,
           Box(op)[req[c].id] = Nothing, Misses(c, Box(op)),
           UNCHANGED <<split, clock, buckets, challenges, issued, store, prekeys, req, now,
                       arrived, origin, paid, calledAt>>
    PROVE  IndInv'
  <1>1. UNCHANGED fate /\ Return(c, "error", 0)
    BY DEF Misses, Leaves
  <1>2. TaskTypes' /\ Others(c) /\ Returned(c, "error", 0)
    BY <1>1, ReturnEffect, ConstantFacts, SMT DEF IndInv, Kind
  <1>3. ~Carries(c) /\ resp[c].kind # "data"
    BY NotReplying DEF IndInv, TaskInv, Carries, ReadOp, WriteOp
  <1>4. TaskInv(c)' /\ PayloadInv(c)' /\ (Carries(c)' => Carries(c) /\ req'[c] = req[c])
    BY <1>2, HandlerReturns DEF Working
  <1>5. resp'[c].kind # "data" /\ ToldInv(c)'
    BY <1>2, <1>3, <1>4, SMT DEF Returned, ToldInv
  <1>6. WorldTypes' /\ UnusedInv' /\ PaidInv'
    BY <1>1, WorldUnchanged
  <1>7. QED
    BY <1>1, <1>2, <1>3, <1>4, <1>5, <1>6, QuietStep

(* lookup_prekey takes from the prekey store. *)
LEMMA LookupPrekeyStep ==
    ASSUME IndInv, NEW c \in Conn, LookupPrekey(c)
    PROVE  IndInv'
  <1>1. /\ pc[c] = "taking" /\ req[c].id \in Identity /\ "publish_prekey" \in WriteOp
        /\ UNCHANGED <<split, clock, buckets, challenges, issued, store, req, now,
                       arrived, origin, paid, calledAt>>
    BY Serving DEF LookupPrekey, Working, WriteOp
  <1>2. Box("publish_prekey") = prekeys /\ Box("publish_prekey")' = prekeys'
    BY DEF Box
  <1>3. CASE prekeys[req[c].id] = Nothing
    <2>1. UNCHANGED prekeys /\ Misses(c, prekeys)
      BY <1>3 DEF LookupPrekey, Prekeys!PickupOk, Prekeys!PickupExpired,
                  Prekeys!PickupNotFound, Prekeys!Empty
    <2>2. QED
      BY <1>1, <1>2, <1>3, <2>1, MissStep
  <1>4. CASE prekeys[req[c].id] # Nothing
    <2>1. prekeys' = [prekeys EXCEPT ![req[c].id] = Nothing] /\ (Hands(c, prekeys) \/ Misses(c, prekeys))
      BY <1>4 DEF LookupPrekey, Prekeys!PickupOk, Prekeys!PickupExpired,
                  Prekeys!PickupNotFound, Prekeys!Empty, Prekeys!Remove
    <2>2. /\ store' \in [Identity -> Envelopes!Slot \cup {Nothing}]
          /\ prekeys' \in [Identity -> Prekeys!Slot \cup {Nothing}]
      BY <1>1, <2>1 DEF IndInv, WorldTypes
    <2>3. \A o \in WriteOp : o # "publish_prekey" => Box(o)' = Box(o)
      BY <1>1 DEF Box
    <2>4. QED
      BY <1>1, <1>2, <1>4, <2>1, <2>2, <2>3, TakeStep DEF TakesFromBox
  <1>5. QED
    BY <1>3, <1>4

(* pickup_envelope takes from the envelope store. *)
LEMMA PickupEnvelopeStep ==
    ASSUME IndInv, NEW c \in Conn, PickupEnvelope(c)
    PROVE  IndInv'
  <1>1. /\ pc[c] = "taking" /\ req[c].id \in Identity /\ "send_envelope" \in WriteOp
        /\ UNCHANGED <<split, clock, buckets, challenges, issued, prekeys, req, now,
                       arrived, origin, paid, calledAt>>
    BY Serving DEF PickupEnvelope, Working, WriteOp
  <1>2. Box("send_envelope") = store /\ Box("send_envelope")' = store'
    BY DEF Box
  <1>3. CASE store[req[c].id] = Nothing
    <2>1. UNCHANGED store /\ Misses(c, store)
      BY <1>3 DEF PickupEnvelope, Envelopes!PickupOk, Envelopes!PickupExpired,
                  Envelopes!PickupNotFound, Envelopes!Empty
    <2>2. QED
      BY <1>1, <1>2, <1>3, <2>1, MissStep
  <1>4. CASE store[req[c].id] # Nothing
    <2>1. store' = [store EXCEPT ![req[c].id] = Nothing] /\ (Hands(c, store) \/ Misses(c, store))
      BY <1>4 DEF PickupEnvelope, Envelopes!PickupOk, Envelopes!PickupExpired,
                  Envelopes!PickupNotFound, Envelopes!Empty, Envelopes!Remove
    <2>2. /\ store' \in [Identity -> Envelopes!Slot \cup {Nothing}]
          /\ prekeys' \in [Identity -> Prekeys!Slot \cup {Nothing}]
      BY <1>1, <2>1 DEF IndInv, WorldTypes
    <2>3. \A o \in WriteOp : o # "send_envelope" => Box(o)' = Box(o)
      BY <1>1 DEF Box, WriteOp
    <2>4. QED
      BY <1>1, <1>2, <1>4, <2>1, <2>2, <2>3, TakeStep DEF TakesFromBox
  <1>5. QED
    BY <1>3, <1>4

-----------------------------------------------------------------------------
(* The reply of c is sent or lost: what c shows is received or lost. *)
Answers(c, how) ==
    /\ pc'[c] \in {"idle", "closed"} /\ req'[c] = Nothing /\ resp'[c] = Silent
    /\ TaskTypes' /\ Others(c) /\ Answered(c, how)
    /\ UNCHANGED <<split, clock, buckets, challenges, issued, store, prekeys,
                   arrived, origin, paid, calledAt>>

(* A response leaves its task. *)
LEMMA AnsweredStep ==
    ASSUME IndInv, NEW c \in Conn, NEW how \in {"received", "lost"}, Answers(c, how)
    PROVE  IndInv'
  <1>1. TaskInv(c)'
    BY SMT DEF Answers, TaskInv, Working, Silent
  <1>2. ~Carries(c)' /\ PayloadInv(c)' /\ ToldInv(c)'
    BY DEF Answers, PayloadInv, ToldInv, Carries
  <1>3. \A m \in Msg : ~Shows(c, m)'
    BY SMT DEF Answers, Shows, Silent
  <1>4. \A m \in Msg : Shows(c, m) => fate[m] = "taken"
    BY DEF IndInv, ResponseInv
  <1>5. /\ fate' \in [Msg -> Fate]
        /\ \A m \in Msg : fate'[m] = IF Shows(c, m) THEN how ELSE fate[m]
    <2>1. fate \in [Msg -> Fate] /\ how \in Fate
      BY DEF IndInv, WorldTypes, Fate, Stored
    <2>2. CASE resp[c].kind = "data"
      <3>1. resp[c].msg \in Msg
        BY <2>2 DEF IndInv, TaskInv
      <3>2. QED
        BY <2>1, <2>2, <3>1 DEF Answers, Answered, Shows
    <2>3. CASE resp[c].kind # "data"
      BY <2>1, <2>3 DEF Answers, Answered, Shows
    <2>4. QED
      BY <2>2, <2>3
  <1>6. \A m \in Msg : fate'[m] = fate[m] \/ (fate[m] = "taken" /\ fate'[m] = how)
    BY <1>4, <1>5
  <1>7. WorldTypes'
    BY <1>5 DEF Answers, IndInv, WorldTypes
  <1>8. Settles(c)
    BY <1>6 DEF Settles, Stored
  <1>9. BoxInv'
    <2>1. \A m \in Msg : (fate'[m] = "held") <=> (fate[m] = "held")
      BY <1>6
    <2>2. QED
      BY <2>1, BoxesPreserved DEF Answers, IndInv
  <1>10. ResponseInv'
    <2>1. \A m \in Msg : (fate'[m] = "taken") <=> (fate[m] = "taken" /\ ~Shows(c, m))
      BY <1>4, <1>5
    <2>2. Replaces(c)
      BY <1>3, <2>1 DEF Replaces
    <2>3. QED
      BY <2>2, ResponsesPreserved DEF Answers, IndInv
  <1>11. SameCarrier(c) /\ Others(c) /\ TaskTypes'
    BY <1>2 DEF SameCarrier, Answers
  <1>12. QED
    BY <1>1, <1>2, <1>7, <1>8, <1>9, <1>10, <1>11, SettleStep

(* A response that is sent leaves its task. *)
LEMMA ReplyAnswers ==
    ASSUME IndInv, NEW c \in Conn, Reply(c)
    PROVE  Answers(c, "received")
  <1>1. Silent \in Response
    BY ConstantFacts, SMT DEF Silent, Response
  <1>2. TaskTypes' /\ Others(c) /\ pc'[c] = "idle" /\ req'[c] = Nothing /\ resp'[c] = Silent
    BY <1>1 DEF Reply, Goto, IndInv, TaskTypes, Step, Others
  <1>3. QED
    BY <1>2 DEF Answers, Reply

(* So does one that is lost with the connection. *)
LEMMA ReplyFailsAnswers ==
    ASSUME IndInv, NEW c \in Conn, ReplyFails(c)
    PROVE  Answers(c, "lost")
  <1>1. TaskTypes' /\ Others(c) /\ Ended(c)
    BY EndTaskEffect DEF ReplyFails, IndInv
  <1>2. QED
    BY <1>1 DEF Answers, ReplyFails, Ended

(* Only the clock moves, or nothing does. *)
LEMMA IdleStep ==
    ASSUME IndInv, clock' \in Nat,
           UNCHANGED <<split, buckets, challenges, issued, store, prekeys, pc, req, now, resp,
                       arrived, origin, paid, calledAt, fate>>
    PROVE  IndInv'
  <1>1. TaskTypes' /\ WorldTypes'
    BY DEF IndInv, TaskTypes, WorldTypes
  <1>2. BoxInv'
    BY BoxesPreserved DEF IndInv
  <1>3. ResponseInv'
    BY DEF IndInv, ResponseInv, Shows, Msg
  <1>4. \A c \in Conn : TaskInv(c)' /\ PayloadInv(c)' /\ ToldInv(c)'
    BY DEF IndInv, TaskInv, PayloadInv, ToldInv, Carries, Msg
  <1>5. OneCarrier' /\ UnusedInv' /\ PaidInv'
    BY DEF IndInv, OneCarrier, Carries, UnusedInv, PaidInv, Msg
  <1>6. QED
    BY <1>1, <1>2, <1>3, <1>4, <1>5 DEF IndInv

(* Every step of the bridge keeps the inductive invariant. *)
LEMMA NextPreserves ==
    IndInv /\ [Next]_vars => IndInv'
  <1> SUFFICES ASSUME IndInv, [Next]_vars
               PROVE  IndInv'
    OBVIOUS
  <1>1. CASE UNCHANGED vars
    <2>1. clock' \in Nat
      BY <1>1 DEF vars, IndInv, WorldTypes
    <2>2. QED
      BY <1>1, <2>1, IdleStep DEF vars
  <1>2. CASE Tick
    <2>1. clock' \in Nat
      BY <1>2, SMT DEF Tick, IndInv, WorldTypes
    <2>2. QED
      BY <1>2, <2>1, IdleStep DEF Tick
  <1>3. ASSUME NEW c \in Conn, Frame(c)
        PROVE  IndInv'
    BY <1>3, AcceptStep, DisconnectStep, BadFrameStep, ReceiveChallengeStep, ReceiveReadStep,
       ReceiveWriteStep DEF Frame
  <1>4. ASSUME NEW c \in Conn, Handle(c)
        PROVE  IndInv'
    <2>1. CASE RateLimitExceeded(c) \/ PowFailed(c) \/ InvalidBase64(c)
      BY <2>1, RateLimitExceededRejects, PowFailedRejects, InvalidBase64Rejects, RejectStep
    <2>2. CASE Reply(c) \/ ReplyFails(c)
      BY <2>2, ReplyAnswers, ReplyFailsAnswers, AnsweredStep
    <2>3. QED
      BY <1>4, <2>1, <2>2, RateOkStep, IssueChallengeStep, PowOkStep, DecodeStep,
         PublishPrekeyStep, SendEnvelopeStep, LookupPrekeyStep, PickupEnvelopeStep DEF Handle
  <1>5. QED
    BY <1>1, <1>2, <1>3, <1>4 DEF Next

-----------------------------------------------------------------------------
(* The bridge keeps the inductive invariant throughout: every payload has  *)
(* one owner, the task that carries it, a slot or a response.              *)
THEOREM Inductive ==
    Spec => []IndInv
  BY InitEstablishes, NextPreserves, PTL DEF Spec

(* verify_pow's "single-use" challenges, for any number of connections: a  *)
(* stored payload was paid for with an issued challenge that is no longer  *)
(* active and paid for no other.                                           *)
THEOREM ChallengesAreSingleUse ==
    Spec => []PaidOnce
  BY Inductive, InvariantImplies, PTL

(* handle_request and RelayStore::pickup: a payload is held in one slot,   *)
(* that of its operation and recipient, or shown by one task, never both.  *)
THEOREM DeliveredAtMostOnce ==
    Spec => []AtMostOnce
  BY Inductive, InvariantImplies, PTL

(* handle_request fails closed: a sender told of an error finds its        *)
(* payload rejected, one told ok had it stored.                            *)
THEOREM RequestsFailClosed ==
    Spec => []FailClosed
  BY Inductive, InvariantImplies, PTL

(* RateLimiter::check behind the bridge's lock: whatever the order in      *)
(* which the handlers read the clock, the windows of an identity never     *)
(* overlap.                                                                *)
THEOREM WindowsNeverOverlap ==
    Spec => WindowsDisjoint
  <1> DEFINE Kept == \A i \in Identity : buckets[i] # NoBucket =>
                         \/ buckets'[i].start = buckets[i].start
                         \/ buckets'[i].start >= buckets[i].start + Limiter!WindowSecs
  <1>1. ASSUME IndInv, [Next]_vars
        PROVE  [Kept]_vars
    <2>1. buckets \in [Identity -> Limiter!Bucket \cup {NoBucket}]
      BY <1>1 DEF IndInv, WorldTypes
    <2>2. ASSUME NEW c \in Conn, RateOk(c) \/ RateLimitExceeded(c)
          PROVE  Kept
      <3>1. req[c].id \in Identity /\ now[c] \in Nat
        BY <1>1, <2>2, Serving DEF RateOk, RateLimitExceeded, Working
      <3>2. QED
        BY <2>1, <2>2, <3>1, LimiterStep DEF RateOk, RateLimitExceeded
    <2>3. CASE UNCHANGED buckets
      BY <2>3
    <2>4. ASSUME NEW c \in Conn, Handle(c)
          PROVE  UNCHANGED buckets \/ RateOk(c) \/ RateLimitExceeded(c)
      BY <2>4 DEF Handle, IssueChallenge, PowOk, PowFailed, InvalidBase64, Decode,
         PublishPrekey,
                  SendEnvelope, Enters, LookupPrekey, PickupEnvelope, Reply, ReplyFails
    <2>5. ASSUME NEW c \in Conn, Frame(c)
          PROVE  UNCHANGED buckets
      BY <2>5 DEF Frame, Accept, Disconnect, BadFrame, ReceiveChallenge, ReceiveRead,
                  ReceiveWrite, Receive
    <2>6. CASE Tick \/ UNCHANGED vars
      BY <2>6 DEF Tick, vars
    <2>7. QED
      BY <1>1, <2>2, <2>3, <2>4, <2>5, <2>6 DEF Next
  <1>2. QED
    BY <1>1, Inductive, PTL DEF Spec, WindowsDisjoint

-----------------------------------------------------------------------------
(***************************************************************************)
(* The two stores of the bridge implement RelayStore.                      *)
(*                                                                         *)
(* The refinement mapping is that of WsStores.  Its entries are read one   *)
(* task and one payload at a time (CallOf, DateOf, SeenAs); a step of the  *)
(* bridge then moves a store as a step of RelayStore does (StoreStep), or  *)
(* leaves what the store sees as it was.  The inductive invariant above    *)
(* tells whose a payload is.                                               *)
(***************************************************************************)

Waits(c, op) == pc[c] = "inserting" /\ req[c].op = op

Calling(m) == \E c \in Conn : pc[c] = "inserting" /\ req[c].msg = m

Mine(op, m) == origin[m] # Nothing /\ origin[m].op = op

(* What a fate is to a store. *)
Class(f) ==
    IF f \in {"taken", "received", "lost"} THEN "delivered"
    ELSE IF f \in Stored THEN f ELSE "new"

CallRecord(i, m, x) == [to |-> i, envelope |-> m, expiry |-> x]

CallOf(op, c) ==
    IF Waits(c, op)
      THEN CallRecord(req[c].id, req[c].msg, calledAt[req[c].msg] + TTLOf(op))
      ELSE Nothing

DateOf(op, m) == IF Mine(op, m) THEN calledAt[m] ELSE 0

SeenAs(op, m) ==
    IF ~Mine(op, m) THEN "new" ELSE IF Calling(m) THEN "calling" ELSE Class(fate[m])

View(op) ==
    /\ BoxCalls(op) = [c \in Conn |-> CallOf(op, c)]
    /\ BoxCalledAt(op) = [m \in Msg |-> DateOf(op, m)]
    /\ BoxFate(op) = [m \in Msg |-> SeenAs(op, m)]

Views == View("send_envelope") /\ View("publish_prekey")

(* The task that waits to insert a payload is its carrier. *)
LEMMA Caller ==
    ASSUME IndInv, NEW c \in Conn, pc[c] = "inserting"
    PROVE  /\ Carries(c) /\ req[c].msg \in Msg /\ req[c].id \in Identity
           /\ req[c].op \in WriteOp
           /\ origin[req[c].msg] = [op |-> req[c].op, id |-> req[c].id]
           /\ fate[req[c].msg] = "arrived"
  <1>1. req[c] # Nothing /\ req[c].id \in Identity
    BY Serving DEF Working
  <1>2. req[c].op \in WriteOp
    BY DEF IndInv, TaskInv
  <1>3. Carries(c)
    BY <1>1, <1>2 DEF Carries
  <1>4. req[c].msg \in Msg /\ fate[req[c].msg] = "arrived"
    BY <1>3, Carried DEF Unsettled
  <1>5. origin[req[c].msg] = [op |-> req[c].op, id |-> req[c].id]
    BY <1>3 DEF IndInv, PayloadInv
  <1>6. QED
    BY <1>1, <1>2, <1>3, <1>4, <1>5

(* What a task is about to store has arrived. *)
LEMMA CallingArrived ==
    ASSUME IndInv, NEW m \in Msg, Calling(m)
    PROVE  fate[m] = "arrived" /\ origin[m] # Nothing
  <1>1. PICK c \in Conn : pc[c] = "inserting" /\ req[c].msg = m
    BY DEF Calling
  <1>2. fate[m] = "arrived" /\ origin[m] = [op |-> req[c].op, id |-> req[c].id]
    BY <1>1, Caller
  <1>3. [op |-> req[c].op, id |-> req[c].id] \in Origin
    BY <1>1, Caller DEF Origin
  <1>4. QED
    BY <1>2, <1>3, ConstantFacts

(* The refinement mapping, entry by entry. *)
LEMMA ViewsHold ==
    IndInv => Views
  <1> SUFFICES ASSUME IndInv, NEW op
               PROVE  View(op)
    BY DEF Views
  <1>1. BoxCalls(op) = [c \in Conn |-> CallOf(op, c)]
    BY DEF BoxCalls, CallOf, Waits, CallRecord
  <1>2. BoxCalledAt(op) = [m \in Msg |-> DateOf(op, m)]
    BY DEF BoxCalledAt, DateOf, Mine
  <1>3. \A m \in Msg : Calling(m) => fate[m] = "arrived"
    BY CallingArrived
  <1>4. \A m \in Msg : BoxFate(op)[m] = SeenAs(op, m)
    <2> SUFFICES ASSUME NEW m \in Msg PROVE BoxFate(op)[m] = SeenAs(op, m)
      OBVIOUS
    <2>1. BoxFate(op)[m] =
            IF ~Mine(op, m) THEN "new"
            ELSE IF fate[m] \in {"taken", "received", "lost"} THEN "delivered"
            ELSE IF Calling(m) THEN "calling"
            ELSE IF fate[m] \in Stored THEN fate[m] ELSE "new"
      BY SMT DEF BoxFate, Mine, Calling
    <2>2. QED
      BY <1>3, <2>1, SMT DEF SeenAs, Class
  <1>5. BoxFate(op) = [m \in Msg |-> SeenAs(op, m)]
    BY <1>4 DEF BoxFate
  <1>6. QED
    BY <1>1, <1>2, <1>5 DEF View

-----------------------------------------------------------------------------
(* What a step of RelayStore is to a store of the bridge. *)
SameCall(op, c) == CallOf(op, c)' = CallOf(op, c)
SameDate(op, m) == DateOf(op, m)' = DateOf(op, m)
SameSeen(op, m) == SeenAs(op, m)' = SeenAs(op, m)

Rests(op) ==
    /\ Box(op)' = Box(op)
    /\ \A c \in Conn : SameCall(op, c)
    /\ \A m \in Msg : SameDate(op, m) /\ SameSeen(op, m)

Called(op, c, i, m) ==
    /\ CallOf(op, c) = Nothing /\ SeenAs(op, m) = "new"
    /\ CallOf(op, c)' = CallRecord(i, m, clock + TTLOf(op))
    /\ DateOf(op, m)' = clock
    /\ SeenAs(op, m)' = "calling"
    /\ \A d \in Conn : d # c => SameCall(op, d)
    /\ \A n \in Msg : n # m => SameDate(op, n) /\ SameSeen(op, n)
    /\ Box(op)' = Box(op) /\ UNCHANGED clock

Entered(op, c, i, m, x) ==
    /\ CallOf(op, c) = CallRecord(i, m, x) /\ CallRecord(i, m, x) # Nothing
    /\ CallOf(op, c)' = Nothing
    /\ Box(op)' = [Box(op) EXCEPT ![i] = [envelope |-> m, expiry |-> x]]
    /\ SeenAs(op, m)' = "held"
    /\ \A n \in Msg : n # m =>
         IF Lies(op, i, n) THEN SeenAs(op, n)' = "overwritten" ELSE SameSeen(op, n)
    /\ \A d \in Conn : d # c => SameCall(op, d)
    /\ \A n \in Msg : SameDate(op, n)
    /\ UNCHANGED clock

Taken(op, i, how) ==
    /\ Box(op)[i] # Nothing
    /\ how = IF clock > Box(op)[i].expiry THEN "expired" ELSE "delivered"
    /\ Box(op)' = [Box(op) EXCEPT ![i] = Nothing]
    /\ \A n \in Msg : IF Lies(op, i, n) THEN SeenAs(op, n)' = how ELSE SameSeen(op, n)
    /\ \A d \in Conn : SameCall(op, d)
    /\ \A n \in Msg : SameDate(op, n)
    /\ UNCHANGED clock

StoreStep(op) ==
    \/ Rests(op) /\ UNCHANGED clock
    \/ Rests(op) /\ clock < MaxClock /\ clock' = clock + 1
    \/ \E c \in Conn, i \in Identity, m \in Msg : Called(op, c, i, m)
    \/ \E c \in Conn, i \in Identity, m \in Msg, x \in Nat : Entered(op, c, i, m, x)
    \/ \E i \in Identity, how \in {"expired", "delivered"} : Taken(op, i, how)

(* The same, on the functions that the refinement mapping gives RelayStore. *)
RestsAs(op) == UNCHANGED <<Box(op), BoxCalls(op), BoxCalledAt(op), BoxFate(op)>>

CallsAs(op, c, i, m) ==
    /\ BoxCalls(op)[c] = Nothing /\ BoxFate(op)[m] = "new"
    /\ BoxCalls(op)' = [BoxCalls(op) EXCEPT ![c] = CallRecord(i, m, clock + TTLOf(op))]
    /\ BoxCalledAt(op)' = [BoxCalledAt(op) EXCEPT ![m] = clock]
    /\ BoxFate(op)' = [BoxFate(op) EXCEPT ![m] = "calling"]
    /\ UNCHANGED <<Box(op), clock>>

EntersAs(op, c, i, m, x) ==
    /\ BoxCalls(op)[c] # Nothing /\ BoxCalls(op)[c] = CallRecord(i, m, x)
    /\ Box(op)' = [Box(op) EXCEPT ![i] = [envelope |-> m, expiry |-> x]]
    /\ BoxFate(op)' = [Leaves(BoxFate(op), Box(op), i, "overwritten") EXCEPT ![m] = "held"]
    /\ BoxCalls(op)' = [BoxCalls(op) EXCEPT ![c] = Nothing]
    /\ UNCHANGED <<clock, BoxCalledAt(op)>>

TakesAs(op, i, how) ==
    /\ Box(op)[i] # Nothing
    /\ how = IF clock > Box(op)[i].expiry THEN "expired" ELSE "delivered"
    /\ Box(op)' = [Box(op) EXCEPT ![i] = Nothing]
    /\ BoxFate(op)' = Leaves(BoxFate(op), Box(op), i, how)
    /\ UNCHANGED <<clock, BoxCalls(op), BoxCalledAt(op)>>

(* A step that changes nothing the store sees is a stutter of it. *)
LEMMA RestsMapped ==
    ASSUME NEW op, View(op), View(op)', Rests(op)
    PROVE  RestsAs(op)
  <1>1. [c \in Conn |-> CallOf(op, c)]' = [c \in Conn |-> CallOf(op, c)]
    BY DEF Rests, SameCall
  <1>2. [m \in Msg |-> DateOf(op, m)]' = [m \in Msg |-> DateOf(op, m)]
    BY DEF Rests, SameDate, Msg
  <1>3. [m \in Msg |-> SeenAs(op, m)]' = [m \in Msg |-> SeenAs(op, m)]
    BY DEF Rests, SameSeen, Msg
  <1>4. QED
    BY <1>1, <1>2, <1>3 DEF View, Rests, RestsAs

(* A task that has read the clock is a caller that waits for the mutex. *)
LEMMA CalledMapped ==
    ASSUME NEW op, View(op), View(op)', NEW c \in Conn, NEW i \in Identity, NEW m \in Msg,
           Called(op, c, i, m)
    PROVE  CallsAs(op, c, i, m)
  <1>1. [d \in Conn |-> CallOf(op, d)]' =
          [[d \in Conn |-> CallOf(op, d)] EXCEPT ![c] = CallRecord(i, m, clock + TTLOf(op))]
    BY DEF Called, SameCall
  <1>2. [n \in Msg |-> DateOf(op, n)]' = [[n \in Msg |-> DateOf(op, n)] EXCEPT ![m] = clock]
    BY DEF Called, SameDate, Msg
  <1>3. [n \in Msg |-> SeenAs(op, n)]' = [[n \in Msg |-> SeenAs(op, n)] EXCEPT ![m] = "calling"]
    BY DEF Called, SameSeen, Msg
  <1>4. BoxCalls(op)[c] = Nothing /\ BoxFate(op)[m] = "new"
    BY DEF View, Called
  <1>5. QED
    BY <1>1, <1>2, <1>3, <1>4 DEF View, Called, CallsAs

(* Its entry is the store's. *)
LEMMA EnteredMapped ==
    ASSUME IndInv, NEW op \in WriteOp, View(op), View(op)', NEW c \in Conn, NEW i \in Identity,
           NEW m \in Msg, NEW x \in Nat, Entered(op, c, i, m, x)
    PROVE  EntersAs(op, c, i, m, x)
  <1> DEFINE f == [n \in Msg |-> SeenAs(op, n)]
  <1>1. [d \in Conn |-> CallOf(op, d)]' = [[d \in Conn |-> CallOf(op, d)] EXCEPT ![c] = Nothing]
    BY DEF Entered, SameCall
  <1>2. [n \in Msg |-> DateOf(op, n)]' = [n \in Msg |-> DateOf(op, n)]
    BY DEF Entered, SameDate, Msg
  <1>3. Leaves(f, Box(op), i, "overwritten") =
          [n \in Msg |-> IF Lies(op, i, n) THEN "overwritten" ELSE f[n]]
    <2>1. Box(op)[i] # Nothing => Box(op)[i].envelope \in Msg
      BY BoxTypes, SMT DEF Slot
    <2>2. f \in [Msg -> {SeenAs(op, n) : n \in Msg}]
      OBVIOUS
    <2> HIDE DEF f
    <2>3. CASE Box(op)[i] = Nothing
      BY <2>2, <2>3 DEF Leaves, Lies
    <2>4. CASE Box(op)[i] # Nothing
      BY <2>1, <2>2, <2>4 DEF Leaves, Lies
    <2>5. QED
      BY <2>3, <2>4
  <1>4. f' = [Leaves(f, Box(op), i, "overwritten") EXCEPT ![m] = "held"]
    BY <1>3 DEF Entered, SameSeen, Msg
  <1>5. BoxCalls(op)[c] = CallRecord(i, m, x) /\ CallRecord(i, m, x) # Nothing
    BY DEF View, Entered
  <1>6. QED
    BY <1>1, <1>2, <1>4, <1>5 DEF View, Entered, EntersAs

(* A lookup or pickup is the store's pickup. *)
LEMMA TakenMapped ==
    ASSUME IndInv, NEW op \in WriteOp, View(op), View(op)', NEW i \in Identity,
           NEW how \in {"expired", "delivered"}, Taken(op, i, how)
    PROVE  TakesAs(op, i, how)
  <1> DEFINE f == [n \in Msg |-> SeenAs(op, n)]
  <1>1. [d \in Conn |-> CallOf(op, d)]' = [d \in Conn |-> CallOf(op, d)]
    BY DEF Taken, SameCall
  <1>2. [n \in Msg |-> DateOf(op, n)]' = [n \in Msg |-> DateOf(op, n)]
    BY DEF Taken, SameDate, Msg
  <1>3. Leaves(f, Box(op), i, how) = [n \in Msg |-> IF Lies(op, i, n) THEN how ELSE f[n]]
    <2>1. Box(op)[i] # Nothing => Box(op)[i].envelope \in Msg
      BY BoxTypes, SMT DEF Slot
    <2>2. f \in [Msg -> {SeenAs(op, n) : n \in Msg}]
      OBVIOUS
    <2> HIDE DEF f
    <2>3. CASE Box(op)[i] = Nothing
      BY <2>2, <2>3 DEF Leaves, Lies
    <2>4. CASE Box(op)[i] # Nothing
      BY <2>1, <2>2, <2>4 DEF Leaves, Lies
    <2>5. QED
      BY <2>3, <2>4
  <1>4. f' = Leaves(f, Box(op), i, how)
    BY <1>3 DEF Taken, SameSeen, Msg
  <1>5. QED
    BY <1>1, <1>2, <1>4 DEF View, Taken, TakesAs

(* A StoreStep is a step of the envelope store. *)
LEMMA EnvelopeStep ==
    ASSUME IndInv, View("send_envelope"), View("send_envelope")', StoreStep("send_envelope")
    PROVE  [EnvelopeStore!Next]_(EnvelopeStore!vars)
  <1>1. /\ "send_envelope" \in WriteOp /\ TTLOf("send_envelope") = EnvelopeTTL
        /\ Box("send_envelope") = store /\ Box("send_envelope")' = store'
    BY DEF WriteOp, Box, TTLOf
  <1>2. ASSUME Rests("send_envelope")
        PROVE  RestsAs("send_envelope")
    BY <1>2, RestsMapped
  <1>3. CASE Rests("send_envelope") /\ UNCHANGED clock
    BY <1>1, <1>2, <1>3 DEF RestsAs, EnvelopeStore!vars
  <1>4. CASE Rests("send_envelope") /\ clock < MaxClock /\ clock' = clock + 1
    BY <1>1, <1>2, <1>4 DEF RestsAs, EnvelopeStore!Next, EnvelopeStore!Tick
  <1>5. ASSUME NEW c \in Conn, NEW i \in Identity, NEW m \in Msg,
               Called("send_envelope", c, i, m)
        PROVE  EnvelopeStore!Next
    <2>1. CallsAs("send_envelope", c, i, m)
      BY <1>5, CalledMapped
    <2>2. EnvelopeStore!CallStore(c, i, m)
      BY <1>1, <2>1 DEF CallsAs, EnvelopeStore!CallStore, CallRecord
    <2>3. QED
      BY <2>2 DEF EnvelopeStore!Next
  <1>6. ASSUME NEW c \in Conn, NEW i \in Identity, NEW m \in Msg, NEW x \in Nat,
               Entered("send_envelope", c, i, m, x)
        PROVE  EnvelopeStore!Next
    <2>1. EntersAs("send_envelope", c, i, m, x)
      BY <1>1, <1>6, EnteredMapped
    <2>2. /\ CallRecord(i, m, x).to = i /\ CallRecord(i, m, x).envelope = m
          /\ CallRecord(i, m, x).expiry = x
      BY SMT DEF CallRecord
    <2>3. EnvelopeStore!EnterStore(c)
      BY <1>1, <2>1, <2>2 DEF EntersAs, EnvelopeStore!EnterStore, EnvelopeStore!Insert,
                              EnvelopeStore!Leaves, EnvelopeStore!Empty, Leaves
    <2>4. QED
      BY <2>3 DEF EnvelopeStore!Next
  <1>7. ASSUME NEW i \in Identity, NEW how \in {"expired", "delivered"},
               Taken("send_envelope", i, how)
        PROVE  EnvelopeStore!Next
    <2>1. TakesAs("send_envelope", i, how)
      BY <1>1, <1>7, TakenMapped
    <2>2. EnvelopeStore!Deliver(i) \/ EnvelopeStore!Drop(i)
      BY <1>1, <2>1 DEF TakesAs, EnvelopeStore!Deliver, EnvelopeStore!Drop,
                        EnvelopeStore!PickupOk, EnvelopeStore!PickupExpired,
                        EnvelopeStore!Expired, EnvelopeStore!Empty, EnvelopeStore!Remove,
                        EnvelopeStore!Leaves, Leaves
    <2>3. QED
      BY <2>2 DEF EnvelopeStore!Next
  <1>8. QED
    BY <1>3, <1>4, <1>5, <1>6, <1>7 DEF StoreStep

(* A StoreStep is a step of the prekey store. *)
LEMMA PrekeyStep ==
    ASSUME IndInv, View("publish_prekey"), View("publish_prekey")', StoreStep("publish_prekey")
    PROVE  [PrekeyStore!Next]_(PrekeyStore!vars)
  <1>1. /\ "publish_prekey" \in WriteOp /\ TTLOf("publish_prekey") = PrekeyTTL
        /\ Box("publish_prekey") = prekeys /\ Box("publish_prekey")' = prekeys'
    BY DEF WriteOp, Box, TTLOf
  <1>2. ASSUME Rests("publish_prekey")
        PROVE  RestsAs("publish_prekey")
    BY <1>2, RestsMapped
  <1>3. CASE Rests("publish_prekey") /\ UNCHANGED clock
    BY <1>1, <1>2, <1>3 DEF RestsAs, PrekeyStore!vars
  <1>4. CASE Rests("publish_prekey") /\ clock < MaxClock /\ clock' = clock + 1
    BY <1>1, <1>2, <1>4 DEF RestsAs, PrekeyStore!Next, PrekeyStore!Tick
  <1>5. ASSUME NEW c \in Conn, NEW i \in Identity, NEW m \in Msg,
               Called("publish_prekey", c, i, m)
        PROVE  PrekeyStore!Next
    <2>1. CallsAs("publish_prekey", c, i, m)
      BY <1>5, CalledMapped
    <2>2. PrekeyStore!CallStore(c, i, m)
      BY <1>1, <2>1 DEF CallsAs, PrekeyStore!CallStore, CallRecord
    <2>3. QED
      BY <2>2 DEF PrekeyStore!Next
  <1>6. ASSUME NEW c \in Conn, NEW i \in Identity, NEW m \in Msg, NEW x \in Nat,
               Entered("publish_prekey", c, i, m, x)
        PROVE  PrekeyStore!Next
    <2>1. EntersAs("publish_prekey", c, i, m, x)
      BY <1>1, <1>6, EnteredMapped
    <2>2. /\ CallRecord(i, m, x).to = i /\ CallRecord(i, m, x).envelope = m
          /\ CallRecord(i, m, x).expiry = x
      BY SMT DEF CallRecord
    <2>3. PrekeyStore!EnterStore(c)
      BY <1>1, <2>1, <2>2 DEF EntersAs, PrekeyStore!EnterStore, PrekeyStore!Insert,
                              PrekeyStore!Leaves, PrekeyStore!Empty, Leaves
    <2>4. QED
      BY <2>3 DEF PrekeyStore!Next
  <1>7. ASSUME NEW i \in Identity, NEW how \in {"expired", "delivered"},
               Taken("publish_prekey", i, how)
        PROVE  PrekeyStore!Next
    <2>1. TakesAs("publish_prekey", i, how)
      BY <1>1, <1>7, TakenMapped
    <2>2. PrekeyStore!Deliver(i) \/ PrekeyStore!Drop(i)
      BY <1>1, <2>1 DEF TakesAs, PrekeyStore!Deliver, PrekeyStore!Drop,
                        PrekeyStore!PickupOk, PrekeyStore!PickupExpired,
                        PrekeyStore!Expired, PrekeyStore!Empty, PrekeyStore!Remove,
                        PrekeyStore!Leaves, Leaves
    <2>3. QED
      BY <2>2 DEF PrekeyStore!Next
  <1>8. QED
    BY <1>3, <1>4, <1>5, <1>6, <1>7 DEF StoreStep

-----------------------------------------------------------------------------
(* A step of c that no store sees: c does not start or end a call, and     *)
(* every payload is to its store what it was, or has just arrived.         *)
Unseen(m) ==
    \/ origin'[m] = origin[m] /\ Class(fate'[m]) = Class(fate[m])
    \/ origin[m] = Nothing /\ Class(fate'[m]) = "new" /\ calledAt[m] = 0

Quiet(c) ==
    /\ pc[c] # "inserting" /\ pc'[c] # "inserting" /\ Others(c)
    /\ UNCHANGED <<store, prekeys, clock, calledAt>>
    /\ \A m \in Msg : Unseen(m)

(* Most steps change nothing that a store sees. *)
LEMMA QuietRests ==
    ASSUME IndInv, NEW c \in Conn, Quiet(c), NEW op \in WriteOp
    PROVE  Rests(op) /\ UNCHANGED clock
  <1>1. \A d \in Conn : /\ pc'[d] = "inserting" <=> pc[d] = "inserting"
                        /\ pc[d] = "inserting" => req'[d] = req[d]
    BY DEF Quiet, Others
  <1>2. \A d \in Conn : SameCall(op, d)
    BY <1>1 DEF SameCall, CallOf, Waits, Quiet
  <1>3. \A m \in Msg : Calling(m)' <=> Calling(m)
    BY <1>1 DEF Calling
  <1>4. \A m \in Msg : SameDate(op, m) /\ SameSeen(op, m)
    <2> SUFFICES ASSUME NEW m \in Msg PROVE SameDate(op, m) /\ SameSeen(op, m)
      OBVIOUS
    <2>1. CASE origin'[m] = origin[m] /\ Class(fate'[m]) = Class(fate[m])
      <3>1. Mine(op, m)' <=> Mine(op, m)
        BY <2>1 DEF Mine
      <3>2. QED
        BY <1>3, <2>1, <3>1 DEF SameDate, DateOf, SameSeen, SeenAs, Quiet
    <2>2. CASE origin[m] = Nothing /\ Class(fate'[m]) = "new" /\ calledAt[m] = 0
      <3>1. ~Mine(op, m) /\ ~Calling(m)
        BY <2>2, CallingArrived DEF Mine
      <3>2. DateOf(op, m) = 0 /\ DateOf(op, m)' = 0
        BY <2>2, <3>1 DEF DateOf, Quiet
      <3>3. SeenAs(op, m) = "new" /\ SeenAs(op, m)' = "new"
        BY <1>3, <2>2, <3>1 DEF SeenAs
      <3>4. QED
        BY <3>2, <3>3 DEF SameDate, SameSeen
    <2>3. QED
      BY <2>1, <2>2 DEF Quiet, Unseen
  <1>5. Box(op)' = Box(op) /\ UNCHANGED clock
    BY DEF Quiet, Box
  <1>6. QED
    BY <1>2, <1>4, <1>5 DEF Rests

(* The steps around the stores. *)
LEMMA FrameQuiet ==
    ASSUME IndInv, NEW c \in Conn, Frame(c)
    PROVE  Quiet(c)
  <1>1. pc \in [Conn -> Step] /\ req \in [Conn -> Request \cup {Nothing}] /\ resp \in [Conn -> Response]
    BY DEF IndInv, TaskTypes
  <1>2. CASE Accept(c) \/ Disconnect(c) \/ BadFrame(c)
    <2>1. /\ pc[c] # "inserting" /\ pc'[c] # "inserting" /\ Others(c)
      BY <1>1, <1>2, SMT DEF Accept, Disconnect, BadFrame, EndTask, Return, Goto, Others
    <2>2. UNCHANGED <<store, prekeys, clock, calledAt, origin, fate>>
      BY <1>2 DEF Accept, Disconnect, BadFrame
    <2>3. QED
      BY <2>1, <2>2 DEF Quiet, Unseen
  <1>3. ASSUME NEW r, Receive(c, r)
        PROVE  /\ pc[c] # "inserting" /\ pc'[c] # "inserting" /\ Others(c)
               /\ UNCHANGED <<store, prekeys, clock, calledAt>>
    BY <1>1, <1>3, SMT DEF Receive, Goto, Others
  <1>4. CASE \E i \in Identity : ReceiveChallenge(c, i) \/ \E op \in ReadOp : ReceiveRead(c, op, i)
    <2>1. PICK r : Receive(c, r)
      BY <1>4 DEF ReceiveChallenge, ReceiveRead
    <2>2. UNCHANGED <<origin, fate>>
      BY <1>4 DEF ReceiveChallenge, ReceiveRead
    <2>3. QED
      BY <1>3, <2>1, <2>2 DEF Quiet, Unseen
  <1>5. CASE \E i \in Identity, op \in WriteOp, cid \in 0..issued : ReceiveWrite(c, op, i, cid)
    <2>1. PICK i \in Identity, op \in WriteOp, cid \in 0..issued : ReceiveWrite(c, op, i, cid)
      BY <1>5
    <2>2. PICK r : Receive(c, r)
      BY <2>1 DEF ReceiveWrite
    <2>3. arrived' \in Msg /\ arrived' > arrived
      BY <2>1, ArrivedNat, ConstantFacts, SMT DEF ReceiveWrite, Msg
    <2>4. origin[arrived'] = Nothing /\ calledAt[arrived'] = 0
      BY <2>3 DEF IndInv, UnusedInv
    <2>5. fate'[arrived'] = "arrived"
      BY <2>1, <2>3 DEF ReceiveWrite, IndInv, WorldTypes
    <2>6. \A m \in Msg : m # arrived' => origin'[m] = origin[m] /\ fate'[m] = fate[m]
      BY <2>1, <2>3 DEF ReceiveWrite, IndInv, WorldTypes
    <2>7. Class("arrived") = "new"
      BY SMT DEF Class, Stored
    <2>8. \A m \in Msg : Unseen(m)
      BY <2>4, <2>5, <2>6, <2>7 DEF Unseen
    <2>9. QED
      BY <1>3, <2>2, <2>8 DEF Quiet
  <1>6. QED
    BY <1>2, <1>4, <1>5 DEF Frame

(* A refused payload never was in a store. *)
LEMMA RejectsQuiet ==
    ASSUME IndInv, NEW c \in Conn, Rejects(c)
    PROVE  Quiet(c)
  <1>1. pc[c] \in Working /\ pc[c] \in Unsettled /\ pc[c] # "inserting"
    BY DEF Working, Unsettled, Rejects
  <1>2. pc'[c] # "inserting" /\ Others(c) /\ UNCHANGED <<store, prekeys, clock, calledAt, origin>>
    BY DEF Rejects, Ended, Returned
  <1>3. Class("arrived") = "new" /\ Class("rejected") = "new"
    BY SMT DEF Class, Stored
  <1>4. \A m \in Msg : Class(fate'[m]) = Class(fate[m])
    <2>1. CASE req[c].op \in WriteOp
      <3>1. Carries(c)
        BY <1>1, <2>1, Serving DEF Carries
      <3>2. req[c].msg \in Msg /\ fate[req[c].msg] = "arrived"
        BY <1>1, <3>1, Carried
      <3>3. fate' = [fate EXCEPT ![req[c].msg] = "rejected"]
        BY <2>1 DEF Rejects, Rejected
      <3>4. /\ fate'[req[c].msg] = "rejected"
            /\ \A m \in Msg : m # req[c].msg => fate'[m] = fate[m]
        BY <3>2, <3>3 DEF IndInv, WorldTypes
      <3>5. QED
        BY <1>3, <3>2, <3>4
    <2>2. CASE req[c].op \notin WriteOp
      BY <2>2 DEF Rejects, Rejected
    <2>3. QED
      BY <2>1, <2>2
  <1>5. QED
    BY <1>1, <1>2, <1>4 DEF Quiet, Unseen

(* What was taken has left its store, whether the reply arrives or not. *)
LEMMA AnswersQuiet ==
    ASSUME IndInv, NEW c \in Conn, pc[c] = "replying", NEW how \in {"received", "lost"},
           Answers(c, how)
    PROVE  Quiet(c)
  <1>1. pc'[c] # "inserting" /\ Others(c) /\ UNCHANGED <<store, prekeys, clock, calledAt, origin>>
    BY DEF Answers
  <1>2. Class("taken") = "delivered" /\ Class(how) = "delivered"
    BY SMT DEF Class
  <1>3. \A m \in Msg : Class(fate'[m]) = Class(fate[m])
    <2>1. CASE resp[c].kind = "data"
      <3>1. resp[c].msg \in Msg
        BY <2>1 DEF IndInv, TaskInv
      <3>2. fate[resp[c].msg] = "taken"
        BY <2>1, <3>1 DEF IndInv, ResponseInv, Shows
      <3>3. fate' = [fate EXCEPT ![resp[c].msg] = how]
        BY <2>1 DEF Answers, Answered
      <3>4. /\ fate'[resp[c].msg] = how
            /\ \A m \in Msg : m # resp[c].msg => fate'[m] = fate[m]
        BY <3>1, <3>3 DEF IndInv, WorldTypes
      <3>5. QED
        BY <1>2, <3>2, <3>4
    <2>2. CASE resp[c].kind # "data"
      BY <2>2 DEF Answers, Answered
    <2>3. QED
      BY <2>1, <2>2
  <1>4. QED
    BY <1>1, <1>3 DEF Quiet, Unseen

-----------------------------------------------------------------------------
(* Two tasks that wait to insert have different payloads. *)
LEMMA OneCaller ==
    ASSUME IndInv, NEW c \in Conn, Carries(c), NEW d \in Conn, pc[d] = "inserting",
           req[d].msg = req[c].msg
    PROVE  d = c
  BY Caller DEF IndInv, OneCarrier

(* RelayStore::store reads the clock: its call begins. *)
LEMMA DecodeCalls ==
    ASSUME IndInv, NEW c \in Conn, Decode(c), NEW op \in WriteOp
    PROVE  StoreStep(op)
  <1>1. pc[c] = "decoding" /\ req[c] # Nothing /\ req[c].id \in Identity /\ req[c].op \in WriteOp
    BY Serving DEF Decode, Working, IndInv, TaskInv
  <1>2. Carries(c) /\ req[c].msg \in Msg /\ fate[req[c].msg] = "arrived"
    BY <1>1, Carried DEF Carries, Unsettled
  <1> PICK m \in Msg, i \in Identity : m = req[c].msg /\ i = req[c].id
    BY <1>1, <1>2
  <1>3. origin[m] = [op |-> req[c].op, id |-> i]
    BY <1>2 DEF IndInv, PayloadInv
  <1>4. origin[m] # Nothing /\ origin[m].op = req[c].op
    <2>1. [op |-> req[c].op, id |-> i] \in Origin
      BY <1>1 DEF Origin
    <2>2. QED
      BY <1>3, <2>1, ConstantFacts, SMT
  <1>5. pc'[c] = "inserting" /\ \A d \in Conn : d # c => pc'[d] = pc[d]
    BY DEF Decode, Goto, IndInv, TaskTypes
  <1>6. UNCHANGED <<store, prekeys, clock, req, origin, fate>>
    BY DEF Decode
  <1>7. calledAt'[m] = clock /\ \A n \in Msg : n # m => calledAt'[n] = calledAt[n]
    BY <1>2 DEF Decode, IndInv, WorldTypes
  <1>8. \A d \in Conn : pc[d] = "inserting" => req[d].msg # m /\ req[d].msg \in Msg
    BY <1>1, <1>2, OneCaller, Caller
  <1>9. \A d \in Conn : d # c => SameCall(op, d)
    BY <1>5, <1>6, <1>7, <1>8 DEF SameCall, CallOf, Waits
  <1>10. ~Calling(m) /\ Calling(m)' /\ \A n \in Msg : n # m => (Calling(n)' <=> Calling(n))
    <2>1. ~Calling(m)
      BY <1>8 DEF Calling
    <2>2. Calling(m)'
      BY <1>5, <1>6 DEF Calling
    <2>3. \A n \in Msg : n # m => (Calling(n)' <=> Calling(n))
      BY <1>1, <1>5, <1>6 DEF Calling
    <2>4. QED
      BY <2>1, <2>2, <2>3
  <1>11. \A n \in Msg : Mine(op, n)' <=> Mine(op, n)
    BY <1>6 DEF Mine
  <1>12. \A n \in Msg : n # m => SameDate(op, n) /\ SameSeen(op, n)
    BY <1>6, <1>7, <1>10, <1>11 DEF SameDate, DateOf, SameSeen, SeenAs
  <1>13. Box(op)' = Box(op) /\ UNCHANGED clock
    BY <1>6 DEF Box
  <1>14. CASE op = req[c].op
    <2>1. CallOf(op, c) = Nothing
      BY <1>1 DEF CallOf, Waits
    <2>2. CallOf(op, c)' = CallRecord(i, m, clock + TTLOf(op))
      BY <1>5, <1>6, <1>7, <1>14 DEF CallOf, Waits
    <2>3. Mine(op, m) /\ Mine(op, m)'
      BY <1>2, <1>4, <1>11, <1>14 DEF Mine
    <2>4. Class("arrived") = "new"
      BY SMT DEF Class, Stored
    <2>5. SeenAs(op, m) = "new" /\ SeenAs(op, m)' = "calling"
      BY <1>2, <1>10, <2>3, <2>4 DEF SeenAs
    <2>6. DateOf(op, m)' = clock
      BY <1>7, <2>3 DEF DateOf
    <2>7. Called(op, c, i, m)
      BY <1>9, <1>12, <1>13, <2>1, <2>2, <2>5, <2>6 DEF Called
    <2>8. QED
      BY <1>1, <1>2, <2>7 DEF StoreStep
  <1>15. CASE op # req[c].op
    <2>1. SameCall(op, c)
      BY <1>6, <1>15 DEF SameCall, CallOf, Waits
    <2>2. ~Mine(op, m) /\ ~Mine(op, m)'
      BY <1>2, <1>4, <1>11, <1>15 DEF Mine
    <2>3. SameDate(op, m) /\ SameSeen(op, m)
      BY <2>2 DEF SameDate, DateOf, SameSeen, SeenAs
    <2>4. Rests(op)
      BY <1>9, <1>12, <1>13, <2>1, <2>3 DEF Rests
    <2>5. QED
      BY <1>13, <2>4 DEF StoreStep
  <1>16. QED
    BY <1>14, <1>15

(* RelayStore::store inserts: the call ends. *)
Puts(c, op) ==
    /\ pc[c] = "inserting" /\ req[c].op = op
    /\ Box(op)' = [Box(op) EXCEPT ![req[c].id] =
                     [envelope |-> req[c].msg, expiry |-> calledAt[req[c].msg] + TTLOf(op)]]
    /\ \A o \in WriteOp : o # op => Box(o)' = Box(o)
    /\ Enters(c, Box(op))

(* A write enters the store of its operation. *)
LEMMA WriteArms ==
    ASSUME NEW c \in Conn, PublishPrekey(c) \/ SendEnvelope(c)
    PROVE  Puts(c, "publish_prekey") \/ Puts(c, "send_envelope")
  <1>1. CASE PublishPrekey(c)
    <2>1. Box("publish_prekey") = prekeys /\ Box("publish_prekey")' = prekeys'
          /\ TTLOf("publish_prekey") = PrekeyTTL
      BY DEF Box, TTLOf
    <2>2. \A o \in WriteOp : o # "publish_prekey" => Box(o)' = Box(o)
      BY <1>1 DEF Box, PublishPrekey
    <2>3. QED
      BY <1>1, <2>1, <2>2 DEF PublishPrekey, Prekeys!Insert, Puts
  <1>2. CASE SendEnvelope(c)
    <2>1. Box("send_envelope") = store /\ Box("send_envelope")' = store'
          /\ TTLOf("send_envelope") = EnvelopeTTL
      BY DEF Box, TTLOf
    <2>2. \A o \in WriteOp : o # "send_envelope" => Box(o)' = Box(o)
      BY <1>2 DEF Box, SendEnvelope, WriteOp
    <2>3. QED
      BY <1>2, <2>1, <2>2 DEF SendEnvelope, Envelopes!Insert, Puts
  <1>3. QED
    BY <1>1, <1>2

(* What a write does to both stores. *)
LEMMA PutsStep ==
    ASSUME IndInv, NEW c \in Conn, NEW box \in WriteOp, Puts(c, box), NEW op \in WriteOp
    PROVE  StoreStep(op)
  <1>1. /\ pc[c] = "inserting" /\ req[c].op = box
        /\ UNCHANGED <<clock, origin, calledAt>>
    BY DEF Puts, Enters
  <1>2. /\ Carries(c) /\ req[c].msg \in Msg /\ req[c].id \in Identity
        /\ origin[req[c].msg] = [op |-> box, id |-> req[c].id] /\ fate[req[c].msg] = "arrived"
    BY <1>1, Caller
  <1> PICK m \in Msg, i \in Identity : m = req[c].msg /\ i = req[c].id
    BY <1>2
  <1>3. Others(c) /\ pc'[c] # "inserting"
    BY LogAndReturnEffect DEF Puts, Enters, IndInv, Kind, Ended, Returned
  <1>4. \A d \in Conn : pc[d] = "inserting" /\ d # c => req[d].msg # m
    BY <1>2, OneCaller
  <1>5. \A d \in Conn : d # c => SameCall(op, d)
    BY <1>1, <1>3 DEF Others, SameCall, CallOf, Waits
  <1>6. ~Calling(m)' /\ \A n \in Msg : n # m => (Calling(n)' <=> Calling(n))
    <2>1. ~Calling(m)'
      BY <1>3, <1>4 DEF Calling, Others
    <2>2. \A n \in Msg : n # m => (Calling(n)' <=> Calling(n))
      BY <1>3 DEF Calling, Others
    <2>3. QED
      BY <2>1, <2>2
  <1>7. \A n \in Msg : (Mine(op, n)' <=> Mine(op, n)) /\ SameDate(op, n)
    BY <1>1 DEF Mine, SameDate, DateOf
  <1>8. \A n \in Msg : Lies(box, i, n) =>
          fate[n] = "held" /\ origin[n] = [op |-> box, id |-> i] /\ ~Calling(n) /\ n # m
    <2>1. \A n \in Msg : Lies(box, i, n) => fate[n] = "held" /\ origin[n] = [op |-> box, id |-> i]
      BY DEF IndInv, BoxInv
    <2>2. QED
      BY <1>2, <2>1, CallingArrived
  <1>9. /\ fate'[m] = "held"
        /\ \A n \in Msg : n # m =>
             fate'[n] = IF Lies(box, i, n) THEN "overwritten" ELSE fate[n]
    <2>1. fate' = [Leaves(fate, Box(box), i, "overwritten") EXCEPT ![m] = "held"]
      BY DEF Puts, Enters
    <2>2. Box(box)[i] # Nothing => Box(box)[i].envelope \in Msg
      BY BoxTypes DEF Slot
    <2>3. fate \in [Msg -> Fate]
      BY DEF IndInv, WorldTypes
    <2>4. CASE Box(box)[i] = Nothing
      BY <2>1, <2>3, <2>4 DEF Leaves, Lies
    <2>5. CASE Box(box)[i] # Nothing
      BY <2>1, <2>2, <2>3, <2>5 DEF Leaves, Lies
    <2>6. QED
      BY <2>4, <2>5
  <1>10. [op |-> box, id |-> i] # Nothing /\ [op |-> box, id |-> i].op = box
    <2>1. [op |-> box, id |-> i] \in Origin
      BY DEF Origin
    <2>2. QED
      BY <2>1, ConstantFacts, SMT
  <1>11. /\ Mine(op, m) <=> op = box
         /\ \A n \in Msg : Lies(box, i, n) => (Mine(op, n) <=> op = box)
    BY <1>2, <1>8, <1>10 DEF Mine
  <1>12. Class("held") = "held" /\ Class("overwritten") = "overwritten"
    BY SMT DEF Class, Stored
  <1>13. \A n \in Msg : n # m /\ ~Lies(box, i, n) => SameSeen(op, n)
    BY <1>6, <1>7, <1>9 DEF SameSeen, SeenAs
  <1>14. CASE op = box
    <2> DEFINE x == calledAt[m] + TTLOf(op)
    <2>1. x \in Nat
      <3>1. calledAt[m] \in Nat /\ TTLOf(op) \in Nat
        BY ConstantFacts DEF TTLOf, IndInv, WorldTypes
      <3>2. QED
        BY <3>1, SMT
    <2>2. CallOf(op, c) = CallRecord(i, m, x) /\ CallOf(op, c)' = Nothing
      BY <1>1, <1>3, <1>14 DEF CallOf, Waits
    <2>3. Box(op)' = [Box(op) EXCEPT ![i] = [envelope |-> m, expiry |-> x]]
      BY <1>14 DEF Puts
    <2> HIDE DEF x
    <2>4. CallRecord(i, m, x) # Nothing
      <3>1. CallRecord(i, m, x) \in [to : Identity, envelope : Msg, expiry : Nat]
        BY <2>1 DEF CallRecord
      <3>2. QED
        BY <3>1, CallAssumption
    <2>5. SeenAs(op, m)' = "held"
      BY <1>6, <1>7, <1>9, <1>11, <1>12, <1>14 DEF SeenAs
    <2>6. \A n \in Msg : Lies(box, i, n) => SeenAs(op, n)' = "overwritten"
      BY <1>6, <1>7, <1>8, <1>9, <1>11, <1>12, <1>14 DEF SeenAs
    <2>7. PICK y \in Nat : y = x
      BY <2>1
    <2>8. Entered(op, c, i, m, y)
      BY <1>1, <1>5, <1>7, <1>13, <1>14, <2>2, <2>3, <2>4, <2>5, <2>6, <2>7 DEF Entered
    <2>9. QED
      BY <2>8 DEF StoreStep
  <1>15. CASE op # box
    <2>1. SameCall(op, c)
      BY <1>1, <1>3, <1>15 DEF SameCall, CallOf, Waits
    <2>2. \A n \in Msg : n = m \/ Lies(box, i, n) => SameSeen(op, n)
      BY <1>7, <1>11, <1>15 DEF SameSeen, SeenAs
    <2>3. Box(op)' = Box(op)
      BY <1>15 DEF Puts
    <2>4. Rests(op)
      BY <1>5, <1>7, <1>13, <2>1, <2>2, <2>3 DEF Rests
    <2>5. QED
      BY <1>1, <2>4 DEF StoreStep
  <1>16. QED
    BY <1>14, <1>15

(* RelayStore::pickup finds an envelope: it is delivered within its time   *)
(* to live and dropped after it.                                           *)
Takes(c, op) ==
    /\ pc[c] = "taking" /\ Box(op)[req[c].id] # Nothing
    /\ Box(op)' = [Box(op) EXCEPT ![req[c].id] = Nothing]
    /\ \A o \in WriteOp : o # op => Box(o)' = Box(o)
    /\ \/ ~(clock > Box(op)[req[c].id].expiry) /\ Hands(c, Box(op))
       \/ clock > Box(op)[req[c].id].expiry /\ Misses(c, Box(op))
    /\ UNCHANGED <<clock, req, now, origin, calledAt>>

(* What a read does to both stores. *)
LEMMA TakesStep ==
    ASSUME IndInv, NEW c \in Conn, NEW box \in WriteOp, Takes(c, box), NEW op \in WriteOp
    PROVE  StoreStep(op)
  <1>1. pc[c] = "taking" /\ req[c].id \in Identity
    BY Serving DEF Takes, Working
  <1> PICK i \in Identity : i = req[c].id
    BY <1>1
  <1>2. pc'[c] # "inserting" /\ \A d \in Conn : d # c => pc'[d] = pc[d]
    BY <1>1 DEF Takes, Hands, Misses, Return, Goto, IndInv, TaskTypes
  <1>3. UNCHANGED <<clock, req, origin, calledAt>>
    BY DEF Takes
  <1>4. \A d \in Conn : SameCall(op, d)
    BY <1>1, <1>2, <1>3 DEF SameCall, CallOf, Waits
  <1>5. \A n \in Msg : Calling(n)' <=> Calling(n)
    BY <1>1, <1>2, <1>3 DEF Calling
  <1>6. \A n \in Msg : (Mine(op, n)' <=> Mine(op, n)) /\ SameDate(op, n)
    BY <1>3 DEF Mine, SameDate, DateOf
  <1>7. PICK how \in {"taken", "expired"} :
          /\ how = IF clock > Box(box)[i].expiry THEN "expired" ELSE "taken"
          /\ fate' = Leaves(fate, Box(box), i, how)
    BY DEF Takes, Hands, Misses
  <1>8. \A n \in Msg : fate'[n] = IF Lies(box, i, n) THEN how ELSE fate[n]
    <2>1. Box(box)[i] # Nothing /\ Box(box)[i].envelope \in Msg
      BY BoxTypes DEF Slot, Takes
    <2>2. QED
      BY <1>7, <2>1 DEF Leaves, Lies, IndInv, WorldTypes
  <1>9. \A n \in Msg : Lies(box, i, n) => ~Calling(n) /\ origin[n] = [op |-> box, id |-> i]
    <2>1. \A n \in Msg : Lies(box, i, n) => fate[n] = "held" /\ origin[n] = [op |-> box, id |-> i]
      BY DEF IndInv, BoxInv
    <2>2. QED
      BY <2>1, CallingArrived
  <1>10. [op |-> box, id |-> i] # Nothing /\ [op |-> box, id |-> i].op = box
    <2>1. [op |-> box, id |-> i] \in Origin
      BY DEF Origin
    <2>2. QED
      BY <2>1, ConstantFacts, SMT
  <1>11. \A n \in Msg : Lies(box, i, n) => (Mine(op, n) <=> op = box)
    BY <1>9, <1>10 DEF Mine
  <1>12. \A n \in Msg : ~Lies(box, i, n) => SameSeen(op, n)
    BY <1>5, <1>6, <1>8 DEF SameSeen, SeenAs
  <1>13. CASE op = box
    <2>1. PICK seen \in {"delivered", "expired"} : seen = Class(how)
      BY SMT DEF Class, Stored
    <2>2. seen = IF clock > Box(op)[i].expiry THEN "expired" ELSE "delivered"
      BY <1>7, <1>13, <2>1, SMT DEF Class, Stored
    <2>3. \A n \in Msg : Lies(op, i, n) => SeenAs(op, n)' = seen
      BY <1>5, <1>6, <1>8, <1>9, <1>11, <1>13, <2>1 DEF SeenAs
    <2>4. Box(op)[i] # Nothing /\ Box(op)' = [Box(op) EXCEPT ![i] = Nothing]
      BY <1>13 DEF Takes
    <2>5. Taken(op, i, seen)
      BY <1>3, <1>4, <1>6, <1>12, <1>13, <2>2, <2>3, <2>4 DEF Taken
    <2>6. QED
      BY <2>5 DEF StoreStep
  <1>14. CASE op # box
    <2>1. \A n \in Msg : Lies(box, i, n) => SameSeen(op, n)
      BY <1>6, <1>11, <1>14 DEF SameSeen, SeenAs
    <2>2. Rests(op)
      BY <1>4, <1>6, <1>12, <1>14, <2>1 DEF Rests, Takes
    <2>3. QED
      BY <1>3, <2>2 DEF StoreStep
  <1>15. QED
    BY <1>13, <1>14

(* The pickups of the two read arms: of a slot that is full or empty. *)
LEMMA ReadArms ==
    ASSUME IndInv, NEW c \in Conn, LookupPrekey(c) \/ PickupEnvelope(c)
    PROVE  Takes(c, "publish_prekey") \/ Takes(c, "send_envelope") \/ Quiet(c)
  <1>1. /\ pc[c] = "taking" /\ UNCHANGED <<clock, req, now, origin, calledAt>>
    BY DEF LookupPrekey, PickupEnvelope
  <1>2. ASSUME NEW op \in WriteOp, Box(op)[req[c].id] = Nothing, Misses(c, Box(op)),
               UNCHANGED <<store, prekeys>>
        PROVE  Quiet(c)
    <2>1. UNCHANGED fate /\ pc' = [pc EXCEPT ![c] = "replying"]
          /\ resp' = [resp EXCEPT ![c] = [kind |-> "error", msg |-> 0]]
      BY <1>2 DEF Misses, Leaves, Return, Goto
    <2>2. pc \in [Conn -> Step] /\ resp \in [Conn -> Response]
      BY DEF IndInv, TaskTypes
    <2>3. pc'[c] # "inserting" /\ Others(c)
      BY <1>1, <2>1, <2>2, SMT DEF Others
    <2>4. QED
      BY <1>1, <1>2, <2>1, <2>3 DEF Quiet, Unseen
  <1>3. CASE LookupPrekey(c)
    <2>1. /\ Box("publish_prekey") = prekeys /\ Box("publish_prekey")' = prekeys'
          /\ "publish_prekey" \in WriteOp
      BY DEF Box, WriteOp
    <2>2. UNCHANGED store /\ \A o \in WriteOp : o # "publish_prekey" => Box(o)' = Box(o)
      BY <1>3 DEF Box, LookupPrekey
    <2>3. CASE prekeys[req[c].id] = Nothing
      <3>1. UNCHANGED prekeys /\ Misses(c, prekeys)
        BY <1>3, <2>3 DEF LookupPrekey, Prekeys!PickupOk, Prekeys!PickupExpired,
                          Prekeys!PickupNotFound, Prekeys!Empty
      <3>2. QED
        BY <1>2, <2>1, <2>2, <2>3, <3>1
    <2>4. CASE prekeys[req[c].id] # Nothing
      <3>1. /\ prekeys' = [prekeys EXCEPT ![req[c].id] = Nothing]
            /\ \/ ~(clock > prekeys[req[c].id].expiry) /\ Hands(c, prekeys)
               \/ clock > prekeys[req[c].id].expiry /\ Misses(c, prekeys)
        BY <1>3, <2>4 DEF LookupPrekey, Prekeys!PickupOk, Prekeys!PickupExpired,
                          Prekeys!PickupNotFound, Prekeys!Empty, Prekeys!Expired, Prekeys!Remove
      <3>2. QED
        BY <1>1, <2>1, <2>2, <2>4, <3>1 DEF Takes
    <2>5. QED
      BY <2>3, <2>4
  <1>4. CASE PickupEnvelope(c)
    <2>1. /\ Box("send_envelope") = store /\ Box("send_envelope")' = store'
          /\ "send_envelope" \in WriteOp
      BY DEF Box, WriteOp
    <2>2. UNCHANGED prekeys /\ \A o \in WriteOp : o # "send_envelope" => Box(o)' = Box(o)
      BY <1>4 DEF Box, PickupEnvelope, WriteOp
    <2>3. CASE store[req[c].id] = Nothing
      <3>1. UNCHANGED store /\ Misses(c, store)
        BY <1>4, <2>3 DEF PickupEnvelope, Envelopes!PickupOk, Envelopes!PickupExpired,
                          Envelopes!PickupNotFound, Envelopes!Empty
      <3>2. QED
        BY <1>2, <2>1, <2>2, <2>3, <3>1
    <2>4. CASE store[req[c].id] # Nothing
      <3>1. /\ store' = [store EXCEPT ![req[c].id] = Nothing]
            /\ \/ ~(clock > store[req[c].id].expiry) /\ Hands(c, store)
               \/ clock > store[req[c].id].expiry /\ Misses(c, store)
        BY <1>4, <2>4 DEF PickupEnvelope, Envelopes!PickupOk, Envelopes!PickupExpired,
                          Envelopes!PickupNotFound, Envelopes!Empty, Envelopes!Expired,
                          Envelopes!Remove
      <3>2. QED
        BY <1>1, <2>1, <2>2, <2>4, <3>1 DEF Takes
    <2>5. QED
      BY <2>3, <2>4
  <1>5. QED
    BY <1>3, <1>4

(* The limiter, the challenges and the proof of work are no store's. *)
LEMMA GateQuiet ==
    ASSUME IndInv, NEW c \in Conn, RateOk(c) \/ IssueChallenge(c) \/ PowOk(c)
    PROVE  Quiet(c)
  <1>1. pc \in [Conn -> Step] /\ resp \in [Conn -> Response]
    BY DEF IndInv, TaskTypes
  <1>2. UNCHANGED <<store, prekeys, clock, calledAt, origin, fate, req>>
    BY DEF RateOk, IssueChallenge, PowOk
  <1>3. pc[c] # "inserting"
    BY DEF RateOk, IssueChallenge, PowOk
  <1>4. CASE RateOk(c)
    <2>1. req[c] \in Request
      BY <1>4, Serving DEF RateOk, Working
    <2>2. req[c].op \in {"challenge"} \cup ReadOp \cup WriteOp
      BY <2>1 DEF Request
    <2>3. pc'[c] # "inserting" /\ Others(c)
      BY <1>1, <1>2, <1>4, <2>2, SMT DEF RateOk, Goto, Others, ReadOp, WriteOp
    <2>4. QED
      BY <1>2, <1>3, <2>3 DEF Quiet, Unseen
  <1>5. CASE IssueChallenge(c) \/ PowOk(c)
    <2>1. pc'[c] # "inserting" /\ Others(c)
      BY <1>1, <1>2, <1>5, SMT DEF IssueChallenge, PowOk, Return, Goto, Others
    <2>2. QED
      BY <1>2, <1>3, <2>1 DEF Quiet, Unseen
  <1>6. QED
    BY <1>4, <1>5

-----------------------------------------------------------------------------
(* Every step of the bridge is a step of each store, or none. *)
LEMMA NextStores ==
    ASSUME IndInv, [Next]_vars, NEW op \in WriteOp
    PROVE  StoreStep(op)
  <1>1. ASSUME NEW c \in Conn, Quiet(c)
        PROVE  StoreStep(op)
    BY <1>1, QuietRests DEF StoreStep
  <1>2. CASE Tick \/ UNCHANGED vars
    <2>1. UNCHANGED <<store, prekeys, pc, req, origin, calledAt, fate>>
      BY <1>2 DEF Tick, vars
    <2>2. Rests(op)
      BY <2>1 DEF Rests, SameCall, CallOf, Waits, SameDate, DateOf, SameSeen, SeenAs, Mine,
                  Calling, Box
    <2>3. UNCHANGED clock \/ (clock < MaxClock /\ clock' = clock + 1)
      BY <1>2 DEF Tick, vars
    <2>4. QED
      BY <2>2, <2>3 DEF StoreStep
  <1>3. ASSUME NEW c \in Conn, Frame(c)
        PROVE  StoreStep(op)
    BY <1>1, <1>3, FrameQuiet
  <1>4. ASSUME NEW c \in Conn, Handle(c)
        PROVE  StoreStep(op)
    <2>1. CASE RateLimitExceeded(c) \/ PowFailed(c) \/ InvalidBase64(c)
      BY <1>1, <2>1, RateLimitExceededRejects, PowFailedRejects, InvalidBase64Rejects,
         RejectsQuiet
    <2>2. CASE Reply(c) \/ ReplyFails(c)
      <3>1. pc[c] = "replying"
        BY <2>2 DEF Reply, ReplyFails
      <3>2. QED
        BY <1>1, <2>2, <3>1, ReplyAnswers, ReplyFailsAnswers, AnswersQuiet
    <2>3. CASE RateOk(c) \/ IssueChallenge(c) \/ PowOk(c)
      BY <1>1, <2>3, GateQuiet
    <2>4. CASE Decode(c)
      BY <2>4, DecodeCalls
    <2>5. "publish_prekey" \in WriteOp /\ "send_envelope" \in WriteOp
      BY DEF WriteOp
    <2>6. CASE PublishPrekey(c) \/ SendEnvelope(c)
      BY <2>5, <2>6, WriteArms, PutsStep
    <2>7. CASE LookupPrekey(c) \/ PickupEnvelope(c)
      BY <1>1, <2>5, <2>7, ReadArms, TakesStep
    <2>8. QED
      BY <1>4, <2>1, <2>2, <2>3, <2>4, <2>6, <2>7 DEF Handle
  <1>5. QED
    BY <1>2, <1>3, <1>4 DEF Next

(* Both stores are empty at first. *)
LEMMA InitStores ==
    ASSUME Init
    PROVE  EnvelopeStore!Init /\ PrekeyStore!Init
  <1>1. ASSUME NEW op
        PROVE  /\ BoxCalls(op) = [c \in Conn |-> Nothing]
               /\ BoxCalledAt(op) = [m \in Msg |-> 0]
               /\ BoxFate(op) = [m \in Msg |-> "new"]
    BY SMT DEF Init, BoxCalls, BoxCalledAt, BoxFate
  <1>2. clock = 0 /\ store = [i \in Identity |-> Nothing] /\ prekeys = [i \in Identity |-> Nothing]
    BY DEF Init
  <1>3. QED
    BY <1>1, <1>2 DEF EnvelopeStore!Init, PrekeyStore!Init

(* WsState's store and prekey_store: behind the bridge's tasks, locks and  *)
(* replies each of the two is a RelayStore, with its own time to live, for *)
(* every set of connections and identities.                                *)
THEOREM StoresAreRelayStores ==
    Spec => StoresRefined
  <1>1. Init => EnvelopeStore!Init /\ PrekeyStore!Init
    BY InitStores
  <1>2. Views /\ Views' /\ IndInv /\ [Next]_vars =>
          [EnvelopeStore!Next]_(EnvelopeStore!vars) /\ [PrekeyStore!Next]_(PrekeyStore!vars)
    <2> SUFFICES ASSUME Views, Views', IndInv, [Next]_vars
                 PROVE  /\ [EnvelopeStore!Next]_(EnvelopeStore!vars)
                        /\ [PrekeyStore!Next]_(PrekeyStore!vars)
      OBVIOUS
    <2>1. StoreStep("send_envelope") /\ StoreStep("publish_prekey")
      BY NextStores DEF WriteOp
    <2>2. /\ View("send_envelope") /\ View("send_envelope")'
          /\ View("publish_prekey") /\ View("publish_prekey")'
      BY DEF Views
    <2>3. QED
      BY <2>1, <2>2, EnvelopeStep, PrekeyStep
  <1>3. QED
    BY <1>1, <1>2, Inductive, ViewsHold, PTL DEF Spec, StoresRefined, EnvelopeStore!Spec,
       PrekeyStore!Spec
=============================================================================
