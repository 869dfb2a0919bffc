--------------------------- MODULE WebRelayProofs ---------------------------
(***************************************************************************)
(* The web client's way to the relay, for any operations, sockets, urls    *)
(* and attempts: an operation of RelayTransport whose caller awaits one at *)
(* a time is settled with the answer to its own request, and what          *)
(* RelayConnection tells the user agrees with the session it holds.        *)
(***************************************************************************)
EXTENDS MCWebRelay, TLAPS

(* Most steps are first-order; the ones that name SMT are not. *)
USE Zenon

Fin == INSTANCE FiniteSetTheorems

-----------------------------------------------------------------------------
(***************************************************************************)
(* RelayTransport.  Callers that await one operation before the next leave *)
(* one operation active.                                                   *)
(***************************************************************************)
OneActive == \A o, p \in Op : Active(o) /\ Active(p) => o = p

(* Only its continuation is queued. *)
Queued == micro = <<>> \/ \E o \in Op : micro = <<o>> /\ pc[o] = "runnable"

PendingWaits == pending # None => pc[pending] = "waiting"

(* An operation is in its first leg until it has solved the challenge. *)
LegOf(o) ==
    /\ pc[o] = "idle" => leg[o] = 0
    /\ Active(o) => leg[o] \in 1..2
    /\ pc[o] = "solving" => leg[o] = 1

Legs == \A o \in Op : LegOf(o)

(* A socket without handlers is closed, frames are on their way on a       *)
(* connection only, and a socket that connects or is open is this.ws: one  *)
(* that connects is awaited, so that nobody calls ensureConnected then.    *)
WiredIs(k) ==
    /\ ~sock[k].wired => sock[k].state \in {"unused", "closed"}
    /\ sock[k].sent # <<>> => sock[k].state \in {"open", "closing"}
    /\ k > used => sock[k].state = "unused"
    /\ sock[k].wired /\ sock[k].state \in {"connecting", "open"} => k = ws
    /\ sock[k].state = "connecting" => \E o \in Op : pc[o] = "connecting" /\ on[o] = k

Wiring == \A k \in Sock : WiredIs(k)

(* Without closing handshakes: the only frame on its way is the pending    *)
(* request, and between an error event and its close event there is none.  *)
FrameOf(k) ==
    /\ sock[k].state # "closing"
    /\ sock[k].sent # <<>> => pending # None /\ sock[k].sent = <<Request(pending)>>

Framed ==
    /\ \A k \in Sock : FrameOf(k)
    /\ closeDue # 0 => ~IsOpen /\ pending = None

Own(o) == got[o] # None => got[o].op = o /\ got[o].leg <= leg[o]

Owned == \A o \in Op : Own(o)

TransportInv ==
    /\ TypeOK /\ OneActive /\ Queued /\ PendingWaits /\ Legs /\ Wiring
    /\ ~peerCloses => Framed /\ Owned

-----------------------------------------------------------------------------
SocketRecord == [state : SockState, wired : BOOLEAN, sent : Seq(Frame)]

Others(k) == \A j \in Sock : j # k => sock'[j] = sock[j]

(* Socket k gets this state and these frames on their way, and keeps its handlers. *)
Becomes(k, st, frames) ==
    /\ sock' \in [Sock -> SocketRecord] /\ Others(k)
    /\ sock'[k].state = st /\ sock'[k].sent = frames /\ sock'[k].wired = sock[k].wired

(* What an update of one socket does. *)
LEMMA SocketUpdate ==
    ASSUME sock \in [Sock -> SocketRecord], NEW k \in Sock, NEW r \in SocketRecord,
           sock' = [sock EXCEPT ![k] = r]
    PROVE  sock' \in [Sock -> SocketRecord] /\ Others(k) /\ sock'[k] = r
  BY DEF Others

(* The fields of a socket's record are updated one at a time. *)
LEMMA StateUpdate ==
    ASSUME NEW r \in SocketRecord, NEW st \in SockState
    PROVE  /\ [r EXCEPT !.state = st] \in SocketRecord
           /\ [r EXCEPT !.state = st].state = st
           /\ [r EXCEPT !.state = st].sent = r.sent
           /\ [r EXCEPT !.state = st].wired = r.wired
<1> DEFINE A == SockState
           F == Seq(Frame)
<1>1. r \in [state : A, wired : BOOLEAN, sent : F] /\ st \in A
  BY DEF SocketRecord
<1> HIDE DEF A, F
<1>2. /\ [r EXCEPT !.state = st] \in [state : A, wired : BOOLEAN, sent : F]
      /\ [r EXCEPT !.state = st].state = st
      /\ [r EXCEPT !.state = st].sent = r.sent
      /\ [r EXCEPT !.state = st].wired = r.wired
  BY <1>1
<1> QED
  BY <1>2 DEF A, F, SocketRecord

(* The same for the frames on their way. *)
LEMMA SentUpdate ==
    ASSUME NEW r \in SocketRecord, NEW s \in Seq(Frame)
    PROVE  /\ [r EXCEPT !.sent = s] \in SocketRecord
           /\ [r EXCEPT !.sent = s].state = r.state
           /\ [r EXCEPT !.sent = s].sent = s
           /\ [r EXCEPT !.sent = s].wired = r.wired
<1> DEFINE A == SockState
           F == Seq(Frame)
<1>1. r \in [state : A, wired : BOOLEAN, sent : F] /\ s \in F
  BY DEF SocketRecord
<1> HIDE DEF A, F
<1>2. /\ [r EXCEPT !.sent = s] \in [state : A, wired : BOOLEAN, sent : F]
      /\ [r EXCEPT !.sent = s].state = r.state
      /\ [r EXCEPT !.sent = s].sent = s
      /\ [r EXCEPT !.sent = s].wired = r.wired
  BY <1>1
<1> QED
  BY <1>2 DEF A, F, SocketRecord

(* The same for the handlers. *)
LEMMA WiredUpdate ==
    ASSUME NEW r \in SocketRecord
    PROVE  /\ [r EXCEPT !.wired = FALSE] \in SocketRecord
           /\ [r EXCEPT !.wired = FALSE].state = r.state
           /\ [r EXCEPT !.wired = FALSE].sent = r.sent
           /\ [r EXCEPT !.wired = FALSE].wired = FALSE
<1> DEFINE A == SockState
           F == Seq(Frame)
<1>1. r \in [state : A, wired : BOOLEAN, sent : F]
  BY DEF SocketRecord
<1> HIDE DEF A, F
<1>2. /\ [r EXCEPT !.wired = FALSE] \in [state : A, wired : BOOLEAN, sent : F]
      /\ [r EXCEPT !.wired = FALSE].state = r.state
      /\ [r EXCEPT !.wired = FALSE].sent = r.sent
      /\ [r EXCEPT !.wired = FALSE].wired = FALSE
  BY <1>1
<1> QED
  BY <1>2 DEF A, F, SocketRecord

(* No frames are on their way. *)
LEMMA NoFrames == <<>> \in Seq(Frame)
  BY SMT

(* A socket changes its state. *)
LEMMA StateBecomes ==
    ASSUME sock \in [Sock -> SocketRecord], NEW k \in Sock, NEW st \in SockState,
           sock' = [sock EXCEPT ![k].state = st]
    PROVE  Becomes(k, st, sock[k].sent)
<1>1. PICK r : r = [sock[k] EXCEPT !.state = st]
  OBVIOUS
<1>2. /\ r \in SocketRecord /\ r.state = st /\ r.sent = sock[k].sent
      /\ r.wired = sock[k].wired
  BY <1>1, StateUpdate
<1>3. sock' = [sock EXCEPT ![k] = r]
  BY <1>1
<1> QED
  BY <1>2, <1>3, SocketUpdate DEF Becomes

(* A socket's frames change. *)
LEMMA SentBecomes ==
    ASSUME sock \in [Sock -> SocketRecord], NEW k \in Sock, NEW s \in Seq(Frame),
           sock' = [sock EXCEPT ![k].sent = s]
    PROVE  Becomes(k, sock[k].state, s)
<1>1. PICK r : r = [sock[k] EXCEPT !.sent = s]
  OBVIOUS
<1>2. /\ r \in SocketRecord /\ r.state = sock[k].state /\ r.sent = s
      /\ r.wired = sock[k].wired
  BY <1>1, SentUpdate
<1>3. sock' = [sock EXCEPT ![k] = r]
  BY <1>1
<1> QED
  BY <1>2, <1>3, SocketUpdate DEF Becomes

(* A socket that fails or is closed loses its frames. *)
LEMMA ClosedBecomes ==
    ASSUME sock \in [Sock -> SocketRecord], NEW k \in Sock,
           sock' = [sock EXCEPT ![k].state = "closed", ![k].sent = <<>>]
    PROVE  Becomes(k, "closed", <<>>)
<1>1. PICK q : q = [sock[k] EXCEPT !.state = "closed"]
  OBVIOUS
<1>2. q \in SocketRecord /\ q.state = "closed" /\ q.wired = sock[k].wired
  BY <1>1, StateUpdate DEF SockState
<1>3. PICK r : r = [q EXCEPT !.sent = <<>>]
  OBVIOUS
<1>4. r \in SocketRecord /\ r.state = "closed" /\ r.sent = <<>> /\ r.wired = sock[k].wired
  BY <1>2, <1>3, SentUpdate, NoFrames
<1>5. sock' = [sock EXCEPT ![k] = r]
  BY <1>1, <1>3
<1> QED
  BY <1>4, <1>5, SocketUpdate DEF Becomes

-----------------------------------------------------------------------------
(* An operation that calls roundTrip, with nothing else active. *)
Free(o) == pc[o] \in {"idle", "solving"} /\ \A p \in Op : p # o => ~Active(p)

(* Then nothing is queued, pending, connecting or on its way. *)
LEMMA NothingUnderWay ==
    ASSUME TransportInv, NEW o \in Op, Free(o)
    PROVE  /\ pending = None /\ micro = <<>> /\ leg[o] \in 0..1
           /\ \A k \in Sock : sock[k].state # "connecting"
           /\ ~peerCloses => \A k \in Sock : sock[k].sent = <<>>
<1>1. \A p \in Op : pc[p] \notin {"connecting", "runnable", "waiting"}
  BY DEF Free, Active, Settled
<1>2. pending = None
  BY <1>1 DEF TransportInv, TypeOK, PendingWaits
<1>3. micro = <<>>
  BY <1>1 DEF TransportInv, Queued
<1>4. leg[o] = 0 \/ leg[o] = 1
  BY DEF TransportInv, Legs, LegOf, Free
<1>5. \A k \in Sock : sock[k].state # "connecting"
  BY <1>1 DEF TransportInv, Wiring, WiredIs
<1>6. ~peerCloses => \A k \in Sock : sock[k].sent = <<>>
  BY <1>2 DEF TransportInv, Framed, FrameOf
<1>7. leg[o] \in 0..1
  BY <1>4, SMT
<1> QED
  BY <1>2, <1>3, <1>5, <1>6, <1>7

(* The operations, whatever the connection is like. *)
LEMMA CallerMoves ==
    ASSUME TransportInv, NEW o \in Op, Free(o), NEW x \in {"runnable", "connecting", "failed"},
           pc' = [pc EXCEPT ![o] = x], leg' = [leg EXCEPT ![o] = leg[o] + 1],
           pending' = pending, got' = got
    PROVE  /\ pc' \in [Op -> Step] /\ leg' \in [Op -> 0..2]
           /\ OneActive' /\ PendingWaits' /\ Legs' /\ (Owned => Owned')
<1>0. /\ pc \in [Op -> Step] /\ leg \in [Op -> 0..2] /\ got \in [Op -> Frame \cup {None}]
      /\ pending = None /\ leg[o] \in 0..1
  BY NothingUnderWay DEF TransportInv, TypeOK
<1>1. /\ pc' \in [Op -> Step] /\ pc'[o] = x /\ \A p \in Op : p # o => pc'[p] = pc[p]
  BY <1>0 DEF Step, Settled
<1>2. /\ leg' \in [Op -> 0..2] /\ leg'[o] = leg[o] + 1 /\ leg'[o] \in 1..2
      /\ \A p \in Op : p # o => leg'[p] = leg[p]
  BY <1>0, SMT
<1>3. OneActive'
  BY <1>1 DEF Free, OneActive, Active
<1>4. PendingWaits'
  BY <1>0 DEF PendingWaits
<1>5. Legs'
  <2> SUFFICES ASSUME NEW p \in Op PROVE LegOf(p)'
    BY DEF Legs
  <2>1. CASE p = o
    BY <1>1, <1>2, <2>1 DEF LegOf
  <2>2. CASE p # o
    BY <1>1, <1>2, <2>2 DEF LegOf, Active, TransportInv, Legs
  <2> QED
    BY <2>1, <2>2
<1>6. ASSUME Owned PROVE Owned'
  <2> SUFFICES ASSUME NEW p \in Op, got[p] # None PROVE got[p].op = p /\ got[p].leg <= leg'[p]
    BY DEF Owned, Own
  <2>1. got[p] \in Frame /\ got[p].op = p /\ got[p].leg <= leg[p]
    BY <1>0, <1>6 DEF Owned, Own
  <2>2. got[p].leg \in 1..2
    BY <2>1 DEF Frame
  <2> QED
    BY <1>0, <1>2, <2>1, <2>2, SMT
<1> QED
  BY <1>1, <1>2, <1>3, <1>4, <1>5, <1>6

(* ensureConnected finds the connection open. *)
LEMMA ReuseStep ==
    ASSUME TransportInv, NEW o \in Op, Free(o), RoundTrip(o), ReuseSocket(o)
    PROVE  TransportInv'
<1>1. /\ pc' = [pc EXCEPT ![o] = "runnable"] /\ micro' = Append(micro, o)
      /\ sock' = sock /\ used' = used /\ ws' = ws /\ connectPromise' = connectPromise /\ on' = on
  BY DEF ReuseSocket
<1>2. /\ leg' = [leg EXCEPT ![o] = leg[o] + 1] /\ pending' = pending /\ got' = got
      /\ closeDue' = closeDue /\ badUrl' = badUrl /\ peerCloses' = peerCloses
  BY DEF RoundTrip
<1>3. /\ pc' \in [Op -> Step] /\ leg' \in [Op -> 0..2]
      /\ OneActive' /\ PendingWaits' /\ Legs' /\ (Owned => Owned')
  BY <1>1, <1>2, CallerMoves
<1>4. /\ pending = None /\ micro = <<>> /\ \A k \in Sock : sock[k].state # "connecting"
      /\ ~peerCloses => \A k \in Sock : sock[k].sent = <<>>
  BY NothingUnderWay
<1>5. micro' = <<o>> /\ micro' \in Seq(Op)
  BY <1>1, <1>4, SMT
<1>6. TypeOK'
  BY <1>1, <1>2, <1>3, <1>5 DEF TransportInv, TypeOK
<1>7. Queued'
  BY <1>1, <1>5 DEF Queued, TransportInv, TypeOK
<1>8. Wiring'
  BY <1>1, <1>4 DEF Wiring, WiredIs, TransportInv
<1>9. ~peerCloses' => Framed'
  BY <1>1, <1>2, <1>4 DEF Framed, FrameOf, IsOpen, TransportInv
<1> QED
  BY <1>2, <1>3, <1>6, <1>7, <1>8, <1>9 DEF TransportInv

(* It awaits the connection that is being made. *)
LEMMA JoinStep ==
    ASSUME TransportInv, NEW o \in Op, Free(o), RoundTrip(o), JoinConnect(o)
    PROVE  TransportInv'
<1>1. /\ pc' = [pc EXCEPT ![o] = "connecting"] /\ on' = [on EXCEPT ![o] = connectPromise]
      /\ connectPromise \in Sock /\ micro' = micro
      /\ sock' = sock /\ used' = used /\ ws' = ws /\ connectPromise' = connectPromise
  BY DEF JoinConnect
<1>2. /\ leg' = [leg EXCEPT ![o] = leg[o] + 1] /\ pending' = pending /\ got' = got
      /\ closeDue' = closeDue /\ badUrl' = badUrl /\ peerCloses' = peerCloses
  BY DEF RoundTrip
<1>3. /\ pc' \in [Op -> Step] /\ leg' \in [Op -> 0..2]
      /\ OneActive' /\ PendingWaits' /\ Legs' /\ (Owned => Owned')
  BY <1>1, <1>2, CallerMoves
<1>4. /\ pending = None /\ micro = <<>> /\ \A k \in Sock : sock[k].state # "connecting"
      /\ ~peerCloses => \A k \in Sock : sock[k].sent = <<>>
  BY NothingUnderWay
<1>5. on' \in [Op -> 0..used]
  <2>1. connectPromise \in 0..used
    BY <1>1, TransportAssumption, SMT DEF TransportInv, TypeOK, Sock, Rejected
  <2> QED
    BY <1>1, <2>1 DEF TransportInv, TypeOK
<1>6. TypeOK'
  BY <1>1, <1>2, <1>3, <1>5 DEF TransportInv, TypeOK
<1>7. Queued'
  BY <1>1, <1>4 DEF Queued
<1>8. Wiring'
  BY <1>1, <1>4 DEF Wiring, WiredIs, TransportInv
<1>9. ~peerCloses' => Framed'
  BY <1>1, <1>2, <1>4 DEF Framed, FrameOf, IsOpen, TransportInv
<1> QED
  BY <1>2, <1>3, <1>6, <1>7, <1>8, <1>9 DEF TransportInv

(* The url is refused. *)
LEMMA RefuseStep ==
    ASSUME TransportInv, NEW o \in Op, Free(o), RoundTrip(o), RefuseUrl(o)
    PROVE  TransportInv'
<1>1. /\ pc' = [pc EXCEPT ![o] = "failed"] /\ connectPromise' = Rejected /\ micro' = micro
      /\ sock' = sock /\ used' = used /\ ws' = ws /\ on' = on
  BY DEF RefuseUrl
<1>2. /\ leg' = [leg EXCEPT ![o] = leg[o] + 1] /\ pending' = pending /\ got' = got
      /\ closeDue' = closeDue /\ badUrl' = badUrl /\ peerCloses' = peerCloses
  BY DEF RoundTrip
<1>3. /\ pc' \in [Op -> Step] /\ leg' \in [Op -> 0..2]
      /\ OneActive' /\ PendingWaits' /\ Legs' /\ (Owned => Owned')
  BY <1>1, <1>2, CallerMoves
<1>4. /\ pending = None /\ micro = <<>> /\ \A k \in Sock : sock[k].state # "connecting"
      /\ ~peerCloses => \A k \in Sock : sock[k].sent = <<>>
  BY NothingUnderWay
<1>6. TypeOK'
  BY <1>1, <1>2, <1>3 DEF TransportInv, TypeOK
<1>7. Queued'
  BY <1>1, <1>4 DEF Queued
<1>8. Wiring'
  BY <1>1, <1>4 DEF Wiring, WiredIs, TransportInv
<1>9. ~peerCloses' => Framed'
  BY <1>1, <1>2, <1>4 DEF Framed, FrameOf, IsOpen, TransportInv
<1> QED
  BY <1>2, <1>3, <1>6, <1>7, <1>8, <1>9 DEF TransportInv

(* It opens a socket: the one before is neither open nor connecting. *)
LEMMA NewSocketStep ==
    ASSUME TransportInv, NEW o \in Op, Free(o), RoundTrip(o), NewSocket(o)
    PROVE  TransportInv'
<1> DEFINE k == used + 1
           fresh == [state |-> "connecting", wired |-> TRUE, sent |-> <<>>]
<1>1. /\ pc' = [pc EXCEPT ![o] = "connecting"] /\ on' = [on EXCEPT ![o] = k]
      /\ ~IsOpen /\ used < MaxSock /\ used' = k /\ ws' = k /\ connectPromise' = k
      /\ sock' = [sock EXCEPT ![k] = fresh] /\ micro' = micro
  BY DEF NewSocket
<1>2. /\ leg' = [leg EXCEPT ![o] = leg[o] + 1] /\ pending' = pending /\ got' = got
      /\ closeDue' = closeDue /\ badUrl' = badUrl /\ peerCloses' = peerCloses
  BY DEF RoundTrip
<1>3. /\ pc' \in [Op -> Step] /\ leg' \in [Op -> 0..2]
      /\ OneActive' /\ PendingWaits' /\ Legs' /\ (Owned => Owned')
  BY <1>1, <1>2, CallerMoves
<1>4. /\ pending = None /\ micro = <<>> /\ \A j \in Sock : sock[j].state # "connecting"
      /\ ~peerCloses => \A j \in Sock : sock[j].sent = <<>>
  BY NothingUnderWay
<1>5. /\ k \in Sock /\ k # 0 /\ 0..used \subseteq 0..k /\ k \in 0..k /\ k \in 0..MaxSock
      /\ \A j \in Sock : j > k => j > used /\ j # k
  BY <1>1, TransportAssumption, SMT DEF TransportInv, TypeOK, Sock
<1>6. fresh \in SocketRecord /\ fresh.state = "connecting" /\ fresh.wired = TRUE /\ fresh.sent = <<>>
  BY NoFrames DEF SocketRecord, SockState
<1>t. sock \in [Sock -> SocketRecord]
  BY DEF TransportInv, TypeOK, SocketRecord
<1>s. /\ sock' \in [Sock -> SocketRecord] /\ Others(k) /\ sock'[k].state = "connecting"
      /\ sock'[k].wired /\ sock'[k].sent = <<>>
  <2> HIDE DEF k, fresh
  <2>1. sock' \in [Sock -> SocketRecord] /\ Others(k) /\ sock'[k] = fresh
    BY <1>1, <1>5, <1>6, <1>t, SocketUpdate
  <2> QED
    BY <1>6, <2>1
<1> HIDE DEF k, fresh
<1>7. on' \in [Op -> 0..k] /\ on'[o] = k
  BY <1>1, <1>5 DEF TransportInv, TypeOK
<1>8. TypeOK'
  BY <1>1, <1>2, <1>3, <1>5, <1>7, <1>s DEF TransportInv, TypeOK, SocketRecord
<1>9. Queued'
  BY <1>1, <1>4 DEF Queued
<1>10. Wiring'
  <2> SUFFICES ASSUME NEW j \in Sock PROVE WiredIs(j)'
    BY DEF Wiring
  <2>1. CASE j = k
    <3>1. pc'[o] = "connecting"
      BY <1>1 DEF TransportInv, TypeOK
    <3>2. ~(k > k)
      BY <1>5, SMT DEF Sock
    <3> QED
      BY <1>1, <1>7, <1>s, <2>1, <3>1, <3>2 DEF WiredIs
  <2>2. CASE j # k
    <3>1. WiredIs(j) /\ sock'[j] = sock[j] /\ sock[j].state # "connecting"
      BY <1>4, <1>s, <2>2 DEF TransportInv, Wiring, Others
    <3>2. ~(sock[j].wired /\ sock[j].state \in {"connecting", "open"})
      <4>1. j # 0
        BY SMT DEF Sock
      <4>2. j = ws => sock[j].state # "open"
        BY <1>1, <4>1 DEF IsOpen
      <4> QED
        BY <3>1, <4>2 DEF WiredIs
    <3>3. j > k => j > used
      BY <1>5
    <3>4. ~sock'[j].wired => sock'[j].state \in {"unused", "closed"}
      BY <3>1 DEF WiredIs
    <3>5. sock'[j].sent # <<>> => sock'[j].state \in {"open", "closing"}
      BY <3>1 DEF WiredIs
    <3>6. j > used' => sock'[j].state = "unused"
      BY <1>1, <3>1, <3>3 DEF WiredIs
    <3>7. ~(sock'[j].wired /\ sock'[j].state \in {"connecting", "open"}) /\ sock'[j].state # "connecting"
      BY <3>1, <3>2
    <3> QED
      BY <3>4, <3>5, <3>6, <3>7 DEF WiredIs
  <2> QED
    BY <2>1, <2>2
<1>11. ~peerCloses' => Framed'
  <2> SUFFICES ASSUME ~peerCloses PROVE Framed'
    BY <1>2
  <2>1. \A j \in Sock : FrameOf(j)'
    BY <1>2, <1>4, <1>s DEF TransportInv, Framed, FrameOf, Others
  <2>2. ~IsOpen'
    BY <1>1, <1>s DEF IsOpen
  <2> QED
    BY <1>2, <1>4, <2>1, <2>2 DEF Framed
<1> QED
  BY <1>2, <1>3, <1>8, <1>9, <1>10, <1>11 DEF TransportInv

(* roundTrip puts the request on the wire and makes it the pending one. *)
LEMMA RoundTripStep ==
    ASSUME TransportInv, NEW o \in Op, Free(o), RoundTrip(o)
    PROVE  TransportInv'
  BY ReuseStep, JoinStep, NewSocketStep, RefuseStep DEF RoundTrip

-----------------------------------------------------------------------------
(* Operations that were active move on or are settled. *)
Moves(o) ==
    \/ pc'[o] = pc[o]
    \/ Active(o) /\ pc'[o] \in {"runnable", "waiting", "done", "failed"}
    \/ Active(o) /\ pc'[o] = "solving" /\ leg[o] = 1

(* Operations only move on: none becomes active. *)
LEMMA MovesKeep ==
    ASSUME TransportInv, leg' = leg, \A o \in Op : Moves(o)
    PROVE  OneActive' /\ Legs'
<1>1. \A o \in Op : Active(o)' => Active(o)
  BY DEF Moves, Active
<1>2. OneActive'
  BY <1>1 DEF TransportInv, OneActive
<1>3. ASSUME NEW o \in Op PROVE LegOf(o)'
  <2>1. LegOf(o) /\ Moves(o)
    BY DEF TransportInv, Legs
  <2>2. pc'[o] = "idle" => pc[o] = "idle"
    BY <2>1 DEF Moves
  <2>3. pc'[o] = "solving" => leg[o] = 1
    BY <2>1 DEF Moves, LegOf
  <2> QED
    BY <1>1, <2>1, <2>2, <2>3 DEF LegOf
<1> QED
  BY <1>2, <1>3 DEF Legs

(* The rejection of this.pending, after q has failed operations that were connecting. *)
LEMMA RejectKeeps ==
    ASSUME TransportInv, NEW q \in [Op -> Step], RejectPending(q), leg' = leg,
           \A o \in Op : q[o] = pc[o] \/ (pc[o] = "connecting" /\ q[o] = "failed")
    PROVE  /\ pending' = None /\ pc' \in [Op -> Step] /\ OneActive' /\ Legs' /\ PendingWaits'
           /\ \A o \in Op : pc[o] = "connecting" => pc'[o] = q[o]
<1>1. pending' = None /\ PendingWaits'
  BY DEF RejectPending, PendingWaits
<1>2. /\ pc' \in [Op -> Step]
      /\ \A o \in Op : pc'[o] = q[o] \/ (pc[o] = "waiting" /\ pc'[o] = "failed")
  <2>1. CASE pending = None
    BY <2>1 DEF RejectPending
  <2>2. CASE pending # None
    <3>1. pending \in Op /\ pc[pending] = "waiting" /\ pc' = [q EXCEPT ![pending] = "failed"]
      BY <2>2 DEF RejectPending, TransportInv, TypeOK, PendingWaits
    <3> QED
      BY <3>1 DEF Step, Settled
  <2> QED
    BY <2>1, <2>2
<1>3. \A o \in Op : Moves(o)
  BY <1>2 DEF Moves, Active, Settled
<1> QED
  BY <1>1, <1>2, <1>3, MovesKeep

(* A socket that is not closed has its handlers. *)
LEMMA LiveIsWired ==
    ASSUME TransportInv, NEW k \in Sock, sock[k].state \in {"connecting", "open", "closing"}
    PROVE  /\ sock[k].wired /\ ~(k > used) /\ k # 0
           /\ sock[k].state \in {"connecting", "open"} => k = ws
<1>1. WiredIs(k)
  BY DEF TransportInv, Wiring
<1>2. k # 0
  BY SMT DEF Sock
<1> QED
  BY <1>1, <1>2 DEF WiredIs

(* Without closing handshakes it is this.ws, the only one with frames. *)
LEMMA OnlyWs ==
    ASSUME TransportInv, ~peerCloses, NEW k \in Sock, sock[k].state \in {"connecting", "open", "closing"}
    PROVE  /\ k = ws /\ sock[k].state # "closing"
           /\ \A j \in Sock : j # k => sock[j].sent = <<>>
<1>1. k = ws /\ sock[k].state # "closing"
  BY LiveIsWired DEF TransportInv, Framed, FrameOf
<1>2. ASSUME NEW j \in Sock, j # k, sock[j].sent # <<>> PROVE FALSE
  <2>1. sock[j].state = "open"
    BY <1>2 DEF TransportInv, Framed, FrameOf, Wiring, WiredIs
  <2> QED
    BY <1>1, <1>2, <2>1, LiveIsWired
<1> QED
  BY <1>1, <1>2

(* What an event on socket k leaves of the wiring. *)
LEMMA WiringKept ==
    ASSUME TransportInv, NEW k \in Sock, sock[k].state \in {"connecting", "open", "closing"},
           NEW st \in {"open", "closing", "closed"}, NEW frames,
           Becomes(k, st, frames), used' = used, ws' = ws, on' = on,
           frames # <<>> => st # "closed",
           st = "open" => sock[k].state # "closing",
           \A o \in Op : pc[o] = "connecting" /\ on[o] # k => pc'[o] = "connecting"
    PROVE  Wiring'
<1> SUFFICES ASSUME NEW j \in Sock PROVE WiredIs(j)'
  BY DEF Wiring
<1>0. WiredIs(j)
  BY DEF TransportInv, Wiring
<1>1. CASE j = k
  <2>1. sock'[k].wired /\ sock'[k].state = st /\ sock'[k].sent = frames
    BY LiveIsWired DEF Becomes
  <2>2. ~(k > used) /\ (st = "open" => k = ws)
    BY LiveIsWired
  <2>3. st # "connecting" /\ (frames # <<>> => st \in {"open", "closing"})
    OBVIOUS
  <2>4. sock'[k].wired /\ sock'[k].state \in {"connecting", "open"} => k = ws'
    BY <2>1, <2>2, <2>3
  <2>5. sock'[k].sent # <<>> => sock'[k].state \in {"open", "closing"}
    BY <2>1, <2>3
  <2>6. ~(k > used') /\ sock'[k].state # "connecting"
    BY <2>1, <2>2, <2>3
  <2>7. WiredIs(k)'
    BY <2>1, <2>4, <2>5, <2>6 DEF WiredIs
  <2> QED
    BY <1>1, <2>7
<1>2. CASE j # k
  <2>1. sock'[j] = sock[j]
    BY <1>2 DEF Becomes, Others
  <2>2. ~sock'[j].wired => sock'[j].state \in {"unused", "closed"}
    BY <1>0, <2>1 DEF WiredIs
  <2>3. sock'[j].sent # <<>> => sock'[j].state \in {"open", "closing"}
    BY <1>0, <2>1 DEF WiredIs
  <2>4. j > used' => sock'[j].state = "unused"
    BY <1>0, <2>1, SMT DEF WiredIs
  <2>5. sock'[j].wired /\ sock'[j].state \in {"connecting", "open"} => j = ws'
    BY <1>0, <2>1 DEF WiredIs
  <2>6. ASSUME sock'[j].state = "connecting" PROVE \E o \in Op : pc'[o] = "connecting" /\ on'[o] = j
    <3>1. PICK o \in Op : pc[o] = "connecting" /\ on[o] = j
      BY <1>0, <2>1, <2>6 DEF WiredIs
    <3> QED
      BY <1>2, <3>1
  <2> QED
    BY <2>2, <2>3, <2>4, <2>5, <2>6 DEF WiredIs
<1> QED
  BY <1>1, <1>2

-----------------------------------------------------------------------------
(* The sockets have their type. *)
LEMMA SocketTypes == TransportInv => sock \in [Sock -> SocketRecord]
  BY DEF TransportInv, TypeOK, SocketRecord

(* The rest of roundTrip: nothing else is on its way. *)
LEMMA ContinueStep == ASSUME TransportInv, Continue PROVE TransportInv'
<1>1. PICK o \in Op : micro = <<o>> /\ pc[o] = "runnable"
  BY DEF Continue, TransportInv, Queued
<1>2. Head(micro) = o /\ micro' = <<>> /\ micro' \in Seq(Op)
  BY <1>1, SMT DEF Continue
<1>3. /\ used' = used /\ ws' = ws /\ connectPromise' = connectPromise /\ leg' = leg /\ on' = on
      /\ got' = got /\ closeDue' = closeDue /\ badUrl' = badUrl /\ peerCloses' = peerCloses
  BY DEF Continue
<1>4. \A p \in Op : p # o => ~Active(p)
  BY <1>1 DEF TransportInv, OneActive, Active, Settled
<1>5. pending = None
  BY <1>1, <1>4 DEF TransportInv, PendingWaits, TypeOK, Active, Settled
<1>6. Queued' /\ (Owned => Owned')
  BY <1>2, <1>3 DEF Queued, Owned, Own
<1>7. CASE IsOpen
  <2>1. /\ pending' = o /\ sock' = [sock EXCEPT ![ws].sent = Append(sock[ws].sent, Request(o))]
        /\ pc' = [pc EXCEPT ![o] = "waiting"]
    BY <1>2, <1>7 DEF Continue
  <2>2. ws \in Sock /\ sock[ws].state = "open"
    BY <1>7, TransportAssumption, SMT DEF IsOpen, TransportInv, TypeOK, Sock
  <2>3. Request(o) \in Frame
    <3>1. leg[o] \in 1..2
      BY <1>1 DEF TransportInv, Legs, LegOf, Active, Settled
    <3> QED
      BY <3>1 DEF Request, Frame
  <2>4. Append(sock[ws].sent, Request(o)) \in Seq(Frame)
    <3>1. sock[ws].sent \in Seq(Frame)
      BY <2>2 DEF TransportInv, TypeOK
    <3> QED
      BY <2>3, <3>1, SMT
  <2>5. Becomes(ws, "open", Append(sock[ws].sent, Request(o)))
    BY <2>1, <2>2, <2>4, SentBecomes, SocketTypes
  <2>6. pc' \in [Op -> Step] /\ pc'[o] = "waiting" /\ \A p \in Op : p # o => pc'[p] = pc[p]
    BY <2>1 DEF TransportInv, TypeOK, Step, Settled
  <2>7. OneActive' /\ Legs'
    <3>1. \A p \in Op : Moves(p)
      BY <1>1, <2>6 DEF Moves, Active, Settled
    <3> QED
      BY <1>3, <3>1, MovesKeep
  <2>8. PendingWaits'
    BY <2>1, <2>6 DEF PendingWaits
  <2>9. Wiring'
    BY <1>1, <1>3, <2>2, <2>5, <2>6, WiringKept
  <2>10. TypeOK'
    BY <1>2, <1>3, <2>1, <2>5, <2>6 DEF Becomes, SocketRecord, TransportInv, TypeOK
  <2>11. ASSUME ~peerCloses PROVE Framed'
    <3>1. \A j \in Sock : sock[j].sent = <<>> /\ sock[j].state # "closing"
      BY <1>5, <2>11 DEF TransportInv, Framed, FrameOf
    <3>2. sock'[ws].sent = <<Request(o)>>
      <4>1. sock[ws].sent = <<>>
        BY <2>2, <3>1
      <4>2. Append(<<>>, Request(o)) = <<Request(o)>>
        BY SMT
      <4> QED
        BY <2>5, <4>1, <4>2 DEF Becomes
    <3>3. Request(o)' = Request(o) /\ o # None
      BY <1>3, TransportAssumption DEF Request
    <3>4. ASSUME NEW j \in Sock PROVE FrameOf(j)'
      <4>1. CASE j = ws
        <5>1. sock'[j].state = "open" /\ sock'[j].sent = <<Request(o)>>
          BY <2>5, <3>2, <4>1 DEF Becomes
        <5> QED
          BY <2>1, <3>3, <5>1 DEF FrameOf, Request
      <4>2. CASE j # ws
        BY <2>5, <3>1, <4>2 DEF Becomes, Others, FrameOf
      <4> QED
        BY <4>1, <4>2
    <3>5. closeDue' = 0
      BY <1>3, <1>7, <2>11 DEF TransportInv, Framed
    <3> QED
      BY <3>4, <3>5 DEF Framed
  <2> QED
    BY <1>3, <1>6, <2>7, <2>8, <2>9, <2>10, <2>11 DEF TransportInv
<1>8. CASE ~IsOpen
  <2>1. pending' = pending /\ sock' = sock /\ pc' = [pc EXCEPT ![o] = "failed"]
    BY <1>2, <1>8 DEF Continue
  <2>2. pc' \in [Op -> Step] /\ pc'[o] = "failed" /\ \A p \in Op : p # o => pc'[p] = pc[p]
    BY <2>1 DEF TransportInv, TypeOK, Step, Settled
  <2>3. OneActive' /\ Legs'
    <3>1. \A p \in Op : Moves(p)
      BY <1>1, <2>2 DEF Moves, Active, Settled
    <3> QED
      BY <1>3, <3>1, MovesKeep
  <2>4. PendingWaits'
    BY <1>5, <2>1 DEF PendingWaits
  <2>5. \A p \in Op : pc[p] = "connecting" => pc'[p] = "connecting"
    BY <1>1, <2>2
  <2>6. Wiring'
    BY <1>3, <2>1, <2>5 DEF TransportInv, Wiring, WiredIs
  <2>7. TypeOK'
    BY <1>2, <1>3, <2>1, <2>2 DEF TransportInv, TypeOK
  <2>8. ~peerCloses => Framed'
    BY <1>3, <1>5, <2>1 DEF TransportInv, Framed, FrameOf, IsOpen
  <2> QED
    BY <1>3, <1>6, <2>3, <2>4, <2>6, <2>7, <2>8 DEF TransportInv
<1> QED
  BY <1>7, <1>8

(* The peer starts to close. *)
LEMMA ClosingStep == ASSUME TransportInv, NEW k \in Sock, Closing(k) PROVE TransportInv'
<1>1. /\ sock[k].state = "open" /\ sock' = [sock EXCEPT ![k].state = "closing"] /\ peerCloses
      /\ used' = used /\ ws' = ws /\ connectPromise' = connectPromise /\ pending' = pending
      /\ pc' = pc /\ leg' = leg /\ on' = on /\ got' = got /\ micro' = micro
      /\ closeDue' = closeDue /\ badUrl' = badUrl /\ peerCloses' = peerCloses
  BY DEF Closing
<1>2. Becomes(k, "closing", sock[k].sent)
  BY <1>1, StateBecomes, SocketTypes DEF SockState
<1>3. Wiring'
  BY <1>1, <1>2, WiringKept
<1>4. TypeOK'
  BY <1>1, <1>2 DEF Becomes, SocketRecord, TransportInv, TypeOK
<1>5. OneActive' /\ Queued' /\ PendingWaits' /\ Legs'
  BY <1>1 DEF TransportInv, OneActive, Active, Queued, PendingWaits, Legs, LegOf
<1> QED
  BY <1>1, <1>3, <1>4, <1>5 DEF TransportInv

(* One operation is queued in one way. *)
LEMMA OneOrder == ASSUME NEW o PROVE Orders({o}) \subseteq {<<o>>}
<1>1. Cardinality({o}) = Fin!Cardinality({o})
  BY DEF Cardinality, Fin!Cardinality
<1>2. Cardinality({o}) = 1
  BY <1>1, Fin!FS_Singleton
<1>3. Orders({o}) \subseteq [1..1 -> {o}]
  BY <1>2 DEF Orders
<1> QED
  BY <1>3, SMT

(* The connection is there: the one operation that awaits it is queued. *)
LEMMA OnOpenStep == ASSUME TransportInv, NEW k \in Sock, OnOpen(k) PROVE TransportInv'
<1>1. /\ sock[k].state = "connecting" /\ sock' = [sock EXCEPT ![k].state = "open"]
      /\ micro = <<>> /\ closeDue = 0
      /\ used' = used /\ ws' = ws /\ pending' = pending /\ leg' = leg /\ on' = on /\ got' = got
      /\ closeDue' = closeDue /\ badUrl' = badUrl /\ peerCloses' = peerCloses
  BY DEF OnOpen, Event
<1>2. sock[k].wired
  BY <1>1, LiveIsWired
<1>3. /\ connectPromise' = 0 /\ micro' \in Orders(Waiters(k))
      /\ pc' = [o \in Op |-> IF o \in Waiters(k) THEN "runnable" ELSE pc[o]]
  BY <1>2 DEF OnOpen
<1>4. Becomes(k, "open", sock[k].sent) /\ sock[k].sent = <<>>
  BY <1>1, StateBecomes, SocketTypes DEF SockState, TransportInv, Wiring, WiredIs
<1>5. PICK o \in Op : pc[o] = "connecting" /\ on[o] = k
  BY <1>1 DEF TransportInv, Wiring, WiredIs
<1>6. Waiters(k) = {o}
  BY <1>5 DEF Waiters, TransportInv, OneActive, Active, Settled
<1>7. micro' = <<o>> /\ micro' \in Seq(Op)
  <2>1. micro' = <<o>>
    BY <1>3, <1>6, OneOrder
  <2> QED
    BY <2>1, SMT
<1>8. /\ pc' \in [Op -> Step] /\ pc'[o] = "runnable" /\ \A p \in Op : p # o => pc'[p] = pc[p]
  BY <1>3, <1>6 DEF TransportInv, TypeOK, Step
<1>9. OneActive' /\ Legs'
  <2>1. \A p \in Op : Moves(p)
    BY <1>5, <1>8 DEF Moves, Active, Settled
  <2> QED
    BY <1>1, <2>1, MovesKeep
<1>10. PendingWaits'
  BY <1>1, <1>5, <1>8 DEF PendingWaits, TransportInv, TypeOK
<1>11. Queued'
  BY <1>7, <1>8 DEF Queued
<1>12. Wiring'
  BY <1>1, <1>4, <1>5, <1>8, WiringKept
<1>13. TypeOK'
  <2>1. 0 \in 0..used
    BY SMT DEF TransportInv, TypeOK
  <2> QED
    BY <1>1, <1>3, <1>4, <1>7, <1>8, <2>1 DEF Becomes, SocketRecord, TransportInv, TypeOK
<1>14. ASSUME ~peerCloses PROVE Framed' /\ Owned'
  <2>1. \A j \in Sock : sock'[j].sent = <<>> /\ sock'[j].state # "closing"
    BY <1>1, <1>4, <1>14, OnlyWs DEF Becomes, Others, TransportInv, Framed, FrameOf
  <2>2. Owned'
    BY <1>1, <1>14 DEF TransportInv, Owned, Own
  <2> QED
    BY <1>1, <2>1, <2>2 DEF Framed, FrameOf
<1> QED
  BY <1>1, <1>9, <1>10, <1>11, <1>12, <1>13, <1>14 DEF TransportInv

(* A connection that fails or is closed, with the operations that q failed. *)
LEMMA SocketEnds ==
    ASSUME TransportInv, NEW k \in Sock, sock[k].state \in {"connecting", "open", "closing"},
           sock' = [sock EXCEPT ![k].state = "closed", ![k].sent = <<>>],
           NEW q \in [Op -> Step], RejectPending(q),
           \A o \in Op : q[o] = pc[o] \/ (pc[o] = "connecting" /\ on[o] = k /\ q[o] = "failed"),
           connectPromise' = 0, micro = <<>>, closeDue' \in {closeDue, k},
           used' = used, ws' = ws, leg' = leg, on' = on, got' = got, micro' = micro,
           badUrl' = badUrl, peerCloses' = peerCloses
    PROVE  TransportInv'
<1>1. Becomes(k, "closed", <<>>)
  BY ClosedBecomes, SocketTypes
<1>2. /\ pending' = None /\ pc' \in [Op -> Step] /\ OneActive' /\ Legs' /\ PendingWaits'
      /\ \A o \in Op : pc[o] = "connecting" => pc'[o] = q[o]
  BY RejectKeeps
<1>3. \A o \in Op : pc[o] = "connecting" /\ on[o] # k => pc'[o] = "connecting"
  BY <1>2
<1>4. Wiring'
  BY <1>1, <1>3, WiringKept
<1>5. TypeOK'
  <2>1. 0 \in 0..used /\ k \in 0..used
    BY LiveIsWired, SMT DEF TransportInv, TypeOK, Sock
  <2>2. closeDue' \in 0..used
    BY <2>1 DEF TransportInv, TypeOK
  <2> QED
    BY <1>1, <1>2, <2>1, <2>2 DEF Becomes, SocketRecord, TransportInv, TypeOK
<1>6. Queued'
  BY DEF Queued
<1>7. ASSUME ~peerCloses PROVE Framed' /\ Owned'
  <2>1. \A j \in Sock : sock'[j].sent = <<>> /\ sock'[j].state # "closing"
    BY <1>1, <1>7, OnlyWs DEF Becomes, Others, TransportInv, Framed, FrameOf
  <2>2. ~IsOpen'
    BY <1>1, <1>7, OnlyWs DEF IsOpen, Becomes
  <2>3. Owned'
    BY <1>7 DEF TransportInv, Owned, Own
  <2> QED
    BY <1>2, <2>1, <2>2, <2>3 DEF Framed, FrameOf
<1> QED
  BY <1>2, <1>4, <1>5, <1>6, <1>7 DEF TransportInv

(* An error event. *)
LEMMA OnErrorStep == ASSUME TransportInv, NEW k \in Sock, OnError(k) PROVE TransportInv'
<1> DEFINE q == [o \in Op |-> IF o \in Waiters(k) THEN "failed" ELSE pc[o]]
<1>1. /\ sock[k].state \in {"connecting", "open", "closing"} /\ micro = <<>>
      /\ sock' = [sock EXCEPT ![k].state = "closed", ![k].sent = <<>>]
      /\ used' = used /\ ws' = ws /\ leg' = leg /\ on' = on /\ got' = got /\ micro' = micro
      /\ badUrl' = badUrl /\ peerCloses' = peerCloses
  BY DEF OnError, Event
<1>2. sock[k].wired
  BY <1>1, LiveIsWired
<1>3. connectPromise' = 0 /\ RejectPending(q) /\ closeDue' = k
  BY <1>2 DEF OnError
<1>4. /\ q \in [Op -> Step]
      /\ \A o \in Op : q[o] = pc[o] \/ (pc[o] = "connecting" /\ on[o] = k /\ q[o] = "failed")
  BY DEF Waiters, TransportInv, TypeOK, Step, Settled
<1> HIDE DEF q
<1> QED
  BY <1>1, <1>3, <1>4, SocketEnds

(* A close event without an error. *)
LEMMA OnCloseStep == ASSUME TransportInv, NEW k \in Sock, OnClose(k) PROVE TransportInv'
<1>1. /\ sock[k].state \in {"connecting", "open", "closing"} /\ micro = <<>>
      /\ sock' = [sock EXCEPT ![k].state = "closed", ![k].sent = <<>>]
      /\ used' = used /\ ws' = ws /\ leg' = leg /\ on' = on /\ got' = got /\ micro' = micro
      /\ closeDue' = closeDue /\ badUrl' = badUrl /\ peerCloses' = peerCloses
  BY DEF OnClose, Event
<1>2. sock[k].wired
  BY <1>1, LiveIsWired
<1>3. connectPromise' = 0 /\ RejectPending(pc) /\ pc \in [Op -> Step]
  BY <1>2 DEF OnClose, OnCloseBody, TransportInv, TypeOK
<1> QED
  BY <1>1, <1>3, SocketEnds

(* The close event that follows an error event. *)
LEMMA OnCloseAfterErrorStep == ASSUME TransportInv, OnCloseAfterError PROVE TransportInv'
<1>1. /\ closeDue # 0 /\ closeDue' = 0 /\ micro = <<>> /\ sock' = sock /\ used' = used /\ ws' = ws
      /\ leg' = leg /\ on' = on /\ got' = got /\ micro' = micro
      /\ badUrl' = badUrl /\ peerCloses' = peerCloses
  BY DEF OnCloseAfterError
<1>2. /\ pc \in [Op -> Step] /\ 0 \in 0..used
  BY SMT DEF TransportInv, TypeOK
<1>3. /\ connectPromise' \in {0, connectPromise} /\ pending' \in {None, pending}
      /\ pc' \in [Op -> Step] /\ OneActive' /\ Legs' /\ PendingWaits'
      /\ \A o \in Op : pc[o] = "connecting" => pc'[o] = "connecting"
  <2>1. CASE sock[closeDue].wired
    <3>1. connectPromise' = 0 /\ RejectPending(pc)
      BY <2>1 DEF OnCloseAfterError, OnCloseBody
    <3>2. /\ pending' = None /\ pc' \in [Op -> Step] /\ OneActive' /\ Legs' /\ PendingWaits'
          /\ \A o \in Op : pc[o] = "connecting" => pc'[o] = pc[o]
      BY <1>1, <1>2, <3>1, RejectKeeps
    <3> QED
      BY <3>1, <3>2
  <2>2. CASE ~sock[closeDue].wired
    <3>1. connectPromise' = connectPromise /\ pending' = pending /\ pc' = pc
      BY <2>2 DEF OnCloseAfterError
    <3> QED
      BY <1>1, <1>2, <3>1 DEF TransportInv, OneActive, Active, Legs, LegOf, PendingWaits
  <2> QED
    BY <2>1, <2>2
<1>4. TypeOK'
  BY <1>1, <1>2, <1>3 DEF TransportInv, TypeOK
<1>5. Queued' /\ Wiring'
  BY <1>1, <1>3 DEF TransportInv, Queued, Wiring, WiredIs
<1>6. ASSUME ~peerCloses PROVE Framed' /\ Owned'
  <2>1. \A j \in Sock : sock[j].sent = <<>> /\ sock[j].state # "closing"
    BY <1>1, <1>6 DEF TransportInv, Framed, FrameOf
  <2>2. Owned'
    BY <1>1, <1>6 DEF TransportInv, Owned, Own
  <2> QED
    BY <1>1, <2>1, <2>2 DEF Framed, FrameOf
<1> QED
  BY <1>1, <1>3, <1>4, <1>5, <1>6 DEF TransportInv

(* An answer. *)
LEMMA OnMessageStep == ASSUME TransportInv, NEW k \in Sock, OnMessage(k) PROVE TransportInv'
<1> DEFINE f == Head(sock[k].sent)
<1>1. /\ sock[k].state = "open" /\ sock[k].sent # <<>> /\ micro = <<>> /\ closeDue = 0
      /\ sock' = [sock EXCEPT ![k].sent = Tail(sock[k].sent)]
      /\ used' = used /\ ws' = ws /\ connectPromise' = connectPromise /\ leg' = leg /\ on' = on
      /\ micro' = micro /\ closeDue' = closeDue /\ badUrl' = badUrl /\ peerCloses' = peerCloses
  BY DEF OnMessage, Event
<1>2. sock[k].wired
  BY <1>1, LiveIsWired
<1>3. PICK ok \in BOOLEAN : HandleMessage(f, ok)
  BY <1>2 DEF OnMessage
<1>4. f \in Frame /\ Tail(sock[k].sent) \in Seq(Frame)
  <2>1. sock[k].sent \in Seq(Frame)
    BY DEF TransportInv, TypeOK
  <2> QED
    BY <1>1, <2>1, SMT
<1>5. Becomes(k, "open", Tail(sock[k].sent))
  BY <1>1, <1>4, SentBecomes, SocketTypes
<1>6. ~peerCloses => pending # None /\ f = Request(pending) /\ Tail(sock[k].sent) = <<>>
  <2>1. SUFFICES ASSUME ~peerCloses
                 PROVE  pending # None /\ f = Request(pending) /\ Tail(sock[k].sent) = <<>>
    OBVIOUS
  <2>2. pending # None /\ sock[k].sent = <<Request(pending)>>
    BY <1>1, <2>1 DEF TransportInv, Framed, FrameOf
  <2>3. Head(<<Request(pending)>>) = Request(pending) /\ Tail(<<Request(pending)>>) = <<>>
    BY SMT
  <2> QED
    BY <2>2, <2>3
<1> HIDE DEF f
<1>7. /\ pending' = None /\ pc' \in [Op -> Step] /\ got' \in [Op -> Frame \cup {None}]
      /\ \A o \in Op : Moves(o)
      /\ \A o \in Op : pc[o] = "connecting" => pc'[o] = "connecting"
      /\ \A o \in Op : got'[o] = got[o] \/ (pending = o /\ got'[o] = f)
  <2>1. CASE pending = None
    BY <1>3, <2>1 DEF HandleMessage, TransportInv, TypeOK, Moves
  <2>2. CASE pending # None
    <3>1. pending \in Op /\ pc[pending] = "waiting" /\ leg[pending] \in 1..2 /\ Active(pending)
      BY <2>2 DEF TransportInv, TypeOK, PendingWaits, Legs, LegOf, Active, Settled
    <3>2. leg[pending] = 1 \/ leg[pending] = 2
      BY <3>1, SMT
    <3>3. pending' = None /\ got' = [got EXCEPT ![pending] = f]
      BY <1>3, <2>2 DEF HandleMessage
    <3>4. PICK x : /\ pc' = [pc EXCEPT ![pending] = x]
                   /\ x \in {"failed", "done"} \/ (x = "solving" /\ leg[pending] = 1)
      <4> DEFINE y == CASE ~ok -> "failed"
                  [] ok /\ leg[pending] = 2 -> "done"
                  [] ok /\ leg[pending] = 1 /\ Content(f) # Content(Request(pending)) -> "failed"
                  [] ok /\ leg[pending] = 1 /\ Content(f) = Content(Request(pending)) ->
                       IF pending \in Write THEN "solving" ELSE "done"
      <4>1. pc' = [pc EXCEPT ![pending] = y]
        BY <1>3, <2>2 DEF HandleMessage
      <4>2. 1 # 2
        BY SMT
      <4>3. ~ok => y = "failed"
        OBVIOUS
      <4>4. ok /\ leg[pending] = 2 => y = "done"
        BY <4>2
      <4>5. ok /\ leg[pending] = 1 => y \in {"failed", "done", "solving"}
        BY <4>2
      <4> HIDE DEF y
      <4> QED
        BY <3>2, <4>1, <4>3, <4>4, <4>5
    <3>5. /\ pc' \in [Op -> Step] /\ pc'[pending] = x /\ \A o \in Op : o # pending => pc'[o] = pc[o]
      BY <3>1, <3>4 DEF TransportInv, TypeOK, Step, Settled
    <3>6. \A o \in Op : Moves(o)
      BY <3>1, <3>4, <3>5 DEF Moves
    <3>7. \A o \in Op : pc[o] = "connecting" => pc'[o] = "connecting"
      BY <3>1, <3>5
    <3>8. /\ got' \in [Op -> Frame \cup {None}]
          /\ \A o \in Op : got'[o] = got[o] \/ (pending = o /\ got'[o] = f)
      BY <1>4, <3>1, <3>3 DEF TransportInv, TypeOK
    <3> QED
      BY <3>3, <3>5, <3>6, <3>7, <3>8
  <2> QED
    BY <2>1, <2>2
<1>8. OneActive' /\ Legs'
  BY <1>1, <1>7, MovesKeep
<1>9. Wiring'
  BY <1>1, <1>5, <1>7, WiringKept
<1>10. TypeOK'
  BY <1>1, <1>5, <1>7 DEF Becomes, SocketRecord, TransportInv, TypeOK
<1>11. Queued' /\ PendingWaits'
  BY <1>1, <1>7 DEF Queued, PendingWaits
<1>12. ASSUME ~peerCloses PROVE Framed' /\ Owned'
  <2>1. \A j \in Sock : sock'[j].sent = <<>> /\ sock'[j].state # "closing"
    BY <1>1, <1>5, <1>6, <1>12, OnlyWs DEF Becomes, Others, TransportInv, Framed, FrameOf
  <2>2. ASSUME NEW o \in Op PROVE Own(o)'
    <3>1. CASE got'[o] = got[o]
      BY <1>1, <1>12, <3>1 DEF TransportInv, Owned, Own
    <3>2. CASE pending = o /\ got'[o] = f
      <4>1. Request(o).op = o /\ Request(o).leg = leg[o] /\ got'[o] = Request(o)
        BY <1>6, <1>12, <3>2 DEF Request
      <4>2. leg[o] \in 0..2
        BY DEF TransportInv, TypeOK
      <4>3. leg[o] <= leg[o]
        BY <4>2, SMT
      <4> QED
        BY <1>1, <4>1, <4>3 DEF Own
    <3> QED
      BY <1>7, <3>1, <3>2
  <2> QED
    BY <1>1, <2>1, <2>2 DEF Framed, FrameOf, Owned
<1> QED
  BY <1>1, <1>8, <1>9, <1>10, <1>11, <1>12 DEF TransportInv

(* close() *)
LEMMA CloseStep == ASSUME TransportInv, Close PROVE TransportInv'
<1>1. /\ micro = <<>> /\ closeDue = 0 /\ ws' = 0 /\ connectPromise' = 0 /\ RejectPending(pc)
      /\ used' = used /\ leg' = leg /\ on' = on /\ got' = got /\ micro' = micro
      /\ closeDue' = closeDue /\ badUrl' = badUrl /\ peerCloses' = peerCloses
  BY DEF Close, Event
<1>2. /\ pending' = None /\ pc' \in [Op -> Step] /\ OneActive' /\ Legs' /\ PendingWaits'
  BY <1>1, RejectKeeps DEF TransportInv, TypeOK
<1>3. /\ sock' \in [Sock -> SocketRecord]
      /\ \A j \in Sock : j # ws => sock'[j] = sock[j]
      /\ ws \in Sock => /\ sock'[ws].wired = FALSE /\ sock'[ws].state = "closed"
                        /\ sock'[ws].sent = <<>>
  <2>1. CASE ws = 0
    <3>1. sock' = sock
      BY <2>1 DEF Close
    <3>2. ws \notin Sock
      BY <2>1, SMT DEF Sock
    <3> QED
      BY <3>1, <3>2, SocketTypes
  <2>2. CASE ws # 0
    <3>1. sock' = [sock EXCEPT ![ws].wired = FALSE, ![ws].state = "closed", ![ws].sent = <<>>]
      BY <2>2 DEF Close
    <3>2. ws \in Sock
      BY <2>2, TransportAssumption, SMT DEF TransportInv, TypeOK, Sock
    <3>3. sock[ws] \in SocketRecord
      BY <3>2, SocketTypes
    <3>4. PICK p : p = [sock[ws] EXCEPT !.wired = FALSE]
      OBVIOUS
    <3>5. p \in SocketRecord /\ p.wired = FALSE
      BY <3>3, <3>4, WiredUpdate
    <3>6. PICK q : q = [p EXCEPT !.state = "closed"]
      OBVIOUS
    <3>7. q \in SocketRecord /\ q.wired = FALSE /\ q.state = "closed"
      BY <3>5, <3>6, StateUpdate DEF SockState
    <3>8. PICK r : r = [q EXCEPT !.sent = <<>>]
      OBVIOUS
    <3>9. r \in SocketRecord /\ r.wired = FALSE /\ r.state = "closed" /\ r.sent = <<>>
      BY <3>7, <3>8, SentUpdate, NoFrames
    <3>10. sock' = [sock EXCEPT ![ws] = r]
      BY <3>1, <3>4, <3>6, <3>8
    <3> QED
      BY <3>2, <3>9, <3>10, SocketUpdate, SocketTypes DEF Others
  <2> QED
    BY <2>1, <2>2
<1>4. ASSUME NEW j \in Sock PROVE WiredIs(j)' /\ sock'[j].state \notin {"connecting", "open"}
  <2>0. WiredIs(j)
    BY DEF TransportInv, Wiring
  <2>1. CASE j = ws
    <3>1. sock'[j].wired = FALSE /\ sock'[j].state = "closed" /\ sock'[j].sent = <<>>
      BY <1>3, <2>1
    <3>2. ~(j > used)
      BY <2>1, TransportAssumption, SMT DEF TransportInv, TypeOK
    <3> QED
      BY <1>1, <3>1, <3>2 DEF WiredIs
  <2>2. CASE j # ws
    <3>1. sock'[j] = sock[j] /\ sock[j].state \notin {"connecting", "open"}
      BY <1>3, <2>2, LiveIsWired
    <3>2. ~sock'[j].wired => sock'[j].state \in {"unused", "closed"}
      BY <2>0, <3>1 DEF WiredIs
    <3>3. sock'[j].sent # <<>> => sock'[j].state \in {"open", "closing"}
      BY <2>0, <3>1 DEF WiredIs
    <3>4. j > used' => sock'[j].state = "unused"
      BY <1>1, <2>0, <3>1, SMT DEF WiredIs
    <3> QED
      BY <3>1, <3>2, <3>3, <3>4 DEF WiredIs
  <2> QED
    BY <2>1, <2>2
<1>5. TypeOK'
  <2>1. 0 \in 0..used
    BY SMT DEF TransportInv, TypeOK
  <2> QED
    BY <1>1, <1>2, <1>3, <2>1 DEF SocketRecord, TransportInv, TypeOK
<1>6. Queued'
  BY <1>1 DEF Queued
<1>7. ASSUME ~peerCloses PROVE Framed' /\ Owned'
  <2>1. ASSUME NEW j \in Sock PROVE sock'[j].sent = <<>> /\ sock'[j].state # "closing"
    <3>1. sock'[j].state # "closing"
      BY <1>3, <1>7 DEF TransportInv, Framed, FrameOf
    <3> QED
      BY <1>4, <3>1 DEF WiredIs
  <2>2. Owned'
    BY <1>1, <1>7 DEF TransportInv, Owned, Own
  <2> QED
    BY <1>1, <2>1, <2>2 DEF Framed, FrameOf
<1> QED
  BY <1>1, <1>2, <1>4, <1>5, <1>6, <1>7 DEF TransportInv, Wiring

(* A caller that awaits each operation finds nothing else active. *)
LEMMA CallsAreFree ==
    ASSUME TransportInv, Sequential, NEW o \in Op, Call(o) \/ Submit(o)
    PROVE  Free(o) /\ RoundTrip(o)
<1>1. CASE Call(o)
  BY <1>1 DEF Call, Free
<1>2. CASE Submit(o)
  BY <1>2 DEF Submit, Free, TransportInv, OneActive, Active, Settled
<1> QED
  BY <1>1, <1>2

(* Nothing is called and no socket is made at first. *)
LEMMA TransportStarts == Init => TransportInv
<1> SUFFICES ASSUME Init PROVE TransportInv
  OBVIOUS
<1>1. /\ used = 0 /\ ws = 0 /\ connectPromise = 0 /\ pending = None
      /\ pc = [o \in Op |-> "idle"] /\ leg = [o \in Op |-> 0] /\ on = [o \in Op |-> 0]
      /\ got = [o \in Op |-> None] /\ micro = <<>> /\ closeDue = 0
      /\ badUrl \in BOOLEAN /\ peerCloses \in BOOLEAN
  BY DEF Init
<1>2. /\ sock \in [Sock -> SocketRecord]
      /\ \A k \in Sock : /\ sock[k].state = "unused" /\ sock[k].sent = <<>>
  BY NoFrames DEF Init, SocketRecord, SockState
<1>3. 0 \in 0..MaxSock /\ 0 \in 0..0 /\ 0 \in 0..2 /\ <<>> \in Seq(Op)
  BY TransportAssumption, SMT
<1>4. TypeOK
  BY <1>1, <1>2, <1>3 DEF TypeOK, SocketRecord, Step
<1>5. OneActive /\ Queued /\ PendingWaits /\ Legs
  BY <1>1 DEF OneActive, Queued, PendingWaits, Legs, LegOf, Active
<1>6. Wiring
  BY <1>2 DEF Wiring, WiredIs
<1>7. Framed /\ Owned
  BY <1>1, <1>2 DEF Framed, FrameOf, Owned, Own
<1> QED
  BY <1>4, <1>5, <1>6, <1>7 DEF TransportInv

(* Every step of the transport keeps the invariant. *)
LEMMA TransportStep == ASSUME TransportInv, Sequential, [Next]_vars PROVE TransportInv'
<1>1. CASE UNCHANGED vars
  BY <1>1 DEF vars, TransportInv, TypeOK, OneActive, Active, Queued, PendingWaits, Legs,
     LegOf, Wiring,
              WiredIs, Framed, FrameOf, IsOpen, Request, Owned, Own
<1>2. CASE Continue
  BY <1>2, ContinueStep
<1>3. CASE Events
  BY <1>3, OnCloseAfterErrorStep, CloseStep, OnOpenStep, OnErrorStep, ClosingStep, OnCloseStep,
     OnMessageStep DEF Events
<1>4. CASE \E o \in Op : Call(o) \/ Submit(o)
  BY <1>4, CallsAreFree, RoundTripStep
<1> QED
  BY <1>1, <1>2, <1>3, <1>4 DEF Next

-----------------------------------------------------------------------------
(***************************************************************************)
(* RelayConnection.  Only a run of the effect whose publish was answered   *)
(* holds a session, and its loop is done; the other runs are cancelled.    *)
(***************************************************************************)
Agreement ==
    mounted =>
        /\ status = "connected" <=> receiverSession # 0
        /\ sessionActive <=> receiverSession # 0
        /\ receiverSession # 0 => receiverSession = current /\ current \in acked /\ loop = "done"

ConnectionInv ==
    /\ C!TypeOK
    /\ onWire \subseteq Url \X (1..made)
    /\ loop # "off" => mounted
    /\ Agreement

(* The hook is not mounted at first. *)
LEMMA ConnectionStarts == C!Init => ConnectionInv
<1> SUFFICES ASSUME C!Init PROVE ConnectionInv
  OBVIOUS
<1>1. 0 \in 0..0 /\ 0 \in 0..MaxGen /\ 0 \in 0..Burst /\ 0 \in 0..MaxSession
  BY ConnectionAssumption, SMT
<1>2. C!TypeOK
  BY <1>1 DEF C!Init, C!TypeOK
<1> QED
  BY <1>2 DEF C!Init, ConnectionInv, Agreement

(* A new session is made and its bundle sent. *)
LEMMA TickTypes ==
    ASSUME ConnectionInv, NEW u \in Url, NEW idx, C!Tick(u, idx)
    PROVE  /\ made' = made + 1 /\ current' = made + 1 /\ loop' = "publishing"
           /\ made' \in 0..MaxSession /\ current' \in 0..made' /\ 0..made \subseteq 0..made'
           /\ onWire' \subseteq Url \X (1..made') /\ onWire' \subseteq Url \X C!Session
<1>1. made \in 0..MaxSession /\ made < MaxSession /\ made' = made + 1 /\ current' = made'
      /\ loop' = "publishing" /\ onWire' = onWire \cup {<<u, made'>>}
  BY DEF C!Tick, ConnectionInv, C!TypeOK
<1>2. /\ made' \in 0..MaxSession /\ made' \in 0..made' /\ 0..made \subseteq 0..made'
      /\ made' \in 1..made' /\ 1..made \subseteq 1..made' /\ 1..made' \subseteq C!Session
  BY <1>1, ConnectionAssumption, SMT DEF C!Session
<1>3. onWire' \subseteq Url \X (1..made')
  <2>1. onWire \subseteq Url \X (1..made)
    BY DEF ConnectionInv
  <2>2. Url \X (1..made) \subseteq Url \X (1..made')
    BY <1>2
  <2>3. <<u, made'>> \in Url \X (1..made')
    BY <1>2
  <2> QED
    BY <1>1, <2>1, <2>2, <2>3
<1>4. Url \X (1..made') \subseteq Url \X C!Session
  BY <1>2
<1>5. onWire' \subseteq Url \X C!Session
  BY <1>3, <1>4
<1> QED
  BY <1>1, <1>2, <1>3, <1>5

(* A run of the effect. *)
LEMMA EffectStep == ASSUME ConnectionInv, NEW u \in Url, C!RunEffect(u) PROVE ConnectionInv'
<1>1. /\ mounted /\ gen < MaxGen /\ gen' = gen + 1 /\ receiverSession' = 0
      /\ sessionActive' = FALSE /\ attemptIdx' = 0 /\ C!Tick(u, 0) /\ relayUrl' = u
      /\ mounted' = mounted /\ published' = published /\ acked' = acked /\ convRef' = convRef
  BY DEF C!RunEffect
<1>2. /\ made' = made + 1 /\ current' = made + 1 /\ loop' = "publishing"
      /\ made' \in 0..MaxSession /\ current' \in 0..made' /\ 0..made \subseteq 0..made'
      /\ onWire' \subseteq Url \X (1..made') /\ onWire' \subseteq Url \X C!Session
  BY <1>1, TickTypes
<1>3. status' = "connecting"
  <2>1. 0 < Burst
    BY ConnectionAssumption, SMT
  <2> QED
    BY <1>1, <2>1 DEF C!Tick
<1>4. gen' \in 0..MaxGen /\ 0 \in 0..Burst /\ 0 \in 0..made'
  BY <1>1, <1>2, ConnectionAssumption, SMT DEF ConnectionInv, C!TypeOK
<1>5. C!TypeOK'
  BY <1>1, <1>2, <1>3, <1>4 DEF ConnectionInv, C!TypeOK
<1>6. Agreement'
  BY <1>1, <1>3 DEF Agreement
<1> QED
  BY <1>1, <1>2, <1>5, <1>6 DEF ConnectionInv

(* The retry timer. *)
LEMMA TimerStep == ASSUME ConnectionInv, C!TimerFires PROVE ConnectionInv'
<1>1. /\ loop = "timer" /\ C!Tick(relayUrl, attemptIdx)
      /\ mounted' = mounted /\ relayUrl' = relayUrl /\ gen' = gen /\ attemptIdx' = attemptIdx
      /\ receiverSession' = receiverSession /\ sessionActive' = sessionActive
      /\ published' = published /\ acked' = acked /\ convRef' = convRef
  BY DEF C!TimerFires
<1>2. /\ made' = made + 1 /\ current' = made + 1 /\ loop' = "publishing"
      /\ made' \in 0..MaxSession /\ current' \in 0..made' /\ 0..made \subseteq 0..made'
      /\ onWire' \subseteq Url \X (1..made') /\ onWire' \subseteq Url \X C!Session
  BY <1>1, TickTypes DEF ConnectionInv, C!TypeOK
<1>3. status' \in {"connecting", status}
  BY <1>1 DEF C!Tick
<1>4. mounted /\ receiverSession = 0 /\ status # "connected" /\ ~sessionActive
  BY <1>1 DEF ConnectionInv, Agreement
<1>5. C!TypeOK'
  BY <1>1, <1>2, <1>3 DEF ConnectionInv, C!TypeOK
<1>6. Agreement'
  BY <1>1, <1>3, <1>4 DEF Agreement
<1> QED
  BY <1>1, <1>2, <1>4, <1>5, <1>6 DEF ConnectionInv

(* The end of a publish, in time or late. *)
LEMMA PublishStep == ASSUME ConnectionInv, C!PublishOk \/ C!PublishFails PROVE ConnectionInv'
<1>0. /\ mounted' = mounted /\ relayUrl' = relayUrl /\ gen' = gen /\ current' = current
      /\ made' = made /\ onWire' = onWire /\ published' = published /\ acked' = acked
      /\ convRef' = convRef /\ loop = "publishing"
  BY DEF C!PublishOk, C!PublishFails
<1>1. mounted /\ receiverSession = 0 /\ status # "connected" /\ ~sessionActive
  BY <1>0 DEF ConnectionInv, Agreement
<1>2. CASE C!PublishOk
  <2>1. /\ current \in acked /\ loop' = "done" /\ receiverSession' = current
        /\ sessionActive' = TRUE /\ status' = "connected" /\ attemptIdx' = attemptIdx
    BY <1>2 DEF C!PublishOk
  <2>2. current # 0
    BY <2>1, SMT DEF ConnectionInv, C!TypeOK, C!Session
  <2>3. C!TypeOK'
    BY <1>0, <2>1 DEF ConnectionInv, C!TypeOK
  <2>4. Agreement'
    BY <1>0, <2>1, <2>2 DEF Agreement
  <2> QED
    BY <1>0, <1>1, <2>3, <2>4 DEF ConnectionInv
<1>3. CASE C!PublishFails
  <2>1. /\ attemptIdx' = IF attemptIdx < Burst THEN attemptIdx + 1 ELSE attemptIdx
        /\ loop' = "timer" /\ receiverSession' = receiverSession
    BY <1>3 DEF C!PublishFails
  <2>2. /\ status' \in {status, "unreachable"}
        /\ sessionActive' = sessionActive \/ sessionActive' = FALSE
    BY <1>3 DEF C!PublishFails
  <2>3. attemptIdx' \in 0..Burst
    BY <2>1, ConnectionAssumption, SMT DEF ConnectionInv, C!TypeOK
  <2>4. C!TypeOK'
    BY <1>0, <2>1, <2>2, <2>3 DEF ConnectionInv, C!TypeOK
  <2>5. Agreement'
    BY <1>0, <1>1, <2>1, <2>2 DEF Agreement
  <2> QED
    BY <1>0, <1>1, <2>4, <2>5 DEF ConnectionInv
<1> QED
  BY <1>2, <1>3

(* The relay stores or loses a bundle, or a peer takes it. *)
LEMMA BundleStep ==
    ASSUME ConnectionInv, NEW u \in Url, NEW s \in C!Session,
           C!Stores(u, s) \/ C!Lost(u, s) \/ C!LookedUp(u)
    PROVE  ConnectionInv'
<1>1. /\ mounted' = mounted /\ relayUrl' = relayUrl /\ gen' = gen /\ loop' = loop
      /\ attemptIdx' = attemptIdx /\ current' = current /\ made' = made /\ status' = status
      /\ receiverSession' = receiverSession /\ sessionActive' = sessionActive /\ convRef' = convRef
  BY DEF C!Stores, C!Lost, C!LookedUp
<1>2. onWire' \subseteq onWire /\ acked \subseteq acked' /\ acked' \subseteq acked \cup {s}
  BY DEF C!Stores, C!Lost, C!LookedUp
<1>3. published' \in [Url -> 0..made]
  <2>1. CASE C!Stores(u, s)
    <3>1. <<u, s>> \in Url \X (1..made) /\ published' = [published EXCEPT ![u] = s]
      BY <2>1 DEF C!Stores, ConnectionInv
    <3>2. s \in 0..made
      <4>1. s \in 1..made
        BY <3>1
      <4> QED
        BY <4>1, SMT DEF ConnectionInv, C!TypeOK
    <3> QED
      BY <3>1, <3>2 DEF ConnectionInv, C!TypeOK
  <2>2. CASE C!Lost(u, s)
    BY <2>2 DEF C!Lost, ConnectionInv, C!TypeOK
  <2>3. CASE C!LookedUp(u)
    <3>1. 0 \in 0..made
      BY SMT DEF ConnectionInv, C!TypeOK
    <3> QED
      BY <2>3, <3>1 DEF C!LookedUp, ConnectionInv, C!TypeOK
  <2> QED
    BY <2>1, <2>2, <2>3
<1>4. C!TypeOK'
  BY <1>1, <1>2, <1>3 DEF ConnectionInv, C!TypeOK
<1>5. Agreement'
  BY <1>1, <1>2 DEF ConnectionInv, Agreement
<1> QED
  BY <1>1, <1>2, <1>4, <1>5 DEF ConnectionInv

(* Every step of the hook keeps the invariant. *)
LEMMA ConnectionStep == ASSUME ConnectionInv, [C!Next]_(C!vars) PROVE ConnectionInv'
<1>1. CASE UNCHANGED C!vars
  BY <1>1 DEF C!vars, ConnectionInv, C!TypeOK, Agreement
<1>2. ASSUME NEW u \in Url, C!RunEffect(u) PROVE ConnectionInv'
  BY <1>2, EffectStep
<1>3. CASE C!IdentityLoaded \/ C!Retry
  BY <1>2, <1>3 DEF C!IdentityLoaded, C!Retry, ConnectionInv, C!TypeOK
<1>4. CASE C!Unmount
  BY <1>4 DEF C!Unmount, ConnectionInv, C!TypeOK, Agreement
<1>5. CASE C!PublishOk \/ C!PublishFails
  BY <1>5, PublishStep
<1>6. CASE C!TimerFires
  BY <1>6, TimerStep
<1>7. CASE C!ConversationPolls
  BY <1>7 DEF C!ConversationPolls, ConnectionInv, C!TypeOK, Agreement
<1>8. CASE C!ConversationUnmounts
  <2>1. 0 \in 0..made
    BY SMT DEF ConnectionInv, C!TypeOK
  <2> QED
    BY <1>8, <2>1 DEF C!ConversationUnmounts, ConnectionInv, C!TypeOK, Agreement
<1>9. ASSUME NEW u \in Url, C!ChangeUrl(u) PROVE ConnectionInv'
  BY <1>2, <1>9 DEF C!ChangeUrl
<1>10. ASSUME NEW u \in Url, C!SetUrl(u) PROVE ConnectionInv'
  BY <1>10 DEF C!SetUrl, ConnectionInv, C!TypeOK, Agreement
<1>11. ASSUME NEW u \in Url, C!LookedUp(u) PROVE ConnectionInv'
  <2>1. published[u] \in C!Session
    <3>1. published[u] \in 0..made /\ made \in 0..MaxSession /\ published[u] # 0
      BY <1>11 DEF C!LookedUp, ConnectionInv, C!TypeOK
    <3> QED
      BY <3>1, ConnectionAssumption, SMT DEF C!Session
  <2> QED
    BY <1>11, <2>1, BundleStep
<1>12. ASSUME NEW u \in Url, NEW s \in C!Session, C!Stores(u, s) \/ C!Lost(u, s) PROVE ConnectionInv'
  BY <1>12, BundleStep
<1> QED
  BY <1>1, <1>3, <1>4, <1>5, <1>6, <1>7, <1>8, <1>9, <1>10, <1>11, <1>12 DEF C!Next

-----------------------------------------------------------------------------
(* relay_transport.ts: an operation is settled with the answer to its own  *)
(* request and no connection is leaked, when callers await one operation   *)
(* before the next.                                                        *)
THEOREM RepliesAreOwn == ASSUME Sequential PROVE WebSpec => []OwnReply
<1>1. WebInit => TransportInv
  BY TransportStarts DEF WebInit
<1>2. TransportInv /\ [WebNext]_<<focus, vars, hook>> => TransportInv'
  BY TransportStep DEF WebNext
<1>3. TransportInv => OwnReply
  BY DEF TransportInv, OwnReply, Owned, Own, Wiring, WiredIs
<1> QED
  BY <1>1, <1>2, <1>3, PTL DEF WebSpec

(* useRelayConnection.tsx: the status that is shown, the session that is   *)
(* held and the reload warning agree, and the bundle of that session       *)
(* reached a relay.                                                        *)
THEOREM StatusIsHonest == WebSpec => []StatusHonest
<1>1. WebInit => ConnectionInv
  BY ConnectionStarts DEF WebInit
<1>2. ConnectionInv /\ [WebNext]_<<focus, vars, hook>> => ConnectionInv'
  <2>1. [WebNext]_<<focus, vars, hook>> => [C!Next]_(C!vars)
    BY DEF WebNext, hook, C!vars
  <2> QED
    BY <2>1, ConnectionStep
<1>3. ConnectionInv => StatusHonest
  BY DEF ConnectionInv, Agreement, StatusHonest, C!StatusHonest
<1> QED
  BY <1>1, <1>2, <1>3, PTL DEF WebSpec
=============================================================================
