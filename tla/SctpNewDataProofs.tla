------------------------- MODULE SctpNewDataProofs --------------------------
(***************************************************************************)
(* What SctpTransferProofs needs of the retransmission timer, of the       *)
(* functions of the sender that leave it alone, and of the loop that sends *)
(* new chunks, which is followed by induction on its turns.                *)
(***************************************************************************)
EXTENDS SctpTransfer, WellFoundedInduction, TLAPS

-----------------------------------------------------------------------------
(* Induction on the turns of a loop.                                       *)

\* A set with 0 and with the successor of each of its members has every natural
\* number in it.
LEMMA SetInduction ==
  ASSUME NEW S, 0 \in S, \A n \in Nat : n \in S => n + 1 \in S
  PROVE  \A n \in Nat : n \in S
<1> DEFINE R == OpToRel(<, Nat)
<1> DEFINE T == Nat \ S
<1> SUFFICES ASSUME T # {} PROVE FALSE
  OBVIOUS
<1>1. PICK x \in T : \A y \in T : ~(<<y, x>> \in R)
  <2>1. IsWellFoundedOn(R, Nat)
    BY NatLessThanWellFounded, Zenon
  <2>2. T \subseteq Nat
    OBVIOUS
  <2> HIDE DEF R, T
  <2> QED
    BY <2>1, <2>2, WFMin, Zenon
<1>2. \A y \in T : ~(y < x)
  BY <1>1, Zenon DEF OpToRel
<1>3. x \in Nat /\ x # 0 /\ x - 1 \in Nat /\ x - 1 < x /\ x - 1 + 1 = x
  OBVIOUS
<1> QED
  BY <1>2, <1>3

\* h is what the first n turns of the loop from g give.
IsRun(g, n, h) == /\ DOMAIN h = 0..n
                  /\ h[0] = g
                  /\ \A k \in Nat : k + 1 \in 0..n => h[k + 1] = popOne(h[k])

\* A loop of any length has a run (Turns).
LEMMA RunExists ==
  ASSUME NEW g
  PROVE  \A n \in Nat : \E h : IsRun(g, n, h)
<1> DEFINE S == {n \in Nat : \E h : IsRun(g, n, h)}
<1>1. 0 \in S
  <2> DEFINE h == [k \in 0..0 |-> g]
  <2>1. IsRun(g, 0, h)
    BY DEF IsRun
  <2> QED
    BY <2>1
<1>2. \A n \in Nat : n \in S => n + 1 \in S
  <2> SUFFICES ASSUME NEW n \in Nat, NEW h, IsRun(g, n, h)
               PROVE  \E i : IsRun(g, n + 1, i)
    OBVIOUS
  <2> DEFINE i == [k \in 0..(n + 1) |-> IF k = n + 1 THEN popOne(h[n]) ELSE h[k]]
  <2>1. IsRun(g, n + 1, i)
    <3>1. i[0] = g
      BY DEF IsRun
    <3>2. ASSUME NEW k \in Nat, k + 1 \in 0..(n + 1)
          PROVE  i[k + 1] = popOne(i[k])
      <4>1. i[k] = h[k]
        BY <3>2
      <4>2. CASE k = n
        BY <4>1, <4>2
      <4>3. CASE k # n
        <5>1. k + 1 \in 0..n /\ i[k + 1] = h[k + 1]
          BY <3>2, <4>3
        <5> QED
          BY <4>1, <5>1 DEF IsRun
      <4> QED
        BY <4>2, <4>3
    <3> HIDE DEF i
    <3>3. DOMAIN i = 0..(n + 1)
      BY DEF i
    <3> QED
      BY <3>1, <3>2, <3>3, Zenon DEF IsRun
  <2> QED
    BY <2>1
<1> HIDE DEF S
<1>3. \A n \in Nat : n \in S
  BY <1>1, <1>2, SetInduction, Zenon
<1> QED
  BY <1>3 DEF S

\* Two runs agree as far as both go (Turns).
LEMMA RunsAgree ==
  ASSUME NEW g, NEW m \in Nat, NEW n \in Nat, NEW h, NEW i, IsRun(g, m, h), IsRun(g, n, i), m <= n
  PROVE  \A k \in 0..m : h[k] = i[k]
<1> DEFINE S == {k \in Nat : k \in 0..m => h[k] = i[k]}
<1>1. 0 \in S
  BY DEF IsRun
<1>2. \A k \in Nat : k \in S => k + 1 \in S
  <2> SUFFICES ASSUME NEW k \in Nat, k \in S, k + 1 \in 0..m
               PROVE  h[k + 1] = i[k + 1]
    OBVIOUS
  <2>1. h[k] = i[k] /\ k + 1 \in 0..n
    OBVIOUS
  <2> QED
    BY <2>1 DEF IsRun
<1> HIDE DEF S
<1>3. \A k \in Nat : k \in S
  BY <1>1, <1>2, SetInduction, Zenon
<1> QED
  BY <1>3 DEF S

\* The recursive function of the turns exists: each turn is popOne of the one
\* before it (popPendingDataChunksToSend).
LEMMA TurnsStep ==
  ASSUME NEW g
  PROVE  /\ Turns(g)[0] = g
         /\ \A k \in Nat : Turns(g)[k + 1] = popOne(Turns(g)[k])
<1> DEFINE run(n) == CHOOSE h : IsRun(g, n, h)
           F == [k \in Nat |-> run(k)[k]]
           Is(f) == f = [k \in Nat |-> IF k = 0 THEN g ELSE popOne(f[k - 1])]
<1>1. \A n \in Nat : IsRun(g, n, run(n))
  BY RunExists, Zenon
<1> HIDE DEF run
<1>2. F[0] = g
  BY <1>1 DEF IsRun
<1>3. ASSUME NEW k \in Nat
      PROVE  F[k + 1] = popOne(F[k])
  <2>1. IsRun(g, k, run(k)) /\ IsRun(g, k + 1, run(k + 1))
    BY <1>1
  <2>2. run(k)[k] = run(k + 1)[k]
    <3>1. PICK n : n = k + 1
      OBVIOUS
    <3>2. n \in Nat /\ k <= n /\ k \in 0..k
      BY <3>1
    <3>3. PICK a, b : a = run(k) /\ b = run(n)
      BY Zenon
    <3>4. IsRun(g, k, a) /\ IsRun(g, n, b)
      BY <2>1, <3>1, <3>3, Zenon
    <3>5. \A j \in 0..k : a[j] = b[j]
      BY <3>2, <3>4, RunsAgree
    <3> QED
      BY <3>1, <3>2, <3>3, <3>5, Zenon
  <2>3. run(k + 1)[k + 1] = popOne(run(k + 1)[k])
    <3>1. k + 1 \in 0..(k + 1)
      OBVIOUS
    <3> QED
      BY <2>1, <3>1, Zenon DEF IsRun
  <2> QED
    BY <2>2, <2>3
<1>4. Is(F)
  <2>1. ASSUME NEW k \in Nat
        PROVE  F[k] = IF k = 0 THEN g ELSE popOne(F[k - 1])
    <3>1. CASE k = 0
      BY <1>2, <3>1
    <3>2. CASE k # 0
      <4>1. k - 1 \in Nat /\ k - 1 + 1 = k
        BY <3>2
      <4>2. F[k - 1 + 1] = popOne(F[k - 1])
        BY <1>3, <4>1
      <4> QED
        BY <3>2, <4>1, <4>2
    <3> QED
      BY <3>1, <3>2
  <2> QED
    BY <2>1
<1>5. Is(Turns(g))
  <2> HIDE DEF F
  <2>1. Is(CHOOSE f : Is(f))
    BY <1>4, Zenon
  <2>2. Turns(g) = CHOOSE f : Is(f)
    BY DEF Turns
  <2> HIDE DEF Is
  <2> QED
    BY <2>1, <2>2
<1> HIDE DEF F
<1> DEFINE T == Turns(g)
<1>6. T = [k \in Nat |-> IF k = 0 THEN g ELSE popOne(T[k - 1])]
  BY <1>5
<1> HIDE DEF T
<1>7. T[0] = g /\ \A k \in Nat : T[k + 1] = popOne(T[k])
  BY <1>6
<1> QED
  BY <1>7 DEF T
-----------------------------------------------------------------------------
(* The timer.                                                              *)

\* pending counts the arm that will fire and the goroutines that it started
\* earlier; a started timer has one or the other.
T3Sound(t) ==
  /\ DOMAIN t = {"state", "nRtos", "pending", "armed", "flying"}
  /\ t.state \in {"stopped", "started"} /\ t.flying \in Nat
  /\ \/ t.armed = TRUE /\ t.state = "started" /\ t.pending = t.flying + 1
     \/ t.armed = FALSE /\ t.pending = t.flying /\ (t.state = "started" => t.flying # 0)

\* The calls on the timer keep the count (rtx_timer.go: start, stop).
LEMMA T3Calls ==
  ASSUME NEW t, T3Sound(t)
  PROVE  /\ T3Sound(start(t)) /\ start(t).state = "started"
         /\ T3Sound(stop(t))
<1>1. CASE t.state = "started"
  <2>1. start(t) = t
    BY <1>1 DEF start
  <2>2. PICK x : x = [t EXCEPT !.state = "stopped", !.nRtos = 0, !.pending = AfterStop(t), !.armed = FALSE]
    BY Zenon
  <2>3. DOMAIN x = DOMAIN t /\ x.state = "stopped" /\ x.pending = AfterStop(t) /\ x.armed = FALSE /\ x.flying = t.flying
    BY <2>2, Zenon DEF T3Sound
  <2>4. AfterStop(t) = t.flying
    <3>1. PICK f, p : f = t.flying /\ p = t.pending
      BY Zenon
    <3>2. f \in Nat /\ ((t.armed = TRUE /\ p = f + 1) \/ (t.armed = FALSE /\ p = f))
      BY <3>1, Zenon DEF T3Sound
    <3>3. p = f + 1 => p - 1 = f
      BY <3>2
    <3>4. (t.armed = TRUE => AfterStop(t) = p - 1) /\ (t.armed = FALSE => AfterStop(t) = p)
      BY <3>1, Zenon DEF AfterStop
    <3> QED
      BY <3>1, <3>2, <3>3, <3>4, Zenon
  <2>5. T3Sound(x)
    BY <2>3, <2>4, Zenon DEF T3Sound
  <2>6. stop(t) = x
    BY <1>1, <2>2, Zenon DEF stop
  <2> QED
    BY <1>1, <2>1, <2>5, <2>6, Zenon
<1>2. CASE t.state = "stopped"
  <2>1. stop(t) = t
    BY <1>2 DEF stop
  <2>2. PICK x : x = [t EXCEPT !.state = "started", !.nRtos = 0, !.pending = @ + 1, !.armed = TRUE]
    BY Zenon
  <2>3. DOMAIN x = DOMAIN t /\ x.state = "started" /\ x.pending = t.pending + 1 /\ x.armed = TRUE /\ x.flying = t.flying
    BY <2>2, Zenon DEF T3Sound
  <2>4. T3Sound(x)
    BY <1>2, <2>3, Zenon DEF T3Sound
  <2>5. start(t) = x
    BY <1>2, <2>2, Zenon DEF start
  <2> QED
    BY <2>1, <2>3, <2>4, <2>5, Zenon
<1> QED
  BY <1>1, <1>2, Zenon DEF T3Sound

\* So do the Go timer when it fires and timeout(), which re-arms a timer of
\* which no other expiry is pending.
LEMMA T3Expiries ==
  ASSUME NEW t, T3Sound(t)
  PROVE  /\ t.armed => T3Sound(Expire(t)) /\ Expire(t).state = t.state
         /\ t.flying > 0 => T3Sound(timeout(t, 0)) /\ timeout(t, 0).state = t.state
<1>1. ASSUME t.armed PROVE T3Sound(Expire(t)) /\ Expire(t).state = t.state
  <2>1. PICK x : x = Expire(t)
    BY Zenon
  <2>2. DOMAIN x = DOMAIN t /\ x.state = t.state /\ x.pending = t.pending /\ x.armed = FALSE /\ x.flying = t.flying + 1
    BY <2>1, Zenon DEF Expire, T3Sound
  <2>3. \A f \in Nat : f + 1 \in Nat /\ f + 1 # 0
    OBVIOUS
  <2> QED
    BY <1>1, <2>1, <2>2, <2>3, Zenon DEF T3Sound
<1>2. ASSUME t.flying > 0 PROVE T3Sound(timeout(t, 0)) /\ timeout(t, 0).state = t.state
  <2>1. PICK u : u = [t EXCEPT !.flying = @ - 1, !.pending = @ - 1]
    BY Zenon
  <2>2. DOMAIN u = DOMAIN t /\ u.state = t.state /\ u.pending = t.pending - 1 /\ u.armed = t.armed /\ u.flying = t.flying - 1
    BY <2>1, Zenon DEF T3Sound
  <2>3. PICK f, p : f = t.flying /\ p = t.pending
    BY Zenon
  <2>4. f \in Nat /\ f > 0
    BY <1>2, <2>3, Zenon DEF T3Sound
  <2>5. /\ f - 1 \in Nat
        /\ p = f + 1 => p - 1 = f - 1 + 1 /\ p # 1
        /\ p = f /\ p # 1 => f - 1 # 0
        /\ p = f /\ p = 1 => p - 1 + 1 = f - 1 + 1
    BY <2>4
  <2>6. CASE ~IsExpiry(t)
    <3>1. timeout(t, 0) = u
      BY <2>1, <2>6, Zenon DEF timeout
    <3>2. t.state = "started" => p # 1
      BY <2>3, <2>6, Zenon DEF IsExpiry
    <3>3. u.flying = f - 1 /\ u.pending = p - 1
      BY <2>2, <2>3, Zenon
    <3>4. ASSUME t.armed = TRUE, t.state = "started", p = f + 1 PROVE T3Sound(u)
      <4>1. u.pending = u.flying + 1 /\ u.flying \in Nat
        BY <2>5, <3>3, <3>4, Zenon
      <4> QED
        BY <2>2, <3>4, <4>1, Zenon DEF T3Sound
    <3>5. ASSUME t.armed = FALSE, p = f PROVE T3Sound(u)
      <4>1. u.pending = u.flying /\ u.flying \in Nat /\ (t.state = "started" => u.flying # 0)
        BY <2>5, <3>2, <3>3, <3>5, Zenon
      <4> QED
        BY <2>2, <3>5, <4>1, Zenon DEF T3Sound
    <3>6. T3Sound(u)
      BY <2>3, <3>4, <3>5, Zenon DEF T3Sound
    <3> QED
      BY <2>2, <3>1, <3>6, Zenon
  <2>7. CASE IsExpiry(t)
    <3>1. PICK v : v = [u EXCEPT !.nRtos = @ + 1, !.armed = TRUE, !.pending = @ + 1]
      BY Zenon
    <3>2. DOMAIN v = DOMAIN t /\ v.state = t.state /\ v.pending = u.pending + 1 /\ v.armed = TRUE /\ v.flying = u.flying
      BY <2>2, <3>1, Zenon DEF T3Sound
    <3>3. timeout(t, 0) = v
      BY <2>1, <2>7, <3>1, Zenon DEF timeout, MayRetry
    <3>4. p = 1 /\ t.state = "started"
      BY <2>3, <2>7, Zenon DEF IsExpiry
    <3>5. p = f
      BY <2>3, <2>5, <3>4, Zenon DEF T3Sound
    <3>6. v.flying \in Nat /\ v.pending = v.flying + 1
      <4>1. v.flying = f - 1 /\ v.pending = p - 1 + 1
        BY <2>2, <2>3, <3>2, Zenon
      <4> QED
        BY <2>5, <3>4, <3>5, <4>1, Zenon
    <3>7. T3Sound(v)
      BY <3>2, <3>4, <3>6, Zenon DEF T3Sound
    <3> QED
      BY <3>2, <3>3, <3>7, Zenon
  <2> QED
    BY <2>6, <2>7, Zenon
<1> QED
  BY <1>1, <1>2, Zenon

-----------------------------------------------------------------------------
(* The sender.                                                             *)

Fields ==
  {"pending", "inflight", "myNextTSN", "cumulativeTSNAckPoint", "advancedPeerTSNAckPoint",
   "abandoned", "allInflight", "cwnd", "rwnd", "ssthresh", "partialBytesAcked",
   "inFastRecovery", "fastRecoverExitPoint", "willRetransmitFast", "willSendForwardTSN",
   "reconfigs", "myNextRSN", "willRetransmitReconfig", "writePending", "writeNotify",
   "t3RTX", "t3due", "tReconfig", "rackDelivered", "rackTimer", "ptoTimer",
   "tlr", "tlrEndTSN", "sack", "awake", "failed"}

\* The timer is started for what is in flight, except in the middle of
\* handleSack, which starts it at the end.
Timed(s) == DOMAIN s = Fields /\ T3Sound(s.t3RTX)
Started(s) == s.inflight # << >> /\ s.sack = << >> /\ ~s.failed => s.t3RTX.state = "started"
SenderInv(s) == Timed(s) /\ Started(s)

\* From s to t the timer was left alone and nothing was put in flight.
Same(s, t) ==
  /\ DOMAIN t = DOMAIN s
  /\ t.t3RTX = s.t3RTX /\ t.sack = s.sack /\ t.failed = s.failed
  /\ s.inflight = << >> => t.inflight = << >>

\* Then the invariant goes on holding.
LEMMA SameInv ==
  ASSUME NEW s, NEW t, SenderInv(s), Same(s, t)
  PROVE  SenderInv(t)
BY Zenon DEF SenderInv, Timed, Started, Same

\* The helpers that touch neither the timer nor the length of what is in flight.
LEMMA SameHelpers ==
  ASSUME NEW s, DOMAIN s = Fields
  PROVE  /\ Same(s, s) /\ Same(s, awakeWriteLoop(s))
         /\ \A cs : Same(s, checkPartialReliabilityStatus(s, cs)) /\ Same(s, enqueue(s, cs))
         /\ Same(s, Advance(s)) /\ Same(s, advancePeerAckPoint(s))
         /\ \A acked : Same(s, GrowWindow(s, acked))
         /\ \A k : Same(s, tlrMaybeFinish(s, k)) /\ Same(s, RetransmitOnAdvance(s, k))
<1> USE DEF Fields
<1>1. Same(s, s) /\ Same(s, awakeWriteLoop(s))
  BY Zenon DEF Same, awakeWriteLoop
<1>2. ASSUME NEW cs
      PROVE  Same(s, checkPartialReliabilityStatus(s, cs)) /\ Same(s, enqueue(s, cs))
  <2>1. Same(s, checkPartialReliabilityStatus(s, cs))
    BY Zenon DEF Same, checkPartialReliabilityStatus
  <2>2. Same(s, enqueue(s, cs))
    BY Zenon DEF Same, enqueue, awakeWriteLoop
  <2> QED
    BY <2>1, <2>2
<1>3. ASSUME NEW a, DOMAIN a = Fields
      PROVE  Same(a, Advance(a))
  BY <1>3, Zenon DEF Same, Advance
<1>4. Same(s, advancePeerAckPoint(s))
  <2>1. PICK a : a = IF LT(s.advancedPeerTSNAckPoint, s.cumulativeTSNAckPoint)
                     THEN [s EXCEPT !.advancedPeerTSNAckPoint = s.cumulativeTSNAckPoint] ELSE s
    BY Zenon
  <2>2. Same(s, a) /\ DOMAIN a = Fields
    BY <2>1, Zenon DEF Same
  <2>3. Same(a, Advance(a))
    BY <1>3, <2>2, Zenon
  <2> QED
    BY <2>1, <2>2, <2>3, Zenon DEF Same, advancePeerAckPoint
<1>5. ASSUME NEW acked PROVE Same(s, GrowWindow(s, acked))
  BY Zenon DEF Same, GrowWindow
<1>6. ASSUME NEW k PROVE Same(s, tlrMaybeFinish(s, k)) /\ Same(s, RetransmitOnAdvance(s, k))
  <2>1. Same(s, tlrMaybeFinish(s, k))
    BY Zenon DEF Same, tlrMaybeFinish
  <2>2. Same(s, RetransmitOnAdvance(s, k))
    BY Zenon DEF Same, RetransmitOnAdvance
  <2> QED
    BY <2>1, <2>2
<1> QED
  BY <1>1, <1>2, <1>3, <1>4, <1>5, <1>6, Zenon

\* A sequence that is mapped stays as long as it was.
LEMMA NothingAdded ==
  ASSUME NEW s, DOMAIN s = Fields, NEW h, NEW u, u = [s EXCEPT !.inflight = h],
         h = [k \in 1..Len(s.inflight) |-> h[k]]
  PROVE  Same(s, u)
<1>1. s.inflight = << >> => h = << >>
  <2>1. ASSUME NEW q, q = << >>, h = [k \in 1..Len(q) |-> h[k]] PROVE h = << >>
    BY <2>1
  <2> QED
    BY <2>1, Zenon
<1> QED
  BY <1>1, Zenon DEF Same, Fields

\* So do those that mark chunks in flight.
LEMMA SameMarks ==
  ASSUME NEW s, DOMAIN s = Fields
  PROVE  /\ \A n : Same(s, markLost(s, n)) /\ Same(s, onRackAfterSACK(s, n))
         /\ Same(s, markAllToRetransmit(s))
         /\ \A ack : Same(s, MarkAcked(s, ack))
         /\ \A m : Same(s, CountMisses(s, m))
<1>1. ASSUME NEW ack PROVE Same(s, MarkAcked(s, ack))
  <2>1. PICK h : h = [k \in 1..Len(s.inflight) |->
          IF k \in GapPositions(s, ack) THEN [s.inflight[k] EXCEPT !.acked = TRUE, !.retransmit = FALSE]
          ELSE s.inflight[k]]
    BY Zenon
  <2>2. h = [k \in 1..Len(s.inflight) |-> h[k]]
    BY <2>1, Zenon
  <2>3. MarkAcked(s, ack) = [s EXCEPT !.inflight = h]
    BY <2>1, Zenon DEF MarkAcked
  <2> QED
    BY <2>2, <2>3, NothingAdded, Zenon
<1>2. ASSUME NEW m PROVE Same(s, CountMisses(s, m))
  <2>1. PICK h : h = [j \in 1..Len(s.inflight) |->
          IF j \in m THEN MissedOnceMore(s.inflight[j]) ELSE s.inflight[j]]
    BY Zenon
  <2>2. h = [k \in 1..Len(s.inflight) |-> h[k]]
    BY <2>1, Zenon
  <2>3. CountMisses(s, m) = [s EXCEPT !.inflight = h]
    BY <2>1, Zenon DEF CountMisses
  <2> QED
    BY <2>2, <2>3, NothingAdded, Zenon
<1>3. Same(s, markAllToRetransmit(s))
  <2>1. PICK h : h = [k \in 1..Len(s.inflight) |->
          IF s.inflight[k].acked \/ abandoned(s, s.inflight[k]) THEN s.inflight[k]
          ELSE [s.inflight[k] EXCEPT !.retransmit = TRUE]]
    BY Zenon
  <2>2. h = [k \in 1..Len(s.inflight) |-> h[k]]
    BY <2>1, Zenon
  <2>3. markAllToRetransmit(s) = [s EXCEPT !.inflight = h]
    BY <2>1, Zenon DEF markAllToRetransmit
  <2> QED
    BY <2>2, <2>3, NothingAdded, Zenon
<1>4. ASSUME NEW n PROVE Same(s, markLost(s, n)) /\ Same(s, onRackAfterSACK(s, n))
  <2>1. PICK h : h = [k \in 1..Len(s.inflight) |->
          IF k \in FirstOf(Candidates(s), n) THEN [s.inflight[k] EXCEPT !.retransmit = TRUE]
          ELSE s.inflight[k]]
    BY Zenon
  <2>2. h = [k \in 1..Len(s.inflight) |-> h[k]]
    BY <2>1, Zenon
  <2>3. PICK t : t = [s EXCEPT !.inflight = h]
    BY Zenon
  <2>4. Same(s, t)
    BY <2>2, <2>3, NothingAdded, Zenon
  <2>5. markLost(s, n) = s \/ markLost(s, n) = awakeWriteLoop(t)
    BY <2>1, <2>3, Zenon DEF markLost
  <2>6. Same(s, awakeWriteLoop(t))
    BY <2>4, Zenon DEF Same, awakeWriteLoop, Fields
  <2>7. Same(s, markLost(s, n))
    BY <2>5, <2>6, SameHelpers, Zenon
  <2>8. PICK u : u = markLost(s, n)
    BY Zenon
  <2>9. Same(s, onRackAfterSACK(s, n))
    BY <2>7, <2>8, Zenon DEF Same, onRackAfterSACK, Fields
  <2> QED
    BY <2>7, <2>9
<1> QED
  BY <1>1, <1>2, <1>3, <1>4, Zenon

-----------------------------------------------------------------------------
(* The gatherers.                                                          *)

\* g has come from s without a call on the timer, and with nothing in flight
\* that was not counted.
GatherFields == {"s", "out", "room", "n", "sids", "stop"}
Gathers(g, s) ==
  /\ DOMAIN g = GatherFields /\ g.n \in Nat
  /\ DOMAIN g.s = Fields
  /\ g.s.t3RTX = s.t3RTX /\ g.s.sack = s.sack /\ g.s.failed = s.failed
  /\ g.n = 0 /\ s.inflight = << >> => g.s.inflight = << >>

\* Chunks that are sent once more were in flight (Resend).
LEMMA Resends ==
  ASSUME NEW g, DOMAIN g = GatherFields, DOMAIN g.s = Fields, NEW K, NEW unmark
  PROVE  LET r == Resend(g, K, unmark)
         IN  DOMAIN r = GatherFields /\ r.n = g.n /\ Same(g.s, r.s)
<1>1. PICK s : s = g.s
  BY Zenon
<1>2. PICK h : h = [k \in 1..Len(s.inflight) |->
        IF k \in K THEN [s.inflight[k] EXCEPT !.nSent = @ + 1, !.retransmit = @ /\ ~unmark]
        ELSE s.inflight[k]]
  BY Zenon
<1>3. h = [k \in 1..Len(s.inflight) |-> h[k]]
  BY <1>2, Zenon
<1>4. PICK t : t = [s EXCEPT !.inflight = h]
  BY Zenon
<1>5. Same(s, t) /\ DOMAIN t = Fields
  <2>1. DOMAIN s = Fields
    BY <1>1, Zenon
  <2>2. Same(s, t)
    BY <1>3, <1>4, <2>1, NothingAdded, Zenon
  <2> QED
    BY <2>1, <2>2, Zenon DEF Same
<1>6. PICK cs : cs = [j \in 1..Len(Ascending(K)) |-> h[Ascending(K)[j]]]
  BY Zenon
<1>7. PICK u : u = checkPartialReliabilityStatus(t, cs)
  BY Zenon
<1>8. Same(t, u)
  BY <1>5, <1>7, SameHelpers, Zenon
<1>9. Same(s, u)
  BY <1>5, <1>8, Zenon DEF Same
<1>10. PICK r : r = [g EXCEPT !.s = u, !.out = @ \cup bundle(cs), !.room = @ - Len(cs)]
  BY Zenon
<1>11. DOMAIN r = GatherFields /\ r.n = g.n /\ r.s = u
  BY <1>10, Zenon DEF GatherFields
<1>12. Resend(g, K, unmark) = r
  <2>1. Resend(g, K, unmark) = AgainIn(g, h, Ascending(K))
    BY <1>1, <1>2, Zenon DEF Resend
  <2>2. AgainIn(g, h, Ascending(K)) = Again(g, h, cs)
    BY <1>6, Zenon DEF AgainIn
  <2>3. Again(g, h, cs) = r
    BY <1>1, <1>4, <1>7, <1>10, Zenon DEF Again
  <2> QED
    BY <2>1, <2>2, <2>3, Zenon
<1> QED
  BY <1>1, <1>9, <1>11, <1>12, Zenon

\* movePendingDataChunkToInflightQueue leaves the timer to its caller.
LEMMA Moves ==
  ASSUME NEW s, DOMAIN s = Fields, NEW c, NEW m, m = move(s, c)
  PROVE  DOMAIN m = Fields /\ m.t3RTX = s.t3RTX /\ m.sack = s.sack /\ m.failed = s.failed
<1>1. PICK t : t = [s EXCEPT !.pending = PQ!pop(@), !.inflight = Append(@, InFlight(s, c)),
                             !.myNextTSN = Next1(@),
                             !.allInflight = IF c.e THEN @ \cup {c.msg} ELSE @]
  BY Zenon
<1>2. DOMAIN t = Fields /\ t.t3RTX = s.t3RTX /\ t.sack = s.sack /\ t.failed = s.failed
  BY <1>1, Zenon DEF Fields
<1>3. PICK cs : cs = <<InFlight(s, c)>>
  BY Zenon
<1>4. m = checkPartialReliabilityStatus(t, cs)
  BY <1>1, <1>3, Zenon DEF move
<1>5. Same(t, m)
  BY <1>2, <1>4, SameHelpers, Zenon
<1> QED
  BY <1>2, <1>5, Zenon DEF Same

\* A turn of the loop takes the mark of a closed stream, moves and counts a
\* chunk, or stops (popPendingDataChunksToSend).
LEMMA OneTurn ==
  ASSUME NEW g, NEW s, Gathers(g, s)
  PROVE  Gathers(popOne(g), s)
<1> USE DEF GatherFields
<1>1. PICK c : c = PQ!peek(g.s.pending)
  BY Zenon
<1>2. CASE g.stop
  BY <1>2, Zenon DEF popOne
<1>3. CASE ~g.stop /\ c.len = 0
  <2>1. PICK r : r = [g EXCEPT !.s.pending = PQ!pop(@), !.sids = @ \cup {c.sid}]
    BY Zenon
  <2>2. popOne(g) = r
    BY <1>1, <1>3, <2>1 DEF popOne, popChunk
  <2>3. Gathers(r, s)
    BY <2>1, Zenon DEF Gathers, Fields
  <2> QED
    BY <2>2, <2>3, Zenon
<1>4. CASE ~g.stop /\ c.len # 0 /\ Fits(g)
  <2>1. PICK t : t = Charged(g.s)
    BY Zenon
  <2>2. PICK m : m = move(t, c)
    BY Zenon
  <2>3. PICK r : r = [g EXCEPT !.s = m, !.room = @ - 1, !.n = @ + 1]
    BY Zenon
  <2>4. popOne(g) = r
    BY <1>1, <1>4, <2>1, <2>2, <2>3, Zenon DEF popOne, popChunk
  <2>5. DOMAIN t = Fields /\ t.t3RTX = g.s.t3RTX /\ t.sack = g.s.sack /\ t.failed = g.s.failed
    BY <2>1, Zenon DEF Gathers, Charged, Fields
  <2>6. DOMAIN m = Fields /\ m.t3RTX = t.t3RTX /\ m.sack = t.sack /\ m.failed = t.failed
    BY <2>2, <2>5, Moves, Zenon
  <2>7. DOMAIN r = GatherFields /\ r.s = m /\ r.n = g.n + 1
    BY <2>3, Zenon DEF Gathers
  <2>8. r.n \in Nat /\ r.n # 0
    BY <2>7 DEF Gathers
  <2> QED
    BY <2>4, <2>5, <2>6, <2>7, <2>8, Zenon DEF Gathers
<1>5. CASE ~g.stop /\ c.len # 0 /\ ~Fits(g)
  <2>1. PICK r : r = [g EXCEPT !.s.pending = PQ!peeked(@), !.stop = TRUE]
    BY Zenon
  <2>2. popOne(g) = r
    BY <1>1, <1>5, <2>1 DEF popOne, popChunk
  <2>3. Gathers(r, s)
    BY <2>1, Zenon DEF Gathers, Fields
  <2> QED
    BY <2>2, <2>3, Zenon
<1> QED
  BY <1>2, <1>3, <1>4, <1>5, Zenon

\* So does the whole loop.
LEMMA AllTurns ==
  ASSUME NEW g, NEW s, Gathers(g, s)
  PROVE  \A k \in Nat : Gathers(Turns(g)[k], s)
<1> DEFINE S == {k \in Nat : Gathers(Turns(g)[k], s)}
<1>1. 0 \in S
  BY TurnsStep, Zenon
<1>2. ASSUME NEW k \in Nat, k \in S PROVE k + 1 \in S
  <2>1. Turns(g)[k + 1] = popOne(Turns(g)[k])
    BY TurnsStep, Zenon
  <2>2. PICK x : x = Turns(g)[k]
    BY Zenon
  <2>3. Gathers(popOne(x), s)
    BY <1>2, <2>2, OneTurn, Zenon
  <2>4. k + 1 \in Nat
    OBVIOUS
  <2> QED
    BY <2>1, <2>2, <2>3, <2>4, Zenon
<1> HIDE DEF S
<1>3. \A k \in Nat : k \in S
  BY <1>1, <1>2, SetInduction, Zenon
<1> QED
  BY <1>3 DEF S

\* The probe of a closed window is counted, and T3 is started whenever a chunk
\* was counted (popPendingDataChunksToSend, gatherOutboundDataAndReconfigPackets).
LEMMA GathersData ==
  ASSUME NEW s, SenderInv(s), NEW g, Gathers(g, s), NEW x \in gatherData(g)
  PROVE  DOMAIN x = GatherFields /\ SenderInv(x.s)
<1> USE DEF GatherFields
<1>1. PICK y : /\ \E k \in Nat : y = Turns(g)[k]
               /\ x = sendNew(notifyBlockWritable(probe(y)))
  <2>1. \A j : j \in 0..PQ!size(g.s.pending) => j \in Nat
    OBVIOUS
  <2> QED
    BY <2>1, Zenon DEF gatherData, popPendingDataChunksToSend
<1>2. Gathers(y, s)
  BY <1>1, AllTurns, Zenon
<1>3. PICK z : z = probe(y)
  BY Zenon
<1>4. Gathers(z, s)
  <2>1. PICK c : c = PQ!peek(y.s.pending)
    BY Zenon
  <2>2. PICK m : m = move(y.s, c)
    BY Zenon
  <2>3. PICK r : r = [y EXCEPT !.s = m, !.room = @ - 1, !.n = 1]
    BY Zenon
  <2>4. z = y \/ z = r
    BY <1>3, <2>1, <2>2, <2>3, Zenon DEF probe, probeWith
  <2>5. DOMAIN m = Fields /\ m.t3RTX = y.s.t3RTX /\ m.sack = y.s.sack /\ m.failed = y.s.failed
    <3>1. PICK t : t = y.s
      BY Zenon
    <3>2. DOMAIN t = Fields /\ m = move(t, c)
      BY <1>2, <2>2, <3>1, Zenon DEF Gathers
    <3>3. DOMAIN m = Fields /\ m.t3RTX = t.t3RTX /\ m.sack = t.sack /\ m.failed = t.failed
      BY <3>2, Moves, Zenon
    <3> QED
      BY <3>1, <3>3, Zenon
  <2>6. DOMAIN r = GatherFields /\ r.s = m /\ r.n = 1
    BY <1>2, <2>3, Zenon DEF Gathers
  <2>7. 1 \in Nat /\ 1 # 0
    OBVIOUS
  <2>8. Gathers(r, s)
    BY <1>2, <2>5, <2>6, <2>7, Zenon DEF Gathers
  <2> QED
    BY <1>2, <2>4, <2>8, Zenon
<1>5. PICK w : w = notifyBlockWritable(z)
  BY Zenon
<1>6. Gathers(w, s)
  BY <1>4, <1>5, Zenon DEF Gathers, notifyBlockWritable, Fields
<1>7. CASE w.n = 0
  <2>1. x = w
    BY <1>1, <1>3, <1>5, <1>7, Zenon DEF sendNew
  <2>2. Same(s, w.s)
    BY <1>6, <1>7, Zenon DEF Gathers, Same, SenderInv, Timed
  <2> QED
    BY <1>6, <2>1, <2>2, SameInv, Zenon DEF Gathers
<1>8. CASE w.n # 0
  <2>1. PICK t : t = start(w.s.t3RTX)
    BY Zenon
  <2>2. PICK u : u = [[w.s EXCEPT !.t3RTX = t] EXCEPT !.ptoTimer = TRUE]
    BY Zenon
  <2>3. T3Sound(t) /\ t.state = "started"
    <3>1. PICK v : v = s.t3RTX
      BY Zenon
    <3> QED
      BY <1>6, <2>1, <3>1, T3Calls, Zenon DEF Gathers, SenderInv, Timed
  <2>4. DOMAIN u = Fields /\ u.t3RTX = t
    BY <1>6, <2>2, Zenon DEF Gathers, Fields
  <2>5. x = [w EXCEPT !.s = u, !.out = @ \cup bundle(Newest(w.s, w.n))]
    BY <1>1, <1>3, <1>5, <1>8, <2>1, <2>2, Zenon DEF sendNew, startT3
  <2>6. DOMAIN x = GatherFields /\ x.s = u
    BY <1>6, <2>5, Zenon DEF Gathers
  <2> QED
    BY <2>3, <2>4, <2>6, Zenon DEF SenderInv, Timed, Started
<1> QED
  BY <1>7, <1>8, Zenon
=============================================================================
