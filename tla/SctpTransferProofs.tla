------------------------- MODULE SctpTransferProofs -------------------------
(***************************************************************************)
(* T3Covers, for every number of streams, every script and every bound:    *)
(* while a chunk is in flight the retransmission timer is going to expire. *)
(* The invariant says of the timer that its count of pending expiries is   *)
(* exact, and of the association that what is in flight has it started.    *)
(***************************************************************************)
EXTENDS SctpNewDataProofs

-----------------------------------------------------------------------------
(* The other gatherers.                                                    *)

\* The other chunks leave T3 alone (gatherOutboundDataAndReconfigPackets,
\* gatherOutboundFastRetransmissionPackets, gatherOutboundForwardTSNPackets).
LEMMA GathersRest ==
  ASSUME NEW g, DOMAIN g = GatherFields, SenderInv(g.s)
  PROVE  /\ DOMAIN gatherReconfig(g) = GatherFields /\ SenderInv(gatherReconfig(g).s)
         /\ DOMAIN gatherFast(g) = GatherFields /\ SenderInv(gatherFast(g).s)
         /\ DOMAIN gatherForwardTSN(g) = GatherFields /\ SenderInv(gatherForwardTSN(g).s)
<1> USE DEF GatherFields
<1>1. PICK s : s = g.s
  BY Zenon
<1>2. DOMAIN s = Fields /\ SenderInv(s)
  BY <1>1, Zenon DEF SenderInv, Timed
<1>3. DOMAIN gatherReconfig(g) = GatherFields /\ SenderInv(gatherReconfig(g).s)
  <2>1. PICK x : x = gatherReconfig(g)
    BY Zenon
  <2>2. PICK new : new = IF g.sids = {} THEN {}
                         ELSE {[rsn |-> s.myNextRSN, tsn |-> Minus(TSNMod, s.myNextTSN, 1), sids |-> g.sids]}
    BY Zenon
  <2>3. PICK t : t = [s EXCEPT !.willRetransmitReconfig = FALSE, !.reconfigs = s.reconfigs \cup new,
                               !.myNextRSN = @ + Cardinality(new),
                               !.tReconfig = IF s.reconfigs \cup new # {} THEN start(@) ELSE @]
    BY Zenon
  <2>4. Same(s, t)
    BY <1>2, <2>3, Zenon DEF Same, Fields
  <2>5. x = g \/ \E f : x = [g EXCEPT !.s = t, !.out = f]
    BY <1>1, <2>1, <2>2, <2>3, Zenon DEF gatherReconfig
  <2>6. ASSUME NEW f, x = [g EXCEPT !.s = t, !.out = f]
        PROVE  DOMAIN x = GatherFields /\ x.s = t
    BY <2>6, Zenon
  <2>7. SenderInv(t)
    BY <1>2, <2>4, SameInv, Zenon
  <2> QED
    BY <2>1, <2>5, <2>6, <2>7, Zenon
<1>4. DOMAIN gatherFast(g) = GatherFields /\ SenderInv(gatherFast(g).s)
  <2>1. PICK h : h = [g EXCEPT !.s.willRetransmitFast = FALSE]
    BY Zenon
  <2>2. DOMAIN h = GatherFields /\ Same(s, h.s) /\ DOMAIN h.s = Fields
    BY <1>1, <1>2, <2>1, Zenon DEF Same, Fields
  <2>3. gatherFast(g) = g \/ \E K : gatherFast(g) = Resend(h, K, FALSE)
    BY <2>1, Zenon DEF gatherFast
  <2>4. ASSUME NEW K PROVE DOMAIN Resend(h, K, FALSE) = GatherFields /\ SenderInv(Resend(h, K, FALSE).s)
    <3>1. PICK r : r = Resend(h, K, FALSE)
      BY Zenon
    <3>2. DOMAIN r = GatherFields /\ Same(h.s, r.s)
      BY <2>2, <3>1, Resends, Zenon
    <3>3. Same(s, r.s)
      BY <2>2, <3>2, Zenon DEF Same
    <3> QED
      BY <1>2, <3>1, <3>2, <3>3, SameInv, Zenon
  <2> QED
    BY <2>3, <2>4, Zenon
<1>5. DOMAIN gatherForwardTSN(g) = GatherFields /\ SenderInv(gatherForwardTSN(g).s)
  <2>1. PICK x : x = gatherForwardTSN(g)
    BY Zenon
  <2>2. x = g \/ \E f : x = [g EXCEPT !.s.willSendForwardTSN = FALSE, !.out = f]
    BY <2>1, Zenon DEF gatherForwardTSN
  <2>3. ASSUME NEW f, x = [g EXCEPT !.s.willSendForwardTSN = FALSE, !.out = f]
        PROVE  DOMAIN x = GatherFields /\ Same(s, x.s)
    BY <1>1, <1>2, <2>3, Zenon DEF Same, Fields
  <2> QED
    BY <1>2, <2>1, <2>2, <2>3, SameInv, Zenon
<1> QED
  BY <1>3, <1>4, <1>5, Zenon

\* What the write loop gathers leaves T3 started if anything is in flight
\* (gatherOutbound).
LEMMA WriteLoop ==
  ASSUME SenderInv(snd), NEW budget, NEW g \in gatherOutbound(budget)
  PROVE  SenderInv(g.s)
<1>1. PICK s : s = [snd EXCEPT !.awake = FALSE]
  BY Zenon
<1>2. PICK g0 : g0 = [s |-> s, out |-> {}, room |-> budget, n |-> 0, sids |-> {}, stop |-> FALSE]
  BY Zenon
<1>3. SenderInv(s) /\ DOMAIN s = Fields
  <2>1. PICK v : v = snd
    BY Zenon
  <2>2. Same(v, s)
    BY <1>1, <2>1, Zenon DEF Same, SenderInv, Timed, Fields
  <2> QED
    BY <2>1, <2>2, SameInv, Zenon DEF SenderInv, Timed
<1>4. DOMAIN g0 = GatherFields /\ g0.s = s /\ g0.n = 0
  BY <1>2 DEF GatherFields
<1>5. PICK r : r = gatherRetransmit(g0)
  BY Zenon
<1>6. Gathers(r, s)
  <2>1. \E K : r = Resend(g0, K, TRUE)
    BY <1>5, Zenon DEF gatherRetransmit
  <2>2. DOMAIN r = GatherFields /\ r.n = g0.n /\ Same(g0.s, r.s)
    BY <1>3, <1>4, <2>1, Resends, Zenon
  <2>3. 0 \in Nat
    OBVIOUS
  <2> QED
    BY <1>3, <1>4, <2>2, <2>3, Zenon DEF Gathers, Same
<1>7. PICK x \in gatherData(r) : g = gatherForwardTSN(gatherFast(gatherReconfig(x)))
  BY <1>1, <1>2, <1>5, Zenon DEF gatherOutbound
<1>8. DOMAIN x = GatherFields /\ SenderInv(x.s)
  BY <1>3, <1>6, <1>7, GathersData, Zenon
<1>9. PICK y : y = gatherReconfig(x)
  BY Zenon
<1>10. DOMAIN y = GatherFields /\ SenderInv(y.s)
  BY <1>8, <1>9, GathersRest, Zenon
<1>11. PICK z : z = gatherFast(y)
  BY Zenon
<1>12. DOMAIN z = GatherFields /\ SenderInv(z.s)
  BY <1>10, <1>11, GathersRest, Zenon
<1> QED
  BY <1>7, <1>9, <1>11, <1>12, GathersRest, Zenon

-----------------------------------------------------------------------------
(* SACKs.                                                                  *)

\* The first part of handleSack may stop T3 and leaves the second to do.
LEMMA FirstPart ==
  ASSUME NEW s, Timed(s), NEW ack
  PROVE  Timed(SackAccepted(s, ack)) /\ SackAccepted(s, ack).sack # << >>
<1>1. PICK p : p = PopAll(s, ack)
  BY Zenon
<1>2. Timed(p)
  <2>1. PICK t : t = s.t3RTX
    BY Zenon
  <2>2. T3Sound(t) /\ T3Sound(stop(t))
    BY <2>1, T3Calls, Zenon DEF Timed
  <2>3. DOMAIN p = Fields /\ (p.t3RTX = t \/ p.t3RTX = stop(t))
    BY <1>1, <2>1, Zenon DEF PopAll, Timed, Fields
  <2> QED
    BY <2>2, <2>3, Zenon DEF Timed
<1>3. PICK m : m = MarkAcked(p, ack)
  BY Zenon
<1>4. Timed(m)
  BY <1>2, <1>3, SameMarks, Zenon DEF Same, Timed
<1>5. PICK u : u = [m EXCEPT !.cumulativeTSNAckPoint = ack.cum]
  BY Zenon
<1>6. Timed(u)
  BY <1>4, <1>5, Zenon DEF Timed, Fields
<1>7. ASSUME NEW n PROVE Timed(onCumulativeTSNAckPointAdvanced(u, n))
  <2>1. PICK t : t = u.t3RTX
    BY Zenon
  <2>2. T3Sound(stop(t)) /\ T3Sound(start(t))
    BY <1>6, <2>1, T3Calls, Zenon DEF Timed
  <2>3. PICK v : v = IF u.inflight = << >>
                     THEN [[u EXCEPT !.t3RTX = stop(t)] EXCEPT !.ptoTimer = FALSE, !.rackTimer = FALSE]
                     ELSE [u EXCEPT !.t3RTX = start(t)]
    BY Zenon
  <2>4. DOMAIN v = Fields /\ (v.t3RTX = stop(t) \/ v.t3RTX = start(t))
    BY <1>6, <2>3, Zenon DEF Timed, Fields
  <2>5. onCumulativeTSNAckPointAdvanced(u, n) = GrowWindow(v, n)
    BY <2>1, <2>3, Zenon DEF onCumulativeTSNAckPointAdvanced, stopT3, startT3
  <2>6. PICK z : z = GrowWindow(v, n)
    BY Zenon
  <2>7. Same(v, z)
    BY <2>4, <2>6, SameHelpers, Zenon
  <2>8. Timed(z)
    BY <2>2, <2>4, <2>7, Zenon DEF Same, Timed
  <2> QED
    BY <2>5, <2>6, <2>8, Zenon
<1>8. \E w, k : Timed(w) /\ SackAccepted(s, ack) = [w EXCEPT !.sack = <<k>>]
  <2>1. \E n, k : \/ SackAccepted(s, ack) = [onCumulativeTSNAckPointAdvanced(u, n) EXCEPT !.sack = <<k>>]
                  \/ SackAccepted(s, ack) = [u EXCEPT !.sack = <<k>>]
    BY <1>1, <1>3, <1>5, Zenon DEF SackAccepted
  <2> QED
    BY <1>6, <1>7, <2>1, Zenon
<1>9. PICK w, k : Timed(w) /\ SackAccepted(s, ack) = [w EXCEPT !.sack = <<k>>]
  BY <1>8, Zenon
<1>10. PICK r : r = [w EXCEPT !.sack = <<k>>]
  BY Zenon
<1>11. Timed(r) /\ r.sack = <<k>>
  BY <1>9, <1>10, Zenon DEF Timed, Fields
<1>12. <<k>> # << >>
  OBVIOUS
<1> QED
  BY <1>9, <1>10, <1>11, <1>12, Zenon

\* The second part fails the association or ends with T3 started for what is
\* left in flight (processFastRetransmission, postprocessSack).
LEMMA SecondPart ==
  ASSUME NEW s, Timed(s), NEW n
  PROVE  SenderInv(SackFinished(s, n))
<1>1. PICK k : k = Head(s.sack)
  BY Zenon
<1>2. PICK a : a = [s EXCEPT !.sack = << >>, !.rwnd = PeerWindow(Outstanding(s), k.ack.rwnd),
                             !.rackDelivered = @ \/ k.delivered]
  BY Zenon
<1>3. Timed(a)
  BY <1>2, Zenon DEF Timed, Fields
<1>4. PICK b : b = processFastRetransmission(a, k)
  BY Zenon
<1>5. Timed(b)
  <2>1. Timed(Failed(a))
    BY <1>3, Zenon DEF Timed, Failed, Fields
  <2>2. PICK m : m = Missed(a, MissCounted(a, k))
    BY Zenon
  <2>3. PICK c : c = CountMisses(a, m)
    BY Zenon
  <2>4. Timed(c)
    BY <1>3, <2>3, SameMarks, Zenon DEF Same, Timed
  <2>5. Timed(enterFastRecovery(c, k))
    BY <2>4, Zenon DEF Timed, enterFastRecovery, Fields
  <2>6. PICK d : d = AfterMisses(a, k, m)
    BY Zenon
  <2>7. Timed(d)
    BY <2>3, <2>4, <2>5, <2>6, Zenon DEF AfterMisses
  <2>8. Timed(RetransmitOnAdvance(d, k))
    BY <2>7, SameHelpers, Zenon DEF Same, Timed
  <2>9. b = Failed(a) \/ b = RetransmitOnAdvance(d, k)
    BY <1>4, <2>2, <2>6, Zenon DEF processFastRetransmission
  <2> QED
    BY <2>1, <2>8, <2>9, Zenon
<1>6. SackFinished(s, n) = AfterMissReport(b, k, n)
  BY <1>1, <1>2, <1>4, Zenon DEF SackFinished
<1>7. CASE b.failed
  BY <1>5, <1>6, <1>7, Zenon DEF AfterMissReport, SenderInv, Started
<1>8. CASE ~b.failed
  <2>1. PICK c : c = advancePeerAckPoint(b)
    BY Zenon
  <2>2. Timed(c)
    BY <1>5, <2>1, SameHelpers, Zenon DEF Same, Timed
  <2>3. PICK d : d = awakeWriteLoop(c)
    BY Zenon
  <2>4. Timed(d)
    BY <2>2, <2>3, SameHelpers, Zenon DEF Same, Timed
  <2>5. PICK e : e = IF d.inflight # << >> THEN [d EXCEPT !.t3RTX = start(d.t3RTX)] ELSE d
    BY Zenon
  <2>6. SenderInv(e)
    <3>1. PICK t : t = d.t3RTX
      BY Zenon
    <3>2. T3Sound(start(t)) /\ start(t).state = "started"
      BY <2>4, <3>1, T3Calls, Zenon DEF Timed
    <3>3. CASE d.inflight # << >>
      <4>1. DOMAIN e = Fields /\ e.t3RTX = start(t)
        BY <2>4, <2>5, <3>1, <3>3, Zenon DEF Timed, Fields
      <4> QED
        BY <3>2, <4>1, Zenon DEF SenderInv, Timed, Started
    <3>4. CASE d.inflight = << >>
      BY <2>4, <2>5, <3>4, Zenon DEF SenderInv, Started
    <3> QED
      BY <3>3, <3>4, Zenon
  <2>7. PICK f : f = postprocessSack(d, k)
    BY Zenon
  <2>8. SenderInv(f)
    <3>1. f = e \/ f = awakeWriteLoop(e)
      BY <2>5, <2>7, Zenon DEF postprocessSack, startT3
    <3>2. Same(e, awakeWriteLoop(e))
      BY <2>6, SameHelpers, Zenon DEF SenderInv, Timed
    <3> QED
      BY <2>6, <3>1, <3>2, SameInv, Zenon
  <2>9. PICK h : h = onRackAfterSACK(f, n)
    BY Zenon
  <2>10. SenderInv(h)
    <3>1. Same(f, h)
      BY <2>8, <2>9, SameMarks, Zenon DEF SenderInv, Timed
    <3> QED
      BY <2>8, <3>1, SameInv, Zenon
  <2>11. PICK i : i = tlrMaybeFinish(h, k)
    BY Zenon
  <2>12. SenderInv(i)
    <3>1. Same(h, i)
      BY <2>10, <2>11, SameHelpers, Zenon DEF SenderInv, Timed
    <3> QED
      BY <2>10, <3>1, SameInv, Zenon
  <2>13. SackFinished(s, n) = i
    BY <1>6, <1>8, <2>1, <2>3, <2>7, <2>9, <2>11, Zenon DEF AfterMissReport
  <2> QED
    BY <2>12, <2>13, Zenon
<1> QED
  BY <1>7, <1>8, Zenon

-----------------------------------------------------------------------------
(* The steps.                                                              *)

\* A new association has nothing in flight.
LEMMA T3Init == Init => SenderInv(snd)
<1> SUFFICES ASSUME Init PROVE SenderInv(snd)
  OBVIOUS
<1>1. snd = NewSender(scenario)
  BY DEF Init
<1>2. DOMAIN snd = Fields /\ snd.inflight = << >> /\ snd.t3RTX = newRTXTimer
  BY <1>1 DEF NewSender, Fields
<1>3. T3Sound(newRTXTimer)
  BY DEF T3Sound, newRTXTimer
<1> QED
  BY <1>2, <1>3, Zenon DEF SenderInv, Timed, Started

\* Every step keeps T3 started for what is in flight.
LEMMA T3Next == SenderInv(snd) /\ [Next]_vars => SenderInv(snd')
<1> SUFFICES ASSUME SenderInv(snd), [Next]_vars PROVE SenderInv(snd')
  OBVIOUS
<1>0. PICK s : s = snd
  BY Zenon
<1>1. SenderInv(s) /\ Timed(s) /\ DOMAIN s = Fields /\ T3Sound(s.t3RTX)
  BY <1>0, Zenon DEF SenderInv, Timed
<1>2. CASE UNCHANGED snd
  BY <1>2, Zenon
<1>3. ASSUME NEW i \in Streams, WriteSCTP(i) \/ WriterWakes(i) \/ CloseStream(i)
      PROVE  SenderInv(snd')
  <2>1. PICK a : a = [s EXCEPT !.writeNotify = FALSE]
    BY Zenon
  <2>2. Same(s, a) /\ DOMAIN a = Fields
    BY <1>1, <2>1, Zenon DEF Same, Fields
  <2>3. ASSUME NEW cs PROVE Same(s, enqueue(s, cs)) /\ Same(s, enqueue(a, cs))
    <3>1. Same(s, enqueue(s, cs))
      BY <1>1, SameHelpers, Zenon
    <3>2. Same(a, enqueue(a, cs))
      BY <2>2, SameHelpers, Zenon
    <3> QED
      BY <2>2, <3>1, <3>2, Zenon DEF Same
  <2>4. PICK b : b = awakeWriteLoop([s EXCEPT !.pending = PQ!push(@, Marker(i))])
    BY Zenon
  <2>5. Same(s, b)
    BY <1>1, <2>4, Zenon DEF Same, awakeWriteLoop, Fields
  <2>6. \/ snd' = s \/ snd' = a \/ snd' = b
        \/ \E cs : snd' = enqueue(s, cs) \/ snd' = enqueue(a, cs)
    BY <1>0, <1>3, <2>1, <2>4, Zenon DEF WriteSCTP, WriterWakes, CloseStream
  <2> QED
    BY <1>1, <2>2, <2>3, <2>5, <2>6, SameInv, Zenon
<1>4. CASE SenderWrites
  <2>1. PICK budget : \E g \in gatherOutbound(budget) : snd' = g.s
    BY <1>4, Zenon DEF SenderWrites, Sent
  <2> QED
    BY <2>1, WriteLoop, Zenon
<1>5. ASSUME NEW r, Timed(r), SackRest(r) PROVE SenderInv(snd')
  BY <1>5, SecondPart, Zenon DEF SackRest
<1>6. CASE HandleSack
  <2>1. PICK p \in toSnd : \/ UNCHANGED snd
                           \/ snd' = Failed(snd)
                           \/ SackFirstPart(SackAccepted(snd, p))
    BY <1>6, Zenon DEF HandleSack
  <2>2. SenderInv(Failed(s))
    BY <1>1, Zenon DEF SenderInv, Timed, Started, Failed, Fields
  <2>3. ASSUME SackFirstPart(SackAccepted(snd, p)) PROVE SenderInv(snd')
    <3>1. PICK r : r = SackAccepted(s, p)
      BY Zenon
    <3>2. Timed(r) /\ r.sack # << >>
      BY <1>1, <3>1, FirstPart, Zenon
    <3>3. snd' = r \/ SackRest(r)
      BY <1>0, <2>3, <3>1, Zenon DEF SackFirstPart
    <3> QED
      BY <1>5, <3>2, <3>3, Zenon DEF SenderInv, Started
  <2> QED
    BY <1>0, <2>1, <2>2, <2>3, Zenon
<1>7. CASE FinishSack
  BY <1>0, <1>1, <1>5, <1>7, Zenon DEF FinishSack
<1>8. CASE HandleResponse \/ ReconfigTimeout
  <2>1. \/ snd' = s
        \/ \E a, b : snd' = [s EXCEPT !.reconfigs = a, !.tReconfig = b]
        \/ \E b : snd' = [s EXCEPT !.tReconfig = b]
        \/ \E b : snd' = awakeWriteLoop([s EXCEPT !.tReconfig = b, !.willRetransmitReconfig = TRUE])
    BY <1>0, <1>8, Zenon DEF HandleResponse, ReconfigTimeout
  <2>2. Same(s, snd')
    BY <1>1, <2>1, Zenon DEF Same, awakeWriteLoop, Fields
  <2> QED
    BY <1>1, <2>2, SameInv, Zenon
<1>9. CASE T3Fires \/ T3Timeout
  <2>1. PICK t : t = s.t3RTX
    BY Zenon
  <2>2. /\ t.armed => T3Sound(Expire(t)) /\ Expire(t).state = t.state
        /\ t.flying > 0 => T3Sound(timeout(t, 0)) /\ timeout(t, 0).state = t.state
    BY <1>1, <2>1, T3Expiries, Zenon
  <2>3. \E u : /\ T3Sound(u) /\ u.state = t.state
               /\ \/ snd' = [s EXCEPT !.t3RTX = u]
                  \/ \E d : snd' = [s EXCEPT !.t3RTX = u, !.t3due = d]
    BY <1>0, <1>9, <2>1, <2>2, Zenon DEF T3Fires, T3Timeout
  <2>4. PICK u : /\ T3Sound(u) /\ u.state = t.state
                 /\ \/ snd' = [s EXCEPT !.t3RTX = u]
                    \/ \E d : snd' = [s EXCEPT !.t3RTX = u, !.t3due = d]
    BY <2>3, Zenon
  <2>5. PICK v : v = snd'
    BY Zenon
  <2>6. DOMAIN v = Fields /\ v.t3RTX = u /\ v.inflight = s.inflight /\ v.sack = s.sack /\ v.failed = s.failed
    BY <1>1, <2>4, <2>5, Zenon DEF Fields
  <2> QED
    BY <1>1, <2>1, <2>4, <2>5, <2>6, Zenon DEF SenderInv, Timed, Started
<1>10. CASE T3Callback
  <2>1. \E a, b, d, f, h :
          snd' = awakeWriteLoop(markAllToRetransmit(Advance(
                   [s EXCEPT !.t3due = FALSE, !.ssthresh = a, !.cwnd = b, !.inFastRecovery = FALSE,
                             !.willRetransmitFast = d, !.fastRecoverExitPoint = f,
                             !.partialBytesAcked = h])))
    BY <1>0, <1>10, Zenon DEF T3Callback
  <2>2. PICK a, b, d, f, h :
          snd' = awakeWriteLoop(markAllToRetransmit(Advance(
                   [s EXCEPT !.t3due = FALSE, !.ssthresh = a, !.cwnd = b, !.inFastRecovery = FALSE,
                             !.willRetransmitFast = d, !.fastRecoverExitPoint = f,
                             !.partialBytesAcked = h])))
    BY <2>1, Zenon
  <2>3. PICK t : t = [s EXCEPT !.t3due = FALSE, !.ssthresh = a, !.cwnd = b, !.inFastRecovery = FALSE,
                               !.willRetransmitFast = d, !.fastRecoverExitPoint = f,
                               !.partialBytesAcked = h]
    BY Zenon
  <2>4. Same(s, t) /\ DOMAIN t = Fields
    BY <1>1, <2>3, Zenon DEF Same, Fields
  <2>5. PICK u : u = Advance(t)
    BY Zenon
  <2>6. Same(t, u) /\ DOMAIN u = Fields
    BY <2>4, <2>5, SameHelpers, Zenon DEF Same
  <2>7. PICK v : v = markAllToRetransmit(u)
    BY Zenon
  <2>8. Same(u, v) /\ DOMAIN v = Fields
    BY <2>6, <2>7, SameMarks, Zenon DEF Same
  <2>9. PICK w : w = awakeWriteLoop(v)
    BY Zenon
  <2>10. Same(v, w)
    BY <2>8, <2>9, SameHelpers, Zenon
  <2>11. Same(s, w)
    BY <2>4, <2>6, <2>8, <2>10, Zenon DEF Same
  <2> QED
    BY <1>1, <2>2, <2>3, <2>5, <2>7, <2>9, <2>11, SameInv, Zenon
<1>11. CASE RackTimeout
  <2>1. PICK a : a = [s EXCEPT !.rackTimer = FALSE]
    BY Zenon
  <2>2. Same(s, a) /\ DOMAIN a = Fields
    BY <1>1, <2>1, Zenon DEF Same, Fields
  <2>3. PICK n : snd' = markLost(a, n)
    BY <1>0, <1>11, <2>1, Zenon DEF RackTimeout
  <2>4. Same(a, markLost(a, n))
    BY <2>2, SameMarks, Zenon
  <2>5. Same(s, snd')
    BY <2>2, <2>3, <2>4, Zenon DEF Same
  <2> QED
    BY <1>1, <2>5, SameInv, Zenon
<1>12. CASE PTOTimeout
  <2>1. PICK b : b = IF s.tlr # "off" THEN s.tlrEndTSN
                     ELSE Plus(TSNMod, s.cumulativeTSNAckPoint, Cardinality(Visible(s)))
    BY Zenon
  <2>2. PICK t : t = [s EXCEPT !.ptoTimer = FALSE, !.tlr = IF @ = "off" THEN "first" ELSE @,
                               !.tlrEndTSN = b]
    BY Zenon
  <2>3. PICK K : K = {k \in Latest(t) : ~t.inflight[k].retransmit}
    BY Zenon
  <2>4. Same(s, t) /\ DOMAIN t = Fields
    BY <1>1, <2>2, Zenon DEF Same, Fields
  <2>5. PICK h : h = [k \in 1..Len(t.inflight) |->
                        IF k \in K THEN [t.inflight[k] EXCEPT !.retransmit = TRUE] ELSE t.inflight[k]]
    BY Zenon
  <2>6. h = [k \in 1..Len(t.inflight) |-> h[k]]
    BY <2>5, Zenon
  <2>7. PICK u : u = [t EXCEPT !.inflight = h]
    BY Zenon
  <2>8. Same(t, u) /\ DOMAIN u = Fields
    <3>1. Same(t, u)
      BY <2>4, <2>6, <2>7, NothingAdded, Zenon
    <3> QED
      BY <2>4, <3>1, Zenon DEF Same
  <2>9. snd' = t \/ snd' = awakeWriteLoop(t) \/ snd' = awakeWriteLoop(u)
    BY <1>0, <1>12, <2>1, <2>2, <2>3, <2>5, <2>7, Zenon DEF PTOTimeout
  <2>10. Same(t, awakeWriteLoop(t)) /\ Same(u, awakeWriteLoop(u))
    BY <2>4, <2>8, SameHelpers, Zenon
  <2>11. Same(s, snd')
    BY <2>4, <2>8, <2>9, <2>10, Zenon DEF Same
  <2> QED
    BY <1>1, <2>11, SameInv, Zenon
<1>13. CASE \/ \E i \in Streams : WriteTimesOut(i) \/ ReadSCTP(i)
            \/ HandleInbound \/ AckTimeout \/ ReceiverWrites \/ AcceptStream \/ Lose \/ UNCHANGED vars
  <2>1. UNCHANGED snd
    BY <1>13, Zenon DEF WriteTimesOut, ReadSCTP, HandleInbound, AckTimeout, ReceiverWrites,
       AcceptStream, Lose, vars
  <2> QED
    BY <1>2, <2>1
<1> QED
  BY <1>3, <1>4, <1>6, <1>7, <1>8, <1>9, <1>10, <1>11, <1>12, <1>13, Zenon DEF Next

\* While a chunk is in flight T3 is going to expire, whichever of the write loop,
\* handleSack, the timers' goroutines and the streams came last, also with
\* expiries that were under way when the timer was stopped (startT3, stopT3,
\* timeout).
THEOREM T3AlwaysCovers == Spec => []T3Covers
<1>1. ASSUME SenderInv(snd) PROVE T3Covers
  <2>1. PICK t, f : t = snd.t3RTX /\ f = t.flying
    BY Zenon
  <2>2. T3Sound(t) /\ f \in Nat
    BY <1>1, <2>1, Zenon DEF SenderInv, Timed, T3Sound
  <2>3. f + 0 = f /\ (f # 0 => f > 0)
    BY <2>2
  <2> QED
    BY <1>1, <2>1, <2>2, <2>3, Zenon DEF SenderInv, Started, T3Sound, T3Covers
<1>2. SenderInv(snd) /\ [Next]_vars => SenderInv(snd)'
  BY T3Next
<1> QED
  BY <1>1, <1>2, T3Init, PTL DEF Spec
=============================================================================
