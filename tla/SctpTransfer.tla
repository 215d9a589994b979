---------------------------- MODULE SctpTransfer ----------------------------
(***************************************************************************)
(* Data transfer over an established SCTP association                      *)
(* (go/pion-sctp-patched: association.go, stream.go and the queues), in    *)
(* one direction: the application of the sending end writes messages to    *)
(* its streams and closes them, and that of the receiving end accepts the  *)
(* streams and reads.  The network loses and reorders packets.             *)
(*                                                                         *)
(* A step is one critical section of the association's lock.  Sizes are    *)
(* in chunks of one unit each, a packet holds scenario.mtu of them, and    *)
(* headers count nothing.  Deadlines have no length: a timer that is armed *)
(* may fire at any moment, and RACK may find any prefix of the candidates  *)
(* overdue.  The handshake and the shutdown are in SctpAssoc.              *)
(***************************************************************************)
EXTENDS RtxTimer, Reassembly, FiniteSets

\* Reassembly declares TSNMod, SSNMod, MaxMIDEntries and None.
CONSTANTS
  Streams,        \* stream identifiers
  Scenarios,      \* what is negotiated, written and lost: see ScenariosAssumption
  WordSize,       \* bits of a word of the receiver's TSN mask: 64
  Words,          \* words of that mask
  AcceptBacklog   \* acceptChSize

\* A stream's script is what its application does with it, in order.
Ops == [op : {"write"}, frags : Nat \ {0}] \cup {[op |-> "close"]}
Reliability == [unordered : BOOLEAN, type : {"reliable", "rexmit", "timed"}, value : Nat]

ASSUME StreamsAssumption == Streams \subseteq Nat
ASSUME ModAssumption == {TSNMod, SSNMod, WordSize, Words, AcceptBacklog, MaxMIDEntries} \subseteq Nat \ {0}
\* The words of the mask divide the TSN space.  The ring of the default buffer,
\* 132 words, does not: after the wrap of the TSN two TSNs of one window share
\* a bit there, 4096 apart, and AckedIsHeld fails.
ASSUME RingAssumption == TSNMod % (WordSize * Words) = 0
ASSUME ScenariosAssumption ==
  \A s \in Scenarios :
    /\ s.mode \in {"message", "roundRobin", "weightedFair"}
    /\ s.blockWrite \in BOOLEAN /\ s.deadlines \in BOOLEAN
    /\ s.rel \in [Streams -> Reliability] /\ s.negotiated \subseteq Streams
    /\ \A i \in Streams : \A k \in 1..Len(s.script[i]) : s.script[i][k] \in Ops
    /\ s.quantum \in [Streams -> Nat \ {0}]
    /\ {s.mtu, s.cwnd, s.buffer} \subseteq Nat \ {0}
    /\ {s.firstTSN, s.maxLost, s.maxRtos, s.maxMarks, s.maxProbes} \subseteq Nat

VARIABLES
  scenario,  \* the member of Scenarios this behaviour follows
  snd,       \* the sending Association
  strm,      \* its Stream structs, and their writers
  rcv,       \* the receiving Association
  rstrm,     \* its Stream structs, and their readers
  toRcv,     \* packets on the way to the receiver
  toSnd,     \* packets on the way to the sender
  used,      \* how much of each bound of the scenario is used up
  sentLog    \* history: the chunk of each TSN, in TSN order

vars == <<scenario, snd, strm, rcv, rstrm, toRcv, toSnd, used, sentLog>>

inter == scenario.mode # "message"
rel(i) == scenario.rel[i]

PQ == INSTANCE Pending WITH Quantum <- scenario.quantum
RQ == INSTANCE RecvQueue

LT(i, j) == snaLT(TSNMod, i, j)
LTE(i, j) == snaLTE(TSNMod, i, j)
GT(i, j) == snaGT(TSNMod, i, j)
Next1(tsn) == Plus(TSNMod, tsn, 1)

\* Message k of stream i, and how a user message is told from another.
Msg(i, k) == <<i, k>>

NewSender(s) ==
  [pending |-> PQ!newPendingQueue(s.mode), inflight |-> << >>,
   myNextTSN |-> s.firstTSN,
   cumulativeTSNAckPoint |-> Minus(TSNMod, s.firstTSN, 1),
   advancedPeerTSNAckPoint |-> Minus(TSNMod, s.firstTSN, 1),
   abandoned |-> {}, allInflight |-> {},
   cwnd |-> s.cwnd, rwnd |-> s.buffer, ssthresh |-> s.buffer, partialBytesAcked |-> 0,
   inFastRecovery |-> FALSE, fastRecoverExitPoint |-> 0,
   willRetransmitFast |-> FALSE, willSendForwardTSN |-> FALSE,
   reconfigs |-> {}, myNextRSN |-> 0, willRetransmitReconfig |-> FALSE,
   writePending |-> FALSE, writeNotify |-> FALSE,
   t3RTX |-> newRTXTimer, t3due |-> FALSE, tReconfig |-> newRTXTimer,
   rackDelivered |-> FALSE, rackTimer |-> FALSE, ptoTimer |-> FALSE,
   tlr |-> "off", tlrEndTSN |-> 0,
   sack |-> << >>, awake |-> FALSE, failed |-> FALSE]

NewReceiver(s) ==
  [queue |-> RQ!newReceivePayloadQueue(Minus(TSNMod, s.firstTSN, 1)),
   ackState |-> "idle", reconfigRequests |-> {}, acceptCh |-> << >>,
   control |-> {}, awake |-> FALSE, aborted |-> FALSE]

NewStream == [state |-> "open", sequenceNumber |-> 0, bufferedAmount |-> 0,
              nextOp |-> 1, held |-> << >>, refused |-> {}]
NewReading == [known |-> FALSE, accepted |-> FALSE, unordered |-> FALSE, readErr |-> FALSE,
               queue |-> newReassemblyQueue, got |-> << >>, eof |-> FALSE]

\* OpenStream, by which both ends open the streams they agreed on elsewhere.
OpenStream(i) == [NewReading EXCEPT !.known = TRUE, !.accepted = TRUE, !.unordered = rel(i).unordered]

Init ==
  /\ scenario \in Scenarios
  /\ snd = NewSender(scenario)
  /\ strm = [i \in Streams |-> NewStream]
  /\ rcv = NewReceiver(scenario)
  /\ rstrm = [i \in Streams |-> IF i \in scenario.negotiated THEN OpenStream(i) ELSE NewReading]
  /\ toRcv = {}
  /\ toSnd = {}
  /\ used = [lost |-> 0, rtos |-> 0, marks |-> 0, probes |-> 0]
  /\ sentLog = << >>

-----------------------------------------------------------------------------
(* The in-flight queue (payload_queue.go).                                 *)

\* get: the position of the chunk with a given TSN, 0 if it finds none.  The
\* first comparison is of plain integers.
get(s, tsn) ==
  LET q == s.inflight
  IN  IF q = << >> \/ tsn < q[1].tsn \/ tsn - q[1].tsn >= Len(q) THEN 0
      ELSE tsn - q[1].tsn + 1

\* What a loop from the ack point with get reaches.
Visible(s) ==
  {k \in 1..Len(s.inflight) :
     \A j \in 1..k : get(s, Plus(TSNMod, s.cumulativeTSNAckPoint, j)) = j}

Outstanding(s) == Cardinality({k \in 1..Len(s.inflight) : ~s.inflight[k].acked})

\* Both flags are kept by the first fragment of the message.
abandoned(s, c) == c.msg \in s.abandoned /\ c.msg \in s.allInflight

awakeWriteLoop(s) == [s EXCEPT !.awake = TRUE]
startT3(s) == [s EXCEPT !.t3RTX = start(@)]
stopT3(s) == [s EXCEPT !.t3RTX = stop(@)]

\* checkPartialReliabilityStatus of each of the chunks cs: its message is given
\* up when the chunk was sent nSent times.  The caller has just set `since' to
\* now, so the time elapsed since then is 0.
GivesUp(i, nSent) ==
  \/ rel(i).type = "rexmit" /\ nSent >= rel(i).value
  \/ rel(i).type = "timed" /\ 0 >= rel(i).value
checkPartialReliabilityStatus(s, cs) ==
  [s EXCEPT !.abandoned = @ \cup {cs[k].msg : k \in {j \in 1..Len(cs) : GivesUp(cs[j].sid, cs[j].nSent)}}]

\* The chunk on the wire, and bundleDataChunksIntoPackets.
Wire(c) == [tsn |-> c.tsn, sid |-> c.sid, msg |-> c.msg, fsn |-> c.fsn, b |-> c.b, e |-> c.e,
            u |-> c.u, seq |-> c.seq, len |-> c.len]
bundle(cs) ==
  LET m == scenario.mtu
      n == (Len(cs) + m - 1) \div m
  IN  {[type |-> "DATA",
        chunks |-> [j \in 1..Min({m, Len(cs) - (k - 1) * m}) |-> Wire(cs[(k - 1) * m + j])]] :
         k \in 1..n}

-----------------------------------------------------------------------------
(* The streams of the sender (stream.go).                                  *)

packetize(i) ==
  LET k == strm[i].nextOp
      n == scenario.script[i][k].frags
  IN  [f \in 1..n |->
         [sid |-> i, msg |-> Msg(i, k), fsn |-> f - 1, b |-> f = 1, e |-> f = n,
          u |-> rel(i).unordered, seq |-> strm[i].sequenceNumber, len |-> 1]]

\* An unordered DATA message takes no sequence number; every I-DATA message
\* takes a message identifier.
Numbered(i) == inter \/ ~rel(i).unordered
SeqAfter(i, d) ==
  IF Numbered(i) THEN Plus(SeqModulus(inter), strm[i].sequenceNumber, d)
  ELSE strm[i].sequenceNumber

\* sendPayloadData, once it need not wait.
pushAll(q, cs) == FoldLeft(LAMBDA x, c : PQ!push(x, c), q, cs)
enqueue(s, cs) ==
  awakeWriteLoop([s EXCEPT !.pending = pushAll(@, cs),
                           !.writePending = scenario.blockWrite])
MustWait == scenario.blockWrite /\ snd.writePending

Running(i, op) ==
  /\ ~snd.failed
  /\ strm[i].held = << >>
  /\ strm[i].nextOp <= Len(scenario.script[i])
  /\ scenario.script[i][strm[i].nextOp].op = op

\* WriteSCTP, which blocks in sendPayloadData while another write is pending.
WriteSCTP(i) ==
  LET cs == packetize(i)
  IN  /\ Running(i, "write")
      /\ strm[i].state = "open"
      /\ strm' = [strm EXCEPT ![i].nextOp = @ + 1, ![i].sequenceNumber = SeqAfter(i, 1),
                              ![i].bufferedAmount = @ + Len(cs),
                              ![i].held = IF MustWait THEN cs ELSE << >>]
      /\ snd' = IF MustWait THEN snd ELSE enqueue(snd, cs)
      /\ UNCHANGED <<scenario, rcv, rstrm, toRcv, toSnd, used, sentLog>>

\* A blocked writer takes the token of writeNotify and looks at writePending
\* again.
WriterWakes(i) ==
  /\ ~snd.failed
  /\ strm[i].held # << >>
  /\ snd.writeNotify
  /\ LET s == [snd EXCEPT !.writeNotify = FALSE]
     IN  IF snd.writePending
         THEN snd' = s /\ UNCHANGED strm
         ELSE snd' = enqueue(s, strm[i].held) /\ strm' = [strm EXCEPT ![i].held = << >>]
  /\ UNCHANGED <<scenario, rcv, rstrm, toRcv, toSnd, used, sentLog>>

\* Its deadline passes: WriteSCTP takes back what packetize did.
WriteTimesOut(i) ==
  /\ scenario.deadlines
  /\ strm[i].held # << >>
  /\ strm' = [strm EXCEPT ![i].held = << >>,
                          ![i].sequenceNumber = SeqAfter(i, SeqModulus(inter) - 1),
                          ![i].bufferedAmount = @ - Len(strm[i].held),
                          ![i].refused = @ \cup {strm[i].held[1].msg}]
  /\ UNCHANGED <<scenario, snd, rcv, rstrm, toRcv, toSnd, used, sentLog>>

\* Stream.Close and sendResetRequest: a chunk without data marks the end.
Marker(i) == [sid |-> i, msg |-> None, fsn |-> 0, b |-> TRUE, e |-> TRUE, u |-> FALSE,
              seq |-> 0, len |-> 0]
CloseStream(i) ==
  /\ Running(i, "close")
  /\ strm[i].state = "open"
  /\ strm' = [strm EXCEPT ![i].nextOp = @ + 1, ![i].state = "closing"]
  /\ snd' = awakeWriteLoop([snd EXCEPT !.pending = PQ!push(@, Marker(i))])
  /\ UNCHANGED <<scenario, rcv, rstrm, toRcv, toSnd, used, sentLog>>

-----------------------------------------------------------------------------
(* The write loop of the sender.  Each gatherer takes and returns a record:*)
(* the association s, the packets out, the chunks that the burst limit of  *)
(* a tail loss recovery still allows, and the chunks sent anew.            *)

\* tlrCurrentBurstBudgetScaledLocked: up to 4 packets in the first round trip
\* of a recovery, up to 2 in later ones; only time tells when the first is
\* over.
Unlimited == 1000
BurstBudgets(s) ==
  CASE s.tlr = "off" -> {Unlimited}
    [] s.tlr = "first" -> scenario.mtu..(4 * scenario.mtu)
    [] s.tlr = "later" -> scenario.mtu..(2 * scenario.mtu)

FirstOf(S, n) == {k \in S : Cardinality({j \in S : j < k}) < n}

\* Chunks at positions K are sent once more: q is the in-flight queue after it.
Again(g, q, cs) ==
  [g EXCEPT !.s = checkPartialReliabilityStatus([g.s EXCEPT !.inflight = q], cs),
            !.out = @ \cup bundle(cs), !.room = @ - Len(cs)]
Ascending(K) == SetToSortSeq(K, <)
AgainIn(g, q, order) == Again(g, q, [j \in 1..Len(order) |-> q[order[j]]])
Resend(g, K, unmark) ==
  AgainIn(g, [k \in 1..Len(g.s.inflight) |->
                IF k \in K THEN [g.s.inflight[k] EXCEPT !.nSent = @ + 1, !.retransmit = @ /\ ~unmark]
                ELSE g.s.inflight[k]], Ascending(K))

\* getDataPacketsToRetransmit: what is marked, within both windows, or the
\* first chunk as a probe when the peer's window is closed.
Marked(s) == {k \in Visible(s) : s.inflight[k].retransmit}
RetransmitCount(s) ==
  IF s.rwnd = 0 THEN (IF 1 \in Marked(s) THEN 1 ELSE 0) ELSE Min({s.cwnd, s.rwnd})
gatherRetransmit(g) ==
  Resend(g, FirstOf(Marked(g.s), Min({RetransmitCount(g.s), g.room})), TRUE)

\* movePendingDataChunkToInflightQueue of chunk c, which peek returned.
InFlight(s, c) ==
  [tsn |-> s.myNextTSN, sid |-> c.sid, msg |-> c.msg, fsn |-> c.fsn, b |-> c.b, e |-> c.e,
   u |-> c.u, seq |-> c.seq, len |-> c.len,
   acked |-> FALSE, retransmit |-> FALSE, nSent |-> 1, missIndicator |-> 0]
move(s, c) ==
  checkPartialReliabilityStatus(
    [s EXCEPT !.pending = PQ!pop(@), !.inflight = Append(@, InFlight(s, c)), !.myNextTSN = Next1(@),
              !.allInflight = IF c.e THEN @ \cup {c.msg} ELSE @], <<InFlight(s, c)>>)

\* One turn of popPendingDataChunksToSend, where peek returns c.
Fits(g) == Outstanding(g.s) < g.s.cwnd /\ g.s.rwnd > 0 /\ g.room > 0
Charged(s) == [s EXCEPT !.rwnd = @ - 1]
popChunk(g, c) ==
  CASE c.len = 0 -> [g EXCEPT !.s.pending = PQ!pop(@), !.sids = @ \cup {c.sid}]
    [] c.len # 0 /\ Fits(g) ->
         [g EXCEPT !.s = move(Charged(@), c), !.room = @ - 1, !.n = @ + 1]
    [] c.len # 0 /\ ~Fits(g) -> [g EXCEPT !.s.pending = PQ!peeked(@), !.stop = TRUE]
popOne(g) == IF g.stop THEN g ELSE popChunk(g, PQ!peek(g.s.pending))

\* The zero window probe: one chunk when nothing is in flight.
probeWith(g, c) ==
  IF c # None /\ c.len # 0 /\ g.room > 0
  THEN [g EXCEPT !.s = move(@, c), !.room = @ - 1, !.n = 1] ELSE g
probe(g) ==
  IF g.n = 0 /\ g.s.inflight = << >> THEN probeWith(g, PQ!peek(g.s.pending)) ELSE g

\* notifyBlockWritable, once the last pending chunk is on its way.
AllSent(g) == g.n > 0 /\ PQ!size(g.s.pending) = 0
ClearOnly(g) == IF scenario.blockWrite /\ AllSent(g) THEN [g EXCEPT !.s.writePending = FALSE] ELSE g
notifyBlockWritable(g) ==
  IF scenario.blockWrite /\ AllSent(g)
  THEN [g EXCEPT !.s.writePending = FALSE, !.s.writeNotify = TRUE] ELSE g
\* The loop after each number of turns, and what it leaves when peek returns
\* nil or a chunk does not fit: a set with one member, as all gatherers from
\* here on.
Turns(g) ==
  LET after[k \in Nat] == IF k = 0 THEN g ELSE popOne(after[k - 1])
  IN  after
LoopEnds(g) == g.stop \/ PQ!size(g.s.pending) = 0
popPendingDataChunksToSend(g) ==
  {notifyBlockWritable(probe(x)) : x \in
     {Turns(g)[k] : k \in {j \in 0..PQ!size(g.s.pending) : LoopEnds(Turns(g)[j])}}}

Newest(s, n) == SubSeq(s.inflight, Len(s.inflight) - n + 1, Len(s.inflight))
sendNew(g) ==
  IF g.n = 0 THEN g
  ELSE [g EXCEPT !.s = [startT3(@) EXCEPT !.ptoTimer = TRUE], !.out = @ \cup bundle(Newest(g.s, g.n))]
gatherData(g) == {sendNew(x) : x \in popPendingDataChunksToSend(g)}

\* RECONFIG chunks: those to retransmit, then one for the streams whose end
\* was reached, which names the last TSN sent.
Reconfig(q) == [type |-> "RECONFIG", rsn |-> q.rsn, tsn |-> q.tsn, sids |-> q.sids]
gatherReconfig(g) ==
  LET s == g.s
      again == IF s.willRetransmitReconfig THEN s.reconfigs ELSE {}
      new == IF g.sids = {} THEN {}
             ELSE {[rsn |-> s.myNextRSN, tsn |-> Minus(TSNMod, s.myNextTSN, 1), sids |-> g.sids]}
      all == s.reconfigs \cup new
      t == [s EXCEPT !.willRetransmitReconfig = FALSE, !.reconfigs = all,
                     !.myNextRSN = @ + Cardinality(new),
                     !.tReconfig = IF all # {} THEN start(@) ELSE @]
  IN  IF g.sids = {} /\ ~s.willRetransmitReconfig THEN g
      ELSE [g EXCEPT !.s = t, !.out = @ \cup {Reconfig(q) : q \in again \cup new}]

\* gatherOutboundFastRetransmissionPackets: one packet of chunks reported
\* missing three times.
gatherFast(g) ==
  LET s == g.s
      K == {k \in Visible(s) : LET c == s.inflight[k]
                               IN  ~c.acked /\ ~abandoned(s, c) /\ c.nSent <= 1 /\ c.missIndicator >= 3}
  IN  IF ~s.willRetransmitFast THEN g
      ELSE Resend([g EXCEPT !.s.willRetransmitFast = FALSE],
                  FirstOf(K, Min({scenario.mtu, g.room})), FALSE)

\* createForwardTSN and createIForwardTSN: the highest sequence number skipped
\* in each stream; DATA has no room to tell unordered messages.
SkippedSeqs(s) ==
  LET K == {k \in Visible(s) : LTE(s.inflight[k].tsn, s.advancedPeerTSNAckPoint)}
      kind(k) == <<s.inflight[k].sid, inter /\ s.inflight[k].u>>
      last(k) == \A j \in K : kind(j) = kind(k) =>
                   snaLTE(SeqModulus(inter), s.inflight[j].seq, s.inflight[k].seq)
  IN  {[sid |-> kind(k)[1], unordered |-> kind(k)[2], seq |-> s.inflight[k].seq] :
         k \in {j \in K : last(j)}}
gatherForwardTSN(g) ==
  LET s == g.s
  IN  IF ~s.willSendForwardTSN THEN g
      ELSE [g EXCEPT !.s.willSendForwardTSN = FALSE,
                     !.out = @ \cup IF GT(s.advancedPeerTSNAckPoint, s.cumulativeTSNAckPoint)
                                    THEN {[type |-> "FORWARD-TSN", tsn |-> s.advancedPeerTSNAckPoint,
                                           streams |-> SkippedSeqs(s)]} ELSE {}]

\* gatherOutbound in the established state.
gatherOutbound(budget) ==
  {gatherForwardTSN(gatherFast(gatherReconfig(g))) : g \in gatherData(gatherRetransmit(
     [s |-> [snd EXCEPT !.awake = FALSE], out |-> {}, room |-> budget,
      n |-> 0, sids |-> {}, stop |-> FALSE]))}

Sent(g) ==
  /\ snd' = g.s
  /\ toRcv' = toRcv \cup g.out
  /\ sentLog' = sentLog \o [k \in 1..g.n |-> <<Newest(g.s, g.n)[k].msg, Newest(g.s, g.n)[k].fsn>>]
SenderWrites ==
  /\ snd.awake
  /\ ~snd.failed
  /\ \E budget \in BurstBudgets(snd) : \E g \in gatherOutbound(budget) : Sent(g)
  /\ UNCHANGED <<scenario, strm, rcv, rstrm, toSnd, used>>

-----------------------------------------------------------------------------
(* SACKs (handleSack).  The lock is given up in the middle, when bytes are *)
(* released to the streams, so it takes two steps.  Between them snd.sack  *)
(* holds the one record that says what is left to do; else it is empty.    *)

Failed(s) == [s EXCEPT !.failed = TRUE]

\* processSelectiveAck: pop what is acknowledged cumulatively and mark what
\* the gap blocks name.  A chunk that is not found ends the association.
PopAll(s, ack) ==
  LET n == Minus(TSNMod, ack.cum, s.cumulativeTSNAckPoint)
  IN  [s EXCEPT !.inflight = SubSeq(@, n + 1, Len(@)),
                !.t3RTX = IF n > 0 /\ ~s.inflight[1].acked THEN stop(@) ELSE @,
                !.inFastRecovery = @ /\ \A k \in 1..n : s.inflight[k].tsn # s.fastRecoverExitPoint]
CanPop(s, ack) ==
  LET n == Minus(TSNMod, ack.cum, s.cumulativeTSNAckPoint)
  IN  n <= Len(s.inflight) /\ \A k \in 1..n : s.inflight[k].tsn = Plus(TSNMod, s.cumulativeTSNAckPoint, k)
GapPositions(s, ack) == {get(s, Plus(TSNMod, ack.cum, o)) : o \in ack.gaps}
MarkAcked(s, ack) ==
  [s EXCEPT !.inflight = [k \in 1..Len(@) |->
     IF k \in GapPositions(s, ack) THEN [@[k] EXCEPT !.acked = TRUE, !.retransmit = FALSE] ELSE @[k]]]

\* The chunks of stream i that this SACK acknowledges for the first time.
CountGapsAgain(s, ack, i) ==
  LET n == Minus(TSNMod, ack.cum, s.cumulativeTSNAckPoint)
      gap == {k + n : k \in GapPositions(PopAll(s, ack), ack)}
  IN  {k \in (1..n) \cup gap : s.inflight[k].sid = i}
NewlyAcked(s, ack, i) ==
  LET n == Minus(TSNMod, ack.cum, s.cumulativeTSNAckPoint)
      gap == {k + n : k \in GapPositions(PopAll(s, ack), ack)}
  IN  {k \in (1..n) \cup gap : ~s.inflight[k].acked /\ s.inflight[k].sid = i}

\* onCumulativeTSNAckPointAdvanced
GrowWindow(s, acked) ==
  LET full == PQ!size(s.pending) > 0
      pba == s.partialBytesAcked + acked
  IN  IF s.cwnd <= s.ssthresh
      THEN IF ~s.inFastRecovery /\ full THEN [s EXCEPT !.cwnd = @ + Min({acked, @})] ELSE s
      ELSE IF pba >= s.cwnd /\ full
           THEN [s EXCEPT !.partialBytesAcked = pba - s.cwnd, !.cwnd = @ + scenario.mtu]
           ELSE [s EXCEPT !.partialBytesAcked = pba]
onCumulativeTSNAckPointAdvanced(s, acked) ==
  GrowWindow(IF s.inflight = << >>
             THEN [stopT3(s) EXCEPT !.ptoTimer = FALSE, !.rackTimer = FALSE]
             ELSE startT3(s), acked)

\* The first part of handleSack, up to the streams' onBufferReleased.
NeverOlder(s, ack) == FALSE
OlderThanAckPoint(s, ack) == GT(s.cumulativeTSNAckPoint, ack.cum)
SackAccepted(s, ack) ==
  LET acked == [i \in Streams |-> Cardinality(NewlyAcked(s, ack, i))]
      total == SumFunction(acked)
      advanced == LT(s.cumulativeTSNAckPoint, ack.cum)
      t == MarkAcked(PopAll(s, ack), ack)
      u == [t EXCEPT !.cumulativeTSNAckPoint = ack.cum]
      htna == Plus(TSNMod, ack.cum, Max(ack.gaps \cup {0}))
  IN  [(IF advanced THEN onCumulativeTSNAckPointAdvanced(u, total) ELSE u) EXCEPT
         !.sack = <<[ack |-> ack, htna |-> htna, advanced |-> advanced, delivered |-> total > 0]>>]

\* processFastRetransmission: count the reports of each missing chunk.
MissSpan(s, k) ==
  LET top == IF s.inFastRecovery THEN Plus(TSNMod, k.ack.cum, Max(k.ack.gaps \cup {0})) ELSE k.htna
  IN  {Plus(TSNMod, k.ack.cum, o) : o \in 1..(Minus(TSNMod, top, k.ack.cum) - 1)}
MissCounted(s, k) ==
  IF ~s.inFastRecovery \/ k.advanced THEN {get(s, tsn) : tsn \in MissSpan(s, k)} ELSE {}
Missed(s, at) ==
  {j \in at : LET c == s.inflight[j] IN ~c.acked /\ ~abandoned(s, c) /\ c.missIndicator < 3}
MissedOnceMore(c) == [c EXCEPT !.missIndicator = @ + 1]
CountMisses(s, missed) ==
  [s EXCEPT !.inflight = [j \in 1..Len(@) |-> IF j \in missed THEN MissedOnceMore(@[j]) ELSE @[j]]]
Halved(s) == Max({s.cwnd \div 2, 4 * scenario.mtu})
enterFastRecovery(s, k) ==
  [s EXCEPT !.inFastRecovery = TRUE, !.fastRecoverExitPoint = k.htna, !.ssthresh = Halved(s),
            !.cwnd = Halved(s), !.partialBytesAcked = 0, !.willRetransmitFast = TRUE]
AfterMisses(s, k, missed) ==
  IF ~s.inFastRecovery /\ \E j \in missed : s.inflight[j].missIndicator = 2
  THEN enterFastRecovery(CountMisses(s, missed), k) ELSE CountMisses(s, missed)
RetransmitOnAdvance(s, k) ==
  IF s.inFastRecovery /\ k.advanced THEN [s EXCEPT !.willRetransmitFast = TRUE] ELSE s
processFastRetransmission(s, k) ==
  IF 0 \in MissCounted(s, k) THEN Failed(s)
  ELSE RetransmitOnAdvance(AfterMisses(s, k, Missed(s, MissCounted(s, k))), k)

\* RFC 3758 C1 to C3: move the advanced ack point over abandoned chunks.
Advance(s) ==
  LET run == {n \in 0..Len(s.inflight) :
                \A j \in 1..n : LET p == get(s, Plus(TSNMod, s.advancedPeerTSNAckPoint, j))
                                IN  p # 0 /\ abandoned(s, s.inflight[p])}
      to == Plus(TSNMod, s.advancedPeerTSNAckPoint, Max(run))
  IN  [s EXCEPT !.advancedPeerTSNAckPoint = to,
                !.willSendForwardTSN = @ \/ GT(to, s.cumulativeTSNAckPoint)]
advancePeerAckPoint(s) ==
  Advance(IF LT(s.advancedPeerTSNAckPoint, s.cumulativeTSNAckPoint)
          THEN [s EXCEPT !.advancedPeerTSNAckPoint = s.cumulativeTSNAckPoint] ELSE s)

postprocessSack(s, k) ==
  LET t == IF s.inflight # << >> THEN startT3(s) ELSE s
  IN  IF k.advanced THEN awakeWriteLoop(t) ELSE t

\* RACK takes the oldest of the chunks sent once for lost; n of them are old
\* enough.
Candidates(s) ==
  {k \in 1..Len(s.inflight) : LET c == s.inflight[k]
                              IN  ~c.acked /\ ~c.retransmit /\ c.nSent = 1 /\ ~abandoned(s, c)}
markLost(s, n) ==
  LET K == FirstOf(Candidates(s), n)
      t == [s EXCEPT !.inflight = [k \in 1..Len(@) |->
              IF k \in K THEN [@[k] EXCEPT !.retransmit = TRUE] ELSE @[k]]]
  IN  IF K = {} THEN s ELSE awakeWriteLoop(t)
LossCounts(s) ==
  IF s.rackDelivered THEN 0..Min({Cardinality(Candidates(s)), scenario.maxMarks - used.marks}) ELSE {0}
onRackAfterSACK(s, n) ==
  [markLost(s, n) EXCEPT !.rackTimer = s.rackDelivered /\ Outstanding(s) > 0,
                         !.ptoTimer = s.inflight # << >>]

tlrMaybeFinish(s, k) ==
  CASE s.tlr = "off" -> s
    [] s.tlr # "off" /\ snaGTE(TSNMod, s.cumulativeTSNAckPoint, s.tlrEndTSN) ->
         [s EXCEPT !.tlr = "off", !.tlrEndTSN = 0]
    [] s.tlr # "off" /\ ~snaGTE(TSNMod, s.cumulativeTSNAckPoint, s.tlrEndTSN) ->
         [s EXCEPT !.tlr = IF k.advanced \/ k.delivered THEN "later" ELSE @]

\* The second part of handleSack, with the peer's window less what is still
\* outstanding.
PeerWindow(a, window) == IF a >= window THEN 0 ELSE window - a
AfterMissReport(s, k, n) ==
  IF s.failed THEN s
  ELSE tlrMaybeFinish(
         onRackAfterSACK(postprocessSack(awakeWriteLoop(advancePeerAckPoint(s)), k), n), k)
SackFinished(s, n) ==
  LET k == Head(s.sack)
  IN  AfterMissReport(
        processFastRetransmission(
          [s EXCEPT !.sack = << >>, !.rwnd = PeerWindow(Outstanding(s), k.ack.rwnd),
                    !.rackDelivered = @ \/ k.delivered], k), k, n)

SackRest(s) ==
  \E n \in LossCounts([s EXCEPT !.rackDelivered = @ \/ Head(s.sack).delivered]) :
    /\ snd' = SackFinished(s, n)
    /\ used' = [used EXCEPT !.marks = @ + n]

\* The lock is released only to tell streams of bytes.
SackFirstPart(s) ==
  IF Head(s.sack).delivered THEN snd' = s /\ UNCHANGED used ELSE SackRest(s)

HandleSack ==
  \E p \in toSnd :
    /\ p.type = "SACK"
    /\ ~snd.failed
    /\ snd.sack = << >>
    /\ toSnd' = toSnd \ {p}
    /\ IF OlderThanAckPoint(snd, p) THEN UNCHANGED <<snd, strm, used>>
       ELSE IF ~CanPop(snd, p) \/ 0 \in GapPositions(PopAll(snd, p), p)
       THEN snd' = Failed(snd) /\ UNCHANGED <<strm, used>>
       ELSE /\ SackFirstPart(SackAccepted(snd, p))
            /\ strm' = [i \in Streams |->  \* onBufferReleased
                 [strm[i] EXCEPT !.bufferedAmount = @ - Cardinality(NewlyAcked(snd, p, i))]]
    /\ UNCHANGED <<scenario, rcv, rstrm, toRcv, sentLog>>

FinishSack ==
  /\ snd.sack # << >>
  /\ ~snd.failed
  /\ SackRest(snd)
  /\ UNCHANGED <<scenario, strm, rcv, rstrm, toRcv, toSnd, sentLog>>

-----------------------------------------------------------------------------
(* The sender's timers.                                                    *)

T3Fires ==
  /\ snd.t3RTX.armed
  /\ ~snd.failed
  /\ used.rtos < scenario.maxRtos
  /\ snd' = [snd EXCEPT !.t3RTX = Expire(@)]
  /\ used' = [used EXCEPT !.rtos = @ + 1]
  /\ UNCHANGED <<scenario, strm, rcv, rstrm, toRcv, toSnd, sentLog>>

\* The timer's goroutine takes the timer's lock; T3 retries without limit.
T3Timeout ==
  /\ snd.t3RTX.flying > 0
  /\ ~snd.failed
  /\ snd' = [snd EXCEPT !.t3RTX = timeout(@, 0), !.t3due = @ \/ IsExpiry(snd.t3RTX)]
  /\ UNCHANGED <<scenario, strm, rcv, rstrm, toRcv, toSnd, used, sentLog>>

\* onRetransmissionTimeout for T3, once it has the association's lock.
markAllToRetransmit(s) ==
  [s EXCEPT !.inflight = [k \in 1..Len(@) |->
     IF @[k].acked \/ abandoned(s, @[k]) THEN @[k] ELSE [@[k] EXCEPT !.retransmit = TRUE]]]
T3Callback ==
  /\ snd.t3due
  /\ ~snd.failed
  /\ LET t == [snd EXCEPT !.t3due = FALSE, !.ssthresh = Halved(snd),
                          !.cwnd = scenario.mtu,
                          !.inFastRecovery = FALSE,
                          !.willRetransmitFast = @ /\ ~snd.inFastRecovery,
                          !.fastRecoverExitPoint = IF snd.inFastRecovery THEN 0 ELSE @,
                          !.partialBytesAcked = IF snd.inFastRecovery THEN 0 ELSE @]
     IN  snd' = awakeWriteLoop(markAllToRetransmit(Advance(t)))
  /\ UNCHANGED <<scenario, strm, rcv, rstrm, toRcv, toSnd, used, sentLog>>

\* The RECONFIG timer, whose callback is atomic with its expiry here.
ReconfigTimeout ==
  /\ snd.tReconfig.armed
  /\ ~snd.failed
  /\ used.rtos < scenario.maxRtos
  /\ snd' = awakeWriteLoop([snd EXCEPT !.tReconfig = timeout(Expire(@), 0), !.willRetransmitReconfig = TRUE])
  /\ used' = [used EXCEPT !.rtos = @ + 1]
  /\ UNCHANGED <<scenario, strm, rcv, rstrm, toRcv, toSnd, sentLog>>

RackTimeout ==
  /\ snd.rackTimer
  /\ ~snd.failed
  /\ \E n \in LossCounts(snd) :
       /\ snd' = markLost([snd EXCEPT !.rackTimer = FALSE], n)
       /\ used' = [used EXCEPT !.marks = @ + n]
  /\ UNCHANGED <<scenario, strm, rcv, rstrm, toRcv, toSnd, sentLog>>

\* onPTOTimer: wake the write loop if there is data to send, else send the
\* latest chunk again.
Latest(s) == {k \in Visible(s) : /\ ~s.inflight[k].acked /\ ~abandoned(s, s.inflight[k])
                                 /\ \A j \in Visible(s) : j > k =>
                                      s.inflight[j].acked \/ abandoned(s, s.inflight[j])}
PTOTimeout ==
  /\ snd.ptoTimer
  /\ snd.inflight # << >>
  /\ ~snd.failed
  /\ used.probes < scenario.maxProbes
  /\ used' = [used EXCEPT !.probes = @ + 1]
  /\ LET s == [snd EXCEPT !.ptoTimer = FALSE, !.tlr = IF @ = "off" THEN "first" ELSE @,
                          !.tlrEndTSN = IF snd.tlr # "off" THEN @
                             ELSE Plus(TSNMod, snd.cumulativeTSNAckPoint, Cardinality(Visible(snd)))]
         K == {k \in Latest(s) : ~s.inflight[k].retransmit}
     IN  snd' = IF PQ!size(s.pending) > 0 THEN awakeWriteLoop(s)
                ELSE IF K = {} THEN s
                ELSE awakeWriteLoop([s EXCEPT !.inflight = [k \in 1..Len(@) |->
                       IF k \in K THEN [@[k] EXCEPT !.retransmit = TRUE] ELSE @[k]]])
  /\ UNCHANGED <<scenario, strm, rcv, rstrm, toRcv, toSnd, sentLog>>

\* handleReconfigParam for a response.
HandleResponse ==
  \E p \in toSnd :
    /\ p.type = "RESPONSE"
    /\ ~snd.failed
    /\ snd.sack = << >>
    /\ toSnd' = toSnd \ {p}
    /\ LET known == {q \in snd.reconfigs : q.rsn = p.rsn}
           left == snd.reconfigs \ known
           reset == UNION {q.sids : q \in known}
       IN  IF p.result = "inProgress"
           THEN /\ snd' = IF known = {} THEN snd ELSE [snd EXCEPT !.tReconfig = start(stop(@))]
                /\ UNCHANGED strm
           ELSE /\ snd' = [snd EXCEPT !.reconfigs = left,
                                      !.tReconfig = IF left = {} THEN stop(@) ELSE @]
                /\ strm' = [i \in Streams |-> IF i \in reset THEN [strm[i] EXCEPT !.sequenceNumber = 0]
                                              ELSE strm[i]]
    /\ UNCHANGED <<scenario, rcv, rstrm, toRcv, used, sentLog>>

-----------------------------------------------------------------------------
(* The receiver.  Its operators take and return a record: the association  *)
(* r, its streams st, and whether this packet calls for an acknowledgement *)
(* at once (now) or after a delay (later).                                 *)

getMyReceiverWindowCredit(R) ==
  LET queued == SumFunctionOnSet([i \in Streams |-> R.st[i].queue.nBytes], {i \in Streams : R.st[i].known})
  IN  Max({0, scenario.buffer - queued})

\* resetStreamsIfAny, with the reply it sends.
Answer(q, result) == [type |-> "RESPONSE", rsn |-> q.rsn, result |-> result]
ResetAnyTime(R, q) == TRUE
ResetDue(R, q) == LTE(q.tsn, R.r.queue.cumulativeTSN)
resetStreamsIfAny(R, q) ==
  IF ResetDue(R, q)
  THEN [R EXCEPT !.st = [i \in Streams |-> IF i \in q.sids /\ @[i].known
                                           THEN [@[i] EXCEPT !.readErr = TRUE, !.known = FALSE] ELSE @[i]],
                 !.r.reconfigRequests = {x \in @ : x.rsn # q.rsn},
                 !.r.control = @ \cup {Answer(q, "performed")}]
  ELSE [R EXCEPT !.r.control = @ \cup {Answer(q, "inProgress")}]

\* handlePeerLastTSNAndAcknowledgement
PopOne(R) ==
  IF ~RQ!canPop(R.r.queue) THEN R
  ELSE FoldSet(LAMBDA q, x : resetStreamsIfAny(x, q), [R EXCEPT !.r.queue = RQ!pop(@)],
               R.r.reconfigRequests)
Acknowledge(R, sackNow) ==
  IF sackNow \/ R.r.queue.chunkSize > 0 \/ R.r.ackState # "idle"
  THEN [R EXCEPT !.now = TRUE] ELSE [R EXCEPT !.later = TRUE]
handlePeerLastTSN(R, sackNow) ==
  Acknowledge(FoldLeft(LAMBDA x, k : PopOne(x), R, [k \in 1..R.r.queue.chunkSize |-> k]), sackNow)

\* acceptPayloadData: the stream is created with its first chunk, unless too
\* many wait to be accepted; a full buffer takes only chunks that fill a gap.
HasStream(R, i) == R.st[i].known \/ Len(R.r.acceptCh) < AcceptBacklog
getOrCreateStream(R, i) ==
  IF R.st[i].known THEN R
  ELSE [R EXCEPT !.r.acceptCh = Append(@, i), !.st[i] = [NewReading EXCEPT !.known = TRUE]]
HasRoom(R, c) ==
  \/ getMyReceiverWindowCredit(R) > 0
  \/ RQ!anyReceived(R.r.queue) /\ LT(c.tsn, R.r.queue.tailTSN)
Pushed(R, c, q) ==
  IF q = None THEN [R EXCEPT !.r.aborted = TRUE] ELSE [R EXCEPT !.st[c.sid].queue = q]
pushPayloadDataToStream(R, c) ==
  Pushed([R EXCEPT !.r.queue = RQ!push(@, c.tsn)], c, pushWithError(R.st[c.sid].queue, c, inter))
RecordThenDrop(R, c) ==
  IF HasRoom(R, c) THEN pushPayloadDataToStream(R, c) ELSE [R EXCEPT !.r.queue = RQ!push(@, c.tsn)]
acceptPayloadData(R, c) == IF HasRoom(R, c) THEN pushPayloadDataToStream(R, c) ELSE R

\* handleData for one chunk of a packet.
AfterPush(R, c) ==
  IF R.r.aborted THEN R ELSE handlePeerLastTSN(R, GT(c.tsn, Next1(R.r.queue.cumulativeTSN)))
handleData(R, c) ==
  CASE R.r.aborted -> R
    [] ~R.r.aborted /\ ~RQ!canPush(R.r.queue, c.tsn) -> AfterPush(R, c)
    [] ~R.r.aborted /\ RQ!canPush(R.r.queue, c.tsn) ->
         IF HasStream(R, c.sid) THEN AfterPush(acceptPayloadData(getOrCreateStream(R, c.sid), c), c) ELSE R

\* handleForwardTSN and handleIForwardTSN: the skipped sequence numbers go to
\* their streams; without I-DATA every unordered stream drops by TSN.
ForwardStream(st, f) ==
  CASE inter /\ f.unordered -> [st EXCEPT !.queue = forwardTSNForUnorderedMID(@, f.seq)]
    [] inter /\ ~f.unordered -> [st EXCEPT !.queue = forwardOrdered(@, f.seq, TRUE)]
    [] ~inter -> IF st.unordered THEN st ELSE [st EXCEPT !.queue = forwardOrdered(@, f.seq, FALSE)]
ForwardStreams(R, p) ==
  FoldSet(LAMBDA f, x : IF x.st[f.sid].known THEN [x EXCEPT !.st[f.sid] = ForwardStream(@, f)] ELSE x,
          R, p.streams)
DropByTSN(st, tsn) ==
  IF st.known /\ st.unordered THEN [st EXCEPT !.queue = forwardTSNForUnordered(@, tsn)] ELSE st
ForwardUnordered(R, p) ==
  IF inter THEN R ELSE [R EXCEPT !.st = [i \in Streams |-> DropByTSN(@[i], p.tsn)]]
handleForwardTSN(R, p) ==
  IF LTE(p.tsn, R.r.queue.cumulativeTSN)
  THEN [R EXCEPT !.now = TRUE]
  ELSE handlePeerLastTSN(
         ForwardUnordered(ForwardStreams([R EXCEPT !.r.queue = RQ!advanceCumulativeTSN(@, p.tsn)], p), p),
         FALSE)

\* handleReconfigParam for a request; peerLastTSN() < senderLastTSN compares
\* plain integers, but only when maxReconfigRequests are waiting.
handleRequest(R, p) ==
  LET q == [rsn |-> p.rsn, tsn |-> p.tsn, sids |-> p.sids]
  IN  resetStreamsIfAny([R EXCEPT !.r.reconfigRequests = @ \cup {q}], q)

handleInbound(R, p) ==
  CASE p.type = "DATA" -> FoldLeft(handleData, R, p.chunks)
    [] p.type = "FORWARD-TSN" -> handleForwardTSN(R, p)
    [] p.type = "RECONFIG" -> handleRequest(R, p)

\* handleChunksEnd; replies that were queued wake the write loop as well.
handleChunksEnd(R) ==
  LET r == [R.r EXCEPT !.awake = @ \/ R.r.control # {}]
  IN  IF R.now THEN [r EXCEPT !.ackState = "immediate", !.awake = TRUE]
      ELSE IF R.later THEN [r EXCEPT !.ackState = "delay"] ELSE r

Received(R) == rcv' = handleChunksEnd(R) /\ rstrm' = R.st
HandleInbound ==
  \E p \in toRcv :
    /\ ~rcv.aborted
    /\ toRcv' = toRcv \ {p}
    /\ Received(handleInbound([r |-> rcv, st |-> rstrm, now |-> FALSE, later |-> FALSE], p))
    /\ UNCHANGED <<scenario, snd, strm, toSnd, used, sentLog>>

\* onAckTimeout; the timer runs while the acknowledgement is delayed.
AckTimeout ==
  /\ rcv.ackState = "delay"
  /\ ~rcv.aborted
  /\ rcv' = [rcv EXCEPT !.ackState = "immediate", !.awake = TRUE]
  /\ UNCHANGED <<scenario, snd, strm, rstrm, toRcv, toSnd, used, sentLog>>

\* gatherOutbound of the receiver: control packets and a SACK.
createSelectiveAckChunk ==
  [type |-> "SACK", cum |-> rcv.queue.cumulativeTSN,
   rwnd |-> getMyReceiverWindowCredit([r |-> rcv, st |-> rstrm]),
   gaps |-> RQ!getGapAckBlocks(rcv.queue, scenario.mtu)]
ReceiverWrites ==
  /\ rcv.awake
  /\ ~rcv.aborted
  /\ toSnd' = toSnd \cup rcv.control
                    \cup IF rcv.ackState = "immediate" THEN {createSelectiveAckChunk} ELSE {}
  /\ rcv' = [rcv EXCEPT !.awake = FALSE, !.control = {},
                        !.ackState = IF @ = "immediate" THEN "idle" ELSE @]
  /\ UNCHANGED <<scenario, snd, strm, rstrm, toRcv, used, sentLog>>

\* AcceptStream; the data channel layer then sets the reliability.
AcceptStream ==
  /\ rcv.acceptCh # << >>
  /\ LET i == Head(rcv.acceptCh)
     IN  rstrm' = [rstrm EXCEPT ![i].accepted = TRUE, ![i].unordered = rel(i).unordered]
  /\ rcv' = [rcv EXCEPT !.acceptCh = Tail(@)]
  /\ UNCHANGED <<scenario, snd, strm, toRcv, toSnd, used, sentLog>>

\* ReadSCTP: a message, or the end once nothing more can be read.  What happens
\* after an abort is not followed.
ReadSCTP(i) ==
  LET q == rstrm[i].queue
      cs == readChunks(q)
  IN  /\ rstrm[i].accepted
      /\ ~rcv.aborted
      /\ IF isReadable(q, inter)
         THEN rstrm' = [rstrm EXCEPT ![i].queue = afterRead(q, inter),
                                     ![i].got = Append(@, [k \in 1..Len(cs) |-> <<cs[k].msg, cs[k].fsn>>])]
         ELSE /\ rstrm[i].readErr /\ ~rstrm[i].eof
              /\ rstrm' = [rstrm EXCEPT ![i].eof = TRUE]
      /\ UNCHANGED <<scenario, snd, strm, rcv, toRcv, toSnd, used, sentLog>>

\* The network loses a packet, and delivers the others in any order.
Lose ==
  /\ used.lost < scenario.maxLost
  /\ \/ \E p \in toRcv : toRcv' = toRcv \ {p} /\ UNCHANGED toSnd
     \/ \E p \in toSnd : toSnd' = toSnd \ {p} /\ UNCHANGED toRcv
  /\ used' = [used EXCEPT !.lost = @ + 1]
  /\ UNCHANGED <<scenario, snd, strm, rcv, rstrm, sentLog>>

-----------------------------------------------------------------------------
Next ==
  \/ \E i \in Streams :
       WriteSCTP(i) \/ WriterWakes(i) \/ WriteTimesOut(i) \/ CloseStream(i) \/ ReadSCTP(i)
  \/ SenderWrites \/ HandleSack \/ FinishSack \/ HandleResponse
  \/ T3Fires \/ T3Timeout \/ T3Callback \/ ReconfigTimeout \/ RackTimeout \/ PTOTimeout
  \/ HandleInbound \/ AckTimeout \/ ReceiverWrites \/ AcceptStream
  \/ Lose

Spec == Init /\ [][Next]_vars

-----------------------------------------------------------------------------
(* What the properties are about.                                          *)

Whole(i, k) == [f \in 1..scenario.script[i][k].frags |-> <<Msg(i, k), f - 1>>]
Writes(i) == {k \in 1..(strm[i].nextOp - 1) :
                scenario.script[i][k].op = "write" /\ Msg(i, k) \notin strm[i].refused}
Reliable(i) == rel(i).type = "reliable"

\* The chunks of stream i that the receiver holds, and those it handed over.
Held(i) ==
  LET q == rstrm[i].queue
      sets == [k \in 1..Len(q.ordered) |-> q.ordered[k].chunks] \o q.unordered
              \o (IF inter THEN [k \in 1..Len(q.loose) |-> q.loose[k].chunks] ELSE <<q.loose>>)
  IN  FlattenSeq(sets)
Delivered(i) == UNION {ToSet(rstrm[i].got[n]) : n \in 1..Len(rstrm[i].got)}

\* Nothing can happen any more but timers that a bound holds back.
Quiet ==
  /\ toRcv = {} /\ toSnd = {}
  /\ ~snd.awake /\ ~rcv.awake
  /\ snd.sack = << >>
  /\ ~snd.t3RTX.armed /\ snd.t3RTX.flying = 0 /\ ~snd.t3due /\ ~snd.tReconfig.armed
  /\ rcv.ackState = "idle" /\ rcv.acceptCh = << >>
  /\ \A i \in Streams :
       /\ strm[i].nextOp > Len(scenario.script[i]) \/ strm[i].held # << >>
       /\ strm[i].held = << >> \/ ~snd.writeNotify
       /\ ~isReadable(rstrm[i].queue, inter)
       /\ rstrm[i].eof = rstrm[i].readErr

-----------------------------------------------------------------------------
\* Whatever the network loses and reorders, and whatever is sent again, the
\* reader of a stream gets only whole messages, no message twice, and those of
\* an ordered stream in the order they were written (reassembly_queue.go).
DeliveredInOrderOnce ==
  \A i \in Streams :
    LET got == rstrm[i].got
    IN  /\ \A n \in 1..Len(got) : \E k \in Writes(i) : got[n] = Whole(i, k)
        /\ \A m, n \in 1..Len(got) : m < n =>
             /\ got[m] # got[n]
             /\ ~rel(i).unordered => got[m][1][1][2] < got[n][1][1][2]

\* A chunk of a reliable stream that the receiver's cumulative TSN covers is in
\* a reassembly queue or was read: acknowledged data is never dropped
\* (acceptPayloadData, handleForwardTSN, advanceCumulativeTSN).
AckedIsHeld ==
  \A p \in 1..Len(sentLog) :
    LET i == sentLog[p][1][1]
    IN  Reliable(i) /\ p <= Minus(TSNMod, rcv.queue.cumulativeTSN, Minus(TSNMod, scenario.firstTSN, 1))
          => \/ sentLog[p] \in Delivered(i)
             \/ \E k \in 1..Len(Held(i)) : <<Held(i)[k].msg, Held(i)[k].fsn>> = sentLog[p]
             \/ rcv.aborted

\* bufferedAmount is what the stream has written and the peer has not yet
\* acknowledged, the data of a blocked write included (packetize, the undo in
\* WriteSCTP, onBufferReleased).
BufferedAmountExact ==
  \A i \in Streams :
    strm[i].bufferedAmount =
      Len(strm[i].held)
      + Cardinality({x \in PQ!Queued(snd.pending) : x[3].sid = i /\ x[3].len > 0})
      + Cardinality({k \in 1..Len(snd.inflight) : snd.inflight[k].sid = i /\ ~snd.inflight[k].acked})

\* While a chunk is in flight T3 is going to expire: it is armed, or its
\* goroutine is on its way and will count (handleSack stops and restarts it,
\* timeout() re-arms it).
T3Covers ==
  snd.inflight # << >> /\ snd.sack = << >> /\ ~snd.failed =>
    LET t == snd.t3RTX
    IN  /\ t.state = "started"
        /\ t.armed \/ t.flying > 0
        /\ t.pending = t.flying + (IF t.armed THEN 1 ELSE 0)

\* A reader sees the end of a stream only after every message that was written
\* before the close, unless it was given up (resetStreamsIfAny waits for the
\* last TSN; ReadSCTP returns messages before the error).
EOFIsLast ==
  \A i \in Streams :
    rstrm[i].eof /\ Reliable(i) => \A k \in Writes(i) : \E n \in 1..Len(rstrm[i].got) :
                                     rstrm[i].got[n] = Whole(i, k)

\* The bytes that reduce the receive window are those in the queues
\* (addBytes, subtractNumBytes).
WindowExact == \A i \in Streams : rstrm[i].queue.nBytes = Bytes(Held(i))

\* The transfer stops only when it is complete: every message was read or
\* given up by its sender, every acknowledgement and every answer came back,
\* every closed stream has seen its end, the receive window is free again, and
\* no writer waits.  This code has two exceptions.  A blocked writer stays
\* blocked when popPendingDataChunksToSend pops the mark of a closed stream and
\* no data with it, since only data makes it call notifyBlockWritable.  And
\* what FORWARD-TSN says of a stream is lost on a receiver that does not know
\* it yet, or not yet as unordered: later messages or fragments stay behind.
StuckOnlyWhenDone ==
  Quiet /\ ~snd.failed /\ ~rcv.aborted =>
    /\ snd.inflight = << >> /\ PQ!size(snd.pending) = 0 /\ snd.reconfigs = {}
    /\ \A i \in Streams :
         /\ strm[i].held = << >> \/ \E j \in Streams : strm[j].state = "closing"
         /\ strm[i].state = "closing" /\ rstrm[i].accepted => rstrm[i].eof
         /\ Reliable(i) \/ i \in scenario.negotiated =>
              /\ \A k \in Writes(i) : \/ \E n \in 1..Len(rstrm[i].got) : rstrm[i].got[n] = Whole(i, k)
                                      \/ Msg(i, k) \in snd.abandoned
                                      \/ strm[i].held # << >> /\ k = strm[i].nextOp - 1
              /\ Held(i) = << >>

\* An honest exchange ends in an error at two limits only: a SACK is refused
\* when what is in flight straddles the wrap of the TSN (payloadQueue.get
\* compares plain integers), and the association is aborted when the reader
\* leaves MaxMIDEntries messages in a queue.
FailsOnlyAtALimit ==
  /\ snd.failed => LET last == snd.inflight[Len(snd.inflight)] IN last.tsn < snd.inflight[1].tsn
  /\ rcv.aborted => \E i \in Streams :
       Len(rstrm[i].queue.ordered) >= MaxMIDEntries
       \/ Len(rstrm[i].queue.loose) + Len(rstrm[i].queue.unordered) >= MaxMIDEntries
=============================================================================
