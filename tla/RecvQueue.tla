----------------------------- MODULE RecvQueue -----------------------------
(***************************************************************************)
(* Which TSNs an association has received (receive_payload_queue.go): the  *)
(* cumulative TSN, and above it a ring of Words bit masks of WordSize bits *)
(* that TSN t indexes by (t / WordSize) % Words.  A set bit is a pair of   *)
(* its index and its offset.  The list of duplicates is left out: canPush  *)
(* keeps every duplicate away from push, so the list stays empty.          *)
(***************************************************************************)
EXTENDS Serial, FiniteSets

CONSTANTS
  TSNMod,    \* 2^32
  WordSize,  \* 64
  Words      \* len(tsnBitmask)

LOCAL LT(i, j) == snaLT(TSNMod, i, j)
LOCAL LTE(i, j) == snaLTE(TSNMod, i, j)
LOCAL GT(i, j) == snaGT(TSNMod, i, j)

maxTSNOffset == Words * WordSize

\* newReceivePayloadQueue and init.
newReceivePayloadQueue(cumulativeTSN) ==
  [cumulativeTSN |-> cumulativeTSN, tailTSN |-> cumulativeTSN, chunkSize |-> 0, bits |-> {}]

Bit(tsn) == <<(tsn \div WordSize) % Words, tsn % WordSize>>

hasChunk(q, tsn) ==
  /\ q.chunkSize # 0
  /\ ~LTE(tsn, q.cumulativeTSN)
  /\ ~GT(tsn, q.tailTSN)
  /\ Bit(tsn) \in q.bits

canPush(q, tsn) ==
  /\ ~hasChunk(q, tsn)
  /\ ~LTE(tsn, q.cumulativeTSN)
  /\ ~GT(tsn, Plus(TSNMod, q.cumulativeTSN, maxTSNOffset))

\* push, for a TSN that canPush.
push(q, tsn) ==
  [q EXCEPT !.bits = @ \cup {Bit(tsn)}, !.chunkSize = @ + 1,
            !.tailTSN = IF GT(tsn, @) THEN tsn ELSE @]

\* pop(false): the TSN after the cumulative one, if it was received.
canPop(q) == hasChunk(q, Plus(TSNMod, q.cumulativeTSN, 1))
pop(q) ==
  LET tsn == Plus(TSNMod, q.cumulativeTSN, 1)
  IN  [q EXCEPT !.bits = @ \ {Bit(tsn)}, !.chunkSize = @ - 1, !.cumulativeTSN = tsn]

\* clearTSNRange: the bits between the cumulative TSN and tsn.
ClearedBelow(q, tsn) ==
  {Bit(Plus(TSNMod, q.cumulativeTSN, i)) : i \in 1..Minus(TSNMod, tsn, q.cumulativeTSN)} \cap q.bits

advanceCumulativeTSN(q, tsn) ==
  LET gone == ClearedBelow(q, tsn)
      left == q.chunkSize - Cardinality(gone)
  IN  CASE ~LT(q.cumulativeTSN, tsn) -> q
        [] LT(q.cumulativeTSN, tsn) /\ (q.chunkSize = 0 \/ LTE(q.tailTSN, tsn)) ->
             newReceivePayloadQueue(tsn)
        [] OTHER -> [q EXCEPT !.bits = @ \ gone, !.chunkSize = left, !.cumulativeTSN = tsn,
                              !.tailTSN = IF left = 0 THEN tsn ELSE @]

\* getGapAckBlocks: the offsets from the cumulative TSN that the first
\* maxBlocks blocks cover.  A block is a run of received TSNs.
Received(q) ==
  IF q.chunkSize = 0 THEN {}
  ELSE {i \in 1..Minus(TSNMod, q.tailTSN, q.cumulativeTSN) :
          Bit(Plus(TSNMod, q.cumulativeTSN, i)) \in q.bits}
getGapAckBlocks(q, maxBlocks) ==
  LET r == Received(q)
      starts == {i \in r : i - 1 \notin r}
  IN  {i \in r : Cardinality({s \in starts : s <= i}) <= maxBlocks}

\* getLastTSNReceived
anyReceived(q) == q.chunkSize # 0
=============================================================================
