----------------------------- MODULE Reassembly -----------------------------
(***************************************************************************)
(* The reassembly queue of a stream (reassembly_queue.go).  A received     *)
(* chunk is a record with tsn, seq (the stream sequence number of DATA or  *)
(* the message identifier of I-DATA), fsn, u, b, e and len.                *)
(*                                                                         *)
(*   next       nextSSN, or nextMID with I-DATA                            *)
(*   ordered    the chunk sets of ordered messages, by sequence number     *)
(*   unordered  complete unordered messages                                *)
(*   loose      the other unordered chunks: sorted by TSN (DATA) or        *)
(*              gathered in chunk sets by message identifier (I-DATA)      *)
(*   nBytes     what they hold                                             *)
(*                                                                         *)
(* The operators take `i', whether the chunks are I-DATA.                  *)
(***************************************************************************)
EXTENDS Serial, Sequences, SequencesExt, FiniteSetsExt, Functions

CONSTANTS
  TSNMod,        \* 2^32: TSNs, message identifiers, fragment numbers
  SSNMod,        \* 2^16: stream sequence numbers
  MaxMIDEntries, \* maxReassemblyQueueMIDEntries
  None

SeqModulus(i) == IF i THEN TSNMod ELSE SSNMod
LOCAL LT(i, x, y) == snaLT(SeqModulus(i), x, y)
LOCAL LTE(i, x, y) == snaLTE(SeqModulus(i), x, y)

newReassemblyQueue ==
  [next |-> 0, ordered |-> << >>, unordered |-> << >>, loose |-> << >>, nBytes |-> 0]

\* What orders the chunks of a message: the FSN of I-DATA, the TSN of DATA.
Number(i, c) == IF i THEN c.fsn ELSE c.tsn

\* sortChunksByTSN, sortChunksByFSN, sortChunksBySSN and insertChunkSetByMID
\* after one more element: x goes before the first of the positions K, whose
\* elements it precedes.
Insert(s, x, K) == InsertAt(s, Min(K \cup {Len(s) + 1}), x)
ByFragment(i, chunks, c) ==
  Insert(chunks, c, {k \in 1..Len(chunks) : snaLT(TSNMod, Number(i, c), Number(i, chunks[k]))})

\* chunkSet.isComplete and chunkSetMID.isComplete.
Contiguous(i, chunks) ==
  \A k \in 2..Len(chunks) : Number(i, chunks[k]) = Plus(TSNMod, Number(i, chunks[k - 1]), 1)
BothEnds(i, chunks) == chunks # << >> /\ chunks[1].b /\ Last(chunks).e
isComplete(i, chunks) ==
  /\ chunks # << >>
  /\ chunks[1].b
  /\ Last(chunks).e
  /\ i => chunks[1].fsn = 0
  /\ Contiguous(i, chunks)

Bytes(chunks) == FoldLeft(LAMBDA n, c : n + c.len, 0, chunks)
subtractNumBytes(r, n) == [r EXCEPT !.nBytes = IF @ >= n THEN @ - n ELSE 0]
addBytes(r, c) == [r EXCEPT !.nBytes = @ + c.len]

isFragmented(c) == ~c.b \/ ~c.e

-----------------------------------------------------------------------------
(* push: the queue after it; None when the limit on identifiers is hit.    *)

\* findCompleteUnorderedChunkSet: the first run of chunks that is a message.
Runs(s) == {r \in (1..Len(s)) \X (1..Len(s)) :
              r[1] <= r[2] /\ isComplete(FALSE, SubSeq(s, r[1], r[2]))
                           /\ \A k \in (r[1] + 1)..r[2] : ~s[k].b}
findCompleteUnorderedChunkSet(r) ==
  IF Runs(r.loose) = {} THEN r
  ELSE LET run == CHOOSE x \in Runs(r.loose) : \A y \in Runs(r.loose) : x[2] <= y[2]
       IN  [r EXCEPT !.unordered = Append(@, SubSeq(r.loose, run[1], run[2])),
                     !.loose = SubSeq(@, 1, run[1] - 1) \o SubSeq(@, run[2] + 1, Len(@))]

pushUnordered(r, c) ==
  findCompleteUnorderedChunkSet(addBytes([r EXCEPT !.loose = ByFragment(FALSE, @, c)], c))

\* The index of the set that an ordered chunk belongs to, 0 if there is none:
\* with DATA only a fragment joins a set, and only one of fragments.
SetOf(r, c, i) ==
  SelectInSeq(r.ordered,
    LAMBDA s : s.seq = c.seq /\ (i \/ (isFragmented(c) /\ isFragmented(s.chunks[1]))))
NewSet(r, c, i) ==
  [r EXCEPT !.ordered = Insert(@, [seq |-> c.seq, chunks |-> <<c>>],
                               {k \in 1..Len(@) : LT(i, c.seq, @[k].seq)})]
Duplicate(i, chunks, c) == \E k \in 1..Len(chunks) : Number(i, chunks[k]) = Number(i, c)

\* The counter is raised even for a chunk that DATA's chunkSet.push refuses.
Stale(r, c, i) == LT(i, c.seq, r.next)
joinSet(r, c, i, k) == addBytes([r EXCEPT !.ordered[k].chunks = ByFragment(i, @, c)], c)
pushInto(r, c, i, k) ==
  CASE k = 0 -> IF i /\ Len(r.ordered) >= MaxMIDEntries THEN None ELSE addBytes(NewSet(r, c, i), c)
    [] k # 0 /\ i -> LET old == r.ordered[k].chunks
                     IN  IF isComplete(TRUE, old) \/ Duplicate(TRUE, old, c) THEN r
                         ELSE joinSet(r, c, i, k)
    [] k # 0 /\ ~i -> IF Duplicate(FALSE, r.ordered[k].chunks, c) THEN addBytes(r, c)
                      ELSE joinSet(r, c, i, k)
pushOrdered(r, c, i) == IF Stale(r, c, i) THEN r ELSE pushInto(r, c, i, SetOf(r, c, i))

\* pushUnorderedIData
HasQueued(r, mid) == \E k \in 1..Len(r.unordered) : r.unordered[k][1].seq = mid
Gathered(r, c, chunks, others) ==
  addBytes(IF isComplete(TRUE, chunks)
           THEN [r EXCEPT !.loose = others, !.unordered = Append(@, chunks)]
           ELSE [r EXCEPT !.loose = Append(others, [seq |-> c.seq, chunks |-> chunks])], c)
gather(r, c, k) ==
  CASE k = 0 -> IF Len(r.loose) + Len(r.unordered) >= MaxMIDEntries THEN None
                ELSE Gathered(r, c, <<c>>, r.loose)
    [] k # 0 -> IF Duplicate(TRUE, r.loose[k].chunks, c) THEN r
                ELSE Gathered(r, c, ByFragment(TRUE, r.loose[k].chunks, c), RemoveAt(r.loose, k))
pushUnorderedIData(r, c) ==
  IF HasQueued(r, c.seq) THEN r ELSE gather(r, c, SelectInSeq(r.loose, LAMBDA s : s.seq = c.seq))

pushWithError(r, c, i) ==
  CASE c.u /\ i -> pushUnorderedIData(r, c)
    [] c.u /\ ~i -> pushUnordered(r, c)
    [] OTHER -> pushOrdered(r, c, i)

-----------------------------------------------------------------------------
(* read: unordered messages first, then the ordered one that is due.       *)

Due(r, i) ==
  /\ r.ordered # << >>
  /\ isComplete(i, r.ordered[1].chunks)
  /\ ~snaGT(SeqModulus(i), r.ordered[1].seq, r.next)
isReadable(r, i) == r.unordered # << >> \/ Due(r, i)
readChunks(r) == IF r.unordered # << >> THEN r.unordered[1] ELSE r.ordered[1].chunks
afterRead(r, i) ==
  subtractNumBytes(
    IF r.unordered # << >> THEN [r EXCEPT !.unordered = Tail(@)]
    ELSE [r EXCEPT !.ordered = Tail(@),
                   !.next = IF r.ordered[1].seq = @ THEN Plus(SeqModulus(i), @, 1) ELSE @],
    Bytes(readChunks(r)))

-----------------------------------------------------------------------------
(* What FORWARD-TSN and I-FORWARD-TSN give up.                             *)

GivenUp(s, last, i) == LTE(i, s.seq, last) /\ ~isComplete(i, s.chunks)
BytesOf(sets) == FoldLeft(LAMBDA n, s : n + Bytes(s.chunks), 0, sets)

\* forwardTSNForOrdered and forwardTSNForOrderedMID.
forwardOrdered(r, last, i) ==
  subtractNumBytes(
    [r EXCEPT !.ordered = SelectSeq(@, LAMBDA s : ~GivenUp(s, last, i)),
              !.next = IF LTE(i, @, last) THEN Plus(SeqModulus(i), last, 1) ELSE @],
    BytesOf(SelectSeq(r.ordered, LAMBDA s : GivenUp(s, last, i))))

\* forwardTSNForUnordered: the loose chunks up to the first newer one.
DropLoose(r, tsn) == [r EXCEPT !.loose = SelectSeq(@, LAMBDA c : snaGT(TSNMod, c.tsn, tsn))]
forwardTSNForUnordered(r, tsn) ==
  LET newer == SelectInSeq(r.loose, LAMBDA c : snaGT(TSNMod, c.tsn, tsn))
      n == IF newer = 0 THEN Len(r.loose) ELSE newer - 1
  IN  subtractNumBytes([r EXCEPT !.loose = SubSeq(@, n + 1, Len(@))], Bytes(SubSeq(r.loose, 1, n)))

forwardTSNForUnorderedMID(r, mid) ==
  subtractNumBytes(
    [r EXCEPT !.loose = SelectSeq(@, LAMBDA s : ~LTE(TRUE, s.seq, mid))],
    BytesOf(SelectSeq(r.loose, LAMBDA s : LTE(TRUE, s.seq, mid))))
=============================================================================
