--------------------------- MODULE MCSctpTransfer ---------------------------
(* SctpTransfer for two streams and short scripts.                           *)
EXTENDS SctpTransfer

MCStreams == {1, 2}
W(n) == [op |-> "write", frags |-> n]
C == [op |-> "close"]
Ordered == [unordered |-> FALSE, type |-> "reliable", value |-> 0]
Unordered == [unordered |-> TRUE, type |-> "reliable", value |-> 0]
Partial(r, n) == [r EXCEPT !.type = "rexmit", !.value = n]

Basic == [mode |-> "message", blockWrite |-> FALSE, deadlines |-> FALSE,
          rel |-> [i \in MCStreams |-> Ordered], script |-> [i \in MCStreams |-> << >>],
          quantum |-> [i \in MCStreams |-> 1], negotiated |-> {},
          mtu |-> 1, cwnd |-> 4, buffer |-> 8, firstTSN |-> 1,
          maxLost |-> 0, maxRtos |-> 0, maxMarks |-> 0, maxProbes |-> 0]

MCScenarios ==
  {\* Loss: fast retransmission, T3, RACK and the tail loss probe.
   [Basic EXCEPT !.script = <<<<W(4)>>, << >>>>, !.maxLost = 1],
   [Basic EXCEPT !.script = <<<<W(1), W(1)>>, << >>>>, !.maxLost = 1, !.maxRtos = 1],
   [Basic EXCEPT !.script = <<<<W(3)>>, << >>>>, !.cwnd = 2, !.maxMarks = 1, !.maxProbes = 1],
   \* Fragments of two streams, one of them unordered and partially reliable.
   [Basic EXCEPT !.script = <<<<W(2)>>, <<W(1)>>>>, !.rel[1] = Partial(Unordered, 1), !.mtu = 2,
                 !.maxRtos = 1],
   [Basic EXCEPT !.script = <<<<W(2), W(1)>>, << >>>>, !.rel[1] = Partial(Ordered, 1),
                 !.negotiated = {1}, !.mtu = 2, !.maxRtos = 1, !.maxLost = 1],
   [Basic EXCEPT !.script = <<<<W(2)>>, <<W(2)>>>>, !.rel[1] = Unordered, !.cwnd = 1],
   \* I-DATA: fragments of two streams take turns, or share by weight.
   [Basic EXCEPT !.mode = "roundRobin", !.script = <<<<W(2)>>, <<W(1)>>>>, !.cwnd = 2, !.maxLost = 1],
   [Basic EXCEPT !.mode = "weightedFair", !.script = <<<<W(2)>>, <<W(2)>>>>, !.quantum[2] = 2,
                 !.rel[1] = Partial(Unordered, 1), !.rel[2].type = "timed", !.negotiated = {1, 2},
                 !.mtu = 2, !.cwnd = 2, !.maxRtos = 1],
   \* Blocking writes and a receiver that reads late; the close of a stream.
   [Basic EXCEPT !.blockWrite = TRUE, !.deadlines = TRUE, !.script = <<<<W(1), W(1)>>, <<W(1)>>>>,
                 !.cwnd = 1, !.buffer = 2],
   [Basic EXCEPT !.blockWrite = TRUE, !.script = <<<<W(1), C>>, <<W(1), W(1)>>>>, !.cwnd = 2, !.buffer = 1],
   [Basic EXCEPT !.script = <<<<W(1), C>>, << >>>>, !.maxLost = 1, !.maxRtos = 1],
   \* The wrap of the TSN, and a reader that leaves too many I-DATA messages.
   [Basic EXCEPT !.script = <<<<W(1), W(1)>>, << >>>>, !.firstTSN = 63, !.maxRtos = 1],
   [Basic EXCEPT !.mode = "roundRobin", !.script = <<<<W(1), W(1), W(1), W(1)>>, << >>>>, !.cwnd = 1]}
=============================================================================
