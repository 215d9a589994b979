------------------------------ MODULE Pending ------------------------------
(***************************************************************************)
(* The pending queue of an association (pending_queue.go): chunks that are *)
(* written and not yet sent, in the order in which one of three policies   *)
(* lets them out.  "message" sends whole messages, unordered ones first;   *)
(* "roundRobin" and "weightedFair" interleave the fragments of streams and *)
(* are used when I-DATA was negotiated.                                    *)
(*                                                                         *)
(* A chunk is a record with at least sid, u (unordered), b and e (first    *)
(* and last fragment) and len.  A queue is a record: the queues by name,   *)
(* what peek has selected and, for the interleaving policies, the order of *)
(* the streams or their virtual finish times.                              *)
(***************************************************************************)
EXTENDS Integers, Sequences, FiniteSets

CONSTANTS
  Streams,   \* the stream identifiers, integers
  None,
  Quantum    \* Quantum[s]: virtual time that a chunk of stream s costs, 1/weight

Empty == << >>

\* newPendingQueue and, for the other two, setInterleaving with the scheduler's
\* Reset.
newPendingQueue(mode) ==
  CASE mode = "message" ->
         [mode |-> mode, ordered |-> Empty, unordered |-> Empty, selected |-> None]
    [] mode = "roundRobin" ->
         [mode |-> mode, streams |-> [s \in Streams |-> Empty], order |-> Empty, selected |-> None]
    [] mode = "weightedFair" ->
         [mode |-> mode, streams |-> [s \in Streams |-> Empty], finish |-> [s \in Streams |-> 0],
          virtualTime |-> 0, selected |-> None]

Larger(x, y) == IF x > y THEN x ELSE y

\* The finish time that a chunk gets when it is pushed.
Finish(q, c) == Larger(q.virtualTime, q.finish[c.sid]) + c.len * Quantum[c.sid]

push(q, c) ==
  CASE q.mode = "message" ->
         IF c.u THEN [q EXCEPT !.unordered = Append(@, c)] ELSE [q EXCEPT !.ordered = Append(@, c)]
    [] q.mode = "roundRobin" ->
         [q EXCEPT !.streams[c.sid] = Append(@, c),
                   !.order = IF q.streams[c.sid] = Empty THEN Append(@, c.sid) ELSE @]
    [] q.mode = "weightedFair" ->
         [q EXCEPT !.streams[c.sid] = Append(@, [chunk |-> c, finish |-> Finish(q, c)]),
                   !.finish[c.sid] = Finish(q, c)]

\* Which queue peek looks at: the one selected earlier, else the policy's
\* choice, None if all are empty.  Ties in finish time go to the lower stream.
Waiting(q) == {s \in Streams : q.streams[s] # Empty}
Earlier(q, s, t) ==
  LET f == Head(q.streams[s]).finish
      g == Head(q.streams[t]).finish
  IN  f < g \/ (f = g /\ s <= t)
Chosen(q) ==
  CASE q.selected # None -> q.selected
    [] q.selected = None /\ q.mode = "message" ->
         IF q.unordered # Empty THEN "unordered" ELSE IF q.ordered # Empty THEN "ordered" ELSE None
    [] q.selected = None /\ q.mode = "roundRobin" ->
         IF q.order = Empty THEN None ELSE Head(q.order)
    [] q.selected = None /\ q.mode = "weightedFair" ->
         IF Waiting(q) = {} THEN None
         ELSE CHOOSE s \in Waiting(q) : \A t \in Waiting(q) : Earlier(q, s, t)

\* The chunk that peek returns, and the queue after it: the interleaving
\* policies remember the stream they chose, the message policy does not.
HeadOf(q, w) ==
  CASE w = None -> None
    [] w # None /\ q.mode = "message" -> Head(q[w])
    [] w # None /\ q.mode = "roundRobin" -> Head(q.streams[w])
    [] w # None /\ q.mode = "weightedFair" -> Head(q.streams[w]).chunk
peek(q) == HeadOf(q, Chosen(q))
peeked(q) == IF q.mode = "message" THEN q ELSE [q EXCEPT !.selected = Chosen(q)]

\* pop of the chunk just peeked.  The message policy stays with the queue
\* until the message's last fragment is out.
NextSelection(c, w) == IF c.e THEN None ELSE w
popFrom(q, w) ==
  CASE q.mode = "message" ->
         [q EXCEPT ![w] = Tail(@), !.selected = NextSelection(Head(q[w]), w)]
    [] q.mode = "roundRobin" ->
         [q EXCEPT !.streams[w] = Tail(@), !.selected = None,
                   !.order = IF Len(q.streams[w]) = 1 THEN Tail(@) ELSE Append(Tail(@), w)]
    [] q.mode = "weightedFair" ->
         [q EXCEPT !.streams[w] = Tail(@), !.selected = None,
                   !.virtualTime = Larger(@, Head(q.streams[w]).finish)]
pop(q) == popFrom(q, Chosen(q))

\* All that is queued, each chunk with its queue and its place there, and the
\* number of chunks.
Queued(q) ==
  CASE q.mode = "message" ->
         UNION {{<<w, k, q[w][k]>> : k \in 1..Len(q[w])} : w \in {"ordered", "unordered"}}
    [] q.mode = "roundRobin" ->
         UNION {{<<s, k, q.streams[s][k]>> : k \in 1..Len(q.streams[s])} : s \in Streams}
    [] q.mode = "weightedFair" ->
         UNION {{<<s, k, q.streams[s][k].chunk>> : k \in 1..Len(q.streams[s])} : s \in Streams}
size(q) == Cardinality(Queued(q))
=============================================================================
