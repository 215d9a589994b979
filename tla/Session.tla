------------------------------ MODULE Session ------------------------------
(***************************************************************************)
(* One protocol session between a Dart client and the Go bridge, from the  *)
(* request table of the client to the handler and back, over either        *)
(* transport:                                                              *)
(*                                                                         *)
(*   ws      a WebSocket connection (server.go, handleWebSocket)           *)
(*   shared  a FrameSession in the same process (frame_session.go), behind *)
(*           the C functions of cshared.go                                 *)
(*                                                                         *)
(* What the handler does is reduced to whether it answers at once, later   *)
(* from a data channel's send goroutine, or panics.                        *)
(***************************************************************************)
EXTENDS Naturals, Sequences, FiniteSets

CONSTANTS
  ChanSize,    \* writeChanSize, the room of each channel
  NetSize,     \* frames that the socket's buffers hold
  MaxBuffered, \* maxBufferedPerHandle, maxBuffered: events kept for a late listener
  Scenarios,   \* what the client does: see ScenariosAssumption
  None

\* sync: answered by the handler.  async: a dc:send, acknowledged later.
\* notify: the same, sent with id 0.  panic: its handler panics.  malformed: a
\* frame that is not binary or does not decode.
Kinds == {"sync", "async", "notify", "panic", "malformed"}

ASSUME SizeAssumption == {ChanSize, NetSize, MaxBuffered} \subseteq Nat \ {0}
ASSUME ScenariosAssumption ==
  \A s \in Scenarios :
    /\ s.transport \in {"ws", "shared"}
    /\ s.script \in Seq(Kinds)
    /\ s.events \in Nat      \* events of one handle that pion's callbacks send
    /\ s.isolate \in BOOLEAN \* one isolate both sends and closes, as FfiConnection does
    /\ {s.closes, s.stalls, s.timeouts, s.listens} \subseteq BOOLEAN

\* A frame of the client, and a frame of the server.
Frames == [n : Nat, id : Nat, kind : Kinds]
Responses == [n : Nat, id : Nat, type : {"ack", "error", "event"}]
ASSUME NoneAssumption ==
  None \notin [frame : Frames \cup Responses, at : {"check", "select"}]

\* The goroutines that call connWriter.enqueue.
Producers == {"reader", "dc", "event"}

VARIABLES
  scenario,  \* the member of Scenarios this behaviour follows
  client,    \* the BridgeConnection, and whether its process stands still
  pushing,   \* the frame of a PionBridgeSend in progress, and where Push is
  inq,       \* frames to the read loop: fs.in, or the socket
  srv,       \* the goroutines and channels of the session on the server
  down,      \* frames to the client: the socket, or the isolate's queue
  closer     \* how far PionBridgeClose is

vars == <<scenario, client, pushing, inq, srv, down, closer>>

ws == scenario.transport = "ws"
shared == scenario.transport = "shared"

\* reader and writer: what the two loops do, with the frame each has in hand;
\* acks: requests that a send goroutine has to acknowledge; slot: what each
\* producer is enqueueing, and where enqueue is; ch and done: of the connWriter;
\* conn: the socket.
NewSession ==
  [reader |-> "idle", frame |-> None, acks |-> << >>, events |-> 0,
   slot |-> [p \in Producers |-> None], ch |-> << >>, done |-> FALSE, fsDone |-> FALSE,
   writer |-> "idle", held |-> None, pinger |-> ws, conn |-> "up"]

Init ==
  /\ scenario \in Scenarios
  /\ client = [open |-> TRUE, next |-> 1, pending |-> {}, seen |-> << >>, stall |-> "no",
               handle |-> "unknown", buffered |-> << >>, kept |-> << >>, listening |-> FALSE, got |-> << >>]
  /\ pushing = None
  /\ inq = << >>
  /\ srv = NewSession
  /\ down = << >>
  /\ closer = "no"

-----------------------------------------------------------------------------
(* The client (bridge_connection.dart, with either subclass).              *)

Awake == client.stall # "now"
\* The isolate runs other code only when no call into the library is under way.
Free == Awake /\ (shared /\ scenario.isolate => pushing = None /\ closer \in {"no", "returned"})

\* request and send: the frame gets an id and is handed to the transport.
Kind == scenario.script[client.next]
Frame == [n |-> client.next, id |-> IF Kind = "notify" THEN 0 ELSE client.next, kind |-> Kind]
Request ==
  /\ client.open
  /\ Free
  /\ pushing = None
  /\ client.next <= Len(scenario.script)
  /\ client' = [client EXCEPT !.next = @ + 1, !.pending = @ \cup ({Frame.id} \ {0})]
  /\ IF ws THEN inq' = Append(inq, Frame) /\ UNCHANGED pushing
     ELSE pushing' = [frame |-> Frame, at |-> "check"] /\ UNCHANGED inq
  /\ UNCHANGED <<scenario, srv, down, closer>>

\* The events of one handle: broadcast (event_dispatcher.dart) buffers them
\* until the resource exists, and the resource's BufferedBroadcast until the
\* application listens.
add(c, e) ==
  IF c.listening THEN [c EXCEPT !.got = Append(@, e)]
  ELSE IF Len(c.kept) < MaxBuffered THEN [c EXCEPT !.kept = Append(@, e)] ELSE c
broadcast(c, e) ==
  CASE c.handle = "subscribed" -> add(c, e)
    [] c.handle = "unknown" ->
         IF Len(c.buffered) < MaxBuffered THEN [c EXCEPT !.buffered = Append(@, e)] ELSE c
    [] c.handle = "disposed" -> c

\* add, for one event of q after the other: a buffer of n takes what it has
\* room for.
Fitting(n, q) == IF n + Len(q) <= MaxBuffered THEN q ELSE SubSeq(q, 1, MaxBuffered - n)
addAll(c, q) ==
  IF c.listening THEN [c EXCEPT !.got = @ \o q]
  ELSE [c EXCEPT !.kept = @ \o Fitting(Len(c.kept), q)]

\* The resource is constructed: listen replays what was buffered.
NoReplay(c) == [c EXCEPT !.handle = "subscribed"]
listen(c) == addAll([c EXCEPT !.handle = "subscribed", !.buffered = << >>], c.buffered)
Subscribe ==
  /\ scenario.listens
  /\ Free
  /\ client.handle = "unknown"
  /\ client' = listen(client)
  /\ UNCHANGED <<scenario, pushing, inq, srv, down, closer>>

\* The application's first listener gets what was kept.
Listen ==
  /\ Free
  /\ client.handle = "subscribed"
  /\ ~client.listening
  /\ client' = [client EXCEPT !.listening = TRUE, !.got = @ \o client.kept, !.kept = << >>]
  /\ UNCHANGED <<scenario, pushing, inq, srv, down, closer>>

\* disposeLocal: later events are dropped.
Dispose ==
  /\ Free
  /\ client.handle = "subscribed"
  /\ client' = [client EXCEPT !.handle = "disposed", !.kept = << >>]
  /\ UNCHANGED <<scenario, pushing, inq, srv, down, closer>>

\* handleFrame.  An answer that no request waits for is dropped, unless its id
\* is 0: it goes to onMessage, like an event.
handleFrame(c, r) ==
  IF ~c.open THEN c
  ELSE LET d == [c EXCEPT !.pending = @ \ {r.id}, !.seen = Append(@, r)]
       IN  IF r.type = "event" THEN broadcast(d, r.n) ELSE d
ClientReceives ==
  /\ Free
  /\ down # << >>
  /\ down' = Tail(down)
  /\ client' = handleFrame(client, Head(down))
  /\ UNCHANGED <<scenario, pushing, inq, srv, closer>>

RequestTimesOut ==
  \E id \in client.pending :
    /\ scenario.timeouts
    /\ Free
    /\ client' = [client EXCEPT !.pending = @ \ {id}]
    /\ UNCHANGED <<scenario, pushing, inq, srv, down, closer>>

\* failPending
failPending(c) == [c EXCEPT !.open = FALSE, !.pending = {}]

\* The server has closed the socket.
ClientDisconnected ==
  /\ ws
  /\ Free
  /\ client.open
  /\ srv.conn = "closed"
  /\ down = << >>
  /\ client' = failPending(client)
  /\ UNCHANGED <<scenario, pushing, inq, srv, down, closer>>

\* close of either subclass, up to the call of PionBridgeClose.
ClientCloses ==
  /\ scenario.closes
  /\ client.open
  /\ Free
  /\ client' = failPending(client)
  /\ closer' = IF shared THEN "deleted" ELSE closer
  /\ UNCHANGED <<scenario, pushing, inq, srv, down>>

\* The client's process is suspended for a while, or for good.
Stall ==
  /\ ws /\ scenario.stalls
  /\ client.open
  /\ \/ client.stall = "no" /\ client' = [client EXCEPT !.stall = "now"]
     \/ client.stall = "now" /\ client' = [client EXCEPT !.stall = "over"]
  /\ UNCHANGED <<scenario, pushing, inq, srv, down, closer>>

-----------------------------------------------------------------------------
(* PionBridgeSend and PionBridgeClose (cshared.go, frame_session.go).      *)

\* Push looks at fs.done, then waits for room in fs.in or for fs.done.
PushChecks ==
  /\ pushing # None
  /\ pushing.at = "check"
  /\ pushing' = IF srv.fsDone THEN None ELSE [pushing EXCEPT !.at = "select"]
  /\ UNCHANGED <<scenario, client, inq, srv, down, closer>>
PushSelects ==
  /\ pushing # None
  /\ pushing.at = "select"
  /\ \/ Len(inq) < ChanSize /\ inq' = Append(inq, pushing.frame)
     \/ srv.fsDone /\ UNCHANGED inq
  /\ pushing' = None
  /\ UNCHANGED <<scenario, client, srv, down, closer>>

\* Close: fs.done, cw.done, then wait for the writer.
CloseIn ==
  /\ closer = "deleted"
  /\ srv' = [srv EXCEPT !.fsDone = TRUE]
  /\ closer' = "in"
  /\ UNCHANGED <<scenario, client, pushing, inq, down>>
CloseOut ==
  /\ closer = "in"
  /\ srv' = [srv EXCEPT !.done = TRUE]
  /\ closer' = "out"
  /\ UNCHANGED <<scenario, client, pushing, inq, down>>
DoneIsClosed == srv.done
WriterDone == srv.writer = "gone"
CloseReturns ==
  /\ closer = "out"
  /\ WriterDone
  /\ closer' = "returned"
  /\ UNCHANGED <<scenario, client, pushing, inq, srv, down>>

-----------------------------------------------------------------------------
(* connWriter.enqueue (server.go): a look at cw.done, then a wait for room *)
(* or for cw.done, whichever comes first.                                  *)

EnqueueChecks(p) ==
  /\ srv.slot[p] # None
  /\ srv.slot[p].at = "check"
  /\ srv' = [srv EXCEPT !.slot[p] = IF srv.done THEN None ELSE [@ EXCEPT !.at = "select"]]
  /\ UNCHANGED <<scenario, client, pushing, inq, down, closer>>

\* What the channel may be after the second select.
OrDrop(p) == {IF Len(srv.ch) < ChanSize THEN Append(srv.ch, srv.slot[p].frame) ELSE srv.ch}
Select(p) ==
  (IF Len(srv.ch) < ChanSize THEN {Append(srv.ch, srv.slot[p].frame)} ELSE {})
  \cup (IF srv.done THEN {srv.ch} ELSE {})
EnqueueSelects(p) ==
  /\ srv.slot[p] # None
  /\ srv.slot[p].at = "select"
  /\ \E c \in Select(p) : srv' = [srv EXCEPT !.ch = c, !.slot[p] = None]
  /\ UNCHANGED <<scenario, client, pushing, inq, down, closer>>

Answer(f, id, type) == [frame |-> [n |-> f.n, id |-> id, type |-> type], at |-> "check"]

-----------------------------------------------------------------------------
(* The read loop and processFrame.                                         *)

\* NextReader, or the select on fs.in, which may take a frame even when
\* fs.done is closed.
AtRead == srv.reader = "idle" /\ srv.slot["reader"] = None
ReaderTakes ==
  /\ AtRead
  /\ inq # << >>
  /\ srv.conn = "up"
  /\ srv' = [srv EXCEPT !.reader = "handling", !.frame = Head(inq)]
  /\ inq' = Tail(inq)
  /\ UNCHANGED <<scenario, client, pushing, down, closer>>

\* The loop ends: at a read error or the deadline, with the deferred calls of
\* handleWebSocket, or at fs.done.
ReaderEnds ==
  /\ AtRead
  /\ \/ /\ ws
        /\ srv.conn # "up" \/ ~client.open
        /\ srv' = [srv EXCEPT !.reader = "gone", !.done = TRUE, !.conn = "closed"]
     \/ /\ srv.fsDone
        /\ srv' = [srv EXCEPT !.reader = "gone"]
  /\ UNCHANGED <<scenario, client, pushing, inq, down, closer>>

\* processFrame: HandleMessage, and its response if there is one.  A panic and
\* a frame that does not decode are answered with id 0.
WithoutId(f) == Answer(f, 0, IF f.kind = "sync" THEN "ack" ELSE "error")
Response(f) == IF f.kind = "sync" THEN Answer(f, f.id, "ack") ELSE Answer(f, 0, "error")
processFrame(s, f) ==
  IF f.kind \in {"async", "notify"} THEN [s EXCEPT !.acks = Append(@, f)]
  ELSE [s EXCEPT !.slot["reader"] = Response(f)]
Handle ==
  /\ srv.reader = "handling"
  /\ srv' = processFrame([srv EXCEPT !.reader = "idle", !.frame = None], srv.frame)
  /\ UNCHANGED <<scenario, client, pushing, inq, down, closer>>

\* The data channel's send goroutine acknowledges, and pion's callbacks tell
\* events.  Neither knows of the session's end.
SendAcknowledged ==
  /\ srv.acks # << >>
  /\ srv.slot["dc"] = None
  /\ srv' = [srv EXCEPT !.acks = Tail(@),
                        !.slot["dc"] = Answer(Head(srv.acks), Head(srv.acks).id, "ack")]
  /\ UNCHANGED <<scenario, client, pushing, inq, down, closer>>
Event ==
  /\ srv.events < scenario.events
  /\ srv.slot["event"] = None
  /\ srv' = [srv EXCEPT !.events = @ + 1,
                        !.slot["event"] = Answer([n |-> srv.events + 1], 0, "event")]
  /\ UNCHANGED <<scenario, client, pushing, inq, down, closer>>

-----------------------------------------------------------------------------
(* The writer goroutine, and the keepalive of handleWebSocket.             *)

\* Its select takes either case when both are ready.  The writer of a
\* FrameSession looks at cw.done again before it delivers.
WriterTakes ==
  /\ srv.writer = "idle"
  /\ srv.ch # << >>
  /\ srv' = [srv EXCEPT !.writer = IF ws THEN "writing" ELSE "recheck", !.held = Head(srv.ch),
                        !.ch = Tail(@)]
  /\ UNCHANGED <<scenario, client, pushing, inq, down, closer>>
WriterRechecks ==
  /\ srv.writer = "recheck"
  /\ srv' = [srv EXCEPT !.writer = IF srv.done THEN "gone" ELSE "writing"]
  /\ UNCHANGED <<scenario, client, pushing, inq, down, closer>>
WriterStops ==
  /\ srv.writer = "idle"
  /\ srv.done
  /\ srv' = [srv EXCEPT !.writer = "gone", !.conn = IF ws THEN "closed" ELSE @]
  /\ UNCHANGED <<scenario, client, pushing, inq, down, closer>>

\* deliver posts to the isolate and returns; a socket takes what it has room
\* for, and a client that stands still makes none.
WaitForIsolate == down = << >>
CanWrite == shared \/ (srv.conn # "closed" /\ client.open /\ Len(down) < NetSize)
Write ==
  /\ srv.writer = "writing"
  /\ CanWrite
  /\ down' = Append(down, srv.held)
  /\ srv' = [srv EXCEPT !.writer = "idle", !.held = None]
  /\ UNCHANGED <<scenario, client, pushing, inq, closer>>

\* A write error ends the writer; its deferred calls close the socket and cw.
JustStop(s) == [s EXCEPT !.writer = "gone"]
writerFailed(s) == [s EXCEPT !.writer = "gone", !.conn = "closed", !.done = TRUE]
WriteFails ==
  /\ ws
  /\ srv.writer = "writing"
  /\ srv.conn = "closed" \/ ~client.open
  /\ srv' = writerFailed(srv)
  /\ UNCHANGED <<scenario, client, pushing, inq, down, closer>>

\* The ping goroutine ends with the session, or when a ping fails: the socket
\* is closed, or the writer has been blocked in it for too long.
PingerEnds ==
  /\ srv.pinger
  /\ \/ srv.done
     \/ srv.conn = "closed"
     \/ srv.writer = "writing" /\ Len(down) >= NetSize
  /\ srv' = [srv EXCEPT !.pinger = FALSE]
  /\ UNCHANGED <<scenario, client, pushing, inq, down, closer>>

\* The read deadline passes when no pong is read for pongTimeout: the client
\* stands still, no pings are sent, or the read loop is busy.
NoDeadline == FALSE
NoPong == ~Awake \/ ~srv.pinger \/ ~AtRead
DeadlinePasses ==
  /\ ws
  /\ srv.conn = "up"
  /\ NoPong
  /\ srv' = [srv EXCEPT !.conn = "expired"]
  /\ UNCHANGED <<scenario, client, pushing, inq, down, closer>>

-----------------------------------------------------------------------------
\* What goes on by itself once it can.
Progress ==
  \/ ClientReceives \/ ClientDisconnected
  \/ PushChecks \/ PushSelects \/ CloseIn \/ CloseOut \/ CloseReturns
  \/ \E p \in Producers : EnqueueChecks(p) \/ EnqueueSelects(p)
  \/ ReaderTakes \/ ReaderEnds \/ Handle \/ SendAcknowledged
  \/ WriterTakes \/ WriterRechecks \/ WriterStops \/ Write \/ WriteFails
  \/ PingerEnds \/ DeadlinePasses

\* The guards of these actions: someone can go on.
CanProgress ==
  \/ Free /\ down # << >>
  \/ ws /\ Free /\ client.open /\ srv.conn = "closed" /\ down = << >>
  \/ pushing # None /\ (pushing.at = "check" \/ Len(inq) < ChanSize \/ srv.fsDone)
  \/ closer \in {"deleted", "in"} \/ (closer = "out" /\ WriterDone)
  \/ \E p \in Producers : srv.slot[p] # None /\ (srv.slot[p].at = "check" \/ Select(p) # {})
  \/ AtRead /\ \/ inq # << >> /\ srv.conn = "up"
               \/ ws /\ (srv.conn # "up" \/ ~client.open)
               \/ srv.fsDone
  \/ srv.reader = "handling"
  \/ srv.acks # << >> /\ srv.slot["dc"] = None
  \/ srv.writer = "idle" /\ (srv.ch # << >> \/ srv.done)
  \/ srv.writer = "recheck"
  \/ srv.writer = "writing" /\ (CanWrite \/ (ws /\ (srv.conn = "closed" \/ ~client.open)))
  \/ srv.pinger /\ \/ srv.done \/ srv.conn = "closed"
                   \/ srv.writer = "writing" /\ Len(down) >= NetSize
  \/ ws /\ srv.conn = "up" /\ NoPong
Quiet == ~CanProgress

Next == Progress \/ Request \/ RequestTimesOut \/ ClientCloses \/ Stall \/ Event
        \/ Subscribe \/ Listen \/ Dispose

Spec == Init /\ [][Next]_vars

-----------------------------------------------------------------------------
\* When PionBridgeClose has returned the session's callback is not invoked
\* again, so the client may release it (FrameSession.Close waits for the
\* writer, which looks at cw.done once more before it delivers).
NothingAfterClose == closer = "returned" => srv.writer # "writing"

\* The requests that processFrame answers.
AtOnce(k) == scenario.script[k] \in {"sync", "panic", "malformed"}

\* The answers to synchronous requests come back in the order of the requests
\* and none is missing before one that came, whatever the channels' room and
\* whatever other goroutines enqueue (enqueue never drops while the session is
\* up; one writer).
AnswersInOrder ==
  LET n(k) == client.seen[k].n
      answers == {k \in DOMAIN client.seen : client.seen[k].type # "event" /\ AtOnce(n(k))}
  IN  /\ \A j, k \in answers : j < k => n(j) < n(k)
      /\ \A k \in answers : \A m \in 1..n(k) : AtOnce(m) => \E j \in answers : n(j) = m

\* The events of a handle arrive in the order they were sent, and its listener
\* gets them in that order, each once and no other, however late the resource
\* is constructed and listened to; none is missing unless more than
\* MaxBuffered came (EventDispatcher, BufferedBroadcast).
EventsInOrder ==
  LET n(k) == client.seen[k].n
      events == {k \in DOMAIN client.seen : client.seen[k].type = "event"}
      all == {n(k) : k \in events}
      kept == client.got \o client.kept \o client.buffered
      have == {kept[k] : k \in DOMAIN kept}
  IN  /\ \A j, k \in events : j < k => n(j) < n(k)
      /\ \A j, k \in DOMAIN kept : j < k => kept[j] < kept[k]
      /\ have \subseteq all
      /\ client.handle # "disposed" /\ Cardinality(all) <= MaxBuffered => all \subseteq have

\* While the session is up every request is answered in the end, except one
\* whose handler panicked or whose frame did not decode: those answers carry
\* id 0, and the request waits for its timeout (processFrame).
OnlyPanicsUnanswered ==
  Quiet /\ client.open /\ Awake =>
    \A id \in client.pending : scenario.script[id] \in {"panic", "malformed"}

\* No call into the library waits for ever, although the isolate that makes it
\* is also the one that takes the frames: the writer never waits for the
\* isolate (PionBridgeSend, PionBridgeClose).
CallsReturn == Quiet => pushing = None /\ closer \in {"no", "returned"}

\* After the end of a session no goroutine of it is left, not even a producer
\* that was waiting for room, and no request waits: closing cw.done releases
\* them all, and a writer that fails closes it (connWriter).
NobodyLeftBehind ==
  Quiet /\ ~client.open =>
    /\ srv.reader = "gone" /\ srv.writer = "gone" /\ ~srv.pinger
    /\ \A p \in Producers : srv.slot[p] = None
    /\ client.pending = {}

\* A client that stands still is disconnected by the read deadline, unless the
\* read loop is not reading: it waits for room in cw.ch, and the writer for the
\* client, since its writes have no deadline.
StalledClientIsDropped ==
  Quiet /\ ws /\ ~Awake =>
    \/ srv.conn = "closed"
    \/ srv.slot["reader"] # None /\ Len(srv.ch) = ChanSize /\ srv.writer = "writing"
=============================================================================
