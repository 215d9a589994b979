---------------------------- MODULE SessionSteps ----------------------------
(***************************************************************************)
(* What each step of a session does, as the proofs about it need to know,  *)
(* its types, and the first of its properties: a closed session is silent. *)
(***************************************************************************)
EXTENDS Session, Integers, TLAPS

Fields == {"reader", "frame", "acks", "events", "slot", "ch", "done", "fsDone",
           "writer", "held", "pinger", "conn"}

(***************************************************************************)
(* That no write is going on is not preserved by itself: an idle writer    *)
(* may take a frame.  Close returns only when the writer is gone, and a    *)
(* writer that is gone takes nothing.                                      *)
(***************************************************************************)
Silent ==
  /\ DOMAIN srv = Fields
  /\ closer = "returned" => srv.writer = "gone"

\* A new session's writer is idle and nobody is closing it.
LEMMA SilentInit == Init => Silent
  BY Zenon DEF Init, Silent, NewSession, Fields

\* No step brings a writer back.
LEMMA SilentNext == Silent /\ [Next]_vars => Silent'
  <1> SUFFICES ASSUME Silent, [Next]_vars PROVE Silent'
    BY Zenon
  <1> USE DEF Silent, Fields
  <1>1. ASSUME UNCHANGED <<srv, closer>> PROVE Silent'
    BY <1>1, Zenon
  <1>2. CASE ClientReceives \/ ClientDisconnected \/ PushChecks \/ PushSelects \/ Request
             \/ RequestTimesOut \/ Stall \/ Subscribe \/ Listen \/ Dispose \/ UNCHANGED vars
    BY <1>1, <1>2, Zenon DEF ClientReceives, ClientDisconnected, PushChecks, PushSelects, Request,
       RequestTimesOut, Stall, Subscribe, Listen, Dispose, vars
  <1>3. CASE ClientCloses \/ CloseIn \/ CloseOut \/ CloseReturns
    BY <1>3, Zenon DEF ClientCloses, CloseIn, CloseOut, CloseReturns, WriterDone
  <1>4. ASSUME NEW p \in Producers, EnqueueChecks(p) \/ EnqueueSelects(p) PROVE Silent'
    BY <1>4, Zenon DEF EnqueueChecks, EnqueueSelects
  <1>5. CASE ReaderTakes \/ ReaderEnds \/ SendAcknowledged \/ Event
    BY <1>5, Zenon DEF ReaderTakes, ReaderEnds, SendAcknowledged, Event
  <1>6. CASE Handle
    BY <1>6, Zenon DEF Handle, processFrame
  <1>7. CASE WriterTakes \/ WriterRechecks \/ WriterStops \/ Write \/ WriteFails
    BY <1>7, Zenon DEF WriterTakes, WriterRechecks, WriterStops, Write, WriteFails, writerFailed
  <1>8. CASE PingerEnds \/ DeadlinePasses
    BY <1>8, Zenon DEF PingerEnds, DeadlinePasses
  <1> QED  BY <1>2, <1>3, <1>4, <1>5, <1>6, <1>7, <1>8 DEF Next, Progress

(***************************************************************************)
(* FrameSession.Close: once it has returned, no frame is delivered, for    *)
(* every script of the client and every size of the channels, whichever    *)
(* producers are still enqueueing.                                         *)
(***************************************************************************)
THEOREM ClosedIsSilent == Spec => []NothingAfterClose
  <1>1. Silent => NothingAfterClose
    BY Zenon DEF Silent, NothingAfterClose
  <1> QED  BY <1>1, SilentInit, SilentNext, PTL DEF Spec
-----------------------------------------------------------------------------
(* Types.                                                                  *)

ClientFields == {"open", "next", "pending", "seen", "stall", "handle", "buffered", "kept",
                 "listening", "got"}

\* The frames of the script, those that processFrame answers, and the rest.
Asked == {f \in Frames : f.n \in 1 .. Len(scenario.script) /\ f.kind = scenario.script[f.n]}
Prompt == {f \in Asked : AtOnce(f.n)}
Deferred == {f \in Asked : ~AtOnce(f.n)}

\* What goes down: answers of processFrame, events, and late acknowledgements.
Events == {r \in Responses : r.type = "event"}
Answers == {r \in Responses : r.type # "event" /\ AtOnce(r.n)}
Others == {r \in Responses : r.type # "event" /\ ~AtOnce(r.n)}
Emits(p) == CASE p = "reader" -> Answers [] p = "event" -> Events [] p = "dc" -> Others

Busy == srv.writer \in {"recheck", "writing"}

ClientOK ==
  /\ DOMAIN client = ClientFields
  /\ client.next \in Nat /\ client.next > 0
  /\ client.seen \in Seq(Responses)
  /\ client.handle \in {"unknown", "subscribed", "disposed"}
  /\ client.got \in Seq(Nat) /\ client.kept \in Seq(Nat) /\ client.buffered \in Seq(Nat)
ServerOK ==
  /\ DOMAIN srv = Fields
  /\ srv.events \in Nat
  /\ srv.acks \in Seq(Deferred)
  /\ srv.ch \in Seq(Responses)
  /\ Busy => srv.held \in Responses
  /\ srv.reader = "handling" => srv.frame \in Asked
  /\ DOMAIN srv.slot = Producers
  /\ \A p \in Producers : srv.slot[p] # None =>
       srv.slot[p] \in [frame : Emits(p), at : {"check", "select"}]
  /\ srv.reader # "idle" => srv.slot["reader"] = None
SessionOK ==
  /\ scenario \in Scenarios
  /\ ClientOK /\ ServerOK
  /\ inq \in Seq(Asked)
  /\ pushing # None => pushing \in [frame : Asked, at : {"check", "select"}]
  /\ down \in Seq(Responses)

-----------------------------------------------------------------------------
(* What each step does to the server.                                      *)

\* The fields outside F stay as they are.
Unless(F) == DOMAIN srv' = Fields /\ \A f \in Fields \ F : srv'[f] = srv[f]

\* The script is fixed.
LEMMA SameScript ==
  ASSUME [Next]_vars
  PROVE  scenario' = scenario
  BY Zenon DEF Next, Progress, ClientReceives, ClientDisconnected, PushChecks, PushSelects, CloseIn,
     CloseOut, CloseReturns, EnqueueChecks, EnqueueSelects, ReaderTakes, ReaderEnds, Handle,
     SendAcknowledged, WriterTakes, WriterRechecks, WriterStops, Write, WriteFails, PingerEnds,
     DeadlinePasses, Request, RequestTimesOut, ClientCloses, Stall, Event, Subscribe, Listen,
     Dispose, vars

\* The kinds of frames are therefore fixed, too.
LEMMA SameKinds ==
  ASSUME [Next]_vars
  PROVE  /\ Asked' = Asked /\ Prompt' = Prompt /\ Deferred' = Deferred
         /\ Answers' = Answers /\ Others' = Others
         /\ \A p : Emits(p)' = Emits(p)
         /\ \A k : AtOnce(k)' = AtOnce(k)
  BY SameScript, Zenon DEF Asked, Prompt, Deferred, Answers, Others, Emits, AtOnce

\* The producers, each by itself.
LEMMA EnqueueEffect ==
  ASSUME DOMAIN srv = Fields, DOMAIN srv.slot = Producers, NEW p \in Producers
  PROVE  /\ EnqueueChecks(p) =>
              /\ Unless({"slot"}) /\ DOMAIN srv'.slot = Producers
              /\ \A q \in Producers \ {p} : srv'.slot[q] = srv.slot[q]
              /\ srv.slot[p] # None
              /\ srv'.slot[p] = IF srv.done THEN None ELSE [srv.slot[p] EXCEPT !.at = "select"]
         /\ EnqueueSelects(p) =>
              /\ Unless({"slot", "ch"}) /\ DOMAIN srv'.slot = Producers
              /\ \A q \in Producers \ {p} : srv'.slot[q] = srv.slot[q]
              /\ srv.slot[p] # None /\ srv'.slot[p] = None
              /\ srv'.ch = Append(srv.ch, srv.slot[p].frame) \/ (srv.done /\ srv'.ch = srv.ch)
  <1> USE DEF Unless, Fields
  <1>1. ASSUME EnqueueChecks(p)
        PROVE  /\ Unless({"slot"}) /\ DOMAIN srv'.slot = Producers
               /\ \A q \in Producers \ {p} : srv'.slot[q] = srv.slot[q]
               /\ srv'.slot[p] = IF srv.done THEN None ELSE [srv.slot[p] EXCEPT !.at = "select"]
    BY <1>1, Zenon DEF EnqueueChecks
  <1>2. ASSUME EnqueueSelects(p)
        PROVE  /\ Unless({"slot", "ch"}) /\ DOMAIN srv'.slot = Producers
               /\ \A q \in Producers \ {p} : srv'.slot[q] = srv.slot[q]
               /\ srv'.slot[p] = None
               /\ srv'.ch = Append(srv.ch, srv.slot[p].frame) \/ (srv.done /\ srv'.ch = srv.ch)
    <2>1. PICK c \in Select(p) : srv' = [srv EXCEPT !.ch = c, !.slot[p] = None]
      BY <1>2, Zenon DEF EnqueueSelects
    <2>2. c = Append(srv.ch, srv.slot[p].frame) \/ (srv.done /\ c = srv.ch)
      BY Zenon DEF Select
    <2>3. Unless({"slot", "ch"}) /\ srv'.ch = c
      BY <2>1, Zenon
    <2>4. srv'.slot = [srv.slot EXCEPT ![p] = None]
      BY <2>1, Zenon
    <2> QED  BY <2>2, <2>3, <2>4, Zenon
  <1> QED  BY <1>1, <1>2, Zenon DEF EnqueueChecks, EnqueueSelects

\* The read loop takes a frame, and processFrame passes it on.
LEMMA ReaderEffect ==
  ASSUME DOMAIN srv = Fields, DOMAIN srv.slot = Producers
  PROVE  /\ ReaderTakes =>
              /\ Unless({"reader", "frame"})
              /\ srv'.reader = "handling" /\ srv'.frame = Head(inq)
         /\ ReaderEnds => Unless({"reader", "done", "conn"}) /\ srv'.reader = "gone"
         /\ Handle /\ srv.frame.kind \in {"async", "notify"} =>
              /\ Unless({"reader", "frame", "acks"})
              /\ srv'.reader = "idle" /\ srv'.acks = Append(srv.acks, srv.frame)
         /\ Handle /\ srv.frame.kind \notin {"async", "notify"} =>
              /\ Unless({"reader", "frame", "slot"}) /\ DOMAIN srv'.slot = Producers
              /\ \A q \in Producers \ {"reader"} : srv'.slot[q] = srv.slot[q]
              /\ srv'.reader = "idle" /\ srv'.slot["reader"] = Response(srv.frame)
  <1> USE DEF Unless, Fields
  <1>1. ASSUME ReaderTakes
        PROVE  Unless({"reader", "frame"}) /\ srv'.reader = "handling" /\ srv'.frame = Head(inq)
    BY <1>1, Zenon DEF ReaderTakes
  <1>2. ASSUME ReaderEnds PROVE Unless({"reader", "done", "conn"}) /\ srv'.reader = "gone"
    BY <1>2, Zenon DEF ReaderEnds
  <1>3. ASSUME Handle, srv.frame.kind \in {"async", "notify"}
        PROVE  /\ Unless({"reader", "frame", "acks"})
               /\ srv'.reader = "idle" /\ srv'.acks = Append(srv.acks, srv.frame)
    BY <1>3, Zenon DEF Handle, processFrame
  <1>4. ASSUME Handle, srv.frame.kind \notin {"async", "notify"}
        PROVE  /\ Unless({"reader", "frame", "slot"}) /\ DOMAIN srv'.slot = Producers
               /\ \A q \in Producers \ {"reader"} : srv'.slot[q] = srv.slot[q]
               /\ srv'.reader = "idle" /\ srv'.slot["reader"] = Response(srv.frame)
    <2>1. "reader" \in Producers
      BY Zenon DEF Producers
    <2> QED  BY <1>4, <2>1, Zenon DEF Handle, processFrame
  <1> QED  BY <1>1, <1>2, <1>3, <1>4, Zenon

\* The send goroutine and pion's callbacks have something to enqueue.
LEMMA ProducerEffect ==
  ASSUME DOMAIN srv = Fields, DOMAIN srv.slot = Producers
  PROVE  /\ SendAcknowledged =>
              /\ Unless({"acks", "slot"}) /\ DOMAIN srv'.slot = Producers
              /\ \A q \in Producers \ {"dc"} : srv'.slot[q] = srv.slot[q]
              /\ srv.acks # << >> /\ srv'.acks = Tail(srv.acks)
              /\ srv'.slot["dc"] = Answer(Head(srv.acks), Head(srv.acks).id, "ack")
         /\ Event =>
              /\ Unless({"events", "slot"}) /\ DOMAIN srv'.slot = Producers
              /\ \A q \in Producers \ {"event"} : srv'.slot[q] = srv.slot[q]
              /\ srv.slot["event"] = None /\ srv'.events = srv.events + 1
              /\ srv'.slot["event"] = Answer([n |-> srv.events + 1], 0, "event")
  <1> USE DEF Unless, Fields
  <1>0. "dc" \in Producers /\ "event" \in Producers
    BY Zenon DEF Producers
  <1>1. ASSUME SendAcknowledged
        PROVE  /\ Unless({"acks", "slot"}) /\ DOMAIN srv'.slot = Producers
               /\ \A q \in Producers \ {"dc"} : srv'.slot[q] = srv.slot[q]
               /\ srv.acks # << >> /\ srv'.acks = Tail(srv.acks)
               /\ srv'.slot["dc"] = Answer(Head(srv.acks), Head(srv.acks).id, "ack")
    BY <1>0, <1>1, Zenon DEF SendAcknowledged
  <1>2. ASSUME Event
        PROVE  /\ Unless({"events", "slot"}) /\ DOMAIN srv'.slot = Producers
               /\ \A q \in Producers \ {"event"} : srv'.slot[q] = srv.slot[q]
               /\ srv.slot["event"] = None /\ srv'.events = srv.events + 1
               /\ srv'.slot["event"] = Answer([n |-> srv.events + 1], 0, "event")
    BY <1>0, <1>2, Zenon DEF Event
  <1> QED  BY <1>1, <1>2, Zenon

\* The writer takes a frame, delivers it, or ends.
LEMMA WriterEffect ==
  ASSUME DOMAIN srv = Fields
  PROVE  /\ WriterTakes =>
              /\ Unless({"writer", "held", "ch"}) /\ srv.ch # << >>
              /\ ~Busy /\ srv.writer # "gone" /\ Busy' /\ srv'.writer # "gone"
              /\ srv'.held = Head(srv.ch) /\ srv'.ch = Tail(srv.ch)
         /\ Write =>
              /\ Unless({"writer", "held"}) /\ Busy /\ srv.writer # "gone"
              /\ ~Busy' /\ srv'.writer = "idle" /\ down' = Append(down, srv.held)
         /\ WriterRechecks =>
              /\ Unless({"writer"}) /\ Busy /\ srv.writer # "gone"
              /\ srv'.writer = "gone" \/ Busy'
         /\ WriterStops \/ WriteFails =>
              Unless({"writer", "conn", "done"}) /\ srv'.writer = "gone"
  <1> USE DEF Unless, Fields, Busy
  <1>1. ASSUME WriterTakes
        PROVE  /\ Unless({"writer", "held", "ch"}) /\ srv.ch # << >>
               /\ ~Busy /\ srv.writer # "gone" /\ Busy' /\ srv'.writer # "gone"
               /\ srv'.held = Head(srv.ch) /\ srv'.ch = Tail(srv.ch)
    BY <1>1, Zenon DEF WriterTakes
  <1>2. ASSUME Write
        PROVE  /\ Unless({"writer", "held"}) /\ Busy /\ srv.writer # "gone"
               /\ ~Busy' /\ srv'.writer = "idle" /\ down' = Append(down, srv.held)
    BY <1>2, Zenon DEF Write
  <1>3. ASSUME WriterRechecks
        PROVE  /\ Unless({"writer"}) /\ Busy /\ srv.writer # "gone"
               /\ srv'.writer = "gone" \/ Busy'
    BY <1>3, Zenon DEF WriterRechecks
  <1>4. ASSUME WriterStops PROVE Unless({"writer", "conn", "done"}) /\ srv'.writer = "gone"
    BY <1>4, Zenon DEF WriterStops
  <1>5. ASSUME WriteFails PROVE Unless({"writer", "conn", "done"}) /\ srv'.writer = "gone"
    BY <1>5, Zenon DEF WriteFails, writerFailed
  <1> QED  BY <1>1, <1>2, <1>3, <1>4, <1>5, Zenon

-----------------------------------------------------------------------------
(* What each step does to the client.                                      *)

Retains(F) == DOMAIN client' = ClientFields /\ \A f \in ClientFields \ F : client'[f] = client[f]
Mailbox == {"handle", "buffered", "kept", "listening", "got"}

\* Broadcasting and replaying concern the handle's events alone.
LEMMA MailboxOnly ==
  ASSUME NEW c, DOMAIN c = ClientFields, NEW x,
         c.handle \in {"unknown", "subscribed", "disposed"}
  PROVE  /\ DOMAIN broadcast(c, x) = ClientFields
         /\ \A f \in ClientFields \ Mailbox : broadcast(c, x)[f] = c[f]
         /\ DOMAIN listen(c) = ClientFields
         /\ \A f \in ClientFields \ Mailbox : listen(c)[f] = c[f]
  <1> USE DEF ClientFields, Mailbox
  <1>1. DOMAIN add(c, x) = ClientFields /\ \A f \in ClientFields \ Mailbox : add(c, x)[f] = c[f]
    BY Zenon DEF add
  <1>2. DOMAIN broadcast(c, x) = ClientFields
        /\ \A f \in ClientFields \ Mailbox : broadcast(c, x)[f] = c[f]
    <2>1. broadcast(c, x) \in {add(c, x), [c EXCEPT !.buffered = Append(@, x)], c}
      BY Zenon DEF broadcast
    <2> QED  BY <1>1, <2>1, Zenon
  <1>3. PICK d : d = [c EXCEPT !.handle = "subscribed", !.buffered = << >>]
    BY Zenon
  <1>4. DOMAIN d = ClientFields /\ \A f \in ClientFields \ Mailbox : d[f] = c[f]
    BY <1>3, Zenon
  <1>5. listen(c) = addAll(d, c.buffered)
    BY <1>3, Zenon DEF listen
  <1>6. DOMAIN listen(c) = ClientFields /\ \A f \in ClientFields \ Mailbox : listen(c)[f] = c[f]
    BY <1>4, <1>5, Zenon DEF addAll
  <1> QED  BY <1>2, <1>6, Zenon

\* Event x is broadcast, while other fields may change.
Broadcasts(x) ==
  \E d :
    /\ DOMAIN d = ClientFields
    /\ \A f \in Mailbox : d[f] = client[f]
    /\ client' = broadcast(d, x)

\* A frame arrives: an open client takes note of it, and broadcasts an event.
LEMMA ReceiveEffect ==
  ASSUME DOMAIN client = ClientFields, ClientReceives,
         client.handle \in {"unknown", "subscribed", "disposed"}
  PROVE  /\ Retains(Mailbox \cup {"pending", "seen"})
         /\ client'.seen = IF client.open THEN Append(client.seen, Head(down)) ELSE client.seen
         /\ ~client.open \/ Head(down).type # "event" => Retains({"pending", "seen"})
         /\ client.open /\ Head(down).type = "event" => Broadcasts(Head(down).n)
  <1> USE DEF ClientFields, Mailbox, Retains
  <1>0. PICK r : r = Head(down)
    BY Zenon
  <1>1. client' = handleFrame(client, r)
    BY <1>0, Zenon DEF ClientReceives
  <1>2. PICK d : d = [client EXCEPT !.pending = @ \ {r.id}, !.seen = Append(@, r)]
    BY Zenon
  <1>3. /\ DOMAIN d = ClientFields /\ d.seen = Append(client.seen, r)
        /\ \A f \in ClientFields \ {"pending", "seen"} : d[f] = client[f]
    BY <1>2, Zenon
  <1>4. client' = IF ~client.open THEN client
                  ELSE IF r.type = "event" THEN broadcast(d, r.n) ELSE d
    BY <1>1, <1>2, Zenon DEF handleFrame
  <1>5. CASE ~client.open
    BY <1>0, <1>4, <1>5, Zenon
  <1>6. CASE client.open /\ r.type # "event"
    BY <1>0, <1>3, <1>4, <1>6, Zenon
  <1>7. CASE client.open /\ r.type = "event"
    <2>1. client' = broadcast(d, r.n)
      BY <1>4, <1>7, Zenon
    <2>2. d.handle \in {"unknown", "subscribed", "disposed"}
      BY <1>3, Zenon
    <2>3. \A f \in Mailbox : d[f] = client[f]
      BY <1>3, Zenon
    <2>4. "seen" \in ClientFields \ Mailbox /\ Mailbox \subseteq ClientFields
      BY Zenon
    <2> HIDE DEF ClientFields, Mailbox
    <2>5. /\ DOMAIN client' = ClientFields
          /\ \A f \in ClientFields \ Mailbox : client'[f] = d[f]
      <3>1. DOMAIN d = ClientFields
        BY <1>3, Zenon
      <3>2. /\ DOMAIN broadcast(d, r.n) = ClientFields
            /\ \A f \in ClientFields \ Mailbox : broadcast(d, r.n)[f] = d[f]
        BY <2>2, <3>1, MailboxOnly
      <3> QED  BY <2>1, <3>2, Zenon
    <2>6. Retains(Mailbox \cup {"pending", "seen"})
      BY <1>3, <2>4, <2>5, Zenon
    <2>7. client'.seen = Append(client.seen, r)
      BY <1>3, <2>4, <2>5, Zenon
    <2>8. Broadcasts(r.n)
      BY <1>3, <2>1, <2>3, Zenon DEF Broadcasts
    <2> QED  BY <1>0, <1>7, <2>6, <2>7, <2>8, Zenon
  <1> QED  BY <1>5, <1>6, <1>7, Zenon

\* What the application does, and the end of the connection.
LEMMA ClientEffect ==
  ASSUME DOMAIN client = ClientFields, client.handle \in {"unknown", "subscribed", "disposed"}
  PROVE  /\ Request => Retains({"next", "pending"}) /\ client'.next = client.next + 1
         /\ RequestTimesOut => Retains({"pending"})
         /\ Stall => Retains({"stall"})
         /\ ClientDisconnected \/ ClientCloses => Retains({"open", "pending"}) /\ ~client'.open
         /\ Subscribe \/ Listen \/ Dispose => Retains(Mailbox)
  <1> USE DEF ClientFields, Mailbox, Retains
  <1>1. ASSUME Request PROVE Retains({"next", "pending"}) /\ client'.next = client.next + 1
    BY <1>1, Zenon DEF Request
  <1>2. ASSUME RequestTimesOut PROVE Retains({"pending"})
    BY <1>2, Zenon DEF RequestTimesOut
  <1>3. ASSUME Stall PROVE Retains({"stall"})
    BY <1>3, Zenon DEF Stall
  <1>4. ASSUME ClientDisconnected \/ ClientCloses
        PROVE  Retains({"open", "pending"}) /\ ~client'.open
    BY <1>4, Zenon DEF ClientDisconnected, ClientCloses, failPending
  <1>5. ASSUME Subscribe PROVE Retains(Mailbox)
    BY <1>5, MailboxOnly, Zenon DEF Subscribe
  <1>6. ASSUME Listen \/ Dispose PROVE Retains(Mailbox)
    BY <1>6, Zenon DEF Listen, Dispose
  <1> QED  BY <1>1, <1>2, <1>3, <1>4, <1>5, <1>6, Zenon

-----------------------------------------------------------------------------
(* Types.                                                                  *)

\* What processFrame and the other producers make of what they have.
LEMMA MadeOf ==
  /\ \A f \in Asked : f.kind \in {"async", "notify"} => f \in Deferred
  /\ \A f \in Asked : f.kind \notin {"async", "notify"} =>
       /\ f \in Prompt /\ Response(f) \in [frame : Answers, at : {"check", "select"}]
       /\ Response(f).frame.n = f.n
  /\ \A f \in Deferred : Answer(f, f.id, "ack") \in [frame : Others, at : {"check", "select"}]
  /\ \A k \in Nat : /\ Answer([n |-> k], 0, "event") \in [frame : Events, at : {"check", "select"}]
                     /\ Answer([n |-> k], 0, "event").frame.n = k
  <1>1. ASSUME NEW f \in Asked
        PROVE  /\ f.n \in Nat /\ f.id \in Nat /\ f.kind \in Kinds
               /\ AtOnce(f.n) <=> f.kind \in {"sync", "panic", "malformed"}
    BY Zenon DEF Asked, Frames, AtOnce
  <1>2. ASSUME NEW f \in Asked, f.kind \in {"async", "notify"} PROVE f \in Deferred
    BY <1>1, <1>2, Zenon DEF Deferred
  <1>3. ASSUME NEW f \in Asked, f.kind \notin {"async", "notify"}
        PROVE  /\ f \in Prompt /\ Response(f) \in [frame : Answers, at : {"check", "select"}]
               /\ Response(f).frame.n = f.n
    <2>1. AtOnce(f.n) /\ f.n \in Nat /\ f.id \in Nat
      BY <1>1, <1>3, Zenon DEF Kinds
    <2>2. \E id \in Nat, type \in {"ack", "error"} : Response(f) = Answer(f, id, type)
      BY <2>1 DEF Response
    <2>3. PICK id \in Nat, type \in {"ack", "error"} : Response(f) = Answer(f, id, type)
      BY <2>2, Zenon
    <2>4. [n |-> f.n, id |-> id, type |-> type] \in Answers
      BY <2>1 DEF Answers, Responses
    <2>5. Response(f) = [frame |-> [n |-> f.n, id |-> id, type |-> type], at |-> "check"]
      BY <2>3, Zenon DEF Answer
    <2>6. Response(f).frame.n = f.n
      BY <2>5
    <2>7. Response(f) \in [frame : Answers, at : {"check", "select"}]
      BY <2>4, <2>5
    <2> QED  BY <2>1, <2>6, <2>7, Zenon DEF Prompt
  <1>4. ASSUME NEW f \in Deferred
        PROVE  Answer(f, f.id, "ack") \in [frame : Others, at : {"check", "select"}]
    <2>1. f \in Asked /\ ~AtOnce(f.n)
      BY Zenon DEF Deferred
    <2>2. f.n \in Nat /\ f.id \in Nat
      BY <1>1, <2>1, Zenon
    <2>3. [n |-> f.n, id |-> f.id, type |-> "ack"] \in Others
      BY <2>1, <2>2 DEF Others, Responses
    <2> QED  BY <2>3, Zenon DEF Answer
  <1>5. ASSUME NEW k \in Nat
        PROVE  /\ Answer([n |-> k], 0, "event") \in [frame : Events, at : {"check", "select"}]
               /\ Answer([n |-> k], 0, "event").frame.n = k
    <2>1. [n |-> k, id |-> 0, type |-> "event"] \in Events
      BY DEF Events, Responses
    <2>2. Answer([n |-> k], 0, "event") = [frame |-> [n |-> k, id |-> 0, type |-> "event"], at |-> "check"]
      BY DEF Answer
    <2> QED  BY <2>1, <2>2
  <1> QED  BY <1>2, <1>3, <1>4, <1>5, Zenon

\* The client's frame is one of the script.
LEMMA FrameIsAsked ==
  ASSUME SessionOK, Request
  PROVE  Frame \in Asked /\ Frame.n = client.next /\ (Frame \in Prompt <=> AtOnce(client.next))
  <1>1. client.next \in Nat /\ client.next > 0 /\ client.next <= Len(scenario.script)
    BY Zenon DEF SessionOK, ClientOK, Request
  <1>2. scenario.script \in Seq(Kinds)
    BY ScenariosAssumption, Zenon DEF SessionOK
  <1>3. client.next \in 1 .. Len(scenario.script) /\ scenario.script[client.next] \in Kinds
    BY <1>1, <1>2
  <1>4. /\ Frame = [n |-> client.next, id |-> IF Kind = "notify" THEN 0 ELSE client.next, kind |-> Kind]
        /\ Kind = scenario.script[client.next]
    BY Zenon DEF Frame, Kind
  <1>5. Frame \in Frames
    BY <1>1, <1>3, <1>4 DEF Frames
  <1>6. Frame.n = client.next /\ Frame.kind = Kind
    BY <1>4, Zenon
  <1> QED  BY <1>3, <1>4, <1>5, <1>6, Zenon DEF Asked, Prompt

\* All is typed at the start.
LEMMA SessionInit == Init => SessionOK
  <1> SUFFICES ASSUME Init PROVE SessionOK
    BY Zenon
  <1>1. ClientOK
    BY DEF Init, ClientOK, ClientFields
  <1>2. ServerOK
    BY DEF Init, NewSession, ServerOK, Fields, Busy, Producers
  <1> QED  BY <1>1, <1>2 DEF Init, SessionOK

\* The types of what the handle's mailbox holds.
MailOK(c) ==
  /\ DOMAIN c = ClientFields
  /\ c.handle \in {"unknown", "subscribed", "disposed"}
  /\ c.got \in Seq(Nat) /\ c.kept \in Seq(Nat) /\ c.buffered \in Seq(Nat)

\* The handle's events stay numbers, whether one arrives or a listener is added
\* (BufferedBroadcast).
LEMMA MailTypes ==
  ASSUME NEW c, MailOK(c), NEW x \in Nat
  PROVE  MailOK(broadcast(c, x)) /\ MailOK(listen(c))
  <1> USE DEF MailOK
  <1>1. MaxBuffered \in Nat
    BY SizeAssumption
  <1>2. ASSUME NEW s \in Seq(Nat) PROVE Append(s, x) \in Seq(Nat)
    OBVIOUS
  <1>3. MailOK(add(c, x))
    BY <1>2, Zenon DEF add, ClientFields
  <1>4. MailOK(broadcast(c, x))
    <2>1. CASE c.handle = "unknown"
      <3>1. MailOK([c EXCEPT !.buffered = Append(@, x)])
        BY <1>2, Zenon DEF ClientFields
      <3>2. broadcast(c, x) \in {[c EXCEPT !.buffered = Append(@, x)], c}
        BY <2>1, Zenon DEF broadcast
      <3> QED  BY <3>1, <3>2, Zenon
    <2>2. CASE c.handle # "unknown"
      <3>1. broadcast(c, x) \in {add(c, x), c}
        BY <2>2, Zenon DEF broadcast
      <3> QED  BY <1>3, <3>1, Zenon
    <2> QED  BY <2>1, <2>2, Zenon
  <1>5. PICK d : d = [c EXCEPT !.handle = "subscribed", !.buffered = << >>]
    BY Zenon
  <1>6. << >> \in Seq(Nat)
    OBVIOUS
  <1>7. MailOK(d) /\ listen(c) = addAll(d, c.buffered)
    BY <1>5, <1>6, Zenon DEF listen, ClientFields
  <1>8. PICK q : q = Fitting(Len(d.kept), c.buffered)
    BY Zenon
  <1>9. q \in Seq(Nat)
    <2>1. Len(d.kept) \in Nat /\ Len(c.buffered) \in Nat
      BY <1>7
    <2>2. PICK m : m = MaxBuffered - Len(d.kept)
      BY Zenon
    <2>3. CASE Len(d.kept) + Len(c.buffered) <= MaxBuffered
      BY <1>8, <2>3 DEF Fitting
    <2>4. CASE ~(Len(d.kept) + Len(c.buffered) <= MaxBuffered)
      <3>1. \A a, b \in Nat : ~(a + b <= MaxBuffered) => MaxBuffered - a \in Int /\ MaxBuffered - a < b
        BY <1>1
      <3>2. m \in Int /\ m < Len(c.buffered)
        BY <2>1, <2>2, <2>4, <3>1, Zenon
      <3>3. q = SubSeq(c.buffered, 1, m)
        BY <1>8, <2>2, <2>4, Zenon DEF Fitting
      <3> QED  BY <2>1, <3>2, <3>3
    <2> QED  BY <2>3, <2>4, Zenon
  <1>10. d.got \o c.buffered \in Seq(Nat) /\ d.kept \o q \in Seq(Nat)
    BY <1>7, <1>9
  <1>11. MailOK(listen(c))
    <2>1. listen(c) = IF d.listening THEN [d EXCEPT !.got = @ \o c.buffered]
                      ELSE [d EXCEPT !.kept = @ \o q]
      BY <1>7, <1>8, Zenon DEF addAll
    <2>2. MailOK([d EXCEPT !.got = @ \o c.buffered])
      BY <1>7, <1>10, Zenon DEF ClientFields
    <2>3. MailOK([d EXCEPT !.kept = @ \o q])
      BY <1>7, <1>10, Zenon DEF ClientFields
    <2> QED  BY <2>1, <2>2, <2>3, Zenon
  <1> QED  BY <1>4, <1>11, Zenon

\* The steps that may change the client's record.
ClientStep ==
  \/ ClientReceives \/ ClientDisconnected \/ Request \/ RequestTimesOut \/ ClientCloses \/ Stall
  \/ Subscribe \/ Listen \/ Dispose

\* The steps of the server and of the calls leave the client alone.
LEMMA OtherSteps ==
  ASSUME [Next]_vars, ~ClientStep
  PROVE  client' = client
  BY Zenon DEF ClientStep, Next, Progress, PushChecks, PushSelects, CloseIn,
     CloseOut, CloseReturns, EnqueueChecks, EnqueueSelects, ReaderTakes, ReaderEnds, Handle,
     SendAcknowledged, WriterTakes, WriterRechecks, WriterStops, Write, WriteFails, PingerEnds,
     DeadlinePasses, Event, vars

\* The client keeps its types.
LEMMA ClientNext ==
  ASSUME SessionOK, [Next]_vars
  PROVE  ClientOK'
  <1>0. ClientOK /\ MailOK(client)
    BY Zenon DEF SessionOK, ClientOK, MailOK
  <1>1. ASSUME Retains(Mailbox), MailOK(client') PROVE ClientOK'
    <2>1. client'.next = client.next /\ client'.seen = client.seen
      BY <1>1, Zenon DEF Retains, ClientFields, Mailbox
    <2> QED  BY <1>0, <1>1, <2>1, Zenon DEF ClientOK, MailOK
  <1>2. ASSUME Retains({"open", "pending", "stall"}) PROVE ClientOK'
    BY <1>0, <1>2, Zenon DEF Retains, ClientOK, ClientFields
  <1>3. CASE Request
    <2>1. Retains({"next", "pending"}) /\ client'.next = client.next + 1
      BY <1>0, <1>3, ClientEffect, Zenon DEF ClientOK
    <2>2. client'.next \in Nat /\ client'.next > 0
      BY <1>0, <2>1 DEF ClientOK
    <2> QED  BY <1>0, <2>1, <2>2, Zenon DEF Retains, ClientOK, ClientFields
  <1>4. CASE RequestTimesOut \/ Stall \/ ClientDisconnected \/ ClientCloses
    <2>1. Retains({"pending"}) \/ Retains({"stall"}) \/ Retains({"open", "pending"})
      BY <1>0, <1>4, ClientEffect, Zenon DEF ClientOK
    <2> QED  BY <1>2, <2>1, Zenon DEF Retains
  <1>5. CASE Subscribe
    <2>1. client' = listen(client) /\ Retains(Mailbox)
      BY <1>0, <1>5, ClientEffect, Zenon DEF Subscribe, ClientOK
    <2>2. 0 \in Nat
      OBVIOUS
    <2> QED  BY <1>0, <1>1, <2>1, <2>2, MailTypes, Zenon
  <1>6. CASE Listen \/ Dispose
    <2>1. Retains(Mailbox)
      BY <1>0, <1>6, ClientEffect, Zenon DEF ClientOK
    <2>2. client.got \o client.kept \in Seq(Nat) /\ << >> \in Seq(Nat)
      BY <1>0 DEF ClientOK
    <2>3. MailOK(client')
      BY <1>0, <1>6, <2>2, Zenon DEF Listen, Dispose, MailOK, ClientFields
    <2> QED  BY <1>1, <2>1, <2>3, Zenon
  <1>7. CASE ClientReceives
    <2>1. down \in Seq(Responses) /\ down # << >>
      BY <1>7, Zenon DEF SessionOK, ClientReceives
    <2>2. PICK r : r = Head(down)
      BY Zenon
    <2>3. r \in Responses
      BY <2>1, <2>2
    <2>4. r.n \in Nat
      BY <2>3, Zenon DEF Responses
    <2>5. /\ Retains(Mailbox \cup {"pending", "seen"})
          /\ client'.seen = IF client.open THEN Append(client.seen, r) ELSE client.seen
      BY <1>0, <1>7, <2>2, ReceiveEffect, Zenon DEF ClientOK
    <2>6. client'.seen \in Seq(Responses)
      BY <1>0, <2>3, <2>5 DEF ClientOK
    <2>7. MailOK(client')
      <3>1. CASE ~client.open \/ r.type # "event"
        <4>1. Retains({"pending", "seen"})
          BY <1>0, <1>7, <2>2, <3>1, ReceiveEffect, Zenon DEF ClientOK
        <4> QED  BY <1>0, <4>1, Zenon DEF Retains, MailOK, ClientFields
      <3>2. CASE client.open /\ r.type = "event"
        <4>1. client.open /\ Head(down).type = "event"
          BY <2>2, <3>2, Zenon
        <4>2. Broadcasts(r.n)
          BY <1>0, <1>7, <2>2, <4>1, ReceiveEffect, Zenon DEF ClientOK
        <4>3. PICK d : /\ DOMAIN d = ClientFields
                       /\ \A f \in Mailbox : d[f] = client[f]
                       /\ client' = broadcast(d, r.n)
          BY <4>2 DEF Broadcasts
        <4>4. MailOK(d)
          BY <1>0, <4>3, Zenon DEF MailOK, Mailbox
        <4> QED  BY <2>4, <4>3, <4>4, MailTypes, Zenon
      <3> QED  BY <3>1, <3>2, Zenon
    <2>8. client'.next = client.next
      BY <2>5, Zenon DEF Retains, ClientFields, Mailbox
    <2> QED  BY <1>0, <2>6, <2>7, <2>8, Zenon DEF ClientOK, MailOK
  <1>8. CASE ~ClientStep
    BY <1>0, <1>8, OtherSteps, Zenon DEF ClientOK
  <1> QED  BY <1>3, <1>4, <1>5, <1>6, <1>7, <1>8, Zenon DEF ClientStep

\* The steps that may change the server's record.
ServerStep ==
  \/ CloseIn \/ CloseOut \/ \E p \in Producers : EnqueueChecks(p) \/ EnqueueSelects(p)
  \/ ReaderTakes \/ ReaderEnds \/ Handle \/ SendAcknowledged \/ Event
  \/ WriterTakes \/ WriterRechecks \/ WriterStops \/ Write \/ WriteFails
  \/ PingerEnds \/ DeadlinePasses

\* The steps of the client and of the calls leave the server alone.
LEMMA NotServer ==
  ASSUME [Next]_vars, ~ServerStep
  PROVE  srv' = srv
  BY Zenon DEF ServerStep, Next, Progress, ClientReceives, ClientDisconnected, PushChecks,
     PushSelects, CloseReturns, Request, RequestTimesOut, ClientCloses, Stall, Subscribe, Listen,
     Dispose, vars

\* The flags of a session.
LEMMA FlagEffect ==
  ASSUME DOMAIN srv = Fields, CloseIn \/ CloseOut \/ PingerEnds \/ DeadlinePasses
  PROVE  Unless({"fsDone", "done", "pinger", "conn"})
  BY Zenon DEF CloseIn, CloseOut, PingerEnds, DeadlinePasses, Unless, Fields

\* Only the client, its calls and the reader touch what is on its way up.
LEMMA UpSame ==
  ASSUME [Next]_vars, ~Request, ~PushChecks, ~PushSelects, ~ReaderTakes
  PROVE  inq' = inq /\ pushing' = pushing
  BY Zenon DEF Next, Progress, ClientReceives, ClientDisconnected, CloseIn,
     CloseOut, CloseReturns, EnqueueChecks, EnqueueSelects, ReaderEnds, Handle,
     SendAcknowledged, WriterTakes, WriterRechecks, WriterStops, Write, WriteFails, PingerEnds,
     DeadlinePasses, RequestTimesOut, ClientCloses, Stall, Event, Subscribe, Listen, Dispose, vars

\* Frames on their way up.
LEMMA UpwardNext ==
  ASSUME SessionOK, [Next]_vars
  PROVE  /\ inq' \in Seq(Asked)
         /\ pushing' # None => pushing' \in [frame : Asked, at : {"check", "select"}]
  <1>0. /\ inq \in Seq(Asked)
        /\ pushing # None => pushing \in [frame : Asked, at : {"check", "select"}]
    BY Zenon DEF SessionOK
  <1>1. CASE Request
    <2>1. Frame \in Asked
      BY <1>1, FrameIsAsked, Zenon
    <2>2. Append(inq, Frame) \in Seq(Asked)
      BY <1>0, <2>1
    <2>3. [frame |-> Frame, at |-> "check"] \in [frame : Asked, at : {"check", "select"}]
      BY <2>1
    <2> QED  BY <1>0, <1>1, <2>2, <2>3, Zenon DEF Request
  <1>2. CASE PushChecks
    <2>1. pushing \in [frame : Asked, at : {"check", "select"}]
      BY <1>0, <1>2, Zenon DEF PushChecks
    <2>2. [pushing EXCEPT !.at = "select"] \in [frame : Asked, at : {"check", "select"}]
      BY <2>1
    <2> QED  BY <1>0, <1>2, <2>2, Zenon DEF PushChecks
  <1>3. CASE PushSelects
    <2>1. pushing \in [frame : Asked, at : {"check", "select"}]
      BY <1>0, <1>3, Zenon DEF PushSelects
    <2>2. pushing.frame \in Asked
      BY <2>1, Zenon
    <2>3. Append(inq, pushing.frame) \in Seq(Asked)
      BY <1>0, <2>2
    <2> QED  BY <1>0, <1>3, <2>3, Zenon DEF PushSelects
  <1>4. CASE ReaderTakes
    <2>1. inq # << >> /\ inq' = Tail(inq) /\ pushing' = pushing
      BY <1>4, Zenon DEF ReaderTakes
    <2>2. Tail(inq) \in Seq(Asked)
      BY <1>0, <2>1
    <2> QED  BY <1>0, <2>1, <2>2, Zenon
  <1> QED  BY <1>0, <1>1, <1>2, <1>3, <1>4, UpSame, Zenon

\* Only the writer and the client touch what is on its way down.
LEMMA DownSame ==
  ASSUME [Next]_vars, ~ClientReceives, ~Write
  PROVE  down' = down
  BY Zenon DEF Next, Progress, ClientDisconnected, PushChecks, PushSelects, CloseIn,
     CloseOut, CloseReturns, EnqueueChecks, EnqueueSelects, ReaderTakes, ReaderEnds, Handle,
     SendAcknowledged, WriterTakes, WriterRechecks, WriterStops, WriteFails, PingerEnds,
     DeadlinePasses, Request, RequestTimesOut, ClientCloses, Stall, Event, Subscribe, Listen,
     Dispose, vars

\* Only a frame that arrives adds to what the client has seen.
LEMMA SeenSame ==
  ASSUME SessionOK, [Next]_vars, ~ClientReceives
  PROVE  client'.seen = client.seen
  <1>1. DOMAIN client = ClientFields /\ client.handle \in {"unknown", "subscribed", "disposed"}
    BY Zenon DEF SessionOK, ClientOK
  <1>2. CASE ~ClientStep
    BY <1>2, OtherSteps, Zenon
  <1>3. CASE ClientStep
    <2>1. Retains(Mailbox \cup {"open", "next", "pending", "stall"})
      BY <1>1, <1>3, ClientEffect, Zenon DEF ClientStep, Retains
    <2> QED  BY <2>1, Zenon DEF Retains, ClientFields, Mailbox
  <1> QED  BY <1>2, <1>3, Zenon

\* Frames on their way down.
LEMMA DownNext ==
  ASSUME SessionOK, [Next]_vars
  PROVE  down' \in Seq(Responses)
  <1>0. down \in Seq(Responses) /\ DOMAIN srv = Fields
    BY Zenon DEF SessionOK, ServerOK
  <1>1. CASE ClientReceives
    <2>1. down # << >> /\ down' = Tail(down)
      BY <1>1, Zenon DEF ClientReceives
    <2> QED  BY <1>0, <2>1
  <1>2. CASE Write
    <2>1. Busy /\ down' = Append(down, srv.held)
      BY <1>0, <1>2, WriterEffect, Zenon
    <2>2. srv.held \in Responses
      BY <2>1, Zenon DEF SessionOK, ServerOK
    <2> QED  BY <1>0, <2>1, <2>2
  <1> QED  BY <1>0, <1>1, <1>2, DownSame, Zenon

\* The server keeps its types.
LEMMA ServerNext ==
  ASSUME SessionOK, [Next]_vars
  PROVE  ServerOK'
  <1> DEFINE Slots(sl) == /\ DOMAIN sl = Producers
                          /\ \A p \in Producers : sl[p] # None =>
                               sl[p] \in [frame : Emits(p), at : {"check", "select"}]
             OK(b) == /\ DOMAIN b = Fields
                      /\ b.events \in Nat /\ b.acks \in Seq(Deferred) /\ b.ch \in Seq(Responses)
                      /\ b.writer \in {"recheck", "writing"} => b.held \in Responses
                      /\ b.reader = "handling" => b.frame \in Asked
                      /\ Slots(b.slot)
                      /\ b.reader # "idle" => b.slot["reader"] = None
  <1>0. OK(srv)
    BY Zenon DEF SessionOK, ServerOK, Busy
  <1>1. SUFFICES OK(srv')
    <2> HIDE DEF Emits
    <2> QED  BY SameKinds, Zenon DEF ServerOK, Busy
  <1>2. DOMAIN srv = Fields /\ DOMAIN srv.slot = Producers /\ inq \in Seq(Asked)
    BY <1>0, Zenon DEF SessionOK
  <1>3. Emits("reader") = Answers /\ Emits("event") = Events /\ Emits("dc") = Others
    BY Zenon DEF Emits
  <1>4. "reader" \in Producers /\ "event" \in Producers /\ "dc" \in Producers
    BY Zenon DEF Producers
  <1>5. ASSUME Unless({"fsDone", "done", "pinger", "conn"}) PROVE OK(srv')
    BY <1>0, <1>5, Zenon DEF Unless, Fields
  <1>6. CASE CloseIn \/ CloseOut \/ PingerEnds \/ DeadlinePasses \/ ~ServerStep
    <2>1. Unless({"fsDone", "done", "pinger", "conn"}) \/ srv' = srv
      BY <1>2, <1>6, FlagEffect, NotServer, Zenon
    <2> QED  BY <1>0, <1>5, <2>1, Zenon
  <1>7. ASSUME NEW p \in Producers, EnqueueChecks(p) PROVE OK(srv')
    <2>1. /\ Unless({"slot"}) /\ DOMAIN srv'.slot = Producers
          /\ \A q \in Producers \ {p} : srv'.slot[q] = srv.slot[q]
          /\ srv.slot[p] # None
          /\ srv'.slot[p] = None \/ srv'.slot[p] = [srv.slot[p] EXCEPT !.at = "select"]
      BY <1>2, <1>7, EnqueueEffect, Zenon
    <2>2. srv.slot[p] \in [frame : Emits(p), at : {"check", "select"}]
      BY <1>0, <2>1, Zenon
    <2>3. [srv.slot[p] EXCEPT !.at = "select"] \in [frame : Emits(p), at : {"check", "select"}]
      BY <2>2
    <2>4. Slots(srv'.slot)
      BY <1>0, <2>1, <2>3, Zenon
    <2>5. srv'.reader # "idle" => srv'.slot["reader"] = None
      BY <1>0, <1>4, <2>1, Zenon DEF Unless, Fields
    <2> QED  BY <1>0, <2>1, <2>4, <2>5, Zenon DEF Unless, Fields
  <1>8. ASSUME NEW p \in Producers, EnqueueSelects(p) PROVE OK(srv')
    <2>1. /\ Unless({"slot", "ch"}) /\ DOMAIN srv'.slot = Producers
          /\ \A q \in Producers \ {p} : srv'.slot[q] = srv.slot[q]
          /\ srv.slot[p] # None /\ srv'.slot[p] = None
          /\ srv'.ch = Append(srv.ch, srv.slot[p].frame) \/ srv'.ch = srv.ch
      BY <1>2, <1>8, EnqueueEffect, Zenon
    <2>2. srv.slot[p].frame \in Emits(p)
      BY <1>0, <2>1, Zenon
    <2>3. srv.slot[p].frame \in Responses
      BY <1>3, <2>2, Zenon DEF Producers, Answers, Events, Others
    <2>4. srv'.ch \in Seq(Responses)
      BY <1>0, <2>1, <2>3
    <2>5. Slots(srv'.slot)
      BY <1>0, <2>1, Zenon
    <2>6. srv'.reader # "idle" => srv'.slot["reader"] = None
      BY <1>0, <1>4, <2>1, Zenon DEF Unless, Fields
    <2> QED  BY <1>0, <2>1, <2>4, <2>5, <2>6, Zenon DEF Unless, Fields
  <1>9. CASE ReaderTakes
    <2>1. /\ Unless({"reader", "frame"}) /\ inq # << >> /\ srv.slot["reader"] = None
          /\ srv'.reader = "handling" /\ srv'.frame = Head(inq)
      BY <1>2, <1>9, ReaderEffect, Zenon DEF ReaderTakes, AtRead
    <2>2. Head(inq) \in Asked
      BY <1>2, <2>1
    <2> QED  BY <1>0, <2>1, <2>2, Zenon DEF Unless, Fields
  <1>10. CASE ReaderEnds
    <2>1. /\ Unless({"reader", "done", "conn"}) /\ srv'.reader = "gone"
          /\ srv.slot["reader"] = None
      BY <1>2, <1>10, ReaderEffect, Zenon DEF ReaderEnds, AtRead
    <2> QED  BY <1>0, <2>1, Zenon DEF Unless, Fields
  <1>11. CASE Handle
    <2>1. srv.reader = "handling" /\ srv.frame \in Asked
      BY <1>0, <1>11, Zenon DEF Handle
    <2>2. CASE srv.frame.kind \in {"async", "notify"}
      <3>1. /\ Unless({"reader", "frame", "acks"})
            /\ srv'.reader = "idle" /\ srv'.acks = Append(srv.acks, srv.frame)
        BY <1>2, <1>11, <2>2, ReaderEffect, Zenon
      <3>2. srv.frame \in Deferred
        BY <2>1, <2>2, MadeOf, Zenon
      <3>3. srv'.acks \in Seq(Deferred)
        BY <1>0, <3>1, <3>2
      <3> QED  BY <1>0, <3>1, <3>3, Zenon DEF Unless, Fields
    <2>3. CASE srv.frame.kind \notin {"async", "notify"}
      <3>1. /\ Unless({"reader", "frame", "slot"}) /\ DOMAIN srv'.slot = Producers
            /\ \A q \in Producers \ {"reader"} : srv'.slot[q] = srv.slot[q]
            /\ srv'.reader = "idle" /\ srv'.slot["reader"] = Response(srv.frame)
        BY <1>2, <1>11, <2>3, ReaderEffect, Zenon
      <3>2. Response(srv.frame) \in [frame : Answers, at : {"check", "select"}]
        BY <2>1, <2>3, MadeOf, Zenon
      <3>3. Slots(srv'.slot)
        BY <1>0, <1>3, <3>1, <3>2, Zenon
      <3> QED  BY <1>0, <3>1, <3>3, Zenon DEF Unless, Fields
    <2> QED  BY <2>2, <2>3, Zenon
  <1>12. CASE SendAcknowledged
    <2>1. /\ Unless({"acks", "slot"}) /\ DOMAIN srv'.slot = Producers
          /\ \A q \in Producers \ {"dc"} : srv'.slot[q] = srv.slot[q]
          /\ srv.acks # << >> /\ srv'.acks = Tail(srv.acks)
          /\ srv'.slot["dc"] = Answer(Head(srv.acks), Head(srv.acks).id, "ack")
      BY <1>2, <1>12, ProducerEffect, Zenon
    <2>2. srv'.acks \in Seq(Deferred) /\ Head(srv.acks) \in Deferred
      BY <1>0, <2>1
    <2>3. srv'.slot["dc"] \in [frame : Others, at : {"check", "select"}]
      <3>1. PICK f \in Deferred : f = Head(srv.acks)
        BY <2>2, Zenon
      <3>2. Answer(f, f.id, "ack") \in [frame : Others, at : {"check", "select"}]
        BY MadeOf, Zenon
      <3> QED  BY <2>1, <3>1, <3>2, Zenon
    <2>4. Slots(srv'.slot)
      BY <1>0, <1>3, <2>1, <2>3, Zenon
    <2>5. srv'.reader # "idle" => srv'.slot["reader"] = None
      BY <1>0, <1>4, <2>1, Zenon DEF Unless, Fields
    <2> QED  BY <1>0, <2>1, <2>2, <2>4, <2>5, Zenon DEF Unless, Fields
  <1>13. CASE Event
    <2>1. /\ Unless({"events", "slot"}) /\ DOMAIN srv'.slot = Producers
          /\ \A q \in Producers \ {"event"} : srv'.slot[q] = srv.slot[q]
          /\ srv'.events = srv.events + 1
          /\ srv'.slot["event"] = Answer([n |-> srv.events + 1], 0, "event")
      BY <1>2, <1>13, ProducerEffect, Zenon
    <2>2. srv.events + 1 \in Nat
      BY <1>0
    <2>3. srv'.slot["event"] \in [frame : Events, at : {"check", "select"}]
      BY <2>1, <2>2, MadeOf, Zenon
    <2>4. Slots(srv'.slot)
      BY <1>0, <1>3, <2>1, <2>3, Zenon
    <2>5. srv'.reader # "idle" => srv'.slot["reader"] = None
      BY <1>0, <1>4, <2>1, Zenon DEF Unless, Fields
    <2> QED  BY <1>0, <2>1, <2>2, <2>4, <2>5, Zenon DEF Unless, Fields
  <1>14. CASE WriterTakes
    <2>1. /\ Unless({"writer", "held", "ch"}) /\ srv.ch # << >>
          /\ srv'.held = Head(srv.ch) /\ srv'.ch = Tail(srv.ch)
      BY <1>2, <1>14, WriterEffect, Zenon
    <2>2. srv'.held \in Responses /\ srv'.ch \in Seq(Responses)
      BY <1>0, <2>1
    <2> QED  BY <1>0, <2>1, <2>2, Zenon DEF Unless, Fields
  <1>15. CASE Write
    <2>1. Unless({"writer", "held"}) /\ srv'.writer = "idle"
      BY <1>2, <1>15, WriterEffect, Zenon
    <2> QED  BY <1>0, <2>1, Zenon DEF Unless, Fields
  <1>16. CASE WriterRechecks
    <2>1. Unless({"writer"}) /\ srv.held \in Responses
      BY <1>0, <1>2, <1>16, WriterEffect, Zenon DEF Busy
    <2> QED  BY <1>0, <2>1, Zenon DEF Unless, Fields
  <1>17. CASE WriterStops \/ WriteFails
    <2>1. Unless({"writer", "conn", "done"}) /\ srv'.writer = "gone"
      BY <1>2, <1>17, WriterEffect, Zenon
    <2> QED  BY <1>0, <2>1, Zenon DEF Unless, Fields
  <1> HIDE DEF OK
  <1> QED  BY <1>6, <1>7, <1>8, <1>9, <1>10, <1>11, <1>12, <1>13, <1>14, <1>15, <1>16, <1>17,
              Zenon DEF ServerStep

\* Types are kept.
LEMMA SessionNext ==
  ASSUME SessionOK, [Next]_vars
  PROVE  SessionOK'
  <1>1. ClientOK' /\ ServerOK'
    BY ClientNext, ServerNext, Zenon
  <1>2. scenario' = scenario /\ Asked' = Asked
    BY SameScript, SameKinds, Zenon
  <1> QED  BY <1>1, <1>2, UpwardNext, DownNext, Zenon DEF SessionOK

\* What has ended does not come back, and who ends it.
LEMMA EndsStay ==
  ASSUME SessionOK, [Next]_vars
  PROVE  /\ client'.open => client.open
         /\ srv'.writer # "gone" => srv.writer # "gone"
         /\ srv'.reader # "gone" => srv.reader # "gone"
         /\ srv'.fsDone => srv.fsDone \/ closer # "no"
         /\ srv'.done => srv.done \/ closer # "no" \/ srv'.reader = "gone" \/ srv'.writer = "gone"
         /\ closer' # "no" => closer # "no" \/ ~client'.open
  <1>0. /\ DOMAIN srv = Fields /\ DOMAIN srv.slot = Producers /\ DOMAIN client = ClientFields
        /\ client.handle \in {"unknown", "subscribed", "disposed"}
    BY Zenon DEF SessionOK, ClientOK, ServerOK
  <1>1. client'.open => client.open
    <2>1. CASE ~ClientStep
      BY <2>1, OtherSteps, Zenon
    <2>2. CASE ClientDisconnected \/ ClientCloses
      BY <1>0, <2>2, ClientEffect, Zenon
    <2>3. CASE ClientReceives \/ Request \/ RequestTimesOut \/ Stall \/ Subscribe \/ Listen \/ Dispose
      <3>1. Retains(Mailbox \cup {"next", "seen", "pending", "stall"})
        BY <1>0, <2>3, ClientEffect, ReceiveEffect, Zenon DEF Retains
      <3> QED  BY <3>1, Zenon DEF Retains, ClientFields, Mailbox
    <2> QED  BY <2>1, <2>2, <2>3, Zenon DEF ClientStep
  <1>2. closer' # "no" => closer # "no" \/ ~client'.open
    <2>1. CASE ClientCloses
      BY <1>0, <2>1, ClientEffect, Zenon
    <2>2. CASE CloseIn \/ CloseOut \/ CloseReturns
      BY <2>2, Zenon DEF CloseIn, CloseOut, CloseReturns
    <2>3. ASSUME ~ClientCloses, ~CloseIn, ~CloseOut, ~CloseReturns PROVE closer' = closer
      BY <2>3, Zenon DEF Next, Progress, ClientReceives, ClientDisconnected, PushChecks,
         PushSelects, EnqueueChecks, EnqueueSelects, ReaderTakes, ReaderEnds, Handle,
         SendAcknowledged, WriterTakes, WriterRechecks, WriterStops, Write, WriteFails, PingerEnds,
         DeadlinePasses, Request, RequestTimesOut, Stall, Event, Subscribe, Listen, Dispose, vars
    <2> QED  BY <2>1, <2>2, <2>3, Zenon
  <1> DEFINE Flags == /\ srv'.writer # "gone" => srv.writer # "gone"
                      /\ srv'.reader # "gone" => srv.reader # "gone"
                      /\ srv'.fsDone => srv.fsDone \/ closer # "no"
                      /\ srv'.done => \/ srv.done \/ closer # "no"
                                      \/ srv'.reader = "gone" \/ srv'.writer = "gone"
  <1>3. Flags
    <2>1. CASE ~ServerStep
      BY <2>1, NotServer, Zenon
    <2>2. CASE \E q \in Producers : EnqueueChecks(q) \/ EnqueueSelects(q)
      BY <1>0, <2>2, EnqueueEffect, Zenon DEF Unless, Fields
    <2>3. CASE CloseIn \/ CloseOut
      BY <1>0, <2>3, Zenon DEF CloseIn, CloseOut, Fields
    <2>4. CASE PingerEnds \/ DeadlinePasses
      BY <1>0, <2>4, Zenon DEF PingerEnds, DeadlinePasses, Fields
    <2>5. CASE ReaderTakes
      BY <1>0, <2>5, ReaderEffect, Zenon DEF Unless, Fields, ReaderTakes, AtRead
    <2>6. CASE ReaderEnds
      BY <1>0, <2>6, ReaderEffect, Zenon DEF Unless, Fields
    <2>7. CASE Handle
      <3>1. Unless({"reader", "frame", "acks"}) \/ Unless({"reader", "frame", "slot"})
        BY <1>0, <2>7, ReaderEffect, Zenon
      <3>2. srv.reader # "gone"
        BY <2>7, Zenon DEF Handle
      <3> QED  BY <3>1, <3>2, Zenon DEF Unless, Fields
    <2>8. CASE SendAcknowledged \/ Event
      BY <1>0, <2>8, ProducerEffect, Zenon DEF Unless, Fields
    <2>9. CASE WriterTakes \/ Write \/ WriterRechecks
      BY <1>0, <2>9, WriterEffect, Zenon DEF Unless, Fields
    <2>10. CASE WriterStops \/ WriteFails
      BY <1>0, <2>10, WriterEffect, Zenon DEF Unless, Fields
    <2> QED  BY <2>1, <2>2, <2>3, <2>4, <2>5, <2>6, <2>7, <2>8, <2>9, <2>10, Zenon DEF ServerStep
  <1> QED  BY <1>1, <1>2, <1>3, Zenon
=============================================================================
