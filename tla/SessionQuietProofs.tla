------------------------- MODULE SessionQuietProofs -------------------------
(***************************************************************************)
(* Nobody waits for ever in a session, for every script of the client,     *)
(* either transport and all sizes of channels: what is true of it whenever *)
(* none of its goroutines, callbacks and calls can go on.                  *)
(***************************************************************************)
EXTENDS SessionSteps

-----------------------------------------------------------------------------
(* Where everyone is when nobody can go on.                                *)

(***************************************************************************)
(* How the ends of a session depend on each other: who is gone has closed  *)
(* cw.done, over a socket the socket too; a FrameSession ends only by      *)
(* Close, and Close goes on in order.                                      *)
(***************************************************************************)
ClosingInv ==
  /\ closer \in {"no", "deleted", "in", "out", "returned"}
  /\ closer # "no" <=> shared /\ ~client.open
  /\ srv.fsDone <=> closer \in {"in", "out", "returned"}
  /\ closer \in {"out", "returned"} => srv.done
  /\ closer = "returned" => srv.writer = "gone"
  /\ pushing # None => shared
EndingInv ==
  /\ srv.reader \in {"idle", "handling", "gone"}
  /\ srv.writer \in {"idle", "recheck", "writing", "gone"}
  /\ shared => srv.conn = "up" /\ ~srv.pinger
  /\ srv.writer = "recheck" => shared
  /\ srv.done /\ shared => closer # "no"
  /\ srv.writer = "gone" => srv.done /\ (ws => srv.conn = "closed")
  /\ srv.reader = "gone" => IF ws THEN srv.done /\ srv.conn = "closed" ELSE srv.fsDone
  /\ client.open /\ srv.writer # "gone" /\ srv.reader # "gone" => ~srv.done
  /\ Len(srv.ch) <= ChanSize
  /\ ~client.open => client.pending = {}

(***************************************************************************)
(* While the session is up, the id of a request that waits is somewhere:   *)
(* in its frame on the way up, or in the answer on the way down.           *)
(***************************************************************************)
Genuine == {f \in Asked : f.id = IF f.kind = "notify" THEN 0 ELSE f.n}
Expecting == {k \in 1 .. Len(scenario.script) : scenario.script[k] # "notify"}
Ids(s) == {s[k].id : k \in DOMAIN s}
Pushed == IF pushing # None THEN {pushing.frame.id} ELSE {}
Handling == IF srv.reader = "handling" THEN {srv.frame.id} ELSE {}
Produced(p) == IF srv.slot[p] # None THEN {srv.slot[p].frame.id} ELSE {}
InWriter == IF Busy THEN {srv.held.id} ELSE {}
GoesUp == Pushed \cup Ids(inq) \cup Handling \cup Ids(srv.acks)
GoesDown == Produced("reader") \cup Produced("dc") \cup Ids(srv.ch) \cup InWriter \cup Ids(down)
GenuineInv ==
  /\ inq \in Seq(Genuine) /\ srv.acks \in Seq(Genuine)
  /\ pushing # None => pushing.frame \in Genuine
  /\ srv.reader = "handling" => srv.frame \in Genuine
  /\ client.pending \subseteq Expecting
AwaitedInv ==
  client.open /\ srv.writer # "gone" /\ srv.reader # "gone" =>
    \A i \in client.pending :
      scenario.script[i] \in {"sync", "async"} => i \in GoesUp \cup GoesDown

-----------------------------------------------------------------------------
(* The ends of a session.                                                  *)

\* A session has one of the two transports.
LEMMA Transport ==
  ASSUME SessionOK
  PROVE  (ws \/ shared) /\ ~(ws /\ shared)
  BY ScenariosAssumption, Zenon DEF SessionOK, ws, shared

\* What only the end of the client or of Close changes.
LEMMA Fates ==
  ASSUME SessionOK, [Next]_vars
  PROVE  /\ ~ClientDisconnected /\ ~ClientCloses => client'.open = client.open
         /\ ~ClientCloses /\ ~CloseIn /\ ~CloseOut /\ ~CloseReturns => closer' = closer
         /\ ~CloseIn => srv'.fsDone = srv.fsDone
         /\ srv.done => srv'.done
         /\ srv.writer = "gone" => srv'.writer = "gone"
         /\ srv.reader = "gone" => srv'.reader = "gone"
  <1>0. /\ DOMAIN srv = Fields /\ DOMAIN srv.slot = Producers /\ DOMAIN client = ClientFields
        /\ client.handle \in {"unknown", "subscribed", "disposed"}
    BY Zenon DEF SessionOK, ClientOK, ServerOK
  <1>1. ASSUME ~ClientDisconnected, ~ClientCloses PROVE client'.open = client.open
    <2>1. CASE ~ClientStep
      BY <2>1, OtherSteps, Zenon
    <2>2. CASE ClientStep
      <3>1. Retains(Mailbox \cup {"next", "seen", "pending", "stall"})
        BY <1>0, <1>1, <2>2, ClientEffect, ReceiveEffect, Zenon DEF ClientStep, Retains
      <3> QED  BY <3>1, Zenon DEF Retains, ClientFields, Mailbox
    <2> QED  BY <2>1, <2>2, Zenon
  <1>2. ASSUME ~ClientCloses, ~CloseIn, ~CloseOut, ~CloseReturns PROVE closer' = closer
    BY <1>2, Zenon DEF Next, Progress, ClientReceives, ClientDisconnected, PushChecks,
       PushSelects, EnqueueChecks, EnqueueSelects, ReaderTakes, ReaderEnds, Handle,
       SendAcknowledged, WriterTakes, WriterRechecks, WriterStops, Write, WriteFails, PingerEnds,
       DeadlinePasses, Request, RequestTimesOut, Stall, Event, Subscribe, Listen, Dispose, vars
  <1> DEFINE Flags == /\ ~CloseIn => srv'.fsDone = srv.fsDone
                      /\ srv.done => srv'.done
                      /\ srv.writer = "gone" => srv'.writer = "gone"
                      /\ srv.reader = "gone" => srv'.reader = "gone"
  <1>3. Flags
    <2>1. CASE ~ServerStep
      BY <2>1, NotServer, Zenon
    <2>2. CASE \E q \in Producers : EnqueueChecks(q) \/ EnqueueSelects(q)
      BY <1>0, <2>2, EnqueueEffect, Zenon DEF Unless, Fields
    <2>3. CASE CloseIn \/ CloseOut
      BY <1>0, <2>3, Zenon DEF CloseIn, CloseOut, Fields
    <2>4. CASE PingerEnds \/ DeadlinePasses
      BY <1>0, <2>4, Zenon DEF PingerEnds, DeadlinePasses, Fields
    <2>5. CASE ReaderTakes
      BY <1>0, <2>5, ReaderEffect, Zenon DEF Unless, Fields, ReaderTakes, AtRead
    <2>6. CASE ReaderEnds
      BY <1>0, <2>6, Zenon DEF ReaderEnds, AtRead, Fields
    <2>7. CASE Handle
      <3>1. Unless({"reader", "frame", "acks"}) \/ Unless({"reader", "frame", "slot"})
        BY <1>0, <2>7, ReaderEffect, Zenon
      <3>2. srv.reader # "gone"
        BY <2>7, Zenon DEF Handle
      <3> QED  BY <3>1, <3>2, Zenon DEF Unless, Fields
    <2>8. CASE SendAcknowledged \/ Event
      BY <1>0, <2>8, ProducerEffect, Zenon DEF Unless, Fields
    <2>9. CASE WriterTakes \/ Write \/ WriterRechecks
      BY <1>0, <2>9, WriterEffect, Zenon DEF Unless, Fields
    <2>10. CASE WriterStops \/ WriteFails
      BY <1>0, <2>10, Zenon DEF WriterStops, WriteFails, writerFailed, Fields
    <2> QED  BY <2>1, <2>2, <2>3, <2>4, <2>5, <2>6, <2>7, <2>8, <2>9, <2>10, Zenon DEF ServerStep
  <1> QED  BY <1>1, <1>2, <1>3, Zenon

\* Close goes on in order, and nothing else ends a FrameSession.
LEMMA ClosingNext ==
  ASSUME SessionOK, ClosingInv, [Next]_vars
  PROVE  ClosingInv'
  <1>0. /\ DOMAIN srv = Fields /\ DOMAIN client = ClientFields
        /\ client.handle \in {"unknown", "subscribed", "disposed"}
        /\ scenario' = scenario
    BY SameScript, Zenon DEF SessionOK, ClientOK, ServerOK
  <1>1. ASSUME pushing' # None PROVE shared'
    <2>1. CASE Request
      BY <1>0, <1>1, <2>1, Transport, Zenon DEF Request, ws, shared
    <2>2. CASE PushChecks \/ PushSelects
      BY <1>0, <2>2, Zenon DEF PushChecks, PushSelects, ClosingInv, shared
    <2>3. CASE ReaderTakes
      BY <1>0, <1>1, <2>3, Zenon DEF ReaderTakes, ClosingInv, shared
    <2> QED  BY <1>0, <1>1, <2>1, <2>2, <2>3, UpSame, Zenon DEF ClosingInv, shared
  <1>2. CASE ClientDisconnected \/ ClientCloses
    <2>1. client.open /\ ~client'.open /\ srv' = srv /\ pushing' = pushing
      BY <1>0, <1>2, ClientEffect, Zenon DEF ClientDisconnected, ClientCloses
    <2>2. closer' = IF shared THEN "deleted" ELSE closer
      BY <1>2, Transport, Zenon DEF ClientDisconnected, ClientCloses
    <2> QED  BY <1>0, <2>1, <2>2, Zenon DEF ClosingInv, shared
  <1>3. CASE CloseIn \/ CloseOut \/ CloseReturns
    <2>1. client' = client /\ pushing' = pushing
      BY <1>3, Zenon DEF CloseIn, CloseOut, CloseReturns
    <2>2. CASE CloseIn
      BY <1>0, <2>1, <2>2, Zenon DEF CloseIn, ClosingInv, Fields, shared
    <2>3. CASE CloseOut
      BY <1>0, <2>1, <2>3, Zenon DEF CloseOut, ClosingInv, Fields, shared
    <2>4. CASE CloseReturns
      BY <1>0, <2>1, <2>4, Zenon DEF CloseReturns, WriterDone, ClosingInv, shared
    <2> QED  BY <1>3, <2>2, <2>3, <2>4, Zenon
  <1>4. CASE ~(ClientDisconnected \/ ClientCloses \/ CloseIn \/ CloseOut \/ CloseReturns)
    BY <1>0, <1>1, <1>4, Fates, Zenon DEF ClosingInv, shared
  <1> QED  BY <1>2, <1>3, <1>4, Zenon

\* Nobody closes a new session.
LEMMA ClosingInit == Init => ClosingInv
  <1> SUFFICES ASSUME Init PROVE ClosingInv
    BY Zenon
  <1>1. srv.fsDone = FALSE /\ srv.writer = "idle" /\ client.open = TRUE
    BY Zenon DEF Init, NewSession
  <1>2. closer = "no" /\ pushing = None
    BY Zenon DEF Init
  <1> QED  BY <1>1, <1>2, Zenon DEF ClosingInv

\* Room for ChanSize frames.
LEMMA ChannelBound ==
  ASSUME SessionOK, Len(srv.ch) <= ChanSize, [Next]_vars
  PROVE  Len(srv'.ch) <= ChanSize
  <1>0. /\ DOMAIN srv = Fields /\ DOMAIN srv.slot = Producers /\ srv.ch \in Seq(Responses)
        /\ ChanSize \in Nat
    BY SizeAssumption, Zenon DEF SessionOK, ServerOK
  <1>1. ASSUME NEW p \in Producers, EnqueueSelects(p) PROVE Len(srv'.ch) <= ChanSize
    <2>1. PICK c \in Select(p) : srv' = [srv EXCEPT !.ch = c, !.slot[p] = None]
      BY <1>1, Zenon DEF EnqueueSelects
    <2>2. srv'.ch = c
      BY <1>0, <2>1, Zenon DEF Fields
    <2>3. srv.slot[p].frame \in Responses
      <3>1. Emits(p) \subseteq Responses
        BY Zenon DEF Emits, Producers, Answers, Events, Others
      <3> QED  BY <1>1, <3>1, Zenon DEF SessionOK, ServerOK, EnqueueSelects
    <2>4. c = srv.ch \/ (Len(srv.ch) < ChanSize /\ c = Append(srv.ch, srv.slot[p].frame))
      BY Zenon DEF Select
    <2> QED  BY <1>0, <2>2, <2>3, <2>4
  <1>2. CASE WriterTakes
    <2>1. srv.ch # << >> /\ srv'.ch = Tail(srv.ch)
      BY <1>0, <1>2, WriterEffect, Zenon
    <2> QED  BY <1>0, <2>1
  <1>3. CASE ~WriterTakes /\ ~\E p \in Producers : EnqueueSelects(p)
    <2>1. CASE ~ServerStep
      BY <2>1, NotServer, Zenon
    <2>2. CASE \E q \in Producers : EnqueueChecks(q)
      BY <1>0, <2>2, EnqueueEffect, Zenon DEF Unless, Fields
    <2>3. CASE CloseIn \/ CloseOut \/ PingerEnds \/ DeadlinePasses
      BY <1>0, <2>3, FlagEffect, Zenon DEF Unless, Fields
    <2>4. CASE ReaderTakes \/ ReaderEnds
      BY <1>0, <2>4, ReaderEffect, Zenon DEF Unless, Fields
    <2>5. CASE Handle
      <3>1. Unless({"reader", "frame", "acks"}) \/ Unless({"reader", "frame", "slot"})
        BY <1>0, <2>5, ReaderEffect, Zenon
      <3> QED  BY <3>1, Zenon DEF Unless, Fields
    <2>6. CASE SendAcknowledged \/ Event
      BY <1>0, <2>6, ProducerEffect, Zenon DEF Unless, Fields
    <2>7. CASE Write \/ WriterRechecks \/ WriterStops \/ WriteFails
      BY <1>0, <2>7, WriterEffect, Zenon DEF Unless, Fields
    <2> QED  BY <1>3, <2>1, <2>2, <2>3, <2>4, <2>5, <2>6, <2>7, Zenon DEF ServerStep
  <1> QED  BY <1>1, <1>2, <1>3, Zenon

\* A client that is not open has no request waiting.
LEMMA NoneWaits ==
  ASSUME SessionOK, ~client.open => client.pending = {}, [Next]_vars
  PROVE  ~client'.open => client'.pending = {}
  <1>0. DOMAIN client = ClientFields /\ client.handle \in {"unknown", "subscribed", "disposed"}
    BY Zenon DEF SessionOK, ClientOK
  <1>1. CASE ~ClientStep
    BY <1>1, OtherSteps, Zenon
  <1>2. CASE ClientDisconnected \/ ClientCloses
    BY <1>0, <1>2, Zenon DEF ClientDisconnected, ClientCloses, failPending, ClientFields
  <1>3. CASE Request
    <2>1. client.open /\ Retains({"next", "pending"})
      BY <1>0, <1>3, ClientEffect, Zenon DEF Request
    <2> QED  BY <2>1, Zenon DEF Retains, ClientFields
  <1>4. CASE RequestTimesOut
    BY <1>0, <1>4, Zenon DEF RequestTimesOut, ClientFields
  <1>5. CASE Stall \/ Subscribe \/ Listen \/ Dispose
    <2>1. Retains(Mailbox \cup {"stall"})
      BY <1>0, <1>5, ClientEffect, Zenon DEF Retains
    <2> QED  BY <2>1, Zenon DEF Retains, ClientFields, Mailbox
  <1>6. CASE ClientReceives
    <2>1. CASE ~client.open
      BY <1>6, <2>1, Zenon DEF ClientReceives, handleFrame
    <2>2. CASE client.open
      <3>1. Retains(Mailbox \cup {"pending", "seen"})
        BY <1>0, <1>6, ReceiveEffect, Zenon
      <3> QED  BY <2>2, <3>1, Zenon DEF Retains, ClientFields, Mailbox
    <2> QED  BY <2>1, <2>2, Zenon
  <1> QED  BY <1>1, <1>2, <1>3, <1>4, <1>5, <1>6, Zenon DEF ClientStep

\* Who ends closes cw.done, and the socket if there is one.
LEMMA EndingNext ==
  ASSUME SessionOK, ClosingInv, EndingInv, [Next]_vars
  PROVE  EndingInv'
  <1>0. DOMAIN srv = Fields /\ DOMAIN srv.slot = Producers /\ ws' = ws /\ shared' = shared
    BY SameScript, Zenon DEF SessionOK, ServerOK, ws, shared
  <1>1. (Len(srv.ch) <= ChanSize)' /\ (~client.open => client.pending = {})'
    BY ChannelBound, NoneWaits, Zenon DEF EndingInv
  <1>22. (client.open /\ srv.writer # "gone" /\ srv.reader # "gone" => ~srv.done)'
    BY EndsStay, Zenon DEF ClosingInv, EndingInv
  <1>2. (ws \/ shared) /\ ~(ws /\ shared)
    BY Transport, Zenon
  <1>3. closer # "no" => closer' # "no"
    BY Fates, Zenon DEF ClientCloses, CloseIn, CloseOut, CloseReturns
  <1> DEFINE Ends ==
        /\ srv.reader \in {"idle", "handling", "gone"}
        /\ srv.writer \in {"idle", "recheck", "writing", "gone"}
        /\ shared => srv.conn = "up" /\ ~srv.pinger
        /\ srv.writer = "recheck" => shared
        /\ srv.done /\ shared => closer # "no"
        /\ srv.writer = "gone" => srv.done /\ (ws => srv.conn = "closed")
        /\ srv.reader = "gone" => IF ws THEN srv.done /\ srv.conn = "closed" ELSE srv.fsDone
  <1>4. Ends
    BY Zenon DEF EndingInv
  <1>5. SUFFICES Ends'
    BY <1>1, <1>5, <1>22, Zenon DEF EndingInv
  <1>6. ASSUME Unless({"frame", "acks", "events", "slot", "ch", "held"}) PROVE Ends'
    BY <1>0, <1>3, <1>4, <1>6, Zenon DEF Unless, Fields
  <1>7. CASE ~ServerStep
    BY <1>0, <1>3, <1>4, <1>7, NotServer, Zenon
  <1>8. CASE \E q \in Producers : EnqueueChecks(q) \/ EnqueueSelects(q)
    <2>1. Unless({"slot"}) \/ Unless({"slot", "ch"})
      BY <1>0, <1>8, EnqueueEffect, Zenon
    <2> QED  BY <1>6, <2>1, Zenon DEF Unless
  <1>9. CASE SendAcknowledged \/ Event
    <2>1. Unless({"acks", "slot"}) \/ Unless({"events", "slot"})
      BY <1>0, <1>9, ProducerEffect, Zenon
    <2> QED  BY <1>6, <2>1, Zenon DEF Unless
  <1>10. CASE CloseIn
    BY <1>0, <1>3, <1>4, <1>10, Zenon DEF CloseIn, Fields
  <1>11. CASE CloseOut
    BY <1>0, <1>3, <1>4, <1>11, Zenon DEF CloseOut, Fields
  <1>12. CASE PingerEnds
    BY <1>0, <1>3, <1>4, <1>12, Zenon DEF PingerEnds, Fields
  <1>13. CASE DeadlinePasses
    <2>1. ws /\ srv.conn = "up" /\ srv' = [srv EXCEPT !.conn = "expired"]
      BY <1>13, Zenon DEF DeadlinePasses
    <2> QED  BY <1>0, <1>2, <1>3, <1>4, <2>1, Zenon DEF Fields
  <1>14. CASE ReaderTakes
    <2>1. Unless({"reader", "frame"}) /\ srv'.reader = "handling"
      BY <1>0, <1>14, ReaderEffect, Zenon
    <2> QED  BY <1>0, <1>3, <1>4, <2>1, Zenon DEF Unless, Fields
  <1>15. CASE Handle
    <2>1. /\ Unless({"reader", "frame", "acks"}) \/ Unless({"reader", "frame", "slot"})
          /\ srv'.reader = "idle"
      BY <1>0, <1>15, ReaderEffect, Zenon
    <2> QED  BY <1>0, <1>3, <1>4, <2>1, Zenon DEF Unless, Fields
  <1>16. CASE ReaderEnds
    <2>1. CASE ws /\ srv' = [srv EXCEPT !.reader = "gone", !.done = TRUE, !.conn = "closed"]
      BY <1>0, <1>2, <1>3, <1>4, <2>1, Zenon DEF Fields
    <2>2. CASE srv.fsDone /\ srv' = [srv EXCEPT !.reader = "gone"]
      BY <1>0, <1>2, <1>3, <1>4, <2>2, Zenon DEF Fields, ClosingInv
    <2> QED  BY <1>16, <2>1, <2>2, Zenon DEF ReaderEnds
  <1>17. CASE WriterTakes
    BY <1>0, <1>2, <1>3, <1>4, <1>17, Zenon DEF WriterTakes, Fields
  <1>18. CASE WriterRechecks
    BY <1>0, <1>2, <1>3, <1>4, <1>18, Zenon DEF WriterRechecks, Fields
  <1>19. CASE Write
    BY <1>0, <1>2, <1>3, <1>4, <1>19, Zenon DEF Write, Fields
  <1>20. CASE WriterStops
    BY <1>0, <1>2, <1>3, <1>4, <1>20, Zenon DEF WriterStops, Fields
  <1>21. CASE WriteFails
    BY <1>0, <1>2, <1>3, <1>4, <1>21, Zenon DEF WriteFails, writerFailed, Fields
  <1> QED  BY <1>7, <1>8, <1>9, <1>10, <1>11, <1>12, <1>13, <1>14, <1>15, <1>16, <1>17, <1>18,
              <1>19, <1>20, <1>21, Zenon DEF ServerStep

\* A new session has neither ended nor begun anything.
LEMMA EndingInit == Init => EndingInv
  <1> SUFFICES ASSUME Init PROVE EndingInv
    BY Zenon
  <1>1. /\ srv.reader = "idle" /\ srv.writer = "idle" /\ srv.conn = "up" /\ srv.pinger = ws
        /\ srv.done = FALSE /\ srv.ch = << >> /\ client.open = TRUE
    BY Zenon DEF Init, NewSession
  <1>2. Len(srv.ch) <= ChanSize
    BY <1>1, SizeAssumption
  <1>3. ~(ws /\ shared)
    BY Zenon DEF ws, shared
  <1> QED  BY <1>1, <1>2, <1>3, Zenon DEF EndingInv

-----------------------------------------------------------------------------
(* The requests that wait.                                                 *)

\* The ids in a sequence, when something is put at the end or taken from the
\* front.
LEMMA IdsAtTheEnd ==
  ASSUME NEW R, NEW s \in Seq(R), NEW x \in R
  PROVE  Ids(s) \cup {x.id} \subseteq Ids(Append(s, x))
  <1>1. /\ Len(s) \in Nat /\ DOMAIN s = 1 .. Len(s) /\ DOMAIN Append(s, x) = 1 .. Len(s) + 1
        /\ \A k \in 1 .. Len(s) : Append(s, x)[k] = s[k]
        /\ Append(s, x)[Len(s) + 1] = x
    OBVIOUS
  <1>2. 1 .. Len(s) \subseteq 1 .. Len(s) + 1 /\ Len(s) + 1 \in 1 .. Len(s) + 1
    BY <1>1
  <1> QED  BY <1>1, <1>2, Zenon DEF Ids

\* The same for Tail.
LEMMA IdsAtTheFront ==
  ASSUME NEW R, NEW s \in Seq(R), s # << >>
  PROVE  Ids(s) \subseteq {Head(s).id} \cup Ids(Tail(s))
  <1>1. /\ Len(s) \in Nat /\ DOMAIN s = 1 .. Len(s) /\ Head(s) = s[1]
        /\ DOMAIN Tail(s) = 1 .. Len(s) - 1
        /\ \A k \in 1 .. Len(s) - 1 : Tail(s)[k] = s[k + 1]
    OBVIOUS
  <1>2. ASSUME NEW k \in 1 .. Len(s) PROVE s[k].id \in {Head(s).id} \cup Ids(Tail(s))
    <2>1. CASE k = 1
      BY <1>1, <2>1, Zenon
    <2>2. CASE k # 1
      <3>1. k - 1 \in 1 .. Len(s) - 1 /\ Tail(s)[k - 1] = s[k]
        BY <1>1, <2>2
      <3> QED  BY <1>1, <3>1, Zenon DEF Ids
    <2> QED  BY <2>1, <2>2, Zenon
  <1> QED  BY <1>1, <1>2, Zenon DEF Ids

\* A request waits from when it is made until an answer with its id arrives.
LEMMA PendingEffect ==
  ASSUME SessionOK, [Next]_vars
  PROVE  /\ ~Request => client'.pending \subseteq client.pending
         /\ Request => client'.pending \subseteq client.pending \cup ({Frame.id} \ {0})
         /\ ClientReceives /\ client.open =>
              client'.pending \subseteq client.pending \ {Head(down).id}
  <1>0. DOMAIN client = ClientFields /\ client.handle \in {"unknown", "subscribed", "disposed"}
    BY Zenon DEF SessionOK, ClientOK
  <1>1. ASSUME Request PROVE client'.pending = client.pending \cup ({Frame.id} \ {0})
    BY <1>0, <1>1, Zenon DEF Request, ClientFields
  <1>2. ASSUME ClientReceives
        PROVE  client'.pending = IF client.open THEN client.pending \ {Head(down).id} ELSE client.pending
    <2>1. PICK r : r = Head(down)
      BY Zenon
    <2>2. client' = handleFrame(client, r)
      BY <1>2, <2>1, Zenon DEF ClientReceives
    <2>3. CASE ~client.open
      BY <2>2, <2>3, Zenon DEF handleFrame
    <2>4. CASE client.open
      <3>1. PICK d : d = [client EXCEPT !.pending = @ \ {r.id}, !.seen = Append(@, r)]
        BY Zenon
      <3>2. /\ DOMAIN d = ClientFields /\ d.pending = client.pending \ {r.id}
            /\ d.handle \in {"unknown", "subscribed", "disposed"}
        BY <1>0, <3>1, Zenon DEF ClientFields
      <3>3. client' = IF r.type = "event" THEN broadcast(d, r.n) ELSE d
        BY <2>2, <2>4, <3>1, Zenon DEF handleFrame
      <3>4. broadcast(d, r.n).pending = d.pending
        <4>1. "pending" \in ClientFields \ Mailbox
          BY Zenon DEF ClientFields, Mailbox
        <4>2. \A f \in ClientFields \ Mailbox : broadcast(d, r.n)[f] = d[f]
          BY <3>2, MailboxOnly
        <4> QED  BY <4>1, <4>2, Zenon
      <3> QED  BY <2>1, <2>4, <3>2, <3>3, <3>4, Zenon
    <2> QED  BY <2>3, <2>4, Zenon
  <1>3. ASSUME ~Request, ~ClientReceives PROVE client'.pending \subseteq client.pending
    <2>1. CASE ~ClientStep
      BY <2>1, OtherSteps, Zenon
    <2>2. CASE ClientDisconnected \/ ClientCloses
      BY <1>0, <2>2, Zenon DEF ClientDisconnected, ClientCloses, failPending, ClientFields
    <2>3. CASE RequestTimesOut
      BY <1>0, <2>3, Zenon DEF RequestTimesOut, ClientFields
    <2>4. CASE Stall \/ Subscribe \/ Listen \/ Dispose
      <3>1. Retains(Mailbox \cup {"stall"})
        BY <1>0, <2>4, ClientEffect, Zenon DEF Retains
      <3> QED  BY <3>1, Zenon DEF Retains, ClientFields, Mailbox
    <2> QED  BY <1>3, <2>1, <2>2, <2>3, <2>4, Zenon DEF ClientStep
  <1> QED  BY <1>1, <1>2, <1>3, Zenon

\* A frame keeps the id it was given.
LEMMA GenuineNext ==
  ASSUME SessionOK, GenuineInv, [Next]_vars
  PROVE  GenuineInv'
  <1>0. DOMAIN srv = Fields /\ DOMAIN srv.slot = Producers
    BY Zenon DEF SessionOK, ServerOK
  <1>1. PICK G : G = Genuine /\ Genuine' = G
    BY SameKinds, Zenon DEF Genuine
  <1>2. (client.pending \subseteq Expecting)'
    <2>1. Request => Frame.id = 0 \/ Frame.id \in Expecting
      <3>1. SUFFICES ASSUME Request, Kind # "notify" PROVE Frame.id \in Expecting
        BY Zenon DEF Frame
      <3>2. Frame \in Asked /\ Frame.n = client.next /\ Frame.id = client.next
        BY <3>1, FrameIsAsked, Zenon DEF Frame
      <3> QED  BY <3>1, <3>2, Zenon DEF Asked, Expecting, Kind
    <2>2. Expecting' = Expecting
      BY SameScript, Zenon DEF Expecting
    <2> QED  BY <2>1, <2>2, PendingEffect, Zenon DEF GenuineInv
  <1>3. /\ inq \in Seq(G) /\ srv.acks \in Seq(G)
        /\ pushing # None => pushing.frame \in G
        /\ srv.reader = "handling" => srv.frame \in G
    BY <1>1, Zenon DEF GenuineInv
  <1> DEFINE Up == inq' \in Seq(G) /\ (pushing' # None => pushing'.frame \in G)
             Srv == srv'.acks \in Seq(G) /\ (srv'.reader = "handling" => srv'.frame \in G)
  <1>4. Up
    <2>1. CASE Request
      <3>1. Frame \in G
        <4>1. Frame \in Asked
          BY <2>1, FrameIsAsked, Zenon
        <4>2. Frame.id = IF Frame.kind = "notify" THEN 0 ELSE Frame.n
          BY Zenon DEF Frame
        <4> QED  BY <1>1, <4>1, <4>2, Zenon DEF Genuine
      <3>2. Append(inq, Frame) \in Seq(G)
        BY <1>3, <3>1
      <3>3. PICK F : F = Frame
        BY Zenon
      <3>4. CASE ws
        BY <1>3, <2>1, <3>2, <3>4, Zenon DEF Request
      <3>5. CASE ~ws
        <4>1. inq' = inq /\ pushing' = [frame |-> F, at |-> "check"]
          BY <2>1, <3>3, <3>5, Zenon DEF Request
        <4>2. pushing'.frame = F
          BY <4>1, Zenon
        <4> QED  BY <1>3, <3>1, <3>3, <4>1, <4>2, Zenon
      <3> QED  BY <3>4, <3>5, Zenon
    <2>2. CASE PushChecks
      <3>1. pushing \in [frame : Asked, at : {"check", "select"}] /\ inq' = inq
        BY <2>2, Zenon DEF PushChecks, SessionOK
      <3>2. pushing' # None => pushing'.frame = pushing.frame
        BY <2>2, <3>1, Zenon DEF PushChecks
      <3> QED  BY <1>3, <2>2, <3>1, <3>2, Zenon DEF PushChecks
    <2>3. CASE PushSelects
      <3>1. Append(inq, pushing.frame) \in Seq(G)
        BY <1>3, <2>3 DEF PushSelects
      <3> QED  BY <1>3, <2>3, <3>1, Zenon DEF PushSelects
    <2>4. CASE ReaderTakes
      <3>1. inq # << >> /\ inq' = Tail(inq) /\ pushing' = pushing
        BY <2>4, Zenon DEF ReaderTakes
      <3>2. Tail(inq) \in Seq(G)
        BY <1>3, <3>1
      <3> QED  BY <1>3, <3>1, <3>2, Zenon
    <2> QED  BY <1>3, <2>1, <2>2, <2>3, <2>4, UpSame, Zenon
  <1>5. Srv
    <2>1. ASSUME Unless(Fields \ {"reader", "frame", "acks"}) PROVE Srv
      BY <1>3, <2>1, Zenon DEF Unless, Fields
    <2>2. CASE ~ServerStep
      BY <1>3, <2>2, NotServer, Zenon
    <2>3. CASE \E q \in Producers : EnqueueChecks(q) \/ EnqueueSelects(q)
      <3>1. Unless({"slot"}) \/ Unless({"slot", "ch"})
        BY <1>0, <2>3, EnqueueEffect, Zenon
      <3> QED  BY <2>1, <3>1, Zenon DEF Unless, Fields
    <2>4. CASE CloseIn \/ CloseOut \/ PingerEnds \/ DeadlinePasses
      <3>1. Unless({"fsDone", "done", "pinger", "conn"})
        BY <1>0, <2>4, FlagEffect, Zenon
      <3> QED  BY <2>1, <3>1, Zenon DEF Unless, Fields
    <2>5. CASE WriterTakes \/ Write \/ WriterRechecks \/ WriterStops \/ WriteFails
      <3>1. Unless({"writer", "held", "ch", "conn", "done"})
        BY <1>0, <2>5, WriterEffect, Zenon DEF Unless
      <3> QED  BY <2>1, <3>1, Zenon DEF Unless, Fields
    <2>6. CASE Event
      <3>1. Unless({"events", "slot"})
        BY <1>0, <2>6, ProducerEffect, Zenon
      <3> QED  BY <2>1, <3>1, Zenon DEF Unless, Fields
    <2>7. CASE SendAcknowledged
      <3>1. Unless({"acks", "slot"}) /\ srv.acks # << >> /\ srv'.acks = Tail(srv.acks)
        BY <1>0, <2>7, ProducerEffect, Zenon
      <3>2. Tail(srv.acks) \in Seq(G)
        BY <1>3, <3>1
      <3> QED  BY <1>3, <3>1, <3>2, Zenon DEF Unless, Fields
    <2>8. CASE ReaderTakes
      <3>1. Unless({"reader", "frame"}) /\ srv'.frame = Head(inq) /\ inq # << >>
        BY <1>0, <2>8, ReaderEffect, Zenon DEF ReaderTakes
      <3>2. Head(inq) \in G
        BY <1>3, <3>1
      <3> QED  BY <1>3, <3>1, <3>2, Zenon DEF Unless, Fields
    <2>9. CASE ReaderEnds
      <3>1. Unless({"reader", "done", "conn"}) /\ srv'.reader = "gone"
        BY <1>0, <2>9, ReaderEffect, Zenon
      <3> QED  BY <1>3, <3>1, Zenon DEF Unless, Fields
    <2>10. CASE Handle /\ srv.frame.kind \in {"async", "notify"}
      <3>1. srv'.reader = "idle" /\ srv'.acks = Append(srv.acks, srv.frame)
        BY <1>0, <2>10, ReaderEffect, Zenon
      <3>2. srv.frame \in G
        BY <1>3, <2>10, Zenon DEF Handle
      <3>3. Append(srv.acks, srv.frame) \in Seq(G)
        BY <1>3, <3>2
      <3> QED  BY <3>1, <3>3, Zenon
    <2>11. CASE Handle /\ srv.frame.kind \notin {"async", "notify"}
      <3>1. srv'.reader = "idle" /\ Unless({"reader", "frame", "slot"})
        BY <1>0, <2>11, ReaderEffect, Zenon
      <3> QED  BY <1>3, <3>1, Zenon DEF Unless, Fields
    <2> QED  BY <2>2, <2>3, <2>4, <2>5, <2>6, <2>7, <2>8, <2>9, <2>10, <2>11, Zenon DEF ServerStep
  <1> QED  BY <1>1, <1>2, <1>4, <1>5, Zenon DEF GenuineInv

\* No frame is under way at the start.
LEMMA GenuineInit == Init => GenuineInv
  <1> SUFFICES ASSUME Init PROVE GenuineInv
    BY Zenon
  <1>1. inq = << >> /\ srv.acks = << >> /\ pushing = None /\ srv.reader = "idle" /\ client.pending = {}
    BY Zenon DEF Init, NewSession
  <1>2. << >> \in Seq(Genuine)
    OBVIOUS
  <1> QED  BY <1>1, <1>2, Zenon DEF GenuineInv

\* No id is lost while the session is up.
LEMMA AwaitedNext ==
  ASSUME SessionOK, ClosingInv, EndingInv, GenuineInv, AwaitedInv, [Next]_vars
  PROVE  AwaitedInv'
  <1>0. /\ DOMAIN srv = Fields /\ DOMAIN srv.slot = Producers
        /\ "reader" \in Producers /\ "dc" \in Producers
    BY Zenon DEF SessionOK, ServerOK, Producers
  <1>1. SUFFICES ASSUME client'.open, srv'.writer # "gone", srv'.reader # "gone",
                        NEW i \in client'.pending, scenario.script[i] \in {"sync", "async"}
                 PROVE  i \in GoesUp' \cup GoesDown'
    BY SameScript, Zenon DEF AwaitedInv
  <1>2. client.open /\ srv.writer # "gone" /\ srv.reader # "gone" /\ ~srv.done /\ ~srv.fsDone
    BY <1>1, EndsStay, Zenon DEF EndingInv, ClosingInv
  <1>3. /\ inq \in Seq(Asked) /\ srv.acks \in Seq(Deferred) /\ srv.ch \in Seq(Responses)
        /\ down \in Seq(Responses)
    BY Zenon DEF SessionOK, ServerOK
  <1>4. ASSUME i \in client.pending PROVE i \in GoesUp \cup GoesDown
    BY <1>1, <1>2, <1>4, Zenon DEF AwaitedInv
  <1> DEFINE UpSrv == Handling' = Handling /\ srv'.acks = srv.acks
             DownSrv == /\ Produced("reader")' = Produced("reader")
                        /\ Produced("dc")' = Produced("dc")
                        /\ srv'.ch = srv.ch /\ InWriter' = InWriter
  <1>5. ASSUME srv' = srv PROVE UpSrv /\ DownSrv
    BY <1>5, Zenon DEF Handling, Produced, InWriter, Busy
  <1>6. CASE Request
    <2>1. i \in client.pending \/ i = Frame.id
      BY <1>1, <1>6, PendingEffect, Zenon
    <2>2. srv' = srv /\ down' = down /\ pushing = None
      BY <1>6, Zenon DEF Request
    <2>3. PICK q \in Seq(Asked), f \in Asked : q = inq /\ f = Frame
      BY <1>3, <1>6, FrameIsAsked, Zenon
    <2>4. Ids(q) \cup {f.id} \subseteq Ids(Append(q, f))
      BY IdsAtTheEnd
    <2>5. Pushed' \cup Ids(inq') = {f.id} \cup Ids(inq) \/ Ids(inq) \cup {f.id} \subseteq Ids(inq')
      <3>1. CASE ws
        BY <1>6, <2>3, <2>4, <3>1, Zenon DEF Request
      <3>2. CASE ~ws
        <4>1. inq' = inq /\ pushing' = [frame |-> f, at |-> "check"]
          BY <1>6, <2>3, <3>2, Zenon DEF Request
        <4>2. [frame |-> f, at |-> "check"] # None
          BY NoneAssumption DEF Asked
        <4>3. Pushed' = {f.id}
          BY <4>1, <4>2, Zenon DEF Pushed
        <4> QED  BY <4>1, <4>3, Zenon
      <3> QED  BY <3>1, <3>2, Zenon
    <2>6. Pushed = {}
      BY <2>2, Zenon DEF Pushed
    <2> QED  BY <1>4, <1>5, <2>1, <2>2, <2>3, <2>5, <2>6, Zenon DEF GoesUp, GoesDown
  <1>7. ASSUME ~Request PROVE i \in GoesUp \cup GoesDown
    BY <1>1, <1>4, <1>7, PendingEffect, Zenon
  <1>8. CASE PushChecks
    <2>1. pushing \in [frame : Asked, at : {"check", "select"}] /\ pushing # None
      BY <1>8, Zenon DEF PushChecks, SessionOK
    <2>2. srv' = srv /\ down' = down /\ inq' = inq /\ pushing' = [pushing EXCEPT !.at = "select"]
      BY <1>2, <1>8, Zenon DEF PushChecks
    <2>3. pushing'.frame = pushing.frame /\ pushing' # None
      <3>1. pushing' \in [frame : Asked, at : {"check", "select"}] /\ pushing'.frame = pushing.frame
        BY <2>1, <2>2
      <3> QED  BY <3>1, NoneAssumption DEF Asked
    <2>4. Pushed' = Pushed
      BY <2>1, <2>3, Zenon DEF Pushed
    <2>5. ~Request
      BY <1>8, Zenon DEF PushChecks, Request
    <2> QED  BY <1>5, <1>7, <2>2, <2>4, <2>5, Zenon DEF GoesUp, GoesDown
  <1>9. CASE PushSelects
    <2>1. pushing.frame \in Asked /\ pushing # None
      BY <1>9, Zenon DEF PushSelects, SessionOK
    <2>2. srv' = srv /\ down' = down /\ inq' = Append(inq, pushing.frame) /\ ~Request
      BY <1>2, <1>9, Zenon DEF PushSelects, Request
    <2>3. PICK q \in Seq(Asked), f \in Asked : q = inq /\ f = pushing.frame
      BY <1>3, <2>1, Zenon
    <2>4. Ids(q) \cup {f.id} \subseteq Ids(Append(q, f))
      BY IdsAtTheEnd
    <2>5. Pushed = {f.id}
      BY <2>1, <2>3, Zenon DEF Pushed
    <2> QED  BY <1>5, <1>7, <2>2, <2>3, <2>4, <2>5, Zenon DEF GoesUp, GoesDown
  <1>10. CASE ReaderTakes
    <2>1. Unless({"reader", "frame"}) /\ srv'.reader = "handling" /\ srv'.frame = Head(inq)
      BY <1>0, <1>10, ReaderEffect, Zenon
    <2>2. /\ inq # << >> /\ inq' = Tail(inq) /\ pushing' = pushing /\ down' = down
          /\ srv.reader = "idle" /\ client' = client
      BY <1>10, Zenon DEF ReaderTakes, AtRead
    <2>3. PICK q \in Seq(Asked) : q = inq
      BY <1>3, Zenon
    <2>4. Ids(q) \subseteq {Head(q).id} \cup Ids(Tail(q))
      BY <2>2, <2>3, IdsAtTheFront
    <2>5. Handling = {} /\ Handling' = {Head(inq).id} /\ Pushed' = Pushed
      BY <2>1, <2>2, Zenon DEF Handling, Pushed
    <2>6. srv'.acks = srv.acks /\ DownSrv
      BY <1>0, <2>1, Zenon DEF Unless, Fields, Produced, InWriter, Busy
    <2> QED  BY <1>1, <1>4, <2>2, <2>3, <2>4, <2>5, <2>6, Zenon DEF GoesUp, GoesDown
  <1>11. ASSUME ~Request, ~PushChecks, ~PushSelects, ~ReaderTakes
         PROVE  inq' = inq /\ Pushed' = Pushed
    BY <1>11, UpSame, Zenon DEF Pushed
  <1>12. CASE ClientReceives
    <2>1. i # Head(down).id /\ srv' = srv /\ down # << >> /\ down' = Tail(down)
      BY <1>1, <1>2, <1>12, PendingEffect, Zenon DEF ClientReceives
    <2>2. inq' = inq /\ pushing' = pushing
      BY <1>12, Zenon DEF ClientReceives
    <2>3. PICK d \in Seq(Responses) : d = down
      BY <1>3, Zenon
    <2>4. Ids(d) \subseteq {Head(d).id} \cup Ids(Tail(d))
      BY <2>1, <2>3, IdsAtTheFront
    <2>5. Pushed' = Pushed
      BY <2>2, Zenon DEF Pushed
    <2>6. i \in GoesUp \cup GoesDown
      BY <1>1, <1>2, <1>4, <1>12, PendingEffect, Zenon
    <2> QED  BY <1>5, <2>1, <2>2, <2>3, <2>4, <2>5, <2>6, Zenon DEF GoesUp, GoesDown
  <1>13. CASE Handle
    <2>1. srv.reader = "handling" /\ srv.frame \in Genuine /\ srv.slot["reader"] = None
      BY <1>13, Zenon DEF Handle, GenuineInv, SessionOK, ServerOK
    <2>2. down' = down /\ inq' = inq /\ pushing' = pushing /\ client' = client
      BY <1>13, Zenon DEF Handle
    <2>3. PICK f : f = srv.frame
      BY Zenon
    <2>4. i = f.id => f.kind = scenario.script[i]
      <3>1. i # 0
        <4>1. i \in 1 .. Len(scenario.script)
          BY <1>1, <2>2, Zenon DEF GenuineInv, Expecting
        <4> QED  BY <4>1
      <3> QED  BY <2>1, <2>3, <3>1, Zenon DEF Genuine, Asked
    <2>5. Handling = {f.id} /\ Produced("reader") = {} /\ Pushed' = Pushed
      BY <2>1, <2>2, <2>3, Zenon DEF Handling, Produced, Pushed
    <2>6. i \in GoesUp \cup GoesDown
      BY <1>4, <1>1, <2>2, Zenon
    <2>7. CASE f.kind \in {"async", "notify"}
      <3>1. Unless({"reader", "frame", "acks"}) /\ srv'.acks = Append(srv.acks, f)
        BY <1>0, <1>13, <2>3, <2>7, ReaderEffect, Zenon
      <3>2. f \in Deferred
        BY <2>1, <2>3, <2>7, MadeOf, Zenon DEF Genuine
      <3>3. PICK q \in Seq(Deferred) : q = srv.acks
        BY <1>3, Zenon
      <3>4. Ids(q) \cup {f.id} \subseteq Ids(Append(q, f))
        BY <3>2, IdsAtTheEnd
      <3>5. DownSrv
        BY <1>0, <3>1, Zenon DEF Unless, Fields, Produced, InWriter, Busy
      <3> QED  BY <2>2, <2>5, <2>6, <3>1, <3>3, <3>4, <3>5, Zenon DEF GoesUp, GoesDown
    <2>8. CASE f.kind \notin {"async", "notify"}
      <3>1. /\ Unless({"reader", "frame", "slot"})
            /\ \A q \in Producers \ {"reader"} : srv'.slot[q] = srv.slot[q]
            /\ srv'.slot["reader"] = Response(f)
        BY <1>0, <1>13, <2>3, <2>8, ReaderEffect, Zenon
      <3>2. Produced("dc")' = Produced("dc") /\ srv'.ch = srv.ch /\ InWriter' = InWriter
        BY <1>0, <3>1, Zenon DEF Unless, Fields, Produced, InWriter, Busy
      <3>3. srv'.acks = srv.acks
        BY <3>1, Zenon DEF Unless, Fields
      <3>4. i = f.id => Produced("reader")' = {f.id}
        <4>1. SUFFICES ASSUME i = f.id PROVE Produced("reader")' = {f.id}
          BY Zenon
        <4>2. f.kind = "sync"
          BY <1>1, <2>4, <2>8, <4>1, Zenon
        <4>3. srv'.slot["reader"] = [frame |-> [n |-> f.n, id |-> f.id, type |-> "ack"], at |-> "check"]
          BY <3>1, <4>2, Zenon DEF Response, Answer
        <4>4. srv'.slot["reader"].frame.id = f.id
          BY <4>3
        <4>5. srv'.slot["reader"] # None
          <5>1. f.n \in Nat /\ f.id \in Nat
            BY <2>1, <2>3 DEF Genuine, Asked, Frames
          <5>2. srv'.slot["reader"] \in [frame : Responses, at : {"check", "select"}]
            BY <4>3, <5>1 DEF Responses
          <5> QED  BY <5>2, NoneAssumption
        <4> QED  BY <4>4, <4>5, Zenon DEF Produced
      <3> QED  BY <2>2, <2>5, <2>6, <3>2, <3>3, <3>4, Zenon DEF GoesUp, GoesDown
    <2> QED  BY <2>7, <2>8, Zenon
  <1>14. CASE SendAcknowledged
    <2>1. /\ Unless({"acks", "slot"}) /\ srv.acks # << >> /\ srv'.acks = Tail(srv.acks)
          /\ \A q \in Producers \ {"dc"} : srv'.slot[q] = srv.slot[q]
          /\ srv'.slot["dc"] = Answer(Head(srv.acks), Head(srv.acks).id, "ack")
      BY <1>0, <1>14, ProducerEffect, Zenon
    <2>2. /\ down' = down /\ inq' = inq /\ pushing' = pushing /\ client' = client
          /\ srv.slot["dc"] = None
      BY <1>14, Zenon DEF SendAcknowledged
    <2>3. PICK q \in Seq(Deferred) : q = srv.acks
      BY <1>3, Zenon
    <2>4. Ids(q) \subseteq {Head(q).id} \cup Ids(Tail(q)) /\ Head(q) \in Deferred
      BY <2>1, <2>3, IdsAtTheFront
    <2>5. PICK f \in Deferred : f = Head(q)
      BY <2>4, Zenon
    <2>6. Produced("dc")' = {f.id}
      <3>1. srv'.slot["dc"] = [frame |-> [n |-> f.n, id |-> f.id, type |-> "ack"], at |-> "check"]
        BY <2>1, <2>3, <2>5, Zenon DEF Answer
      <3>2. f.n \in Nat /\ f.id \in Nat
        BY DEF Deferred, Asked, Frames
      <3>3. srv'.slot["dc"] \in [frame : Responses, at : {"check", "select"}]
        BY <3>1, <3>2 DEF Responses
      <3>4. srv'.slot["dc"] # None /\ srv'.slot["dc"].frame.id = f.id
        BY <3>1, <3>3, NoneAssumption
      <3> QED  BY <3>4, Zenon DEF Produced
    <2>7. Produced("dc") = {} /\ Pushed' = Pushed /\ Handling' = Handling
      BY <2>1, <2>2, Zenon DEF Produced, Pushed, Handling, Unless, Fields
    <2>8. Produced("reader")' = Produced("reader") /\ srv'.ch = srv.ch /\ InWriter' = InWriter
      BY <1>0, <2>1, Zenon DEF Unless, Fields, Produced, InWriter, Busy
    <2> QED  BY <1>1, <1>4, <2>1, <2>2, <2>3, <2>4, <2>5, <2>6, <2>7, <2>8, Zenon DEF GoesUp, GoesDown
  <1>15. CASE Event
    <2>1. /\ Unless({"events", "slot"})
          /\ \A q \in Producers \ {"event"} : srv'.slot[q] = srv.slot[q]
      BY <1>0, <1>15, ProducerEffect, Zenon
    <2>2. down' = down /\ inq' = inq /\ pushing' = pushing /\ client' = client
      BY <1>15, Zenon DEF Event
    <2>3. UpSrv /\ DownSrv /\ Pushed' = Pushed
      BY <1>0, <2>1, <2>2, Zenon DEF Unless, Fields, Produced, InWriter, Busy, Handling, Pushed
    <2> QED  BY <1>1, <1>4, <2>2, <2>3, Zenon DEF GoesUp, GoesDown
  <1>16. ASSUME NEW p \in Producers, EnqueueChecks(p) \/ EnqueueSelects(p)
         PROVE  i \in GoesUp' \cup GoesDown'
    <2>1. down' = down /\ inq' = inq /\ pushing' = pushing /\ client' = client
      BY <1>16, Zenon DEF EnqueueChecks, EnqueueSelects
    <2>2. /\ Unless({"slot"}) \/ Unless({"slot", "ch"})
          /\ \A q \in Producers \ {p} : srv'.slot[q] = srv.slot[q]
          /\ srv.slot[p] # None
      BY <1>0, <1>16, EnqueueEffect, Zenon
    <2>3. UpSrv /\ Pushed' = Pushed /\ InWriter' = InWriter
      BY <2>1, <2>2, Zenon DEF Unless, Fields, InWriter, Busy, Handling, Pushed
    <2>4. \A q \in Producers \ {p} : Produced(q)' = Produced(q)
      BY <2>2, Zenon DEF Produced
    <2>5. srv.slot[p] \in [frame : Responses, at : {"check", "select"}]
      <3>1. Emits(p) \subseteq Responses
        BY Zenon DEF Emits, Producers, Answers, Events, Others
      <3>2. srv.slot[p] \in [frame : Emits(p), at : {"check", "select"}]
        BY <2>2, Zenon DEF SessionOK, ServerOK
      <3> QED  BY <3>1, <3>2
    <2>6. CASE EnqueueChecks(p)
      <3>1. Unless({"slot"}) /\ srv'.slot[p] = [srv.slot[p] EXCEPT !.at = "select"]
        BY <1>0, <1>2, <2>6, EnqueueEffect, Zenon
      <3>2. /\ srv'.slot[p] \in [frame : Responses, at : {"check", "select"}]
            /\ srv'.slot[p].frame = srv.slot[p].frame
        BY <2>5, <3>1
      <3>3. srv'.slot[p] # None
        BY <3>2, NoneAssumption
      <3>4. Produced(p)' = Produced(p) /\ srv'.ch = srv.ch
        BY <2>2, <3>1, <3>2, <3>3, Zenon DEF Produced, Unless, Fields
      <3> QED  BY <1>0, <1>1, <1>4, <2>1, <2>3, <2>4, <3>4, Zenon DEF GoesUp, GoesDown
    <2>7. CASE EnqueueSelects(p)
      <3>1. srv'.ch = Append(srv.ch, srv.slot[p].frame)
        BY <1>0, <1>2, <2>7, EnqueueEffect, Zenon
      <3>2. PICK c \in Seq(Responses), r \in Responses : c = srv.ch /\ r = srv.slot[p].frame
        BY <1>3, <2>5, Zenon
      <3>3. Ids(c) \cup {r.id} \subseteq Ids(Append(c, r))
        BY IdsAtTheEnd
      <3>4. Produced(p) = {r.id}
        BY <2>2, <3>2, Zenon DEF Produced
      <3> QED  BY <1>0, <1>1, <1>4, <2>1, <2>3, <2>4, <3>1, <3>2, <3>3, <3>4, Zenon
                  DEF GoesUp, GoesDown
    <2> QED  BY <1>16, <2>6, <2>7, Zenon
  <1>17. CASE WriterTakes
    <2>1. /\ Unless({"writer", "held", "ch"}) /\ srv.ch # << >> /\ ~Busy /\ Busy'
          /\ srv'.held = Head(srv.ch) /\ srv'.ch = Tail(srv.ch)
      BY <1>0, <1>17, WriterEffect, Zenon
    <2>2. down' = down /\ inq' = inq /\ pushing' = pushing /\ client' = client
      BY <1>17, Zenon DEF WriterTakes
    <2>3. PICK c \in Seq(Responses) : c = srv.ch
      BY <1>3, Zenon
    <2>4. Ids(c) \subseteq {Head(c).id} \cup Ids(Tail(c))
      BY <2>1, <2>3, IdsAtTheFront
    <2>5. /\ UpSrv /\ Pushed' = Pushed /\ InWriter = {} /\ InWriter' = {Head(srv.ch).id}
          /\ Produced("reader")' = Produced("reader") /\ Produced("dc")' = Produced("dc")
      BY <2>1, <2>2, Zenon DEF Unless, Fields, Produced, InWriter, Handling, Pushed
    <2> QED  BY <1>1, <1>4, <2>1, <2>2, <2>3, <2>4, <2>5, Zenon DEF GoesUp, GoesDown
  <1>18. CASE WriterRechecks
    <2>1. Unless({"writer"}) /\ Busy /\ Busy'
      BY <1>0, <1>1, <1>18, WriterEffect, Zenon
    <2>2. down' = down /\ inq' = inq /\ pushing' = pushing /\ client' = client
      BY <1>18, Zenon DEF WriterRechecks
    <2>3. UpSrv /\ DownSrv /\ Pushed' = Pushed
      BY <2>1, <2>2, Zenon DEF Unless, Fields, Produced, InWriter, Handling, Pushed
    <2> QED  BY <1>1, <1>4, <2>2, <2>3, Zenon DEF GoesUp, GoesDown
  <1>19. CASE Write
    <2>1. Unless({"writer", "held"}) /\ Busy /\ ~Busy' /\ down' = Append(down, srv.held)
      BY <1>0, <1>19, WriterEffect, Zenon
    <2>2. inq' = inq /\ pushing' = pushing /\ client' = client
      BY <1>19, Zenon DEF Write
    <2>3. PICK d \in Seq(Responses), r \in Responses : d = down /\ r = srv.held
      BY <1>3, <2>1, Zenon DEF SessionOK, ServerOK
    <2>4. Ids(d) \cup {r.id} \subseteq Ids(Append(d, r))
      BY IdsAtTheEnd
    <2>5. /\ UpSrv /\ Pushed' = Pushed /\ InWriter = {r.id} /\ srv'.ch = srv.ch
          /\ Produced("reader")' = Produced("reader") /\ Produced("dc")' = Produced("dc")
      BY <2>1, <2>2, <2>3, Zenon DEF Unless, Fields, Produced, InWriter, Handling, Pushed
    <2> QED  BY <1>1, <1>4, <2>1, <2>2, <2>3, <2>4, <2>5, Zenon DEF GoesUp, GoesDown
  <1>20. CASE CloseIn \/ CloseOut \/ PingerEnds \/ DeadlinePasses
    <2>1. Unless({"fsDone", "done", "pinger", "conn"})
      BY <1>0, <1>20, FlagEffect, Zenon
    <2>2. down' = down /\ inq' = inq /\ pushing' = pushing /\ client' = client
      BY <1>20, Zenon DEF CloseIn, CloseOut, PingerEnds, DeadlinePasses
    <2>3. UpSrv /\ DownSrv /\ Pushed' = Pushed
      BY <2>1, <2>2, Zenon DEF Unless, Fields, Produced, InWriter, Busy, Handling, Pushed
    <2> QED  BY <1>1, <1>4, <2>2, <2>3, Zenon DEF GoesUp, GoesDown
  <1>21. ~ReaderEnds /\ ~WriterStops /\ ~WriteFails
    BY <1>0, <1>1, ReaderEffect, WriterEffect, Zenon
  <1>22. CASE ~ServerStep /\ ~ClientReceives /\ ~PushChecks /\ ~PushSelects /\ ~Request
    <2>1. srv' = srv /\ down' = down /\ inq' = inq /\ Pushed' = Pushed
      BY <1>11, <1>22, NotServer, DownSame, Zenon DEF ServerStep
    <2> QED  BY <1>5, <1>7, <1>22, <2>1, Zenon DEF GoesUp, GoesDown
  <1> QED  BY <1>6, <1>8, <1>9, <1>10, <1>12, <1>13, <1>14, <1>15, <1>16, <1>17, <1>18, <1>19,
              <1>20, <1>21, <1>22, Zenon DEF ServerStep

\* No request is made yet.
LEMMA AwaitedInit == Init => AwaitedInv
  <1>1. Init => client.pending = {}
    BY DEF Init
  <1> QED  BY <1>1, Zenon DEF AwaitedInv

-----------------------------------------------------------------------------
(* Quiet states.                                                           *)

\* The guards are guards: a step of Progress is one that someone can take.
LEMMA ProgressIsPossible == Progress => CanProgress
  <1>1. ASSUME NEW p \in Producers, EnqueueChecks(p) \/ EnqueueSelects(p) PROVE CanProgress
    BY <1>1, Zenon DEF CanProgress, EnqueueChecks, EnqueueSelects
  <1>2. ASSUME ClientReceives \/ ClientDisconnected \/ PushChecks \/ PushSelects PROVE CanProgress
    BY <1>2, Zenon DEF CanProgress, ClientReceives, ClientDisconnected, PushChecks, PushSelects
  <1>3. ASSUME CloseIn \/ CloseOut \/ CloseReturns PROVE CanProgress
    BY <1>3, Zenon DEF CanProgress, CloseIn, CloseOut, CloseReturns
  <1>4. ASSUME ReaderTakes \/ ReaderEnds \/ Handle \/ SendAcknowledged PROVE CanProgress
    BY <1>4, Zenon DEF CanProgress, ReaderTakes, ReaderEnds, Handle, SendAcknowledged
  <1>5. ASSUME WriterTakes \/ WriterRechecks \/ WriterStops \/ Write \/ WriteFails PROVE CanProgress
    BY <1>5, Zenon DEF CanProgress, WriterTakes, WriterRechecks, WriterStops, Write, WriteFails
  <1>6. ASSUME PingerEnds \/ DeadlinePasses PROVE CanProgress
    BY <1>6, Zenon DEF CanProgress, PingerEnds, DeadlinePasses
  <1> QED  BY <1>1, <1>2, <1>3, <1>4, <1>5, <1>6, Zenon DEF Progress

QuietInv == SessionOK /\ ClosingInv /\ EndingInv /\ GenuineInv /\ AwaitedInv

\* The parts of the invariant hold at the start and go on holding together.
LEMMA QuietInvariant == Spec => []QuietInv
  <1>1. Init => QuietInv
    BY SessionInit, ClosingInit, EndingInit, GenuineInit, AwaitedInit, Zenon DEF QuietInv
  <1>2. QuietInv /\ [Next]_vars => QuietInv'
    BY SessionNext, ClosingNext, EndingNext, GenuineNext, AwaitedNext, Zenon DEF QuietInv
  <1> QED  BY <1>1, <1>2, PTL DEF Spec

\* A producer that waits for room waits for the writer, which waits for the
\* socket.
LEMMA WaitsForWriter ==
  ASSUME QuietInv, Quiet, NEW p \in Producers, srv.slot[p] # None
  PROVE  ws /\ ~srv.done /\ Len(srv.ch) = ChanSize /\ srv.writer = "writing" /\ ~CanWrite
  <1>0. srv.ch \in Seq(Responses) /\ Len(srv.ch) <= ChanSize /\ ChanSize \in Nat \ {0}
    BY SizeAssumption, Zenon DEF QuietInv, SessionOK, ServerOK, EndingInv
  <1>1. Select(p) = {}
    BY Zenon DEF Quiet, CanProgress
  <1>2. ~srv.done /\ ~(Len(srv.ch) < ChanSize)
    BY <1>1, Zenon DEF Select
  <1>3. Len(srv.ch) = ChanSize /\ srv.ch # << >>
    BY <1>0, <1>2
  <1>4. srv.writer = "writing" /\ ~CanWrite
    BY <1>2, <1>3, Zenon DEF Quiet, CanProgress, QuietInv, EndingInv
  <1> QED  BY <1>2, <1>3, <1>4, Transport, Zenon DEF CanWrite, QuietInv

\* No call is under way when nobody can go on.
LEMMA QuietCalls ==
  ASSUME QuietInv, Quiet
  PROVE  pushing = None /\ closer \in {"no", "returned"}
  <1>1. closer \in {"no", "returned"}
    <2>1. ASSUME closer = "out" PROVE FALSE
      <3>1. srv.done /\ shared /\ srv.writer # "gone"
        BY <2>1, Zenon DEF Quiet, CanProgress, QuietInv, ClosingInv, WriterDone
      <3> QED  BY <3>1, Zenon DEF Quiet, CanProgress, QuietInv, EndingInv, CanWrite
    <2> QED  BY <2>1, Zenon DEF Quiet, CanProgress, QuietInv, ClosingInv
  <1>2. ASSUME pushing # None PROVE FALSE
    <2>0. inq \in Seq(Asked) /\ ChanSize \in Nat \ {0}
      BY SizeAssumption, Zenon DEF QuietInv, SessionOK
    <2>1. shared /\ ~(Len(inq) < ChanSize) /\ ~srv.fsDone
      BY <1>2, Zenon DEF Quiet, CanProgress, QuietInv, ClosingInv
    <2>2. inq # << >>
      BY <2>0, <2>1
    <2>3. srv.reader = "idle" /\ srv.conn = "up"
      BY <2>1, Transport, Zenon DEF Quiet, CanProgress, QuietInv, EndingInv
    <2>4. srv.slot["reader"] = None
      BY <2>1, Transport, WaitsForWriter, Zenon DEF Producers, QuietInv
    <2> QED  BY <2>2, <2>3, <2>4, Zenon DEF Quiet, CanProgress, AtRead
  <1> QED  BY <1>1, <1>2, Zenon

(***************************************************************************)
(* PionBridgeSend and PionBridgeClose always return: when nobody can go on *)
(* no call is under way, whatever the room of the channels, and although   *)
(* the isolate that waits in the call takes no frame meanwhile.            *)
(***************************************************************************)
THEOREM CallsAlwaysReturn == Spec => []CallsReturn
  <1>1. QuietInv => CallsReturn
    BY QuietCalls, Zenon DEF CallsReturn
  <1> QED  BY <1>1, QuietInvariant, PTL

(***************************************************************************)
(* Closing releases everyone: when the client has closed or has been       *)
(* disconnected and nobody can go on, both loops, the pinger and every     *)
(* producer have ended, and no request waits (connWriter, FrameSession).   *)
(***************************************************************************)
THEOREM EveryoneLeaves == Spec => []NobodyLeftBehind
  <1>1. ASSUME QuietInv, Quiet, ~client.open
        PROVE  /\ srv.reader = "gone" /\ srv.writer = "gone" /\ ~srv.pinger
               /\ \A p \in Producers : srv.slot[p] = None
               /\ client.pending = {}
    <2> USE <1>1
    <2>1. \A p \in Producers : srv.slot[p] = None
      BY WaitsForWriter, Zenon DEF Quiet, CanProgress
    <2>2. (ws \/ shared) /\ ~(ws /\ shared)
      BY Transport, Zenon DEF QuietInv
    <2>3. srv.slot["reader"] = None
      BY <2>1, Zenon DEF Producers
    <2>4. shared => srv.fsDone /\ srv.writer = "gone"
      BY QuietCalls, Zenon DEF QuietInv, ClosingInv
    <2>5. srv.reader = "gone"
      BY <2>2, <2>3, <2>4, Zenon DEF Quiet, CanProgress, AtRead, QuietInv, EndingInv
    <2>6. srv.done /\ srv.writer = "gone"
      BY <2>2, <2>4, <2>5, Zenon DEF Quiet, CanProgress, QuietInv, EndingInv
    <2>7. ~srv.pinger /\ client.pending = {}
      BY <2>6, Zenon DEF Quiet, CanProgress, QuietInv, EndingInv
    <2> QED  BY <2>1, <2>5, <2>6, <2>7, Zenon
  <1>2. QuietInv => NobodyLeftBehind
    BY <1>1, Zenon DEF NobodyLeftBehind
  <1> QED  BY <1>2, QuietInvariant, PTL

(***************************************************************************)
(* The read deadline drops a client that stands still, but for one way to  *)
(* get stuck: the read loop waits for room in cw.ch and the writer for the *)
(* socket (handleWebSocket).                                               *)
(***************************************************************************)
THEOREM StalledIsDropped == Spec => []StalledClientIsDropped
  <1>1. ASSUME QuietInv, Quiet, ws, ~Awake, srv.conn # "closed"
        PROVE  srv.slot["reader"] # None
    <2> USE <1>1
    <2>1. srv.conn # "up"
      BY Zenon DEF Quiet, CanProgress, NoPong
    <2>2. srv.reader # "gone" /\ srv.reader # "handling"
      BY Zenon DEF Quiet, CanProgress, QuietInv, EndingInv
    <2> QED  BY <2>1, <2>2, Zenon DEF Quiet, CanProgress, AtRead, QuietInv, EndingInv
  <1>2. QuietInv => StalledClientIsDropped
    BY <1>1, WaitsForWriter, Zenon DEF StalledClientIsDropped, Producers
  <1> QED  BY <1>2, QuietInvariant, PTL

(***************************************************************************)
(* Every request is answered while the session is up, unless its handler   *)
(* panicked or its frame did not decode: when nobody can go on no frame is *)
(* under way in either direction, so nothing else still waits              *)
(* (processFrame, handleFrame).                                            *)
(***************************************************************************)
THEOREM RequestsAreAnswered == Spec => []OnlyPanicsUnanswered
  <1>1. ASSUME QuietInv, Quiet, client.open, Awake,
               NEW i \in client.pending, scenario.script[i] \in {"sync", "async"}
        PROVE  FALSE
    <2> USE <1>1
    <2>1. (ws \/ shared) /\ ~(ws /\ shared)
      BY Transport, Zenon DEF QuietInv
    <2>2. pushing = None /\ closer = "no"
      BY QuietCalls, Zenon DEF QuietInv, ClosingInv
    <2>3. Free /\ down = << >>
      BY <2>2, Zenon DEF Free, Quiet, CanProgress
    <2>4. srv.conn # "closed" /\ ~srv.fsDone
      BY <2>1, <2>2, <2>3, Zenon DEF Quiet, CanProgress, QuietInv, ClosingInv, EndingInv
    <2>5. srv.writer # "gone" /\ srv.reader # "gone"
      BY <2>1, <2>2, <2>4, Zenon DEF QuietInv, EndingInv
    <2>6. CanWrite
      <3>1. Len(down) < NetSize
        BY <2>3, SizeAssumption
      <3> QED  BY <2>1, <2>4, <3>1, Zenon DEF CanWrite
    <2>7. \A p \in Producers : srv.slot[p] = None
      BY <2>6, WaitsForWriter, Zenon
    <2>8. srv.writer = "idle" /\ srv.ch = << >>
      BY <2>5, <2>6, Zenon DEF Quiet, CanProgress, QuietInv, EndingInv
    <2>9. srv.slot["reader"] = None /\ srv.slot["dc"] = None /\ srv.acks = << >>
      BY <2>7, Zenon DEF Producers, Quiet, CanProgress
    <2>10. srv.reader = "idle" /\ inq = << >>
      BY <2>1, <2>5, <2>9, Zenon DEF Quiet, CanProgress, AtRead, QuietInv, EndingInv
    <2>11. Ids(<< >>) = {}
      BY DEF Ids
    <2>12. GoesUp \cup GoesDown = {}
      BY <2>2, <2>3, <2>8, <2>9, <2>10, <2>11, Zenon DEF GoesUp, GoesDown, Pushed, Handling,
         Produced, InWriter, Busy
    <2>13. i \in GoesUp \cup GoesDown
      BY <2>5, Zenon DEF QuietInv, AwaitedInv
    <2> QED  BY <2>12, <2>13, Zenon
  <1>2. ASSUME QuietInv, NEW i \in client.pending
        PROVE  scenario.script[i] \in {"sync", "async", "panic", "malformed"}
    <2>1. i \in 1 .. Len(scenario.script) /\ scenario.script[i] # "notify"
      BY <1>2, Zenon DEF QuietInv, GenuineInv, Expecting
    <2>2. scenario.script \in Seq(Kinds)
      BY <1>2, ScenariosAssumption, Zenon DEF QuietInv, SessionOK
    <2>3. scenario.script[i] \in Kinds
      BY <2>1, <2>2
    <2> QED  BY <2>1, <2>3, Zenon DEF Kinds
  <1>3. QuietInv => OnlyPanicsUnanswered
    BY <1>1, <1>2, Zenon DEF OnlyPanicsUnanswered
  <1> QED  BY <1>3, QuietInvariant, PTL
=============================================================================
