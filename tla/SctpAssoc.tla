------------------------------ MODULE SctpAssoc ------------------------------
(***************************************************************************)
(* The life of an SCTP association between two endpoints                   *)
(* (go/pion-sctp-patched/association.go): the four-way handshake, opened   *)
(* by one side, by both at once, or out of band (SNAP); the graceful       *)
(* shutdown; ABORT; Close.  Each endpoint has a read loop, a write loop,   *)
(* the goroutines of its retransmission timers and one goroutine of the    *)
(* application, which calls Client or Server and then ends the             *)
(* association.  Packets may be lost and overtake each other.              *)
(*                                                                         *)
(* A step is one critical section of a.lock, or one operation outside it.  *)
(* The lock is held across steps in one place only: completeHandshake      *)
(* blocks on an unbuffered channel while it holds it.  A read from the     *)
(* connection is one step with the handling of what was read, and a write  *)
(* one step with the gathering of what is written: a packet that is held   *)
(* up between the two could as well have been held up in the network.      *)
(*                                                                         *)
(* Data transfer is in SctpTransfer; here each endpoint sends at most one  *)
(* DATA chunk, which is what the shutdown has to wait for.                 *)
(***************************************************************************)
EXTENDS RtxTimer, Sequences

CONSTANTS
  Endpoints,        \* the two ends
  Scenarios,        \* how the ends open, what their applications do, and bounds:
                    \* the expiries of a timer between two starts (maxRtos)
                    \* and the packets that the network loses (maxLost)
  MaxInitRetrans,   \* maxInitRetrans: T1 retransmissions before giving up
  None

TimerIds == {"t1Init", "t1Cookie", "t2Shutdown", "t3RTX"}
maxRetrans(t) == IF t \in {"t1Init", "t1Cookie"} THEN MaxInitRetrans ELSE 0
Roles == {"client", "server", "snap"}
Deeds == {"write", "shutdown", "cancelShutdown", "abort", "close", "cancelOpen"}
Handshaking == {"closed", "cookieWait", "cookieEchoed"}
\* A completeHandshake call: whose it is, its outcome, and whether a
\* COOKIE-ACK follows.
Handshakes == [by : {"reader", "timer"}, ok : BOOLEAN, ack : BOOLEAN]

ASSUME EndpointsAssumption ==
  /\ \E x, y \in Endpoints : x # y /\ Endpoints = {x, y}
  /\ None \notin Endpoints
ASSUME ScenariosAssumption ==
  \A s \in Scenarios : /\ s.role \in [Endpoints -> Roles]
                       \* tokens are exchanged by both ends or by neither
                       /\ \A e, f \in Endpoints : s.role[e] = "snap" => s.role[f] = "snap"
                       /\ s.interleaving \in [Endpoints -> BOOLEAN]
                       /\ s.deeds \in [Endpoints -> SUBSET Deeds]
                       /\ s.maxRtos \in Nat /\ s.maxLost \in Nat
ASSUME RetransAssumption == MaxInitRetrans \in Nat \ {0}
ASSUME NoneAssumption == None \notin Handshakes

VARIABLES
  scenario,   \* the member of Scenarios this behaviour follows
  assoc,      \* the Association struct of each endpoint
  closing,    \* closeWriteLoopCh is closed
  readClosed, \* readLoopCloseCh is closed
  handshake,  \* the completeHandshake call that is blocked with a.lock held
  reader,     \* where the read loop stands
  writer,     \* where the write loop stands
  app,        \* where the application's goroutine stands
  due,        \* timer callbacks that wait for a.lock
  conn,       \* the netConn: open, closed, or past its read deadline
  net,        \* packets in flight, each with its destination
  lost        \* how many packets were lost

vars == <<scenario, assoc, closing, readClosed, handshake, reader, writer,
          app, due, conn, net, lost>>

Peer(e) == CHOOSE p \in Endpoints : p # e
role(e) == scenario.role[e]
May(e, deed) == deed \in scenario.deeds[e]
LockFree(e) == handshake[e] = None

\* createAssociationFromConfigWithTsn.  A tag, a cookie and an initial TSN are
\* random, so each is represented by the endpoint that chose it.
NewAssociation(e) ==
  [state |-> "closed", peerTag |-> None, peerTSN |-> None, myCookie |-> None,
   localInterleaving |-> scenario.interleaving[e], peerInterleaving |-> FALSE,
   peerForwardTSN |-> FALSE, useInterleaving |-> FALSE, useForwardTSN |-> FALSE,
   useIForwardTSN |-> FALSE, storedInit |-> FALSE, storedCookieEcho |-> None,
   control |-> << >>, willSend |-> {}, awake |-> FALSE,
   data |-> "none", idata |-> FALSE, retransmit |-> FALSE,
   received |-> FALSE, ackNow |-> FALSE,
   timer |-> [t \in TimerIds |-> newRTXTimer]]

Init ==
  /\ scenario \in Scenarios
  /\ assoc = [e \in Endpoints |-> NewAssociation(e)]
  /\ closing = [e \in Endpoints |-> FALSE]
  /\ readClosed = [e \in Endpoints |-> FALSE]
  /\ handshake = [e \in Endpoints |-> None]
  /\ reader = [e \in Endpoints |-> "off"]
  /\ writer = [e \in Endpoints |-> "off"]
  /\ app = [e \in Endpoints |-> "new"]
  /\ due = [e \in Endpoints |-> {}]
  /\ conn = [e \in Endpoints |-> "open"]
  /\ net = {}
  /\ lost = 0

-----------------------------------------------------------------------------
(* Helpers of the handlers: an association in, an association out.         *)

setState(a, s) == [a EXCEPT !.state = s]
startTimer(a, t) == [a EXCEPT !.timer[t] = start(@)]
stopTimer(a, t) == [a EXCEPT !.timer[t] = stop(@)]
LeaveT1(a) == [a EXCEPT !.timer = [t \in TimerIds |-> IF t = "t1Init" THEN @[t] ELSE close(@[t])]]
closeAllTimers(a) == [a EXCEPT !.timer = [t \in TimerIds |-> close(a.timer[t])]]
awakeWriteLoop(a) == [a EXCEPT !.awake = TRUE]
push(a, chunk) == awakeWriteLoop([a EXCEPT !.control = Append(@, chunk)])
will(a, what) == awakeWriteLoop([a EXCEPT !.willSend = @ \cup {what}])

\* The extensions that an INIT or INIT-ACK lists: FORWARD-TSN always, I-DATA
\* and I-FORWARD-TSN together.
Extensions(e, a) == [from |-> e, interleaving |-> a.localInterleaving]

sendInit(a, e) ==
  IF a.storedInit THEN push(a, [type |-> "INIT", ext |-> Extensions(e, a)]) ELSE a

sendCookieEcho(a) ==
  IF a.storedCookieEcho # None
  THEN push(a, [type |-> "COOKIE-ECHO", cookie |-> a.storedCookieEcho]) ELSE a

PeerDecides(a) == a.peerInterleaving
BothOffer(a) == a.localInterleaving /\ a.peerInterleaving

updateInterleavingState(a) ==
  [a EXCEPT !.useInterleaving = BothOffer(a),
            !.useIForwardTSN = BothOffer(a),
            !.useForwardTSN = ~BothOffer(a) /\ a.peerForwardTSN]

\* What INIT, INIT-ACK and an out-of-band token tell about the peer.
learnPeer(a, ext) ==
  updateInterleavingState(
    [a EXCEPT !.peerTag = ext.from, !.peerTSN = ext.from,
              !.peerForwardTSN = TRUE, !.peerInterleaving = ext.interleaving])

establish(a) == setState(updateInterleavingState(a), "established")

\* abortProtocolViolation
violation(a) == will([a EXCEPT !.willSend = @ \cup {"violation"}], "abort")

(* The chunk handlers that leave the lock when they return.                *)

handleInit(a, e, c) ==
  IF a.state \notin Handshaking THEN a
  ELSE LET b == [learnPeer(a, c.ext) EXCEPT !.myCookie = e]
       IN  push(b, [type |-> "INIT-ACK", ext |-> Extensions(e, b), cookie |-> e])

\* storedInit goes when the INIT-ACK comes: a late T1-init callback then has
\* nothing to send.
KeepInit(a) == stopTimer(a, "t1Init")
ForgetInit(a) == [stopTimer(a, "t1Init") EXCEPT !.storedInit = FALSE]
ForgetCookieEcho(a) == [stopTimer(a, "t1Cookie") EXCEPT !.storedCookieEcho = None]

handleInitAck(a, c) ==
  IF a.state # "cookieWait" THEN a
  ELSE LET b == [ForgetInit(learnPeer(a, c.ext)) EXCEPT !.storedCookieEcho = c.cookie]
       IN  setState(startTimer(sendCookieEcho(b), "t1Cookie"), "cookieEchoed")

handleData(a, c) ==
  IF a.state \notin {"established", "shutdownPending", "shutdownReceived"} THEN a
  ELSE IF c.idata # a.useInterleaving THEN violation(a)
  ELSE awakeWriteLoop([a EXCEPT !.received = TRUE, !.ackNow = TRUE])

\* handleSack of a SACK that acknowledges the chunk, then postprocessSack.
AckShutdown(a) ==
  CASE a.state = "shutdownPending" -> setState(will(a, "shutdown"), "shutdownSent")
    [] a.state = "shutdownReceived" -> setState(will(a, "shutdownAck"), "shutdownAckSent")
    [] OTHER -> a
handleSack(a) ==
  IF a.state \notin {"established", "shutdownPending", "shutdownReceived"} THEN a
  ELSE AckShutdown(awakeWriteLoop(
         [stopTimer(a, "t3RTX") EXCEPT !.data = IF @ = "inflight" THEN "acked" ELSE @,
                                       !.retransmit = FALSE]))

AckAtOnce(a) == setState(will(a, "shutdownAck"), "shutdownAckSent")
handleShutdown(a) ==
  CASE a.state = "established" /\ a.data = "inflight" -> setState(a, "shutdownReceived")
    [] a.state = "established" /\ a.data # "inflight" -> AckAtOnce(a)
    [] a.state = "shutdownSent" -> AckAtOnce(a)
    [] OTHER -> a

handleShutdownAck(a) ==
  IF a.state \in {"shutdownSent", "shutdownAckSent"}
  THEN will(stopTimer(a, "t2Shutdown"), "shutdownComplete") ELSE a

\* close(): what it does to the struct; Close(e, a) below is all of it.
closeAssoc(a) == setState(closeAllTimers(a), "closed")

-----------------------------------------------------------------------------
(* What several actions share.                                             *)

Set(e, a) == assoc' = [assoc EXCEPT ![e] = a]
Goto(e, l) == app' = [app EXCEPT ![e] = l]
Close(e, a) ==
  /\ Set(e, closeAssoc(a))
  /\ conn' = [conn EXCEPT ![e] = "closed"]
  /\ closing' = [closing EXCEPT ![e] = TRUE]

chanVars == <<closing, readClosed>>
netVars == <<conn, net, lost>>

(* The application's goroutine.                                            *)

\* ServerWithOptions, ClientWithOptions and, with tokens exchanged out of
\* band, createSNAPAssociation: the loops start, and a client sends its INIT.
Open(e) ==
  LET a == assoc[e]
      i == [a EXCEPT !.storedInit = TRUE]
  IN  /\ app[e] = "new"
      /\ reader' = [reader EXCEPT ![e] = "read"]
      /\ writer' = [writer EXCEPT ![e] = "gather"]
      /\ \/ role(e) = "server" /\ Goto(e, "opening") /\ UNCHANGED assoc
         \/ /\ role(e) = "client"
            /\ Goto(e, "opening")
            /\ Set(e, startTimer(setState(sendInit(i, e), "cookieWait"), "t1Init"))
         \/ /\ role(e) = "snap"
            /\ Goto(e, "open")
            /\ Set(e, establish(learnPeer(a, Extensions(Peer(e), assoc[Peer(e)]))))
      /\ UNCHANGED <<scenario, chanVars, handshake, due, netVars>>

\* completeHandshake meets the select of Client or Server.
HandshakeCompleted(e) ==
  LET h == handshake[e]
  IN  /\ h # None
      /\ app[e] = "opening"
      /\ Goto(e, IF h.ok THEN "open" ELSE "failed")
      /\ handshake' = [handshake EXCEPT ![e] = None]
      /\ reader' = IF h.by = "reader" THEN [reader EXCEPT ![e] = "read"] ELSE reader
      /\ Set(e, IF h.ack THEN push(assoc[e], [type |-> "COOKIE-ACK"]) ELSE assoc[e])
      /\ UNCHANGED <<scenario, chanVars, writer, due, netVars>>

\* completeHandshake finds one of the loops closed.
HandshakeDropped(e) ==
  LET h == handshake[e]
  IN  /\ h # None
      /\ closing[e] \/ readClosed[e]
      /\ handshake' = [handshake EXCEPT ![e] = None]
      /\ reader' = IF h.by = "reader" THEN [reader EXCEPT ![e] = "read"] ELSE reader
      /\ UNCHANGED <<scenario, assoc, chanVars, writer, app, due, netVars>>

\* The select of Client or Server returns ErrAssociationClosedBeforeConn.
OpenRefused(e) ==
  /\ app[e] = "opening"
  /\ readClosed[e]
  /\ Goto(e, "failed")
  /\ UNCHANGED <<scenario, assoc, chanVars, handshake, reader, writer, due, netVars>>

\* The context of a client's open is done: Close, then wait for the read loop.
OpenCanceled(e) ==
  /\ app[e] = "opening"
  /\ role(e) = "client"
  /\ May(e, "cancelOpen")
  /\ Close(e, assoc[e])
  /\ Goto(e, "closing")
  /\ UNCHANGED <<scenario, readClosed, handshake, reader, writer, due, net, lost>>

\* Stream.WriteSCTP of a message of one chunk (sendPayloadData).
Write(e) ==
  LET a == assoc[e]
  IN  /\ app[e] = "open"
      /\ May(e, "write")
      /\ LockFree(e)
      /\ a.state = "established"
      /\ a.data = "none"
      /\ Set(e, awakeWriteLoop([a EXCEPT !.data = "pending", !.idata = a.useInterleaving]))
      /\ UNCHANGED <<scenario, chanVars, handshake, reader, writer, app, due, netVars>>

\* Shutdown reads the state, sets it, and only then takes the lock.
ShutdownCheck(e) ==
  /\ app[e] = "open"
  /\ May(e, "shutdown")
  /\ Goto(e, IF assoc[e].state = "established" THEN "shutdownSet" ELSE "ended")
  /\ UNCHANGED <<scenario, assoc, chanVars, handshake, reader, writer, due, netVars>>

ShutdownSet(e) ==
  /\ app[e] = "shutdownSet"
  /\ Set(e, setState(assoc[e], "shutdownPending"))
  /\ Goto(e, "shutdownLock")
  /\ UNCHANGED <<scenario, chanVars, handshake, reader, writer, due, netVars>>

PendingEmpty(a) == a.data # "pending"
InflightEmpty(a) == a.data # "inflight"
ShutdownLocked(e) ==
  LET a == assoc[e]
  IN  /\ app[e] = "shutdownLock"
      /\ LockFree(e)
      /\ Set(e, IF InflightEmpty(a) THEN setState(will(a, "shutdown"), "shutdownSent") ELSE a)
      /\ Goto(e, "shutdownWait")
      /\ UNCHANGED <<scenario, chanVars, handshake, reader, writer, due, netVars>>

ShutdownReturns(e) ==
  /\ app[e] = "shutdownWait"
  /\ closing[e] \/ May(e, "cancelShutdown")
  /\ Goto(e, "ended")
  /\ UNCHANGED <<scenario, assoc, chanVars, handshake, reader, writer, due, netVars>>

\* Abort: ask the write loop for an ABORT, wait until it was written or 200 ms
\* have passed, then force the read loop out.
AbortAsk(e) ==
  /\ app[e] \in {"open", "ended"}
  /\ May(e, "abort")
  /\ LockFree(e)
  /\ Set(e, will(assoc[e], "abort"))
  /\ Goto(e, "abortFlush")
  /\ UNCHANGED <<scenario, chanVars, handshake, reader, writer, due, netVars>>

AbortFlushed(e) ==
  /\ app[e] = "abortFlush"
  /\ conn' = [conn EXCEPT ![e] = IF @ = "open" THEN "deadline" ELSE @]
  /\ Goto(e, "closing")
  /\ UNCHANGED <<scenario, assoc, chanVars, handshake, reader, writer, due, net, lost>>

\* Close: close(), then wait for the read loop.
CloseAsk(e) ==
  /\ app[e] \in {"open", "ended", "failed"}
  /\ May(e, "close")
  /\ Close(e, assoc[e])
  /\ Goto(e, "closing")
  /\ UNCHANGED <<scenario, readClosed, handshake, reader, writer, due, net, lost>>

CloseReturns(e) ==
  /\ app[e] = "closing"
  /\ readClosed[e]
  /\ Goto(e, "gone")
  /\ UNCHANGED <<scenario, assoc, chanVars, handshake, reader, writer, due, netVars>>

-----------------------------------------------------------------------------
(* The read loop.                                                          *)

\* netConn.Read returns packet p, which handleInbound takes apart.
Reads(e, p) ==
  /\ reader[e] = "read"
  /\ conn[e] = "open"
  /\ p.to = e
  /\ LockFree(e)
  /\ net' = net \ {p}

\* The chunks whose handlers neither block nor close.
HandleSimple(e, p) ==
  LET a == assoc[e]
      c == p.chunk
  IN  /\ Reads(e, p)
      /\ c.type \in {"INIT", "INIT-ACK", "DATA", "SACK", "SHUTDOWN", "SHUTDOWN-ACK"}
      /\ Set(e, CASE c.type = "INIT" -> handleInit(a, e, c)
                   [] c.type = "INIT-ACK" -> handleInitAck(a, c)
                   [] c.type = "DATA" -> handleData(a, c)
                   [] c.type = "SACK" -> handleSack(a)
                   [] c.type = "SHUTDOWN" -> handleShutdown(a)
                   [] c.type = "SHUTDOWN-ACK" -> handleShutdownAck(a))
      /\ UNCHANGED <<scenario, chanVars, handshake, reader, writer, app, due, conn, lost>>

\* A handler blocks in completeHandshake; `ack': a COOKIE-ACK follows.
Block(e, by, ok, ack) ==
  handshake' = [handshake EXCEPT ![e] = [by |-> by, ok |-> ok, ack |-> ack]]

\* The states in which a COOKIE-ECHO completes the handshake.
CookieStates == Handshaking

Blocked(e) == reader' = [reader EXCEPT ![e] = "blocked"]

HandleCookieEcho(e, p) ==
  LET a == assoc[e]
      mine == a.myCookie # None /\ p.chunk.cookie = a.myCookie
  IN  /\ Reads(e, p)
      /\ p.chunk.type = "COOKIE-ECHO"
      /\ \/ /\ mine
            /\ a.state \in CookieStates
            /\ Set(e, establish(ForgetCookieEcho(ForgetInit(a))))
            /\ Block(e, "reader", TRUE, TRUE)
            /\ Blocked(e)
         \/ /\ mine
            /\ a.state = "established"
            /\ Set(e, push(a, [type |-> "COOKIE-ACK"]))
            /\ UNCHANGED <<handshake, reader>>
         \/ /\ ~mine \/ a.state \notin Handshaking \cup {"established"}
            /\ UNCHANGED <<assoc, handshake, reader>>
      /\ UNCHANGED <<scenario, chanVars, writer, app, due, conn, lost>>

HandleCookieAck(e, p) ==
  LET a == assoc[e]
  IN  /\ Reads(e, p)
      /\ p.chunk.type = "COOKIE-ACK"
      /\ IF a.state = "cookieEchoed"
         THEN /\ Set(e, establish(ForgetCookieEcho(a)))
              /\ Block(e, "reader", TRUE, FALSE)
              /\ Blocked(e)
         ELSE UNCHANGED <<assoc, handshake, reader>>
      /\ UNCHANGED <<scenario, chanVars, writer, app, due, conn, lost>>

\* handleShutdownComplete, which closes only in SHUTDOWN-ACK-SENT.
HandleShutdownComplete(e, p) ==
  LET a == assoc[e]
  IN  /\ Reads(e, p)
      /\ p.chunk.type = "SHUTDOWN-COMPLETE"
      /\ IF a.state = "shutdownAckSent"
         THEN Close(e, stopTimer(a, "t2Shutdown"))
         ELSE UNCHANGED <<assoc, conn, closing>>
      /\ UNCHANGED <<scenario, readClosed, handshake, reader, writer, app, due, lost>>

\* handleAbort closes, and its error ends the read loop.
HandleAbort(e, p) ==
  /\ Reads(e, p)
  /\ p.chunk.type = "ABORT"
  /\ Close(e, assoc[e])
  /\ reader' = [reader EXCEPT ![e] = "exit"]
  /\ UNCHANGED <<scenario, readClosed, handshake, writer, app, due, lost>>

\* netConn.Read fails: closed here, past the deadline, or closed by the peer.
ReadFails(e) ==
  /\ reader[e] = "read"
  /\ conn[e] # "open" \/ conn[Peer(e)] = "closed"
  /\ reader' = [reader EXCEPT ![e] = "exit"]
  /\ closing' = [closing EXCEPT ![e] = TRUE]
  /\ UNCHANGED <<scenario, assoc, readClosed, handshake, writer, app, due, netVars>>

ReadLoopEnds(e) ==
  /\ reader[e] = "exit"
  /\ LockFree(e)
  /\ Set(e, setState(assoc[e], "closed"))
  /\ reader' = [reader EXCEPT ![e] = "done"]
  /\ readClosed' = [readClosed EXCEPT ![e] = TRUE]
  /\ net' = {p \in net : p.to # e}
  /\ UNCHANGED <<scenario, closing, handshake, writer, app, due, conn, lost>>

-----------------------------------------------------------------------------
(* The write loop.                                                         *)

\* Each gatherer adds to what was gathered: the association, the packets.
DataChunk(a) == [type |-> "DATA", idata |-> a.idata]
Add(g, a, chunk) == [assoc |-> a, packets |-> g.packets \cup {chunk}]

gatherRetransmit(g) ==
  IF g.assoc.retransmit /\ g.assoc.data = "inflight"
  THEN Add(g, [g.assoc EXCEPT !.retransmit = FALSE], DataChunk(g.assoc)) ELSE g

gatherData(g) ==
  IF g.assoc.data = "pending"
  THEN Add(g, startTimer([g.assoc EXCEPT !.data = "inflight"], "t3RTX"), DataChunk(g.assoc))
  ELSE g

gatherSack(g) ==
  IF g.assoc.ackNow THEN Add(g, [g.assoc EXCEPT !.ackNow = FALSE], [type |-> "SACK"]) ELSE g

\* One of the three at a time; the flag is cleared and T2 started.
Took(a, what) == [a EXCEPT !.willSend = @ \ {what}]
gatherShutdown(g) ==
  LET a == g.assoc
  IN  CASE "shutdown" \in a.willSend ->
             Add(g, startTimer(Took(a, "shutdown"), "t2Shutdown"), [type |-> "SHUTDOWN"])
        [] "shutdown" \notin a.willSend /\ "shutdownAck" \in a.willSend ->
             Add(g, startTimer(Took(a, "shutdownAck"), "t2Shutdown"), [type |-> "SHUTDOWN-ACK"])
        [] a.willSend \cap {"shutdown", "shutdownAck", "shutdownComplete"} = {"shutdownComplete"} ->
             Add(g, Took(a, "shutdownComplete"), [type |-> "SHUTDOWN-COMPLETE"])
        [] OTHER -> g

gatherInState(g) ==
  CASE g.assoc.state = "established" -> gatherSack(gatherData(gatherRetransmit(g)))
    [] g.assoc.state \in {"shutdownPending", "shutdownSent", "shutdownReceived"} ->
         gatherShutdown(gatherSack(gatherRetransmit(g)))
    [] g.assoc.state = "shutdownAckSent" -> gatherShutdown(g)
    [] OTHER -> g

\* controlQueue.popAll
popAll(q) == {q[i] : i \in DOMAIN q}

gatherOutbound(a) ==
  IF "abort" \in a.willSend
  THEN [assoc |-> [a EXCEPT !.willSend = @ \ {"abort", "violation"}],
        packets |-> {[type |-> "ABORT"]}, ok |-> FALSE]
  ELSE LET g == gatherInState([assoc |-> [a EXCEPT !.control = << >>],
                               packets |-> popAll(a.control)])
       IN  [assoc |-> g.assoc, packets |-> g.packets,
            ok |-> [type |-> "SHUTDOWN-COMPLETE"] \notin g.packets]

\* Packets for an endpoint that will never read again are gone.
Send(e, chunks) ==
  net' = net \cup IF reader[Peer(e)] = "done" THEN {} ELSE {[to |-> Peer(e), chunk |-> c] : c \in chunks}

\* One turn of the loop: gather what there is and write it.  After its last
\* packet (!ok) the association closes; a write error ends the loop.
WriteTurn(e) ==
  LET g == gatherOutbound(assoc[e])
      b == [g.assoc EXCEPT !.awake = @ /\ writer[e] = "gather"]
      failed == conn[e] = "closed" /\ g.packets # {}
  IN  /\ writer[e] = "gather" \/ (writer[e] = "select" /\ assoc[e].awake)
      /\ LockFree(e)
      /\ Send(e, IF failed THEN {} ELSE g.packets)
      /\ writer' = [writer EXCEPT ![e] = IF g.ok /\ ~failed THEN "select" ELSE "done"]
      /\ IF g.ok \/ failed
         THEN /\ Set(e, IF failed THEN closeAssoc(b) ELSE b)
              /\ UNCHANGED <<conn, closing>>
         ELSE Close(e, b)
      /\ UNCHANGED <<scenario, readClosed, handshake, reader, app, due, lost>>

\* closeWriteLoopCh: go on only to send a pending ABORT.
ToldToClose(e) ==
  /\ writer[e] = "select"
  /\ closing[e]
  /\ LockFree(e)
  /\ IF "abort" \in assoc[e].willSend
     THEN writer' = [writer EXCEPT ![e] = "gather"] /\ UNCHANGED assoc
     ELSE writer' = [writer EXCEPT ![e] = "done"] /\ Set(e, closeAssoc(assoc[e]))
  /\ UNCHANGED <<scenario, chanVars, handshake, reader, app, due, netVars>>

-----------------------------------------------------------------------------
(* The timers and the network.                                             *)

\* The Go timer fires and timeout() runs; the observer's call still has to
\* take a.lock.
TimerFires(e, t) ==
  LET m == Expire(assoc[e].timer[t])
  IN  /\ assoc[e].timer[t].armed
      /\ m.nRtos < scenario.maxRtos
      /\ Set(e, [assoc[e] EXCEPT !.timer[t] = timeout(m, maxRetrans(t))])
      /\ due' = IF IsExpiry(m)
                THEN [due EXCEPT ![e] = @ \cup {<<t, Callback(m, maxRetrans(t))>>}] ELSE due
      /\ UNCHANGED <<scenario, chanVars, handshake, reader, writer, app, netVars>>

onRetransmissionTimeout(a, e, t) ==
  CASE t = "t1Init" -> sendInit(a, e)
    [] t = "t1Cookie" -> sendCookieEcho(a)
    [] t = "t2Shutdown" /\ a.state = "shutdownSent" -> will(a, "shutdown")
    [] t = "t2Shutdown" /\ a.state = "shutdownAckSent" -> will(a, "shutdownAck")
    [] t = "t3RTX" -> awakeWriteLoop([a EXCEPT !.retransmit = a.data = "inflight"])
    [] OTHER -> a

TimerCallback(e, t) ==
  /\ <<t, "onRetransmissionTimeout">> \in due[e]
  /\ LockFree(e)
  /\ due' = [due EXCEPT ![e] = @ \ {<<t, "onRetransmissionTimeout">>}]
  /\ Set(e, onRetransmissionTimeout(assoc[e], e, t))
  /\ UNCHANGED <<scenario, chanVars, handshake, reader, writer, app, netVars>>

\* onRetransmissionFailure, which only T1 can reach: the open fails.
TimerGivesUp(e, t) ==
  /\ <<t, "onRetransmissionFailure">> \in due[e]
  /\ LockFree(e)
  /\ due' = [due EXCEPT ![e] = @ \ {<<t, "onRetransmissionFailure">>}]
  /\ Block(e, "timer", FALSE, FALSE)
  /\ UNCHANGED <<scenario, assoc, chanVars, reader, writer, app, netVars>>

Lose(p) ==
  /\ lost < scenario.maxLost
  /\ net' = net \ {p}
  /\ lost' = lost + 1
  /\ UNCHANGED <<scenario, assoc, chanVars, handshake, reader, writer, app, due, conn>>

AppStep(e) ==
  \/ Open(e) \/ HandshakeCompleted(e) \/ HandshakeDropped(e) \/ OpenRefused(e)
  \/ OpenCanceled(e) \/ Write(e) \/ ShutdownCheck(e) \/ ShutdownSet(e)
  \/ ShutdownLocked(e) \/ ShutdownReturns(e) \/ AbortAsk(e) \/ AbortFlushed(e)
  \/ CloseAsk(e) \/ CloseReturns(e)

ReadStep(e) ==
  \/ \E p \in net : \/ HandleSimple(e, p) \/ HandleCookieEcho(e, p) \/ HandleCookieAck(e, p)
                   \/ HandleShutdownComplete(e, p) \/ HandleAbort(e, p)
  \/ ReadFails(e) \/ ReadLoopEnds(e)

WriteStep(e) == WriteTurn(e) \/ ToldToClose(e)

TimerStep(e, t) == TimerFires(e, t) \/ TimerCallback(e, t) \/ TimerGivesUp(e, t)

Next ==
  \/ \E e \in Endpoints : AppStep(e) \/ ReadStep(e) \/ WriteStep(e)
  \/ \E e \in Endpoints, t \in TimerIds : TimerStep(e, t)
  \/ \E p \in net : Lose(p)

Spec == Init /\ [][Next]_vars

\* What happens without the application or the network deciding anything: the
\* loops, the timers, and the calls that have what they wait for.
Progress(e) ==
  \/ ReadStep(e) \/ WriteStep(e) \/ \E t \in TimerIds : TimerStep(e, t)
  \/ HandshakeCompleted(e) \/ HandshakeDropped(e) \/ OpenRefused(e)
  \/ AbortFlushed(e) \/ CloseReturns(e)

\* The guards of Progress(e): some disjunct of it can be taken.
CanProgress(e) ==
  \/ reader[e] = "read" /\ conn[e] = "open" /\ LockFree(e) /\ \E p \in net : p.to = e
  \/ reader[e] = "read" /\ (conn[e] # "open" \/ conn[Peer(e)] = "closed")
  \/ reader[e] = "exit" /\ LockFree(e)
  \/ writer[e] = "gather" /\ LockFree(e)
  \/ writer[e] = "select" /\ LockFree(e) /\ (assoc[e].awake \/ closing[e])
  \/ \E t \in TimerIds : assoc[e].timer[t].armed /\ assoc[e].timer[t].nRtos < scenario.maxRtos
  \/ due[e] # {} /\ LockFree(e)
  \/ handshake[e] # None /\ (app[e] = "opening" \/ closing[e] \/ readClosed[e])
  \/ app[e] \in {"opening", "closing"} /\ readClosed[e]
  \/ app[e] = "abortFlush"

-----------------------------------------------------------------------------
Up == {"established", "shutdownPending", "shutdownReceived", "shutdownSent", "shutdownAckSent"}

\* The handshake promises more than a local state: an endpoint that has become
\* ESTABLISHED (handleCookieEcho, handleCookieAck, initWithOutOfBandTokens)
\* knows its peer's tag and first TSN, its peer knows both of its own, and
\* the two have settled on the same DATA and FORWARD-TSN chunks, in whatever
\* order INIT, INIT-ACK and their retransmissions crossed.  So neither ever
\* aborts the other for a DATA chunk of the kind that was not negotiated
\* (handleData).
HandshakeAgrees ==
  \A e \in Endpoints :
    LET a == assoc[e]
        b == assoc[Peer(e)]
    IN  a.state \in Up /\ (role(e) = "snap" => app[Peer(e)] # "new") =>
          /\ a.peerTag = Peer(e) /\ a.peerTSN = Peer(e)
          /\ b.peerTag = e /\ b.peerTSN = e
          /\ a.useInterleaving = b.useInterleaving
          /\ a.useForwardTSN = b.useForwardTSN
          /\ a.useIForwardTSN = b.useIForwardTSN
          /\ "violation" \notin a.willSend

\* A T1 callback that was already on its way when the answer came sends
\* nothing: an INIT is queued only before the INIT-ACK was handled, and a
\* COOKIE-ECHO only before the association is up (storedInit and
\* storedCookieEcho are cleared under the lock that the callback takes).
Queues(e, type) ==
  /\ Len(assoc'[e].control) > Len(assoc[e].control)
  /\ assoc'[e].control[Len(assoc'[e].control)].type = type
LateTimersAreHarmless ==
  [][\A e \in Endpoints :
       /\ Queues(e, "INIT") => assoc'[e].state \in {"closed", "cookieWait"}
       /\ Queues(e, "COOKIE-ECHO") => assoc'[e].state \in {"closed", "cookieEchoed"}]_vars

\* A graceful shutdown loses nothing that was sent: when an endpoint writes
\* SHUTDOWN-COMPLETE, neither end has a chunk in flight that is not
\* acknowledged (Shutdown, handleShutdown and postprocessSack all wait for
\* the in-flight queue), even if both ends shut down at once.
GracefulMeansDelivered ==
  \A e \in Endpoints :
    [to |-> Peer(e), chunk |-> [type |-> "SHUTDOWN-COMPLETE"]] \in net =>
      assoc[e].data # "inflight" /\ assoc[Peer(e)].data # "inflight"

\* When both loops have ended no timer can fire any more (closeAllTimers).
NoTimerOutlivesTheLoops ==
  \A e \in Endpoints :
    reader[e] = "done" /\ writer[e] = "done" =>
      \A t \in TimerIds : ~assoc[e].timer[t].armed

\* Nothing is left hanging: when no loop, timer or returning call can take a
\* step any more, the calls of Client, Close and Abort have returned (Client
\* because T1 gives up, Close and Abort because the read loop ends), an
\* association whose closeWriteLoopCh is closed has ended both its loops, and
\* completeHandshake blocks nobody, with two exceptions: it waits for ever, the
\* lock in its hands, when the open it would report to has already failed, or
\* when T1's last expiry was on its way while the open succeeded.
Settled(e) ==
  /\ app[e] \notin {"abortFlush", "closing"}
  /\ role(e) = "client" /\ scenario.maxRtos > MaxInitRetrans => app[e] # "opening"
  /\ closing[e] => reader[e] = "done" /\ writer[e] = "done"
  /\ handshake[e] # None => app[e] = "failed" \/ handshake[e].by = "timer"
NobodyLeftWaiting == (\A e \in Endpoints : ~CanProgress(e)) => \A e \in Endpoints : Settled(e)
=============================================================================
