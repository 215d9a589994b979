-------------------------- MODULE SctpAssocProofs ---------------------------
(***************************************************************************)
(* Proofs about the life of an association, for every pair of ends, every  *)
(* scenario and every number of T1 retransmissions: what the handshake     *)
(* agrees on, what a graceful shutdown waits for, that late timer          *)
(* callbacks are harmless, that no timer outlives the loops and that       *)
(* nobody is left waiting.                                                 *)
(*                                                                         *)
(* First what each step may do to an association, and type correctness;    *)
(* then the invariants, one after the other, and the theorems.             *)
(***************************************************************************)
EXTENDS SctpAssoc, TLAPS

Fields == {"state", "peerTag", "peerTSN", "myCookie", "localInterleaving", "peerInterleaving",
           "peerForwardTSN", "useInterleaving", "useForwardTSN", "useIForwardTSN",
           "storedInit", "storedCookieEcho", "control", "willSend", "awake", "data",
           "idata", "retransmit", "received", "ackNow", "timer"}
States == Handshaking \cup {"established", "shutdownPending", "shutdownReceived",
                            "shutdownSent", "shutdownAckSent"}
Flags == {"abort", "violation", "shutdown", "shutdownAck", "shutdownComplete"}

\* What end e says of itself, and the kind of DATA chunk the two agree on.
Ext(e) == [from |-> e, interleaving |-> scenario.interleaving[e]]
Both == \A e \in Endpoints : scenario.interleaving[e]

\* All that e ever queues or sends: tags, cookies and TSNs are never mixed up.
ControlChunks(e) ==
  {[type |-> "INIT", ext |-> Ext(e)],
   [type |-> "INIT-ACK", ext |-> Ext(e), cookie |-> e],
   [type |-> "COOKIE-ECHO", cookie |-> Peer(e)],
   [type |-> "COOKIE-ACK"]}
OtherChunks ==
  {[type |-> "DATA", idata |-> Both], [type |-> "SACK"], [type |-> "SHUTDOWN"],
   [type |-> "SHUTDOWN-ACK"], [type |-> "SHUTDOWN-COMPLETE"], [type |-> "ABORT"]}

\* The association of e is well formed.
AssocOK(e, a) ==
  /\ DOMAIN a = Fields
  /\ a.state \in States
  /\ a.localInterleaving = scenario.interleaving[e]
  /\ a.myCookie \in {None, e}
  /\ a.storedCookieEcho \in {None, Peer(e)}
  /\ a.storedInit \in BOOLEAN
  /\ a.control \in Seq(ControlChunks(e))
  /\ a.willSend \subseteq Flags
  /\ a.data \in {"none", "pending", "inflight", "acked"}
  /\ a.data # "none" => a.idata = Both
  /\ a.timer \in [TimerIds -> Timer]

\* An application that has not opened has touched nothing.
Untouched(e) ==
  /\ assoc[e] = NewAssociation(e)
  /\ reader[e] = "off" /\ writer[e] = "off" /\ handshake[e] = None /\ due[e] = {}

\* Where the goroutines are, and what is in flight.
Places ==
  /\ DOMAIN assoc = Endpoints
  /\ DOMAIN closing = Endpoints
  /\ DOMAIN readClosed = Endpoints
  /\ DOMAIN handshake = Endpoints
  /\ reader \in [Endpoints -> {"off", "read", "blocked", "exit", "done"}]
  /\ writer \in [Endpoints -> {"off", "gather", "select", "done"}]
  /\ app \in [Endpoints -> {"new", "opening", "open", "failed", "shutdownSet", "shutdownLock",
                            "shutdownWait", "ended", "abortFlush", "closing", "gone"}]
  /\ DOMAIN due = Endpoints
  /\ conn \in [Endpoints -> {"open", "closed", "deadline"}]
NetOK ==
  \A p \in net : \E e \in Endpoints :
    p.to = Peer(e) /\ p.chunk \in ControlChunks(e) \cup OtherChunks

TypeOK ==
  /\ scenario \in Scenarios
  /\ Places
  /\ \A e \in Endpoints : AssocOK(e, assoc[e])
  /\ NetOK
  /\ \A e \in Endpoints : app[e] = "new" => Untouched(e)

\* The timers cannot be armed again.
TimersClosed(a) == \A t \in TimerIds : a.timer[t].state = "closed" /\ ~a.timer[t].armed
TimerInv == \A e \in Endpoints : writer[e] = "done" => TimersClosed(assoc[e])

(***************************************************************************)
(* storedInit and storedCookieEcho say in which phase of the open the      *)
(* association is, also when Shutdown sets the state without the lock.     *)
(***************************************************************************)
Phase(a) ==
  /\ a.storedInit => a.state \in {"closed", "cookieWait"}
  /\ a.state = "cookieWait" => a.storedInit
  /\ a.storedCookieEcho # None => ~a.storedInit /\ a.state \in {"closed", "cookieEchoed"}
LateInv ==
  \A e \in Endpoints :
    /\ Phase(assoc[e])
    /\ app[e] \in {"shutdownSet", "shutdownLock"} =>
         ~assoc[e].storedInit /\ assoc[e].storedCookieEcho = None

\* e has heard from its peer, and drawn the conclusions.
LocalKnows(e, a) ==
  /\ a.peerTag = Peer(e) /\ a.peerTSN = Peer(e)
  /\ a.peerForwardTSN = TRUE
  /\ a.peerInterleaving = scenario.interleaving[Peer(e)]
  /\ a.useInterleaving = Both /\ a.useIForwardTSN = Both /\ a.useForwardTSN = ~Both
Knows(e) == LocalKnows(e, assoc[e])
\* Both ends have, or the peer will when it opens with the tokens it has.
Agreed(e) ==
  Knows(e) /\ (Knows(Peer(e)) \/ (role(e) = "snap" /\ app[Peer(e)] = "new"))

(***************************************************************************)
(* Who has said what knows what: INIT-ACK is sent, and a cookie held, by   *)
(* an end that knows its peer; COOKIE-ECHO by one whose peer knows it too. *)
(***************************************************************************)
Sincere(e, c) ==
  /\ c.type = "INIT-ACK" => Knows(e)
  /\ c.type = "COOKIE-ECHO" => Agreed(e)
AgreeInv ==
  \A e \in Endpoints :
    LET a == assoc[e]
    IN  /\ a.state \in Up \cup {"cookieEchoed"} => Agreed(e)
        /\ app[e] \in {"shutdownSet", "shutdownLock"} => Agreed(e)
        /\ a.storedCookieEcho # None => Agreed(e)
        /\ a.myCookie # None => Knows(e)
        /\ role(e) = "snap" /\ app[e] # "new" => Knows(e)
        /\ "violation" \notin a.willSend
        /\ \A i \in DOMAIN a.control : Sincere(e, a.control[i])
        /\ \A p \in net : p.to = Peer(e) => Sincere(e, p.chunk)

-----------------------------------------------------------------------------
(* The two ends.                                                           *)

\* Each end is the other's peer.
LEMMA Peers ==
  ASSUME NEW e \in Endpoints
  PROVE  /\ Peer(e) \in Endpoints /\ Peer(e) # e /\ Peer(Peer(e)) = e
         /\ e # None
         /\ \A f \in Endpoints : f = e \/ f = Peer(e)
  <1>1. PICK x, y \in Endpoints : x # y /\ Endpoints = {x, y}
    BY EndpointsAssumption, Zenon
  <1>2. \A f \in Endpoints : Peer(f) \in Endpoints /\ Peer(f) # f
    BY <1>1, Zenon DEF Peer
  <1> QED  BY <1>1, <1>2, EndpointsAssumption, Zenon

-----------------------------------------------------------------------------
(* The timers (rtx_timer.go).                                              *)

\* A timer is a timer after every call, and a closed one stays closed.
LEMMA TimerOps ==
  ASSUME NEW t \in Timer
  PROVE  /\ start(t) \in Timer /\ stop(t) \in Timer /\ close(t) \in Timer
         /\ t.state = "closed" => start(t) = t /\ stop(t) = t
         /\ close(t).state = "closed" /\ ~close(t).armed
  <1>1. /\ t.state \in {"stopped", "started", "closed"} /\ t.nRtos \in Nat
        /\ t.pending \in Int /\ t.flying \in Nat
    BY Zenon DEF Timer
  <1>2. AfterStop(t) \in Int
    BY <1>1 DEF AfterStop
  <1>3. start(t) \in Timer
    <2>1. PICK i \in Int : i = t.pending + 1
      BY <1>1
    <2>2. [t EXCEPT !.state = "started", !.nRtos = 0, !.pending = i, !.armed = TRUE] \in Timer
      BY Zenon DEF Timer
    <2> QED  BY <2>1, <2>2, Zenon DEF start
  <1>4. stop(t) \in Timer
    BY <1>1, <1>2, Zenon DEF Timer, stop
  <1>5. close(t) \in Timer
    BY <1>1, <1>2, Zenon DEF Timer, close
  <1>6. t.state = "closed" => start(t) = t /\ stop(t) = t
    BY Zenon DEF start, stop
  <1>7. close(t).state = "closed" /\ ~close(t).armed
    BY Zenon DEF Timer, close
  <1> QED  BY <1>3, <1>4, <1>5, <1>6, <1>7, Zenon

\* The same of an expiry, which may re-arm the timer.
LEMMA TimerExpiry ==
  ASSUME NEW t \in Timer, NEW m
  PROVE  timeout(Expire(t), m) \in Timer
  <1>1. /\ t.state \in {"stopped", "started", "closed"} /\ t.nRtos \in Nat
        /\ t.pending \in Int /\ t.flying \in Nat
    BY Zenon DEF Timer
  <1>2. PICK f \in Nat, n \in Nat, i \in Int :
          f = t.flying + 1 /\ n = t.nRtos + 1 /\ i = t.pending - 1
    BY <1>1
  <1>3. f - 1 = t.flying /\ i + 1 = t.pending
    BY <1>1, <1>2
  <1>4. PICK x : x = Expire(t)
    BY Zenon
  <1>5. x = [t EXCEPT !.armed = FALSE, !.flying = f]
    BY <1>2, <1>4, Zenon DEF Expire
  <1>6. PICK u : u = [x EXCEPT !.flying = @ - 1, !.pending = @ - 1]
    BY Zenon
  <1>7. x.flying = f /\ x.pending = t.pending
    BY <1>5, Zenon DEF Timer
  <1>8. u = [t EXCEPT !.armed = FALSE, !.flying = t.flying, !.pending = i]
    BY <1>2, <1>3, <1>5, <1>6, <1>7, Zenon DEF Timer
  <1>9. u \in Timer /\ u.nRtos = t.nRtos /\ u.pending = i
    BY <1>1, <1>8, Zenon DEF Timer
  <1>10. [u EXCEPT !.nRtos = @ + 1, !.armed = TRUE, !.pending = @ + 1] \in Timer
    <2>1. [u EXCEPT !.nRtos = n, !.armed = TRUE, !.pending = t.pending] \in Timer
      BY <1>1, <1>9, Zenon DEF Timer
    <2> QED  BY <1>2, <1>3, <1>9, <2>1, Zenon
  <1>11. [u EXCEPT !.nRtos = 0, !.state = "stopped"] \in Timer
    BY <1>9, Zenon DEF Timer
  <1> QED  BY <1>4, <1>6, <1>9, <1>10, <1>11, Zenon DEF timeout

\* What the timer calls do to an association.
LEMMA TimerCalls ==
  ASSUME NEW e, NEW a, AssocOK(e, a), NEW t \in TimerIds
  PROVE  /\ AssocOK(e, startTimer(a, t)) /\ AssocOK(e, stopTimer(a, t))
         /\ AssocOK(e, closeAllTimers(a))
         /\ TimersClosed(closeAllTimers(a))
         /\ TimersClosed(a) => TimersClosed(startTimer(a, t)) /\ TimersClosed(stopTimer(a, t))
  <1>1. \A u \in TimerIds : a.timer[u] \in Timer
    BY Zenon DEF AssocOK
  <1>2. /\ startTimer(a, t).timer \in [TimerIds -> Timer]
        /\ stopTimer(a, t).timer \in [TimerIds -> Timer]
        /\ closeAllTimers(a).timer \in [TimerIds -> Timer]
    BY <1>1, TimerOps, Zenon DEF AssocOK, Fields, startTimer, stopTimer, closeAllTimers
  <1>3. /\ AssocOK(e, startTimer(a, t)) /\ AssocOK(e, stopTimer(a, t))
        /\ AssocOK(e, closeAllTimers(a))
    BY <1>2, Zenon DEF AssocOK, Fields, startTimer, stopTimer, closeAllTimers
  <1>4. TimersClosed(closeAllTimers(a))
    BY <1>1, TimerOps, Zenon DEF AssocOK, Fields, closeAllTimers, TimersClosed
  <1>5. TimersClosed(a) => TimersClosed(startTimer(a, t)) /\ TimersClosed(stopTimer(a, t))
    BY <1>1, TimerOps DEF AssocOK, Fields, startTimer, stopTimer, TimersClosed
  <1> QED  BY <1>3, <1>4, <1>5, Zenon

-----------------------------------------------------------------------------
(* The helpers of the handlers leave an association well formed.           *)

\* Appending to the control queue.
LEMMA Queued ==
  ASSUME NEW S, NEW q \in Seq(S), NEW c \in S
  PROVE  /\ Append(q, c) \in Seq(S)
         /\ Len(Append(q, c)) = Len(q) + 1
         /\ Append(q, c)[Len(q) + 1] = c
         /\ \A i \in DOMAIN Append(q, c) : Append(q, c)[i] = c \/ (i \in DOMAIN q /\ Append(q, c)[i] = q[i])
  OBVIOUS

\* The helpers that set a field or two.
LEMMA Helpers ==
  ASSUME NEW e \in Endpoints, NEW a, AssocOK(e, a)
  PROVE  /\ \A s \in States : AssocOK(e, setState(a, s))
         /\ AssocOK(e, awakeWriteLoop(a))
         /\ \A c \in ControlChunks(e) : AssocOK(e, push(a, c))
         /\ \A w \in Flags : AssocOK(e, will(a, w))
         /\ \A x : AssocOK(e, learnPeer(a, x))
         /\ AssocOK(e, establish(a))
         /\ AssocOK(e, violation(a))
  <1>1. \A s \in States : AssocOK(e, setState(a, s))
    BY Zenon DEF AssocOK, Fields, setState
  <1>2. AssocOK(e, awakeWriteLoop(a))
    BY Zenon DEF AssocOK, Fields, awakeWriteLoop
  <1>3. \A c \in ControlChunks(e) : AssocOK(e, push(a, c))
    <2> TAKE c \in ControlChunks(e)
    <2>1. Append(a.control, c) \in Seq(ControlChunks(e))
      BY Queued, Zenon DEF AssocOK
    <2> QED  BY <2>1, Zenon DEF AssocOK, Fields, push, awakeWriteLoop
  <1>4. \A w \in Flags : AssocOK(e, will(a, w))
    BY Zenon DEF AssocOK, Fields, will, awakeWriteLoop
  <1>5. \A x : AssocOK(e, learnPeer(a, x))
    BY DEF AssocOK, Fields, learnPeer, updateInterleavingState
  <1>6. AssocOK(e, establish(a))
    BY Zenon DEF AssocOK, Fields, establish, setState, updateInterleavingState, States
  <1>7. AssocOK(e, violation(a))
    BY Zenon DEF AssocOK, Fields, Flags, violation, will, awakeWriteLoop
  <1> QED  BY <1>1, <1>2, <1>3, <1>4, <1>5, <1>6, <1>7, Zenon

-----------------------------------------------------------------------------
(* The handlers, one at a time: what they leave of an association.         *)

\* Well formed, its timers closed if they were, in a phase of the open.
Keeps(e, a, b) ==
  /\ AssocOK(e, b)
  /\ TimersClosed(a) => TimersClosed(b)
  /\ Phase(a) => Phase(b)

Shutting == {"shutdownPending", "shutdownReceived", "shutdownSent", "shutdownAckSent"}

\* What it knows of the peer is as before, and nothing is queued that the
\* phase of the open does not allow.
SameKnowledge(a, b) ==
  /\ b.peerTag = a.peerTag /\ b.peerTSN = a.peerTSN /\ b.myCookie = a.myCookie
  /\ b.peerForwardTSN = a.peerForwardTSN /\ b.peerInterleaving = a.peerInterleaving
  /\ b.useInterleaving = a.useInterleaving /\ b.useIForwardTSN = a.useIForwardTSN
  /\ b.useForwardTSN = a.useForwardTSN
Queues1(e, a, b) ==
  \/ b.control = a.control \/ b.control = << >>
  \/ \E c \in ControlChunks(e) :
       /\ b.control = Append(a.control, c)
       /\ c.type # "INIT-ACK"
       /\ c.type = "INIT" => a.storedInit /\ b.state = a.state
       /\ c.type = "COOKIE-ECHO" => a.storedCookieEcho # None /\ b.state = a.state
Talks(e, a, b) ==
  /\ SameKnowledge(a, b)
  /\ Queues1(e, a, b)
  /\ b.state \in Up \cup {"cookieEchoed"} => a.state \in Up \cup {"cookieEchoed"}
  /\ b.storedInit => a.storedInit
  /\ b.storedCookieEcho # None => a.storedCookieEcho # None
  /\ "violation" \in b.willSend => "violation" \in a.willSend

\* Nothing new is in flight unless it is ESTABLISHED, and a shutdown goes on
\* or ends.
Ebbs(a, b) ==
  /\ b.data = "inflight" => a.data = "inflight" \/ a.state = "established"
  /\ a.state \in Shutting => b.state \in Shutting \cup {"closed"}
  /\ a.state = "closed" => b.state = "closed"
  /\ b.state \in {"shutdownSent", "shutdownAckSent"} =>
       b.data # "inflight" \/ (a.data = "inflight" /\ a.state \in {"shutdownSent", "shutdownAckSent"})
  /\ "shutdownAck" \in b.willSend => "shutdownAck" \in a.willSend \/ b.state = "shutdownAckSent"

\* All three, and it has no reason to complete a shutdown.
Calm(e, a, b) ==
  /\ Keeps(e, a, b) /\ Talks(e, a, b) /\ Ebbs(a, b)
  /\ "shutdownComplete" \in b.willSend => "shutdownComplete" \in a.willSend

\* The state and what concerns the handshake.
Static == Fields \ {"awake", "data", "idata", "retransmit", "received", "ackNow", "willSend", "timer"}

\* A step that changes neither the state nor what concerns the handshake is calm.
LEMMA Still ==
  ASSUME NEW e, NEW a, NEW b, AssocOK(e, b),
         \A f \in Static : b[f] = a[f],
         TimersClosed(a) => TimersClosed(b),
         b.willSend \subseteq a.willSend \cup {"abort", "shutdown"},
         b.data = "inflight" => a.data = "inflight"
  PROVE  Calm(e, a, b)
  <1>1. /\ b.state = a.state /\ b.storedInit = a.storedInit
        /\ b.storedCookieEcho = a.storedCookieEcho /\ b.control = a.control
        /\ SameKnowledge(a, b)
    BY Zenon DEF Static, Fields, SameKnowledge
  <1> QED  BY <1>1, Zenon DEF Calm, Keeps, Phase, Talks, Queues1, Ebbs

\* SACK.
LEMMA SackCalm ==
  ASSUME NEW e \in Endpoints, NEW a, AssocOK(e, a)
  PROVE  Calm(e, a, handleSack(a))
  <1>0. Calm(e, a, a)
    BY Zenon DEF Calm, Keeps, Talks, SameKnowledge, Queues1, Ebbs
  <1>1. CASE a.state \notin {"established", "shutdownPending", "shutdownReceived"}
    BY <1>0, <1>1, Zenon DEF handleSack
  <1>2. CASE a.state \in {"established", "shutdownPending", "shutdownReceived"}
    <2>1. PICK s : s = stopTimer(a, "t3RTX")
      BY Zenon
    <2>2. AssocOK(e, s) /\ (TimersClosed(a) => TimersClosed(s))
      BY <2>1, TimerCalls, Zenon DEF TimerIds
    <2>3. \A f \in Fields \ {"timer"} : s[f] = a[f]
      BY <2>1, Zenon DEF stopTimer, AssocOK, Fields
    <2>4. PICK b : b = awakeWriteLoop([s EXCEPT !.data = IF @ = "inflight" THEN "acked" ELSE @,
                                               !.retransmit = FALSE])
      BY Zenon
    <2>5. AssocOK(e, b) /\ b.data # "inflight"
      BY <2>2, <2>4, Zenon DEF awakeWriteLoop, AssocOK, Fields
    <2>6. \A f \in Fields \ {"data", "retransmit", "awake"} : b[f] = s[f]
      BY <2>2, <2>4, Zenon DEF awakeWriteLoop, AssocOK, Fields
    <2>7. PICK d : d = AckShutdown(b)
      BY Zenon
    <2>8. /\ AssocOK(e, d)
          /\ d.state \in {"established"} \cup Shutting
          /\ d.state = "established" => a.state = "established"
          /\ "violation" \in d.willSend => "violation" \in b.willSend
          /\ "shutdownAck" \in d.willSend => "shutdownAck" \in b.willSend \/ d.state = "shutdownAckSent"
          /\ "shutdownComplete" \in d.willSend => "shutdownComplete" \in b.willSend
      BY <1>2, <2>3, <2>5, <2>6, <2>7
         DEF AckShutdown, setState, will, awakeWriteLoop, AssocOK, Fields, States, Flags, Shutting
    <2>9. \A f \in Fields \ {"state", "willSend", "awake"} : d[f] = b[f]
      BY <2>5, <2>7, Zenon DEF AckShutdown, setState, will, awakeWriteLoop, AssocOK, Fields
    <2>10. handleSack(a) = d
      BY <1>2, <2>1, <2>4, <2>7, Zenon DEF handleSack
    <2>11. \A f \in Fields \ {"timer", "data", "retransmit", "awake", "state", "willSend"} : d[f] = a[f]
      BY <2>3, <2>6, <2>9, Zenon
    <2>12. d.timer = s.timer /\ d.data # "inflight" /\ b.willSend = a.willSend
      BY <2>3, <2>5, <2>6, <2>9, Zenon DEF Fields
    <2>13. Keeps(e, a, d)
      BY <1>2, <2>2, <2>8, <2>11, <2>12, Zenon DEF Keeps, TimersClosed, Phase, Fields, Shutting
    <2>14. Talks(e, a, d)
      BY <1>2, <2>8, <2>11, <2>12 DEF Talks, SameKnowledge, Queues1, Fields, Up
    <2>15. Ebbs(a, d)
      BY <1>2, <2>8, <2>12, Zenon DEF Ebbs, Shutting
    <2> QED  BY <2>8, <2>10, <2>12, <2>13, <2>14, <2>15, Zenon DEF Calm
  <1> QED  BY <1>1, <1>2, Zenon

\* SHUTDOWN.
LEMMA ShutdownCalm ==
  ASSUME NEW e \in Endpoints, NEW a, AssocOK(e, a)
  PROVE  Calm(e, a, handleShutdown(a))
  <1>0. Calm(e, a, a)
    BY Zenon DEF Calm, Keeps, Talks, SameKnowledge, Queues1, Ebbs
  <1>1. ASSUME a.state \in {"established", "shutdownSent"},
               a.state = "established" => a.data # "inflight"
        PROVE  Calm(e, a, AckAtOnce(a))
    <2>1. PICK w : w = will(a, "shutdownAck")
      BY Zenon
    <2>2. AssocOK(e, w)
      BY <2>1, Helpers, Zenon DEF Flags
    <2>3. /\ w.willSend = a.willSend \cup {"shutdownAck"}
          /\ \A f \in Fields \ {"willSend", "awake"} : w[f] = a[f]
      BY <2>1, Zenon DEF will, awakeWriteLoop, AssocOK, Fields
    <2>4. PICK b : b = setState(w, "shutdownAckSent")
      BY Zenon
    <2>5. AssocOK(e, b)
      BY <2>2, <2>4, Helpers, Zenon DEF States
    <2>6. b.state = "shutdownAckSent" /\ \A f \in Fields \ {"state"} : b[f] = w[f]
      BY <2>2, <2>4, Zenon DEF setState, AssocOK, Fields
    <2>7. /\ \A f \in Fields \ {"state", "willSend", "awake"} : b[f] = a[f]
          /\ b.willSend = a.willSend \cup {"shutdownAck"}
      BY <2>3, <2>6, Zenon DEF Fields
    <2>8. Keeps(e, a, b) /\ Talks(e, a, b)
      BY <1>1, <2>5, <2>6, <2>7, Zenon
         DEF Keeps, TimersClosed, Phase, Talks, SameKnowledge, Queues1, Up, Fields
    <2>9. Ebbs(a, b)
      BY <1>1, <2>6, <2>7, Zenon DEF Ebbs, Shutting, Fields
    <2> QED  BY <2>1, <2>4, <2>7, <2>8, <2>9 DEF Calm, AckAtOnce
  <1>2. ASSUME a.state = "established" PROVE Calm(e, a, setState(a, "shutdownReceived"))
    <2>1. PICK b : b = setState(a, "shutdownReceived")
      BY Zenon
    <2>2. AssocOK(e, b)
      BY <2>1, Helpers, Zenon DEF States
    <2>3. b.state = "shutdownReceived" /\ \A f \in Fields \ {"state"} : b[f] = a[f]
      BY <2>1, Zenon DEF setState, AssocOK, Fields
    <2>4. Calm(e, a, b)
      BY <1>2, <2>2, <2>3, Zenon
         DEF Calm, Keeps, TimersClosed, Phase, Talks, SameKnowledge, Queues1, Ebbs, Up, Shutting, Fields
    <2> QED  BY <2>1, <2>4, Zenon
  <1> QED  BY <1>0, <1>1, <1>2, Zenon DEF handleShutdown

\* SHUTDOWN-ACK, which alone asks for a SHUTDOWN-COMPLETE.
LEMMA ShutdownAckKeeps ==
  ASSUME NEW e \in Endpoints, NEW a, AssocOK(e, a)
  PROVE  LET b == handleShutdownAck(a)
         IN  /\ Keeps(e, a, b) /\ Talks(e, a, b) /\ Ebbs(a, b)
             /\ b.state = a.state
             /\ "shutdownComplete" \in b.willSend =>
                  "shutdownComplete" \in a.willSend \/ a.state \in {"shutdownSent", "shutdownAckSent"}
  <1>1. PICK s : s = stopTimer(a, "t2Shutdown")
    BY Zenon
  <1>2. AssocOK(e, s) /\ (TimersClosed(a) => TimersClosed(s))
    BY <1>1, TimerCalls, Zenon DEF TimerIds
  <1>3. \A f \in Fields \ {"timer"} : s[f] = a[f]
    BY <1>1, Zenon DEF stopTimer, AssocOK, Fields
  <1>4. PICK b : b = will(s, "shutdownComplete")
    BY Zenon
  <1>5. /\ AssocOK(e, b) /\ b.willSend = a.willSend \cup {"shutdownComplete"}
        /\ \A f \in Fields \ {"willSend", "awake"} : b[f] = s[f]
    <2>1. AssocOK(e, b)
      BY <1>2, <1>4, Helpers, Zenon DEF Flags
    <2>2. b.willSend = s.willSend \cup {"shutdownComplete"} /\ s.willSend = a.willSend
      BY <1>2, <1>3, <1>4, Zenon DEF will, awakeWriteLoop, AssocOK, Fields
    <2>3. \A f \in Fields \ {"willSend", "awake"} : b[f] = s[f]
      BY <1>2, <1>4, Zenon DEF will, awakeWriteLoop, AssocOK, Fields
    <2> QED  BY <2>1, <2>2, <2>3, Zenon
  <1>6. \A f \in Fields \ {"timer", "willSend", "awake"} : b[f] = a[f]
    BY <1>3, <1>5, Zenon
  <1>7. b.timer = s.timer
    BY <1>5, Zenon DEF Fields
  <1>8. Keeps(e, a, b) /\ Talks(e, a, b) /\ Ebbs(a, b) /\ b.state = a.state
    BY <1>2, <1>5, <1>6, <1>7, Zenon
       DEF Keeps, TimersClosed, Phase, Talks, SameKnowledge, Queues1, Ebbs, Shutting, Fields
  <1>9. Keeps(e, a, a) /\ Talks(e, a, a) /\ Ebbs(a, a)
    BY Zenon DEF Keeps, Talks, SameKnowledge, Queues1, Ebbs
  <1> QED  BY <1>1, <1>4, <1>5, <1>8, <1>9, Zenon DEF handleShutdownAck

\* DATA of the kind that was agreed on.
LEMMA DataCalm ==
  ASSUME NEW e \in Endpoints, NEW a, AssocOK(e, a), NEW c,
         a.state \in Up => c.idata = a.useInterleaving
  PROVE  Calm(e, a, handleData(a, c))
  <1>1. PICK b : b = awakeWriteLoop([a EXCEPT !.received = TRUE, !.ackNow = TRUE])
    BY Zenon
  <1>2. DOMAIN b = Fields /\ \A f \in Fields \ {"received", "ackNow", "awake"} : b[f] = a[f]
    BY <1>1, Zenon DEF awakeWriteLoop, AssocOK, Fields
  <1>3. AssocOK(e, b)
    BY <1>2, Zenon DEF AssocOK, Fields
  <1>4. Calm(e, a, b)
    BY <1>2, <1>3, Still, Zenon DEF TimersClosed, Static, Fields
  <1>5. Calm(e, a, a)
    BY Still, Zenon
  <1> QED  BY <1>1, <1>4, <1>5, Zenon DEF handleData, Up

\* A flag of the write loop that is not an acknowledgement.
LEMMA WillCalm ==
  ASSUME NEW e \in Endpoints, NEW a, AssocOK(e, a), NEW w \in {"abort", "shutdown"}
  PROVE  Calm(e, a, will(a, w))
  <1>1. PICK b : b = will(a, w)
    BY Zenon
  <1>2. AssocOK(e, b)
    BY <1>1, Helpers, Zenon DEF Flags
  <1>3. /\ b.willSend = a.willSend \cup {w}
        /\ \A f \in Fields \ {"willSend", "awake"} : b[f] = a[f]
    BY <1>1, Zenon DEF will, awakeWriteLoop, AssocOK, Fields
  <1>4. Calm(e, a, b)
    BY <1>2, <1>3, Still, Zenon DEF TimersClosed, Static, Fields
  <1> QED  BY <1>1, <1>4, Zenon

\* A COOKIE-ACK.
LEMMA CookieAckCalm ==
  ASSUME NEW e \in Endpoints, NEW a, AssocOK(e, a)
  PROVE  Calm(e, a, push(a, [type |-> "COOKIE-ACK"]))
  <1>1. PICK c : c = [type |-> "COOKIE-ACK"]
    BY Zenon
  <1>2. c \in ControlChunks(e) /\ c.type = "COOKIE-ACK"
    BY <1>1, Zenon DEF ControlChunks
  <1>3. AssocOK(e, push(a, c))
    BY <1>2, Helpers, Zenon
  <1>4. /\ \A f \in Fields \ {"control", "awake"} : push(a, c)[f] = a[f]
        /\ push(a, c).control = Append(a.control, c)
    BY Zenon DEF push, awakeWriteLoop, AssocOK, Fields
  <1>5. Calm(e, a, push(a, c))
    BY <1>2, <1>3, <1>4, Zenon
       DEF Calm, Keeps, TimersClosed, Phase, Talks, SameKnowledge, Queues1, Ebbs, Shutting, Fields
  <1> QED  BY <1>1, <1>5, Zenon

\* Write of a chunk of the kind that was agreed on.
LEMMA WriteCalm ==
  ASSUME NEW e \in Endpoints, NEW a, AssocOK(e, a), a.useInterleaving = Both
  PROVE  Calm(e, a, awakeWriteLoop([a EXCEPT !.data = "pending", !.idata = a.useInterleaving]))
  <1>1. PICK b : b = awakeWriteLoop([a EXCEPT !.data = "pending", !.idata = a.useInterleaving])
    BY Zenon
  <1>2. /\ DOMAIN b = Fields /\ b.data = "pending" /\ b.idata = Both
        /\ \A f \in Fields \ {"data", "idata", "awake"} : b[f] = a[f]
    BY <1>1, Zenon DEF awakeWriteLoop, AssocOK, Fields
  <1>3. AssocOK(e, b)
    BY <1>2 DEF AssocOK, Fields
  <1>4. Calm(e, a, b)
    BY <1>2, <1>3, Still, Zenon DEF TimersClosed, Static, Fields
  <1> QED  BY <1>1, <1>4, Zenon

\* close(), and the end of the read loop.
LEMMA CloseCalm ==
  ASSUME NEW e \in Endpoints, NEW a, AssocOK(e, a)
  PROVE  /\ Calm(e, a, closeAssoc(a)) /\ TimersClosed(closeAssoc(a)) /\ closeAssoc(a).state = "closed"
         /\ closeAssoc(a).control = a.control
         /\ Calm(e, a, setState(a, "closed"))
  <1>1. PICK s : s = closeAllTimers(a)
    BY Zenon
  <1>2. AssocOK(e, s) /\ TimersClosed(s)
    BY <1>1, TimerCalls, Zenon DEF TimerIds
  <1>3. \A f \in Fields \ {"timer"} : s[f] = a[f]
    BY <1>1, Zenon DEF closeAllTimers, AssocOK, Fields
  <1>4. PICK b : b = setState(s, "closed")
    BY Zenon
  <1>5. /\ AssocOK(e, b) /\ b.state = "closed" /\ \A f \in Fields \ {"state"} : b[f] = s[f]
    BY <1>2, <1>4, Helpers DEF setState, AssocOK, Fields, States, Handshaking
  <1>6. /\ \A f \in Fields \ {"timer", "state"} : b[f] = a[f]
        /\ b.timer = s.timer
    BY <1>3, <1>5, Zenon DEF Fields
  <1>7. Calm(e, a, b) /\ TimersClosed(b)
    BY <1>2, <1>5, <1>6, Zenon
       DEF Calm, Keeps, TimersClosed, Phase, Talks, SameKnowledge, Queues1, Ebbs, Shutting, Up, Fields
  <1>8. Calm(e, a, setState(a, "closed"))
    <2>1. PICK d : d = setState(a, "closed")
      BY Zenon
    <2>2. AssocOK(e, d)
      BY <2>1, Helpers, Zenon DEF States, Handshaking
    <2>3. d.state = "closed" /\ \A f \in Fields \ {"state"} : d[f] = a[f]
      BY <2>1, Zenon DEF setState, AssocOK, Fields
    <2>4. Calm(e, a, d)
      BY <2>2, <2>3, Zenon
         DEF Calm, Keeps, TimersClosed, Phase, Talks, SameKnowledge, Queues1, Ebbs, Shutting, Up, Fields
    <2> QED  BY <2>1, <2>4, Zenon
  <1> QED  BY <1>1, <1>4, <1>5, <1>6, <1>7, <1>8, Zenon DEF closeAssoc, Fields

\* The timer that fires is not closed, and only its own state changes.
LEMMA FireCalm ==
  ASSUME NEW e \in Endpoints, NEW a, AssocOK(e, a), NEW t \in TimerIds, a.timer[t].armed, NEW m
  PROVE  Calm(e, a, [a EXCEPT !.timer[t] = timeout(Expire(a.timer[t]), m)])
  <1>1. PICK u \in Timer : u = timeout(Expire(a.timer[t]), m)
    BY TimerExpiry, Zenon DEF AssocOK
  <1>2. PICK b : b = [a EXCEPT !.timer[t] = u]
    BY Zenon
  <1>3. b.timer \in [TimerIds -> Timer] /\ \A f \in Fields \ {"timer"} : b[f] = a[f]
    BY <1>2, Zenon DEF AssocOK, Fields
  <1>4. DOMAIN b = Fields
    BY <1>2, Zenon DEF AssocOK
  <1>5. AssocOK(e, b)
    BY <1>3, <1>4, Zenon DEF AssocOK, Fields
  <1>6. Calm(e, a, b)
    BY <1>3, <1>5, Still DEF TimersClosed, Static, Fields
  <1> QED  BY <1>1, <1>2, <1>6, Zenon

\* A late callback of T1 queues only what is still stored.
LEMMA CallbackCalm ==
  ASSUME NEW e \in Endpoints, NEW a, AssocOK(e, a), NEW t \in TimerIds
  PROVE  Calm(e, a, onRetransmissionTimeout(a, e, t))
  <1>0. Calm(e, a, a)
    BY Zenon DEF Calm, Keeps, Talks, SameKnowledge, Queues1, Ebbs
  <1>p. ASSUME NEW c \in ControlChunks(e), c.type # "INIT-ACK", c.type = "INIT" => a.storedInit,
               c.type = "COOKIE-ECHO" => a.storedCookieEcho # None
        PROVE  Calm(e, a, push(a, c))
    <2>1. AssocOK(e, push(a, c))
      BY Helpers, Zenon
    <2>2. /\ \A f \in Fields \ {"control", "awake"} : push(a, c)[f] = a[f]
          /\ push(a, c).control = Append(a.control, c)
      BY Zenon DEF push, awakeWriteLoop, AssocOK, Fields
    <2> QED  BY <1>p, <2>1, <2>2, Zenon
         DEF Calm, Keeps, TimersClosed, Phase, Talks, SameKnowledge, Queues1, Ebbs, Shutting, Fields
  <1>1. CASE t = "t1Init"
    <2>1. PICK c : c = [type |-> "INIT", ext |-> Extensions(e, a)]
      BY Zenon
    <2>2. c \in ControlChunks(e) /\ c.type = "INIT"
      BY <2>1, Zenon DEF ControlChunks, Extensions, Ext, AssocOK
    <2> QED  BY <1>0, <1>1, <1>p, <2>1, <2>2, Zenon DEF onRetransmissionTimeout, sendInit
  <1>2. CASE t = "t1Cookie"
    <2>1. PICK c : c = [type |-> "COOKIE-ECHO", cookie |-> a.storedCookieEcho]
      BY Zenon
    <2>2. a.storedCookieEcho # None => c \in ControlChunks(e) /\ c.type = "COOKIE-ECHO"
      BY <2>1, Zenon DEF ControlChunks, AssocOK
    <2> QED  BY <1>0, <1>2, <1>p, <2>1, <2>2, Zenon DEF onRetransmissionTimeout, sendCookieEcho
  <1>3. CASE t = "t2Shutdown"
    <2>1. Calm(e, a, will(a, "shutdown"))
      BY WillCalm, Zenon
    <2>2. PICK b : b = will(a, "shutdownAck")
      BY Zenon
    <2>3. AssocOK(e, b)
      BY <2>2, Helpers, Zenon DEF Flags
    <2>4. /\ b.willSend = a.willSend \cup {"shutdownAck"}
          /\ \A f \in Fields \ {"willSend", "awake"} : b[f] = a[f]
      BY <2>2, Zenon DEF will, awakeWriteLoop, AssocOK, Fields
    <2>5. a.state = "shutdownAckSent" => Calm(e, a, b)
      BY <2>3, <2>4, Zenon
         DEF Calm, Keeps, TimersClosed, Phase, Talks, SameKnowledge, Queues1, Ebbs, Shutting, Fields
    <2> QED  BY <1>0, <1>3, <2>1, <2>2, <2>5, Zenon DEF onRetransmissionTimeout
  <1>4. CASE t = "t3RTX"
    <2>1. PICK b : b = awakeWriteLoop([a EXCEPT !.retransmit = a.data = "inflight"])
      BY Zenon
    <2>2. DOMAIN b = Fields /\ \A f \in Fields \ {"retransmit", "awake"} : b[f] = a[f]
      BY <2>1, Zenon DEF awakeWriteLoop, AssocOK, Fields
    <2>3. AssocOK(e, b)
      BY <2>2, Zenon DEF AssocOK, Fields
    <2>4. Calm(e, a, b)
      BY <2>2, <2>3, Still DEF TimersClosed, Static, Fields
    <2> QED  BY <1>4, <2>1, <2>4, Zenon DEF onRetransmissionTimeout
  <1> QED  BY <1>1, <1>2, <1>3, <1>4, Zenon DEF TimerIds

-----------------------------------------------------------------------------
(* The gatherers of the write loop.                                        *)

\* What may be written for the association a: what it had queued, and chunks
\* it has reason to send.
MaySend(a, c) ==
  \/ c \in popAll(a.control)
  \/ /\ c \in OtherChunks
     /\ c.type = "SHUTDOWN-ACK" => "shutdownAck" \in a.willSend
     /\ c.type = "SHUTDOWN-COMPLETE" => "shutdownComplete" \in a.willSend

\* What has been gathered from the association a so far.
Gathers(e, a, g) ==
  /\ AssocOK(e, g.assoc)
  /\ \A f \in Static \ {"control"} : g.assoc[f] = a[f]
  /\ g.assoc.control = << >>
  /\ TimersClosed(a) => TimersClosed(g.assoc)
  /\ g.assoc.willSend \subseteq a.willSend
  /\ g.assoc.data = "inflight" => a.data = "inflight" \/ a.state = "established"
  /\ \A c \in g.packets : MaySend(a, c)

\* One more chunk, for a change of the fields that gatherers change.
LEMMA GatherOne ==
  ASSUME NEW e, NEW a, NEW g, Gathers(e, a, g), NEW b, AssocOK(e, b),
         \A f \in Static : b[f] = g.assoc[f],
         TimersClosed(g.assoc) => TimersClosed(b),
         b.willSend \subseteq g.assoc.willSend,
         b.data = "inflight" => g.assoc.data = "inflight" \/ a.state = "established",
         NEW c, MaySend(a, c)
  PROVE  Gathers(e, a, Add(g, b, c))
  <1>1. Add(g, b, c).assoc = b /\ Add(g, b, c).packets = g.packets \cup {c}
    BY Zenon DEF Add
  <1>2. b.control = << >> /\ \A f \in Static \ {"control"} : b[f] = a[f]
    BY Zenon DEF Gathers, Static, Fields
  <1> QED  BY <1>1, <1>2, Zenon DEF Gathers

\* The DATA chunk is of the kind that was agreed on.
LEMMA GatherData ==
  ASSUME NEW e \in Endpoints, NEW a, NEW g, Gathers(e, a, g)
  PROVE  /\ Gathers(e, a, gatherRetransmit(g))
         /\ a.state = "established" => Gathers(e, a, gatherData(g))
  <1>0. AssocOK(e, g.assoc)
    BY Zenon DEF Gathers
  <1>1. g.assoc.data # "none" => MaySend(a, DataChunk(g.assoc))
    BY <1>0, Zenon DEF AssocOK, DataChunk, MaySend, OtherChunks
  <1>2. PICK b : b = [g.assoc EXCEPT !.retransmit = FALSE]
    BY Zenon
  <1>3. DOMAIN b = Fields /\ \A f \in Fields \ {"retransmit"} : b[f] = g.assoc[f]
    BY <1>0, <1>2, Zenon DEF AssocOK, Fields
  <1>4. AssocOK(e, b)
    BY <1>0, <1>3, Zenon DEF AssocOK, Fields
  <1>5. g.assoc.data # "none" => Gathers(e, a, Add(g, b, DataChunk(g.assoc)))
    BY <1>1, <1>3, <1>4, GatherOne, Zenon DEF TimersClosed, Static, Fields
  <1>6. Gathers(e, a, gatherRetransmit(g))
    BY <1>2, <1>5, Zenon DEF gatherRetransmit
  <1>7. PICK d : d = [g.assoc EXCEPT !.data = "inflight"]
    BY Zenon
  <1>8. DOMAIN d = Fields /\ d.data = "inflight" /\ \A f \in Fields \ {"data"} : d[f] = g.assoc[f]
    BY <1>0, <1>7, Zenon DEF AssocOK, Fields
  <1>9. g.assoc.data = "pending" => AssocOK(e, d)
    BY <1>0, <1>8, Zenon DEF AssocOK, Fields
  <1>10. PICK h : h = startTimer(d, "t3RTX")
    BY Zenon
  <1>11. g.assoc.data = "pending" =>
           /\ AssocOK(e, h) /\ (TimersClosed(d) => TimersClosed(h))
           /\ \A f \in Fields \ {"timer"} : h[f] = d[f]
    <2>1. AssocOK(e, d) => AssocOK(e, h) /\ (TimersClosed(d) => TimersClosed(h))
      BY <1>10, TimerCalls, Zenon DEF TimerIds
    <2>2. \A f \in Fields \ {"timer"} : h[f] = d[f]
      BY <1>8, <1>10, Zenon DEF startTimer, Fields
    <2> QED  BY <1>9, <2>1, <2>2, Zenon
  <1>12. g.assoc.data = "pending" /\ a.state = "established" =>
           Gathers(e, a, Add(g, h, DataChunk(g.assoc)))
    BY <1>1, <1>8, <1>11, GatherOne DEF TimersClosed, Static, Fields
  <1>13. a.state = "established" => Gathers(e, a, gatherData(g))
    BY <1>7, <1>10, <1>12, Zenon DEF gatherData
  <1> QED  BY <1>6, <1>13, Zenon

\* SACK.
LEMMA GatherSack ==
  ASSUME NEW e \in Endpoints, NEW a, NEW g, Gathers(e, a, g)
  PROVE  Gathers(e, a, gatherSack(g))
  <1>0. AssocOK(e, g.assoc)
    BY Zenon DEF Gathers
  <1>1. MaySend(a, [type |-> "SACK"])
    BY Zenon DEF MaySend, OtherChunks
  <1>2. PICK b : b = [g.assoc EXCEPT !.ackNow = FALSE]
    BY Zenon
  <1>3. DOMAIN b = Fields /\ \A f \in Fields \ {"ackNow"} : b[f] = g.assoc[f]
    BY <1>0, <1>2, Zenon DEF AssocOK, Fields
  <1>4. AssocOK(e, b)
    BY <1>0, <1>3, Zenon DEF AssocOK, Fields
  <1>5. Gathers(e, a, Add(g, b, [type |-> "SACK"]))
    BY <1>1, <1>3, <1>4, GatherOne DEF TimersClosed, Static, Fields
  <1> QED  BY <1>2, <1>5, Zenon DEF gatherSack

\* The chunks of the shutdown.
LEMMA GatherShutdown ==
  ASSUME NEW e \in Endpoints, NEW a, NEW g, Gathers(e, a, g)
  PROVE  Gathers(e, a, gatherShutdown(g))
  <1>0. AssocOK(e, g.assoc) /\ g.assoc.willSend \subseteq a.willSend
    BY Zenon DEF Gathers
  <1>1. ASSUME NEW w PROVE
          /\ AssocOK(e, Took(g.assoc, w))
          /\ Took(g.assoc, w).willSend \subseteq g.assoc.willSend
          /\ \A f \in Fields \ {"willSend"} : Took(g.assoc, w)[f] = g.assoc[f]
    BY <1>0, Zenon DEF Took, AssocOK, Fields
  <1>2. ASSUME NEW w, NEW c, MaySend(a, c) PROVE Gathers(e, a, Add(g, Took(g.assoc, w), c))
    BY <1>1, <1>2, GatherOne, Zenon DEF TimersClosed, Static, Fields
  <1>3. ASSUME NEW w, NEW c, MaySend(a, c)
        PROVE  Gathers(e, a, Add(g, startTimer(Took(g.assoc, w), "t2Shutdown"), c))
    <2>1. PICK b : b = Took(g.assoc, w)
      BY Zenon
    <2>2. PICK h : h = startTimer(b, "t2Shutdown")
      BY Zenon
    <2>3. AssocOK(e, h) /\ (TimersClosed(b) => TimersClosed(h))
      BY <1>1, <2>1, <2>2, TimerCalls, Zenon DEF TimerIds
    <2>4. \A f \in Fields \ {"timer"} : h[f] = b[f]
      BY <1>1, <2>1, <2>2, Zenon DEF startTimer, AssocOK, Fields
    <2>5. b.timer = g.assoc.timer /\ b.willSend \subseteq g.assoc.willSend
      BY <1>1, <2>1, Zenon DEF Fields
    <2>6. /\ \A f \in Static : h[f] = g.assoc[f]
          /\ h.data = g.assoc.data /\ h.willSend = b.willSend
      BY <1>1, <2>1, <2>4 DEF Static, Fields
    <2>7. TimersClosed(g.assoc) => TimersClosed(h)
      BY <2>3, <2>5, Zenon DEF TimersClosed
    <2>8. Gathers(e, a, Add(g, h, c))
      BY <1>3, <2>3, <2>5, <2>6, <2>7, GatherOne, Zenon
    <2> QED  BY <2>1, <2>2, <2>8, Zenon
  <1>4. /\ MaySend(a, [type |-> "SHUTDOWN"])
        /\ "shutdownAck" \in g.assoc.willSend => MaySend(a, [type |-> "SHUTDOWN-ACK"])
        /\ "shutdownComplete" \in g.assoc.willSend => MaySend(a, [type |-> "SHUTDOWN-COMPLETE"])
    BY <1>0, Zenon DEF MaySend, OtherChunks
  <1> QED  BY <1>2, <1>3, <1>4, Zenon DEF gatherShutdown

\* All that one turn of the write loop gathers.
LEMMA GatherOutbound ==
  ASSUME NEW e \in Endpoints, NEW a, AssocOK(e, a)
  PROVE  /\ Calm(e, a, gatherOutbound(a).assoc) /\ gatherOutbound(a).assoc.state = a.state
         /\ gatherOutbound(a).assoc.willSend \subseteq a.willSend
         /\ gatherOutbound(a).assoc.control \in {a.control, << >>}
         /\ \A c \in gatherOutbound(a).packets : MaySend(a, c)
  <1>1. CASE "abort" \in a.willSend
    <2>1. PICK b : b = [a EXCEPT !.willSend = @ \ {"abort", "violation"}]
      BY Zenon
    <2>2. /\ DOMAIN b = Fields /\ b.willSend \subseteq a.willSend
          /\ \A f \in Fields \ {"willSend"} : b[f] = a[f]
      BY <2>1, Zenon DEF AssocOK, Fields
    <2>3. AssocOK(e, b)
      BY <2>2, Zenon DEF AssocOK, Fields
    <2>4. Calm(e, a, b) /\ b.control = a.control /\ b.state = a.state
      BY <2>2, <2>3, Still, Zenon DEF TimersClosed, Static, Fields
    <2>5. MaySend(a, [type |-> "ABORT"])
      BY Zenon DEF MaySend, OtherChunks
    <2>6. gatherOutbound(a).assoc = b /\ gatherOutbound(a).packets = {[type |-> "ABORT"]}
      BY <1>1, <2>1, Zenon DEF gatherOutbound
    <2> QED  BY <2>2, <2>4, <2>5, <2>6, Zenon
  <1>2. CASE "abort" \notin a.willSend
    <2>1. PICK b : b = [a EXCEPT !.control = << >>]
      BY Zenon
    <2>2. /\ DOMAIN b = Fields /\ b.control = << >>
          /\ \A f \in Fields \ {"control"} : b[f] = a[f]
      BY <2>1, Zenon DEF AssocOK, Fields
    <2>3. AssocOK(e, b)
      BY <2>2 DEF AssocOK, Fields
    <2>4. PICK g : g = [assoc |-> b, packets |-> popAll(a.control)]
      BY Zenon
    <2>5. g.assoc = b /\ g.packets = popAll(a.control)
      BY <2>4, Zenon
    <2>6. Gathers(e, a, g)
      BY <2>2, <2>3, <2>5, Zenon DEF Gathers, MaySend, TimersClosed, Static, Fields
    <2>7. g.assoc.state = a.state
      BY <2>2, <2>5, Zenon DEF Fields
    <2>8. PICK h : h = gatherInState(g)
      BY Zenon
    <2>9. Gathers(e, a, h)
      <3>1. CASE a.state = "established"
        BY <2>6, <2>7, <2>8, <3>1, GatherData, GatherSack, Zenon DEF gatherInState
      <3>2. CASE a.state \in {"shutdownPending", "shutdownSent", "shutdownReceived"}
        BY <2>6, <2>7, <2>8, <3>2, GatherData, GatherSack, GatherShutdown, Zenon DEF gatherInState
      <3>3. CASE a.state = "shutdownAckSent"
        BY <2>6, <2>7, <2>8, <3>3, GatherShutdown, Zenon DEF gatherInState
      <3>4. CASE a.state \in Handshaking
        BY <2>6, <2>7, <2>8, <3>4, Zenon DEF gatherInState, Handshaking
      <3> QED  BY <3>1, <3>2, <3>3, <3>4, Zenon DEF AssocOK, States
    <2>10. PICK d : d = h.assoc
      BY Zenon
    <2>11. /\ AssocOK(e, d) /\ d.control = << >> /\ (TimersClosed(a) => TimersClosed(d))
           /\ d.willSend \subseteq a.willSend
           /\ d.data = "inflight" => a.data = "inflight" \/ a.state = "established"
           /\ \A f \in Static \ {"control"} : d[f] = a[f]
      BY <2>9, <2>10, Zenon DEF Gathers
    <2>12. /\ d.state = a.state /\ d.storedInit = a.storedInit
           /\ d.storedCookieEcho = a.storedCookieEcho /\ SameKnowledge(a, d)
      BY <2>11, Zenon DEF Static, Fields, SameKnowledge
    <2>13. Calm(e, a, d)
      BY <2>11, <2>12, Zenon DEF Calm, Keeps, Phase, Talks, Queues1, Ebbs, Shutting
    <2>14. gatherOutbound(a).assoc = d /\ gatherOutbound(a).packets = h.packets
      BY <1>2, <2>1, <2>4, <2>8, <2>10, Zenon DEF gatherOutbound
    <2> QED  BY <2>9, <2>11, <2>12, <2>13, <2>14, Zenon DEF Gathers
  <1> QED  BY <1>1, <1>2, Zenon

\* An association that is closed after the last of its packets.
LEMMA ThenCloseCalm ==
  ASSUME NEW e \in Endpoints, NEW a, NEW b, Calm(e, a, b), b.willSend \subseteq a.willSend,
         b.control \in {a.control, << >>}
  PROVE  /\ Calm(e, a, closeAssoc(b)) /\ TimersClosed(closeAssoc(b))
         /\ closeAssoc(b).state = "closed"
  <1>1. PICK c : c = closeAssoc(b)
    BY Zenon
  <1>2. AssocOK(e, b)
    BY Zenon DEF Calm, Keeps
  <1>3. Calm(e, b, c) /\ TimersClosed(c) /\ c.state = "closed" /\ c.control = b.control
    BY <1>1, <1>2, CloseCalm, Zenon
  <1>4. c.willSend = b.willSend
    BY <1>1, <1>2, Zenon DEF closeAssoc, closeAllTimers, setState, AssocOK, Fields
  <1>5. Keeps(e, a, c)
    BY <1>3, Zenon DEF Calm, Keeps
  <1>6. Talks(e, a, c)
    BY <1>3, <1>4 DEF Calm, Talks, SameKnowledge, Queues1, Up
  <1>7. Ebbs(a, c)
    <2>1. /\ c.data = "inflight" => b.data = "inflight" \/ b.state = "established"
          /\ b.data = "inflight" => a.data = "inflight" \/ a.state = "established"
      BY <1>3, Zenon DEF Calm, Ebbs
    <2>2. c.data = b.data
      BY <1>1, <1>2, Zenon DEF closeAssoc, closeAllTimers, setState, AssocOK, Fields
    <2> QED  BY <1>3, <1>4, <2>1, <2>2, Zenon DEF Ebbs, Shutting
  <1>8. "shutdownComplete" \in c.willSend => "shutdownComplete" \in a.willSend
    BY <1>4, Zenon
  <1> QED  BY <1>1, <1>3, <1>5, <1>6, <1>7, <1>8, Zenon DEF Calm

\* A timer that is stopped, and awake, are nobody else's business.
LEMMA StopCalm ==
  ASSUME NEW e \in Endpoints, NEW a, AssocOK(e, a), NEW t \in TimerIds
  PROVE  /\ Calm(e, a, stopTimer(a, t))
         /\ stopTimer(a, t).willSend = a.willSend /\ stopTimer(a, t).control = a.control
  <1>1. PICK s : s = stopTimer(a, t)
    BY Zenon
  <1>2. AssocOK(e, s) /\ (TimersClosed(a) => TimersClosed(s))
    BY <1>1, TimerCalls, Zenon
  <1>3. \A f \in Fields \ {"timer"} : s[f] = a[f]
    BY <1>1, Zenon DEF stopTimer, AssocOK, Fields
  <1>4. Calm(e, a, s) /\ s.willSend = a.willSend /\ s.control = a.control
    BY <1>2, <1>3, Still DEF Static, Fields
  <1> QED  BY <1>1, <1>4, Zenon

\* The same of the flag that wakes the write loop.
LEMMA AwakeCalm ==
  ASSUME NEW e, NEW a, NEW b, Calm(e, a, b), NEW w
  PROVE  /\ Calm(e, a, [b EXCEPT !.awake = w])
         /\ [b EXCEPT !.awake = w].willSend = b.willSend
         /\ [b EXCEPT !.awake = w].control = b.control
  <1>1. PICK c : c = [b EXCEPT !.awake = w]
    BY Zenon
  <1>2. DOMAIN c = Fields /\ \A f \in Fields \ {"awake"} : c[f] = b[f]
    BY <1>1, Zenon DEF Calm, Keeps, AssocOK, Fields
  <1>3. AssocOK(e, c)
    BY <1>2, Zenon DEF Calm, Keeps, AssocOK, Fields
  <1>4. /\ c.state = b.state /\ c.storedInit = b.storedInit /\ c.storedCookieEcho = b.storedCookieEcho
        /\ c.control = b.control /\ c.willSend = b.willSend /\ c.data = b.data /\ c.timer = b.timer
        /\ SameKnowledge(b, c)
    BY <1>2, Zenon DEF Fields, SameKnowledge
  <1>5. Calm(e, a, c)
    BY <1>3, <1>4 DEF Calm, Keeps, TimersClosed, Phase, Talks, SameKnowledge, Queues1, Ebbs
  <1> QED  BY <1>1, <1>4, <1>5, Zenon

-----------------------------------------------------------------------------
(* The steps: what every one leaves alone.                                 *)

\* A step of e changes nothing at the other end.
Elsewhere(e) ==
  \A f \in Endpoints \ {e} :
    /\ assoc'[f] = assoc[f] /\ app'[f] = app[f] /\ reader'[f] = reader[f] /\ writer'[f] = writer[f]
    /\ handshake'[f] = handshake[f] /\ due'[f] = due[f] /\ conn'[f] = conn[f]
    /\ closing'[f] = closing[f] /\ readClosed'[f] = readClosed[f]

Step(e) == AppStep(e) \/ ReadStep(e) \/ WriteStep(e) \/ \E t \in TimerIds : TimerStep(e, t)

\* The application's goroutine.
LEMMA AppPlaces ==
  ASSUME Places, NEW e \in Endpoints, AppStep(e)
  PROVE  Places' /\ Elsewhere(e) /\ scenario' = scenario
  <1> USE DEF chanVars, netVars, Goto, Set, Places, Elsewhere
  <1>1. CASE Open(e)
    BY <1>1 DEF Open
  <1>2. CASE HandshakeCompleted(e) \/ HandshakeDropped(e)
    BY <1>2 DEF HandshakeCompleted, HandshakeDropped
  <1>3. CASE OpenRefused(e) \/ CloseReturns(e)
    BY <1>3 DEF OpenRefused, CloseReturns
  <1>4. CASE OpenCanceled(e) \/ CloseAsk(e)
    BY <1>4 DEF OpenCanceled, CloseAsk, Close
  <1>5. CASE Write(e) \/ ShutdownCheck(e)
    BY <1>5 DEF Write, ShutdownCheck
  <1>6. CASE ShutdownSet(e) \/ ShutdownLocked(e) \/ ShutdownReturns(e)
    BY <1>6 DEF ShutdownSet, ShutdownLocked, ShutdownReturns
  <1>7. CASE AbortAsk(e) \/ AbortFlushed(e)
    BY <1>7 DEF AbortAsk, AbortFlushed
  <1> QED  BY <1>1, <1>2, <1>3, <1>4, <1>5, <1>6, <1>7, Zenon DEF AppStep

\* The read loop.
LEMMA ReadPlaces ==
  ASSUME Places, NEW e \in Endpoints, ReadStep(e)
  PROVE  Places' /\ Elsewhere(e) /\ scenario' = scenario /\ net' \subseteq net
  <1> USE DEF chanVars, netVars, Set, Places, Elsewhere
  <1> DEFINE Goal == Places' /\ Elsewhere(e) /\ scenario' = scenario /\ net' \subseteq net
  <1>1. ASSUME NEW p \in net, HandleSimple(e, p) PROVE Goal
    BY <1>1, Zenon DEF HandleSimple, Reads
  <1>2. ASSUME NEW p \in net, HandleCookieEcho(e, p) PROVE Goal
    BY <1>2 DEF HandleCookieEcho, Reads, Block, Blocked
  <1>3. ASSUME NEW p \in net, HandleCookieAck(e, p) PROVE Goal
    BY <1>3 DEF HandleCookieAck, Reads, Block, Blocked
  <1>4. ASSUME NEW p \in net, HandleShutdownComplete(e, p) PROVE Goal
    BY <1>4 DEF HandleShutdownComplete, Reads, Close
  <1>5. ASSUME NEW p \in net, HandleAbort(e, p) PROVE Goal
    BY <1>5, Zenon DEF HandleAbort, Reads, Close
  <1>6. CASE ReadFails(e)
    BY <1>6, Zenon DEF ReadFails
  <1>7. CASE ReadLoopEnds(e)
    BY <1>7, Zenon DEF ReadLoopEnds
  <1> QED  BY <1>1, <1>2, <1>3, <1>4, <1>5, <1>6, <1>7, Zenon DEF ReadStep

\* The write loop and the timers.
LEMMA OtherPlaces ==
  ASSUME Places, NEW e \in Endpoints, WriteStep(e) \/ \E t \in TimerIds : TimerStep(e, t)
  PROVE  Places' /\ Elsewhere(e) /\ scenario' = scenario
  <1> USE DEF chanVars, netVars, Set, Block, Close, Places, Elsewhere
  <1>1. CASE WriteTurn(e)
    BY <1>1, Zenon DEF WriteTurn
  <1>2. CASE ToldToClose(e)
    BY <1>2 DEF ToldToClose
  <1>3. ASSUME NEW t \in TimerIds, TimerStep(e, t) PROVE Places' /\ Elsewhere(e) /\ scenario' = scenario
    BY <1>3 DEF TimerStep, TimerFires, TimerCallback, TimerGivesUp
  <1> QED  BY <1>1, <1>2, <1>3, Zenon DEF WriteStep

\* What arrives at e.
LEMMA Inbound ==
  ASSUME NetOK, NEW e \in Endpoints, NEW p \in net, p.to = e
  PROVE  /\ p.chunk \in ControlChunks(Peer(e)) \cup OtherChunks
         /\ p.chunk.type \in {"INIT", "INIT-ACK"} => p.chunk.ext = Ext(Peer(e))
         /\ p.chunk.type \in {"INIT-ACK"} => p.chunk.cookie = Peer(e)
         /\ p.chunk.type = "COOKIE-ECHO" => p.chunk.cookie = e
         /\ p.chunk.type = "DATA" => p.chunk.idata = Both
  <1>1. PICK f \in Endpoints : p.to = Peer(f) /\ p.chunk \in ControlChunks(f) \cup OtherChunks
    BY Zenon DEF NetOK
  <1>2. f = Peer(e)
    BY <1>1, Peers, Zenon
  <1>3. p.chunk \in ControlChunks(Peer(e)) \cup OtherChunks
    BY <1>1, <1>2, Zenon
  <1> QED  BY <1>3, Peers DEF ControlChunks, OtherChunks

\* Only an application that has opened has loops and timers.
LEMMA Opened ==
  ASSUME TypeOK, NEW e \in Endpoints, Step(e), ~Open(e)
  PROVE  app[e] # "new"
  <1> SUFFICES ASSUME app[e] = "new" PROVE FALSE
    BY Zenon
  <1>1. /\ reader[e] = "off" /\ writer[e] = "off" /\ handshake[e] = None /\ due[e] = {}
        /\ assoc[e] = NewAssociation(e)
    BY Zenon DEF TypeOK, Untouched
  <1>2. \A t \in TimerIds : ~assoc[e].timer[t].armed
    BY <1>1 DEF NewAssociation, newRTXTimer
  <1>3. ~AppStep(e)
    BY <1>1, Zenon DEF AppStep, HandshakeCompleted, HandshakeDropped, OpenRefused, OpenCanceled, Write,
       ShutdownCheck, ShutdownSet, ShutdownLocked, ShutdownReturns, AbortAsk, AbortFlushed,
       CloseAsk, CloseReturns
  <1>4. ~ReadStep(e) /\ ~WriteStep(e)
    BY <1>1, Zenon DEF ReadStep, HandleSimple, HandleCookieEcho, HandleCookieAck, HandleShutdownComplete,
       HandleAbort, Reads, ReadFails, ReadLoopEnds, WriteStep, WriteTurn, ToldToClose
  <1>5. \A t \in TimerIds : ~TimerStep(e, t)
    BY <1>1, <1>2, Zenon DEF TimerStep, TimerFires, TimerCallback, TimerGivesUp
  <1> QED  BY <1>3, <1>4, <1>5, Zenon DEF Step

\* The steps that are more than calm.
Completes(e, p) ==
  \/ HandleCookieEcho(e, p) /\ assoc[e].state \in Handshaking /\ assoc[e].myCookie # None
  \/ HandleCookieAck(e, p) /\ assoc[e].state = "cookieEchoed"
Special(e) ==
  \/ Open(e) \/ ShutdownSet(e) \/ ShutdownLocked(e)
  \/ \E p \in net : \/ HandleSimple(e, p) /\ p.chunk.type \in {"INIT", "INIT-ACK", "SHUTDOWN-ACK"}
                    \/ Completes(e, p)

\* All the others are.
LEMMA CalmSteps ==
  ASSUME TypeOK, AgreeInv, NEW e \in Endpoints, Step(e), ~Special(e)
  PROVE  Calm(e, assoc[e], assoc'[e])
  <1>0. AssocOK(e, assoc[e]) /\ DOMAIN assoc = Endpoints /\ NetOK
    BY Zenon DEF TypeOK, Places
  <1>1. assoc' = assoc => Calm(e, assoc[e], assoc'[e])
    BY <1>0, Still, Zenon
  <1>2. ASSUME NEW b, Set(e, b), Calm(e, assoc[e], b) PROVE Calm(e, assoc[e], assoc'[e])
    BY <1>0, <1>2, Zenon DEF Set
  <1>3. ASSUME NEW b, Close(e, b), Calm(e, assoc[e], closeAssoc(b)) PROVE Calm(e, assoc[e], assoc'[e])
    BY <1>2, <1>3, Zenon DEF Close
  <1>4. assoc[e].state \in Up => assoc[e].useInterleaving = Both
    BY Zenon DEF AgreeInv, Agreed, Knows, LocalKnows
  <1>5. CASE AppStep(e)
    <2>1. CASE HandshakeCompleted(e)
      <3>1. Calm(e, assoc[e], assoc[e])
        BY <1>0, Still, Zenon
      <3>2. Calm(e, assoc[e], push(assoc[e], [type |-> "COOKIE-ACK"]))
        BY <1>0, CookieAckCalm, Zenon
      <3> QED  BY <1>2, <2>1, <3>1, <3>2, Zenon DEF HandshakeCompleted
    <2>2. CASE HandshakeDropped(e) \/ OpenRefused(e) \/ ShutdownCheck(e) \/ ShutdownReturns(e)
               \/ AbortFlushed(e) \/ CloseReturns(e)
      BY <1>1, <2>2, Zenon DEF HandshakeDropped, OpenRefused, ShutdownCheck, ShutdownReturns, AbortFlushed,
         CloseReturns
    <2>3. CASE OpenCanceled(e) \/ CloseAsk(e)
      BY <1>0, <1>3, <2>3, CloseCalm, Zenon DEF OpenCanceled, CloseAsk
    <2>4. CASE Write(e)
      BY <1>0, <1>2, <1>4, <2>4, WriteCalm, Zenon DEF Write, Up
    <2>5. CASE AbortAsk(e)
      BY <1>0, <1>2, <2>5, WillCalm, Zenon DEF AbortAsk
    <2> QED  BY <1>5, <2>1, <2>2, <2>3, <2>4, <2>5, Zenon DEF AppStep, Special
  <1>6. CASE ReadStep(e)
    <2>1. ASSUME NEW p \in net, HandleSimple(e, p) PROVE Calm(e, assoc[e], assoc'[e])
      <3>1. p.chunk.type \in {"DATA", "SACK", "SHUTDOWN"}
        BY <2>1, Zenon DEF HandleSimple, Special
      <3>2. CASE p.chunk.type = "DATA"
        <4>1. p.chunk.idata = Both
          BY <1>0, <2>1, <3>2, Inbound, Zenon DEF HandleSimple, Reads
        <4>2. Calm(e, assoc[e], handleData(assoc[e], p.chunk))
          BY <1>0, <1>4, <4>1, DataCalm, Zenon
        <4> QED  BY <1>2, <2>1, <3>2, <4>2, Zenon DEF HandleSimple
      <3>3. CASE p.chunk.type = "SACK"
        BY <1>0, <1>2, <2>1, <3>3, SackCalm, Zenon DEF HandleSimple
      <3>4. CASE p.chunk.type = "SHUTDOWN"
        BY <1>0, <1>2, <2>1, <3>4, ShutdownCalm, Zenon DEF HandleSimple
      <3> QED  BY <3>1, <3>2, <3>3, <3>4, Zenon
    <2>2. ASSUME NEW p \in net, HandleCookieEcho(e, p) PROVE Calm(e, assoc[e], assoc'[e])
      BY <1>0, <1>1, <1>2, <2>2, CookieAckCalm, Zenon DEF HandleCookieEcho, CookieStates, Special, Completes
    <2>3. ASSUME NEW p \in net, HandleCookieAck(e, p) PROVE Calm(e, assoc[e], assoc'[e])
      BY <1>1, <2>3, Zenon DEF HandleCookieAck, Special, Completes
    <2>4. ASSUME NEW p \in net, HandleShutdownComplete(e, p) PROVE Calm(e, assoc[e], assoc'[e])
      BY <1>0, <1>1, <1>3, <2>4, StopCalm, ThenCloseCalm, Zenon DEF HandleShutdownComplete, TimerIds
    <2>5. ASSUME NEW p \in net, HandleAbort(e, p) PROVE Calm(e, assoc[e], assoc'[e])
      BY <1>0, <1>3, <2>5, CloseCalm, Zenon DEF HandleAbort
    <2>6. CASE ReadFails(e) \/ ReadLoopEnds(e)
      BY <1>0, <1>1, <1>2, <2>6, CloseCalm, Zenon DEF ReadFails, ReadLoopEnds
    <2> QED  BY <1>6, <2>1, <2>2, <2>3, <2>4, <2>5, <2>6, Zenon DEF ReadStep
  <1>7. CASE WriteTurn(e)
    <2>1. PICK g : g = gatherOutbound(assoc[e])
      BY Zenon
    <2>2. PICK b : b = [g.assoc EXCEPT !.awake = @ /\ writer[e] = "gather"]
      BY Zenon
    <2>3. Calm(e, assoc[e], g.assoc) /\ g.assoc.willSend \subseteq assoc[e].willSend
          /\ g.assoc.control \in {assoc[e].control, << >>}
      BY <1>0, <2>1, GatherOutbound, Zenon
    <2>4. /\ Calm(e, assoc[e], b) /\ b.willSend \subseteq assoc[e].willSend
          /\ b.control \in {assoc[e].control, << >>}
      BY <2>2, <2>3, AwakeCalm
    <2>5. Calm(e, assoc[e], closeAssoc(b))
      BY <2>4, ThenCloseCalm, Zenon
    <2>6. Set(e, b) \/ Set(e, closeAssoc(b))
      BY <1>7, <2>1, <2>2, Zenon DEF WriteTurn, Close
    <2> QED  BY <1>2, <2>4, <2>5, <2>6, Zenon
  <1>8. CASE ToldToClose(e)
    BY <1>0, <1>1, <1>2, <1>8, CloseCalm, Zenon DEF ToldToClose
  <1>9. ASSUME NEW t \in TimerIds, TimerStep(e, t) PROVE Calm(e, assoc[e], assoc'[e])
    <2>1. CASE TimerFires(e, t)
      BY <1>0, <1>2, <2>1, FireCalm, Zenon DEF TimerFires
    <2>2. CASE TimerCallback(e, t)
      BY <1>0, <1>2, <2>2, CallbackCalm, Zenon DEF TimerCallback
    <2>3. CASE TimerGivesUp(e, t)
      BY <1>1, <2>3, Zenon DEF TimerGivesUp
    <2> QED  BY <1>9, <2>1, <2>2, <2>3, Zenon DEF TimerStep
  <1> QED  BY <1>5, <1>6, <1>7, <1>8, <1>9, Zenon DEF Step, WriteStep

-----------------------------------------------------------------------------
(* The steps that are more than calm.                                      *)

\* Learning of the peer, from a token or from INIT or INIT-ACK.
LEMMA Learns ==
  ASSUME TypeOK, NEW e \in Endpoints, NEW a, AssocOK(e, a)
  PROVE  /\ AssocOK(e, learnPeer(a, Ext(Peer(e))))
         /\ LocalKnows(e, learnPeer(a, Ext(Peer(e))))
         /\ \A f \in {"state", "storedInit", "storedCookieEcho", "control", "willSend", "data", "timer", "myCookie"} :
              learnPeer(a, Ext(Peer(e)))[f] = a[f]
  <1>1. AssocOK(e, learnPeer(a, Ext(Peer(e))))
    BY Helpers, Zenon
  <1>2. \A f \in {"state", "storedInit", "storedCookieEcho", "control", "willSend", "data", "timer", "myCookie"} :
          learnPeer(a, Ext(Peer(e)))[f] = a[f]
    BY Zenon DEF learnPeer, updateInterleavingState, AssocOK, Fields
  <1>3. PICK b : b = [a EXCEPT !.peerTag = Peer(e), !.peerTSN = Peer(e), !.peerForwardTSN = TRUE,
                               !.peerInterleaving = scenario.interleaving[Peer(e)]]
    BY Zenon
  <1>4. learnPeer(a, Ext(Peer(e))) = updateInterleavingState(b)
    BY <1>3, Zenon DEF learnPeer, Ext
  <1>5. /\ b.peerTag = Peer(e) /\ b.peerTSN = Peer(e) /\ b.peerForwardTSN = TRUE
        /\ b.peerInterleaving = scenario.interleaving[Peer(e)]
        /\ b.localInterleaving = scenario.interleaving[e] /\ DOMAIN b = Fields
    BY <1>3, Zenon DEF AssocOK, Fields
  <1>6. BothOffer(b) = Both
    <2>1. Both <=> (scenario.interleaving[e] /\ scenario.interleaving[Peer(e)])
      BY Peers, Zenon DEF Both
    <2> QED  BY <1>5, <2>1, Zenon DEF BothOffer, Both
  <1>7. LocalKnows(e, updateInterleavingState(b))
    <2>1. PICK x : x = Both
      BY Zenon
    <2>2. updateInterleavingState(b) = [b EXCEPT !.useInterleaving = x, !.useIForwardTSN = x,
                                                 !.useForwardTSN = ~x /\ b.peerForwardTSN]
      BY <1>6, <2>1, Zenon DEF updateInterleavingState
    <2> QED  BY <1>5, <2>1, <2>2 DEF LocalKnows, Fields
  <1> QED  BY <1>1, <1>2, <1>4, <1>7, Zenon

\* INIT: an INIT-ACK is queued.
LEMMA InitLearns ==
  ASSUME TypeOK, NEW e \in Endpoints, NEW a, AssocOK(e, a), NEW c, c.ext = Ext(Peer(e)),
         a.state \in Handshaking
  PROVE  LET b == handleInit(a, e, c)
         IN  /\ AssocOK(e, b) /\ LocalKnows(e, b) /\ b.myCookie = e
             /\ \A f \in {"state", "storedInit", "storedCookieEcho", "willSend", "data", "timer"} : b[f] = a[f]
             /\ \E k \in ControlChunks(e) : k.type = "INIT-ACK" /\ b.control = Append(a.control, k)
  <1>1. PICK d : d = learnPeer(a, Ext(Peer(e)))
    BY Zenon
  <1>2. /\ AssocOK(e, d) /\ LocalKnows(e, d)
        /\ \A f \in {"state", "storedInit", "storedCookieEcho", "control", "willSend", "data", "timer", "myCookie"} :
             d[f] = a[f]
    BY <1>1, Learns, Zenon
  <1>3. PICK b : b = [d EXCEPT !.myCookie = e]
    BY Zenon
  <1>4. DOMAIN b = Fields /\ b.myCookie = e /\ \A f \in Fields \ {"myCookie"} : b[f] = d[f]
    BY <1>2, <1>3, Zenon DEF AssocOK, Fields
  <1>5. AssocOK(e, b)
    BY <1>2, <1>4 DEF AssocOK, Fields
  <1>6. PICK k : k = [type |-> "INIT-ACK", ext |-> Extensions(e, b), cookie |-> e]
    BY Zenon
  <1>7. k \in ControlChunks(e) /\ k.type = "INIT-ACK"
    BY <1>5, <1>6, Zenon DEF ControlChunks, Extensions, Ext, AssocOK
  <1>8. PICK h : h = push(b, k)
    BY Zenon
  <1>9. AssocOK(e, h)
    BY <1>5, <1>7, <1>8, Helpers, Zenon
  <1>10. h.control = Append(b.control, k) /\ \A f \in Fields \ {"control", "awake"} : h[f] = b[f]
    BY <1>4, <1>8, Zenon DEF push, awakeWriteLoop, Fields
  <1>11. handleInit(a, e, c) = h
    BY <1>1, <1>3, <1>6, <1>8, Zenon DEF handleInit
  <1>12. LocalKnows(e, h) /\ h.myCookie = e
    BY <1>2, <1>4, <1>10 DEF LocalKnows, Fields
  <1>13. /\ \A f \in {"state", "storedInit", "storedCookieEcho", "willSend", "data", "timer"} : h[f] = a[f]
         /\ h.control = Append(a.control, k)
    BY <1>2, <1>4, <1>10, Zenon DEF Fields
  <1> QED  BY <1>7, <1>9, <1>11, <1>12, <1>13, Zenon

\* INIT-ACK: a COOKIE-ECHO is queued, and T1-init has nothing more to send.
LEMMA InitAckLearns ==
  ASSUME TypeOK, NEW e \in Endpoints, NEW a, AssocOK(e, a), NEW c, c.ext = Ext(Peer(e)),
         c.cookie = Peer(e), a.state = "cookieWait"
  PROVE  LET b == handleInitAck(a, c)
         IN  /\ AssocOK(e, b) /\ LocalKnows(e, b)
             /\ b.state = "cookieEchoed" /\ ~b.storedInit
             /\ TimersClosed(a) => TimersClosed(b)
             /\ \A f \in {"willSend", "data", "myCookie"} : b[f] = a[f]
             /\ \E k \in ControlChunks(e) : k.type = "COOKIE-ECHO" /\ b.control = Append(a.control, k)
  <1>1. PICK d : d = learnPeer(a, Ext(Peer(e)))
    BY Zenon
  <1>2. /\ AssocOK(e, d) /\ LocalKnows(e, d)
        /\ \A f \in {"state", "storedInit", "storedCookieEcho", "control", "willSend", "data", "timer", "myCookie"} :
             d[f] = a[f]
    BY <1>1, Learns, Zenon
  <1>3. PICK s : s = stopTimer(d, "t1Init")
    BY Zenon
  <1>4. AssocOK(e, s) /\ (TimersClosed(d) => TimersClosed(s))
    BY <1>2, <1>3, TimerCalls, Zenon DEF TimerIds
  <1>5. \A f \in Fields \ {"timer"} : s[f] = d[f]
    BY <1>2, <1>3, Zenon DEF stopTimer, AssocOK, Fields
  <1>6. PICK b : b = [[s EXCEPT !.storedInit = FALSE] EXCEPT !.storedCookieEcho = Peer(e)]
    BY Zenon
  <1>7. /\ DOMAIN b = Fields /\ b.storedInit = FALSE /\ b.storedCookieEcho = Peer(e)
        /\ \A f \in Fields \ {"storedInit", "storedCookieEcho"} : b[f] = s[f]
    BY <1>4, <1>6, Zenon DEF AssocOK, Fields
  <1>8. AssocOK(e, b)
    BY <1>4, <1>7, Zenon DEF AssocOK, Fields
  <1>9. PICK k : k = [type |-> "COOKIE-ECHO", cookie |-> Peer(e)]
    BY Zenon
  <1>10. k \in ControlChunks(e) /\ k.type = "COOKIE-ECHO"
    BY <1>9, Zenon DEF ControlChunks
  <1>11. PICK h : h = push(b, k)
    BY Zenon
  <1>12. AssocOK(e, h)
    BY <1>8, <1>10, <1>11, Helpers, Zenon
  <1>13. h.control = Append(b.control, k) /\ \A f \in Fields \ {"control", "awake"} : h[f] = b[f]
    BY <1>7, <1>11, Zenon DEF push, awakeWriteLoop, Fields
  <1>14. sendCookieEcho(b) = h
    BY <1>7, <1>9, <1>11, Peers, Zenon DEF sendCookieEcho
  <1>15. PICK u : u = startTimer(h, "t1Cookie")
    BY Zenon
  <1>16. AssocOK(e, u) /\ (TimersClosed(h) => TimersClosed(u))
    BY <1>12, <1>15, TimerCalls, Zenon DEF TimerIds
  <1>17. \A f \in Fields \ {"timer"} : u[f] = h[f]
    BY <1>12, <1>15, Zenon DEF startTimer, AssocOK, Fields
  <1>18. PICK v : v = setState(u, "cookieEchoed")
    BY Zenon
  <1>19. AssocOK(e, v)
    BY <1>16, <1>18, Helpers, Zenon DEF States, Handshaking
  <1>20. v.state = "cookieEchoed" /\ \A f \in Fields \ {"state"} : v[f] = u[f]
    BY <1>16, <1>18, Zenon DEF setState, AssocOK, Fields
  <1>21. handleInitAck(a, c) = v
    BY <1>1, <1>3, <1>6, <1>14, <1>15, <1>18, Zenon DEF handleInitAck, ForgetInit
  <1>22. \A f \in Fields \ {"timer", "storedInit", "storedCookieEcho", "control", "awake", "state"} : v[f] = d[f]
    BY <1>5, <1>7, <1>13, <1>17, <1>20
  <1>23. LocalKnows(e, v) /\ \A f \in {"willSend", "data", "myCookie"} : v[f] = a[f]
    BY <1>2, <1>22 DEF LocalKnows, Fields
  <1>24. ~v.storedInit /\ v.control = Append(a.control, k)
    BY <1>2, <1>5, <1>7, <1>13, <1>17, <1>20, Zenon DEF Fields
  <1>25. TimersClosed(a) => TimersClosed(v)
    <2>1. d.timer = a.timer /\ h.timer = s.timer /\ v.timer = u.timer
      BY <1>2, <1>7, <1>13, <1>20, Zenon DEF Fields
    <2> QED  BY <1>4, <1>16, <2>1, Zenon DEF TimersClosed
  <1> QED  BY <1>10, <1>19, <1>20, <1>21, <1>23, <1>24, <1>25, Zenon

\* COOKIE-ECHO and COOKIE-ACK: ESTABLISHED, and T1 has nothing more to send.
LEMMA Establishes ==
  ASSUME TypeOK, NEW e \in Endpoints, NEW a, AssocOK(e, a), LocalKnows(e, a),
         NEW b, b \in {establish(ForgetCookieEcho(ForgetInit(a))), establish(ForgetCookieEcho(a))}
  PROVE  /\ AssocOK(e, b) /\ LocalKnows(e, b)
         /\ b.state = "established" /\ b.storedCookieEcho = None
         /\ a.storedInit = FALSE \/ b = establish(ForgetCookieEcho(ForgetInit(a))) => b.storedInit = FALSE
         /\ TimersClosed(a) => TimersClosed(b)
         /\ \A f \in {"willSend", "data", "myCookie", "control"} : b[f] = a[f]
  <1> DEFINE Same(x, y) == \A f \in Fields \ {"timer", "storedInit", "storedCookieEcho"} : y[f] = x[f]
  <1>1. PICK i : i = ForgetInit(a)
    BY Zenon
  <1>2. /\ AssocOK(e, i) /\ (TimersClosed(a) => TimersClosed(i)) /\ i.storedInit = FALSE /\ Same(a, i)
    <2>1. PICK s : s = stopTimer(a, "t1Init")
      BY Zenon
    <2>2. AssocOK(e, s) /\ (TimersClosed(a) => TimersClosed(s))
      BY <2>1, TimerCalls, Zenon DEF TimerIds
    <2>3. \A f \in Fields \ {"timer"} : s[f] = a[f]
      BY <2>1, Zenon DEF stopTimer, AssocOK, Fields
    <2>4. DOMAIN i = Fields /\ i.storedInit = FALSE /\ \A f \in Fields \ {"storedInit"} : i[f] = s[f]
      BY <1>1, <2>1, <2>2, Zenon DEF ForgetInit, AssocOK, Fields
    <2>5. AssocOK(e, i)
      BY <2>2, <2>4, Zenon DEF AssocOK, Fields
    <2>6. i.timer = s.timer /\ Same(a, i)
      BY <2>3, <2>4, Zenon DEF Fields
    <2> QED  BY <2>2, <2>4, <2>5, <2>6, Zenon DEF TimersClosed
  <1>3. ASSUME NEW x, AssocOK(e, x), Same(a, x), NEW y, y = ForgetCookieEcho(x)
        PROVE  /\ AssocOK(e, y) /\ (TimersClosed(x) => TimersClosed(y))
               /\ y.storedCookieEcho = None /\ y.storedInit = x.storedInit /\ Same(a, y)
    <2>1. PICK s : s = stopTimer(x, "t1Cookie")
      BY Zenon
    <2>2. AssocOK(e, s) /\ (TimersClosed(x) => TimersClosed(s))
      BY <1>3, <2>1, TimerCalls, Zenon DEF TimerIds
    <2>3. \A f \in Fields \ {"timer"} : s[f] = x[f]
      BY <1>3, <2>1, Zenon DEF stopTimer, AssocOK, Fields
    <2>4. DOMAIN y = Fields /\ y.storedCookieEcho = None /\ \A f \in Fields \ {"storedCookieEcho"} : y[f] = s[f]
      BY <1>3, <2>1, <2>2, Zenon DEF ForgetCookieEcho, AssocOK, Fields
    <2>5. AssocOK(e, y)
      BY <2>2, <2>4, Zenon DEF AssocOK, Fields
    <2>6. y.timer = s.timer /\ y.storedInit = x.storedInit
      BY <2>3, <2>4, Zenon DEF Fields
    <2>7. Same(a, y)
      BY <1>3, <2>3, <2>4, Zenon DEF Fields
    <2> QED  BY <2>2, <2>4, <2>5, <2>6, <2>7, Zenon DEF TimersClosed
  <1>4. ASSUME NEW y, AssocOK(e, y), Same(a, y), y.storedCookieEcho = None, b = establish(y),
               TimersClosed(a) => TimersClosed(y)
        PROVE  /\ AssocOK(e, b) /\ LocalKnows(e, b)
               /\ b.state = "established" /\ b.storedCookieEcho = None /\ b.storedInit = y.storedInit
               /\ TimersClosed(a) => TimersClosed(b)
               /\ \A f \in {"willSend", "data", "myCookie", "control"} : b[f] = a[f]
    <2>1. AssocOK(e, b)
      BY <1>4, Helpers, Zenon
    <2>2. PICK x : x = Both
      BY Zenon
    <2>3. BothOffer(y) = x
      <3>1. Both <=> (scenario.interleaving[e] /\ scenario.interleaving[Peer(e)])
        BY Peers, Zenon DEF Both
      <3>2. y.localInterleaving = scenario.interleaving[e] /\ y.peerInterleaving = scenario.interleaving[Peer(e)]
        BY <1>4 DEF LocalKnows, AssocOK, Fields
      <3> QED  BY <2>2, <3>1, <3>2, Zenon DEF BothOffer, Both
    <2>4. y.peerForwardTSN = TRUE /\ y.peerTag = Peer(e) /\ y.peerTSN = Peer(e)
          /\ y.peerInterleaving = scenario.interleaving[Peer(e)]
      BY <1>4, Zenon DEF LocalKnows, Fields
    <2>5. b = [[y EXCEPT !.useInterleaving = x, !.useIForwardTSN = x,
                         !.useForwardTSN = ~x /\ y.peerForwardTSN] EXCEPT !.state = "established"]
      BY <1>4, <2>3, Zenon DEF establish, setState, updateInterleavingState
    <2>6. /\ b.state = "established"
          /\ \A f \in Fields \ {"state", "useInterleaving", "useIForwardTSN", "useForwardTSN"} : b[f] = y[f]
      BY <1>4, <2>5, Zenon DEF AssocOK, Fields
    <2>7. LocalKnows(e, b)
      BY <1>4, <2>2, <2>4, <2>5 DEF LocalKnows, AssocOK, Fields
    <2>8. b.timer = y.timer /\ \A f \in {"willSend", "data", "myCookie", "control"} : b[f] = a[f]
      BY <1>4, <2>6, Zenon DEF Fields
    <2> QED  BY <1>4, <2>1, <2>6, <2>7, <2>8, Zenon DEF TimersClosed, Fields
  <1>5. Same(a, a)
    BY Zenon
  <1>6. PICK x \in {i, a} : b = establish(ForgetCookieEcho(x))
    BY <1>1, Zenon
  <1>7. PICK y : y = ForgetCookieEcho(x)
    BY Zenon
  <1> HIDE DEF Same
  <1>8. /\ AssocOK(e, y) /\ (TimersClosed(x) => TimersClosed(y))
        /\ y.storedCookieEcho = None /\ y.storedInit = x.storedInit /\ Same(a, y)
    BY <1>2, <1>3, <1>5, <1>6, <1>7, Zenon
  <1>9. /\ AssocOK(e, b) /\ LocalKnows(e, b)
        /\ b.state = "established" /\ b.storedCookieEcho = None /\ b.storedInit = y.storedInit
        /\ TimersClosed(a) => TimersClosed(b)
        /\ \A f \in {"willSend", "data", "myCookie", "control"} : b[f] = a[f]
    BY <1>2, <1>4, <1>6, <1>7, <1>8, Zenon
  <1> QED
    <2>1. b = establish(ForgetCookieEcho(ForgetInit(a))) => b.storedInit = FALSE
      <3> SUFFICES ASSUME b = establish(ForgetCookieEcho(i)) PROVE b.storedInit = FALSE
        BY <1>1, Zenon
      <3>1. PICK z : z = ForgetCookieEcho(i)
        BY Zenon
      <3>2. /\ AssocOK(e, z) /\ (TimersClosed(i) => TimersClosed(z))
            /\ z.storedCookieEcho = None /\ z.storedInit = i.storedInit /\ Same(a, z)
        BY <1>2, <1>3, <3>1, Zenon
      <3> QED  BY <1>2, <1>4, <3>1, <3>2, Zenon
    <2>2. a.storedInit = FALSE => b.storedInit = FALSE
      BY <1>2, <1>6, <1>8, <1>9, Zenon
    <2> QED  BY <1>9, <2>1, <2>2, Zenon

\* The opening call: the INIT is queued, or the tokens are read.
LEMMA Opens ==
  ASSUME TypeOK, NEW e \in Endpoints, Open(e)
  PROVE  LET b == assoc'[e]
         IN  /\ AssocOK(e, b) /\ app[e] = "new" /\ app'[e] \in {"opening", "open"}
             /\ b.storedCookieEcho = None /\ b.myCookie = None /\ b.willSend = {} /\ b.data = "none"
             /\ \/ /\ role(e) # "snap"
                   /\ b.state = "closed" /\ b.storedInit = FALSE /\ b.control = << >>
                \/ /\ role(e) # "snap"
                   /\ b.state = "cookieWait" /\ b.storedInit = TRUE
                   /\ \E k \in ControlChunks(e) : k.type = "INIT" /\ b.control = Append(<< >>, k)
                \/ /\ role(e) = "snap" /\ LocalKnows(e, b)
                   /\ b.state = "established" /\ b.storedInit = FALSE /\ b.control = << >>
  <1>0. app[e] = "new" /\ app'[e] \in {"opening", "open"}
    BY Zenon DEF Open, Goto, TypeOK, Places
  <1>1. PICK a : a = assoc[e]
    BY Zenon
  <1>2. /\ AssocOK(e, a) /\ a.state = "closed" /\ a.storedInit = FALSE /\ a.storedCookieEcho = None
        /\ a.myCookie = None /\ a.willSend = {} /\ a.data = "none" /\ a.control = << >>
    <2>1. AssocOK(e, a) /\ a = NewAssociation(e)
      BY <1>0, <1>1, Zenon DEF TypeOK, Untouched
    <2> QED  BY <2>1, Zenon DEF NewAssociation
  <1>3. CASE role(e) = "server"
    BY <1>0, <1>1, <1>2, <1>3, Zenon DEF Open, Set
  <1>4. CASE role(e) = "client"
    <2>1. PICK i : i = [a EXCEPT !.storedInit = TRUE]
      BY Zenon
    <2>2. DOMAIN i = Fields /\ i.storedInit = TRUE /\ \A f \in Fields \ {"storedInit"} : i[f] = a[f]
      BY <1>2, <2>1, Zenon DEF AssocOK, Fields
    <2>3. AssocOK(e, i)
      BY <1>2, <2>2, Zenon DEF AssocOK, Fields
    <2>4. PICK k : k = [type |-> "INIT", ext |-> Extensions(e, i)]
      BY Zenon
    <2>5. k \in ControlChunks(e) /\ k.type = "INIT"
      BY <2>3, <2>4, Zenon DEF ControlChunks, Extensions, Ext, AssocOK
    <2>6. PICK h : h = push(i, k)
      BY Zenon
    <2>7. AssocOK(e, h)
      BY <2>3, <2>5, <2>6, Helpers, Zenon
    <2>8. h.control = Append(i.control, k) /\ \A f \in Fields \ {"control", "awake"} : h[f] = i[f]
      BY <2>2, <2>6, Zenon DEF push, awakeWriteLoop, Fields
    <2>9. PICK u : u = setState(h, "cookieWait")
      BY Zenon
    <2>10. AssocOK(e, u)
      BY <2>7, <2>9, Helpers, Zenon DEF States, Handshaking
    <2>11. u.state = "cookieWait" /\ \A f \in Fields \ {"state"} : u[f] = h[f]
      BY <2>7, <2>9, Zenon DEF setState, AssocOK, Fields
    <2>12. PICK v : v = startTimer(u, "t1Init")
      BY Zenon
    <2>13. AssocOK(e, v)
      BY <2>10, <2>12, TimerCalls, Zenon DEF TimerIds
    <2>14. \A f \in Fields \ {"timer"} : v[f] = u[f]
      BY <2>10, <2>12, Zenon DEF startTimer, AssocOK, Fields
    <2>15. Set(e, v)
      BY <1>1, <1>4, <2>1, <2>2, <2>4, <2>6, <2>9, <2>12, Zenon DEF Open, sendInit
    <2>16. assoc'[e] = v
      BY <2>15, Zenon DEF Set, TypeOK, Places
    <2>17. /\ v.storedCookieEcho = None /\ v.myCookie = None /\ v.willSend = {} /\ v.data = "none"
           /\ v.state = "cookieWait" /\ v.storedInit = TRUE /\ v.control = Append(<< >>, k)
      BY <1>2, <2>2, <2>8, <2>11, <2>14 DEF Fields
    <2> QED  BY <1>0, <1>4, <2>5, <2>13, <2>16, <2>17, Zenon
  <1>5. CASE role(e) = "snap"
    <2>1. PICK d : d = learnPeer(a, Ext(Peer(e)))
      BY Zenon
    <2>2. /\ AssocOK(e, d) /\ LocalKnows(e, d)
          /\ \A f \in {"state", "storedInit", "storedCookieEcho", "control", "willSend", "data", "timer", "myCookie"} :
               d[f] = a[f]
      BY <1>2, <2>1, Learns, Zenon
    <2>3. Extensions(Peer(e), assoc[Peer(e)]) = Ext(Peer(e))
      BY Peers, Zenon DEF Extensions, Ext, TypeOK, AssocOK
    <2>4. PICK b : b = establish(d)
      BY Zenon
    <2>5. AssocOK(e, b)
      BY <2>2, <2>4, Helpers, Zenon
    <2>6. PICK x : x = Both
      BY Zenon
    <2>7. BothOffer(d) = x
      <3>1. Both <=> (scenario.interleaving[e] /\ scenario.interleaving[Peer(e)])
        BY Peers, Zenon DEF Both
      <3>2. d.localInterleaving = scenario.interleaving[e] /\ d.peerInterleaving = scenario.interleaving[Peer(e)]
        BY <2>2, Zenon DEF LocalKnows, AssocOK
      <3> QED  BY <2>6, <3>1, <3>2, Zenon DEF BothOffer, Both
    <2>8. b = [[d EXCEPT !.useInterleaving = x, !.useIForwardTSN = x,
                         !.useForwardTSN = ~x /\ d.peerForwardTSN] EXCEPT !.state = "established"]
      BY <2>4, <2>7, Zenon DEF establish, setState, updateInterleavingState
    <2>9. /\ b.state = "established"
          /\ \A f \in Fields \ {"state", "useInterleaving", "useIForwardTSN", "useForwardTSN"} : b[f] = d[f]
      BY <2>2, <2>8, Zenon DEF AssocOK, Fields
    <2>10. LocalKnows(e, b)
      BY <2>2, <2>6, <2>8, Zenon DEF LocalKnows, AssocOK, Fields
    <2>11. assoc'[e] = b
      <3>1. Set(e, b)
        BY <1>1, <1>5, <2>1, <2>3, <2>4, Zenon DEF Open
      <3> QED  BY <3>1, Zenon DEF Set, TypeOK, Places
    <2>12. /\ b.storedCookieEcho = None /\ b.myCookie = None /\ b.willSend = {} /\ b.data = "none"
           /\ b.storedInit = FALSE /\ b.control = << >>
      BY <1>2, <2>2, <2>9, Zenon DEF Fields
    <2> QED  BY <1>0, <1>5, <2>5, <2>9, <2>10, <2>11, <2>12, Zenon
  <1>6. role(e) \in Roles
    BY ScenariosAssumption, Zenon DEF role, TypeOK
  <1> QED  BY <1>3, <1>4, <1>5, <1>6, Zenon DEF Roles

\* The packets that a step adds are those of the write loop.
LEMMA NetSteps ==
  ASSUME TypeOK, NEW e \in Endpoints, Step(e), NEW p \in net', p \notin net
  PROVE  WriteTurn(e) /\ p.to = Peer(e) /\ MaySend(assoc[e], p.chunk)
  <1>1. ~AppStep(e)
    BY Zenon DEF AppStep, Open, HandshakeCompleted, HandshakeDropped, OpenRefused, OpenCanceled, Write,
       ShutdownCheck, ShutdownSet, ShutdownLocked, ShutdownReturns, AbortAsk, AbortFlushed,
       CloseAsk, CloseReturns, netVars
  <1>2. ~ReadStep(e)
    BY ReadPlaces, Zenon DEF TypeOK
  <1>3. \A t \in TimerIds : ~TimerStep(e, t)
    BY Zenon DEF TimerStep, TimerFires, TimerCallback, TimerGivesUp, netVars
  <1>4. ~ToldToClose(e)
    BY Zenon DEF ToldToClose, netVars
  <1>5. WriteTurn(e)
    BY <1>1, <1>2, <1>3, <1>4, Zenon DEF Step, WriteStep
  <1>6. PICK g : g = gatherOutbound(assoc[e])
    BY Zenon
  <1>7. \A c \in g.packets : MaySend(assoc[e], c)
    BY <1>6, GatherOutbound, Zenon DEF TypeOK
  <1>8. \E C \in SUBSET g.packets : Send(e, C)
    BY <1>5, <1>6, Zenon DEF WriteTurn
  <1>9. PICK c \in g.packets : p = [to |-> Peer(e), chunk |-> c]
    BY <1>8, Zenon DEF Send
  <1>10. p.to = Peer(e) /\ p.chunk = c
    BY <1>9, Zenon
  <1> QED  BY <1>5, <1>7, <1>10, Zenon

-----------------------------------------------------------------------------
(* Types.                                                                  *)

\* Each step leaves the association it changes well formed.
LEMMA StaysWellFormed ==
  ASSUME TypeOK, AgreeInv, NEW e \in Endpoints, Step(e)
  PROVE  AssocOK(e, assoc'[e])
  <1>0. AssocOK(e, assoc[e]) /\ DOMAIN assoc = Endpoints /\ NetOK
    BY Zenon DEF TypeOK, Places
  <1>1. ASSUME NEW b, Set(e, b), AssocOK(e, b) PROVE AssocOK(e, assoc'[e])
    BY <1>0, <1>1, Zenon DEF Set
  <1>2. CASE ~Special(e)
    BY <1>2, CalmSteps, Zenon DEF Calm, Keeps
  <1>3. CASE Open(e)
    BY <1>3, Opens, Zenon
  <1>4. CASE ShutdownSet(e)
    BY <1>0, <1>1, <1>4, Helpers, Zenon DEF ShutdownSet, States
  <1>5. CASE ShutdownLocked(e)
    <2>1. AssocOK(e, will(assoc[e], "shutdown"))
      BY <1>0, Helpers, Zenon DEF Flags
    <2>2. AssocOK(e, setState(will(assoc[e], "shutdown"), "shutdownSent"))
      BY <2>1, Helpers, Zenon DEF States
    <2> QED  BY <1>0, <1>1, <1>5, <2>2, Zenon DEF ShutdownLocked
  <1>6. ASSUME NEW p \in net, HandleSimple(e, p), p.chunk.type = "INIT" PROVE AssocOK(e, assoc'[e])
    <2>1. p.chunk.ext = Ext(Peer(e))
      BY <1>0, <1>6, Inbound, Zenon DEF HandleSimple, Reads
    <2>2. AssocOK(e, handleInit(assoc[e], e, p.chunk))
      BY <1>0, <2>1, InitLearns, Zenon DEF handleInit
    <2> QED  BY <1>1, <1>6, <2>2, Zenon DEF HandleSimple
  <1>7. ASSUME NEW p \in net, HandleSimple(e, p), p.chunk.type = "INIT-ACK" PROVE AssocOK(e, assoc'[e])
    <2>1. p.chunk.ext = Ext(Peer(e)) /\ p.chunk.cookie = Peer(e)
      BY <1>0, <1>7, Inbound, Zenon DEF HandleSimple, Reads
    <2>2. AssocOK(e, handleInitAck(assoc[e], p.chunk))
      BY <1>0, <2>1, InitAckLearns, Zenon DEF handleInitAck
    <2> QED  BY <1>1, <1>7, <2>2, Zenon DEF HandleSimple
  <1>8. ASSUME NEW p \in net, HandleSimple(e, p), p.chunk.type = "SHUTDOWN-ACK" PROVE AssocOK(e, assoc'[e])
    <2>1. AssocOK(e, handleShutdownAck(assoc[e]))
      BY <1>0, ShutdownAckKeeps, Zenon DEF Keeps
    <2> QED  BY <1>1, <1>8, <2>1, Zenon DEF HandleSimple
  <1>9. ASSUME NEW p \in net, Completes(e, p) PROVE AssocOK(e, assoc'[e])
    <2>1. LocalKnows(e, assoc[e])
      BY <1>9, Zenon DEF Completes, AgreeInv, Agreed, Knows
    <2>2. /\ AssocOK(e, establish(ForgetCookieEcho(ForgetInit(assoc[e]))))
          /\ AssocOK(e, establish(ForgetCookieEcho(assoc[e])))
      BY <1>0, <2>1, Establishes, Zenon
    <2>3. CASE HandleCookieEcho(e, p) /\ assoc[e].state \in Handshaking
      <3>1. assoc' = assoc \/ Set(e, establish(ForgetCookieEcho(ForgetInit(assoc[e]))))
        BY <2>3, Zenon DEF HandleCookieEcho, Handshaking
      <3> QED  BY <1>0, <1>1, <2>2, <3>1, Zenon
    <2>4. CASE HandleCookieAck(e, p) /\ assoc[e].state = "cookieEchoed"
      BY <1>1, <2>2, <2>4, Zenon DEF HandleCookieAck
    <2> QED  BY <1>9, <2>3, <2>4, Zenon DEF Completes
  <1> QED  BY <1>2, <1>3, <1>4, <1>5, <1>6, <1>7, <1>8, <1>9, Zenon DEF Special

\* A new association.
LEMMA Fresh ==
  ASSUME NEW e \in Endpoints, NEW a, a = NewAssociation(e)
  PROVE  /\ DOMAIN a = Fields /\ a.state = "closed" /\ a.localInterleaving = scenario.interleaving[e]
         /\ a.myCookie = None /\ a.storedCookieEcho = None /\ a.storedInit = FALSE /\ a.control = << >>
         /\ a.willSend = {} /\ a.data = "none" /\ a.timer = [t \in TimerIds |-> newRTXTimer]
  BY Zenon DEF NewAssociation, Fields

\* The initial state.
LEMMA TypeInit == Init => TypeOK
  <1> SUFFICES ASSUME Init PROVE TypeOK
    BY Zenon
  <1>1. scenario \in Scenarios /\ Places /\ NetOK
    BY Zenon DEF Init, Places, NetOK
  <1>2. \A e \in Endpoints : assoc[e] = NewAssociation(e)
    BY Zenon DEF Init
  <1>3. newRTXTimer \in Timer
    BY DEF newRTXTimer, Timer
  <1>4. ASSUME NEW e \in Endpoints PROVE AssocOK(e, assoc[e])
    <2>1. PICK a : a = NewAssociation(e)
      BY Zenon
    <2>2. /\ DOMAIN a = Fields /\ a.state = "closed" /\ a.localInterleaving = scenario.interleaving[e]
          /\ a.myCookie = None /\ a.storedCookieEcho = None /\ a.storedInit = FALSE /\ a.control = << >>
          /\ a.willSend = {} /\ a.data = "none" /\ a.timer = [t \in TimerIds |-> newRTXTimer]
      BY <2>1, Fresh, Zenon
    <2>3. << >> \in Seq(ControlChunks(e))
      OBVIOUS
    <2>4. AssocOK(e, a)
      BY <1>3, <2>2, <2>3, Zenon DEF AssocOK, States, Handshaking
    <2> QED  BY <1>2, <2>1, <2>4, Zenon
  <1>5. \A e \in Endpoints : Untouched(e)
    BY <1>2, Zenon DEF Init, Untouched
  <1> QED  BY <1>1, <1>4, <1>5, Zenon DEF TypeOK

\* A step of e, and one of nobody.
LEMMA WhoseStep ==
  ASSUME TypeOK, [Next]_vars
  PROVE  \/ \E e \in Endpoints : Step(e)
         \/ /\ UNCHANGED <<scenario, assoc, closing, readClosed, handshake, reader, writer, app, due, conn>>
            /\ net' \subseteq net
  BY Zenon DEF Next, Step, Lose, chanVars, vars

\* A step of e leaves it opened.
LEMMA StaysOpened ==
  ASSUME TypeOK, NEW e \in Endpoints, Step(e)
  PROVE  app'[e] # "new"
  <1>1. CASE Open(e)
    BY <1>1, Opens, Zenon
  <1>2. CASE ~Open(e)
    <2>1. app[e] # "new"
      BY <1>2, Opened, Zenon
    <2>2. CASE AppStep(e)
      BY <1>2, <2>1, <2>2, Zenon DEF AppStep, HandshakeCompleted, HandshakeDropped, OpenRefused, OpenCanceled,
         Write, ShutdownCheck, ShutdownSet, ShutdownLocked, ShutdownReturns, AbortAsk, AbortFlushed,
         CloseAsk, CloseReturns, Goto, TypeOK, Places
    <2>3. CASE ReadStep(e) \/ WriteStep(e) \/ \E t \in TimerIds : TimerStep(e, t)
      BY <2>1, <2>3, Zenon DEF ReadStep, HandleSimple, HandleCookieEcho, HandleCookieAck,
         HandleShutdownComplete, HandleAbort, ReadFails, ReadLoopEnds, WriteStep, WriteTurn,
         ToldToClose, TimerStep, TimerFires, TimerCallback, TimerGivesUp
    <2> QED  BY <2>2, <2>3, Zenon DEF Step
  <1> QED  BY <1>1, <1>2, Zenon

\* Each step.
LEMMA TypeNext ==
  ASSUME TypeOK, AgreeInv, [Next]_vars
  PROVE  TypeOK'
  <1>1. CASE /\ UNCHANGED <<scenario, assoc, closing, readClosed, handshake, reader, writer, app, due, conn>>
             /\ net' \subseteq net
    <2>1. scenario' \in Scenarios /\ Places' /\ NetOK'
      BY <1>1, Zenon DEF TypeOK, Places, NetOK, ControlChunks, OtherChunks, Ext, Both
    <2>2. (\A e \in Endpoints : AssocOK(e, assoc[e]))'
      BY <1>1, Zenon DEF TypeOK, AssocOK, ControlChunks, Ext, Both
    <2>3. (\A e \in Endpoints : app[e] = "new" => Untouched(e))'
      BY <1>1, Zenon DEF TypeOK, Untouched, NewAssociation
    <2> QED  BY <2>1, <2>2, <2>3, Zenon DEF TypeOK
  <1>2. ASSUME NEW e \in Endpoints, Step(e) PROVE TypeOK'
    <2>1. Places' /\ Elsewhere(e) /\ scenario' = scenario
      BY <1>2, AppPlaces, ReadPlaces, OtherPlaces, Zenon DEF Step, TypeOK
    <2>2. \A f \in Endpoints : AssocOK(f, assoc'[f])
      BY <1>2, <2>1, StaysWellFormed, Zenon DEF Elsewhere, TypeOK
    <2>3. (\A f \in Endpoints : AssocOK(f, assoc[f]))'
      BY <2>1, <2>2, Zenon DEF AssocOK, ControlChunks, Ext, Both
    <2>4. \A p \in net' : \E f \in Endpoints :
            p.to = Peer(f) /\ p.chunk \in ControlChunks(f) \cup OtherChunks
      <3> TAKE p \in net'
      <3>1. CASE p \in net
        BY <3>1, Zenon DEF TypeOK, NetOK
      <3>2. CASE p \notin net
        <4>1. p.to = Peer(e) /\ MaySend(assoc[e], p.chunk)
          BY <1>2, <3>2, NetSteps, Zenon
        <4>2. assoc[e].control \in Seq(ControlChunks(e))
          BY Zenon DEF TypeOK, AssocOK
        <4>3. popAll(assoc[e].control) \subseteq ControlChunks(e)
          BY <4>2 DEF popAll
        <4> QED  BY <4>1, <4>3, Zenon DEF MaySend
      <3> QED  BY <3>1, <3>2, Zenon
    <2>5. NetOK'
      BY <2>1, <2>4, Zenon DEF NetOK, ControlChunks, OtherChunks, Ext, Both
    <2>6. app'[e] # "new"
      BY <1>2, StaysOpened, Zenon
    <2>7. \A f \in Endpoints : app'[f] = "new" => f # e /\ app[f] = "new"
      BY <2>1, <2>6, Zenon DEF Elsewhere
    <2>8. (\A f \in Endpoints : app[f] = "new" => Untouched(f))'
      <3>1. SUFFICES ASSUME NEW f \in Endpoints, app'[f] = "new" PROVE Untouched(f)'
        BY Zenon
      <3>2. f \in Endpoints \ {e} /\ Untouched(f)
        BY <2>7, <3>1, Zenon DEF TypeOK
      <3>3. NewAssociation(f)' = NewAssociation(f)
        BY <2>1, Zenon DEF NewAssociation
      <3> QED  BY <2>1, <3>2, <3>3, Zenon DEF Elsewhere, Untouched
    <2> QED  BY <2>1, <2>3, <2>5, <2>8, Zenon DEF TypeOK
  <1> QED  BY <1>1, <1>2, WhoseStep, Zenon

-----------------------------------------------------------------------------
(* What a step of e can make of its association.                           *)

Same(F, a, b) == \A f \in F : b[f] = a[f]
Wants == {"willSend", "data", "myCookie"}
Known == {"peerTag", "peerTSN", "peerForwardTSN", "peerInterleaving", "useInterleaving",
          "useIForwardTSN", "useForwardTSN"}

\* It is told of its peer by INIT, or by INIT-ACK, or it is ESTABLISHED.
Hears(e, a, b) ==
  /\ a.state \in Handshaking /\ b.myCookie = e
  /\ Same({"state", "storedInit", "storedCookieEcho", "willSend", "data", "timer"}, a, b)
  /\ \E k \in ControlChunks(e) : k.type = "INIT-ACK" /\ b.control = Append(a.control, k)
Answers(e, a, b) ==
  /\ a.state = "cookieWait" /\ b.state = "cookieEchoed" /\ ~b.storedInit
  /\ Same(Wants, a, b) /\ (TimersClosed(a) => TimersClosed(b))
  /\ \E k \in ControlChunks(e) : k.type = "COOKIE-ECHO" /\ b.control = Append(a.control, k)
  /\ Knows(Peer(e))
Settles(e, a, b) ==
  /\ a.state \in Handshaking /\ b.state = "established"
  /\ b.storedCookieEcho = None /\ ~b.storedInit
  /\ Same(Wants, a, b) /\ (TimersClosed(a) => TimersClosed(b)) /\ b.control = a.control
  /\ Agreed(e)
\* All three are the read loop's.
Reading(e) ==
  /\ reader[e] = "read" /\ conn[e] = "open" /\ app' = app /\ conn' = conn /\ closing' = closing
  /\ LocalKnows(e, assoc'[e])
\* Shutdown sets the state, and then with the lock.
Asks(e, a, b) ==
  /\ app[e] = "shutdownSet" /\ app'[e] = "shutdownLock"
  /\ b.state = "shutdownPending" /\ Same(Fields \ {"state"}, a, b)
Leaves(e, a, b) ==
  /\ app[e] = "shutdownLock" /\ app'[e] = "shutdownWait" /\ a.data # "inflight"
  /\ b.state = "shutdownSent" /\ Same(Fields \ {"state", "willSend", "awake"}, a, b)
  /\ b.willSend = a.willSend \cup {"shutdown"}
\* SHUTDOWN-ACK.
Ends(e, a, b) ==
  /\ Keeps(e, a, b) /\ Talks(e, a, b) /\ Ebbs(a, b)
  /\ a.state \in {"shutdownSent", "shutdownAckSent"} /\ b.state = a.state
  /\ app' = app
  /\ \E p \in net : p.to = e /\ p.chunk.type = "SHUTDOWN-ACK"

\* handleInit and handleInitAck.
LEMMA HandlesOpen ==
  ASSUME TypeOK, AgreeInv, NEW e \in Endpoints, NEW p \in net, HandleSimple(e, p),
         p.chunk.type \in {"INIT", "INIT-ACK"}
  PROVE  \/ Calm(e, assoc[e], assoc'[e])
         \/ Reading(e) /\ Hears(e, assoc[e], assoc'[e])
         \/ Reading(e) /\ Answers(e, assoc[e], assoc'[e])
  <1>0. AssocOK(e, assoc[e]) /\ DOMAIN assoc = Endpoints /\ NetOK
    BY Zenon DEF TypeOK, Places
  <1>1. p.chunk.ext = Ext(Peer(e)) /\ p.to = e /\ (p.chunk.type = "INIT-ACK" => p.chunk.cookie = Peer(e))
    BY <1>0, Inbound, Zenon DEF HandleSimple, Reads
  <1>2. reader[e] = "read" /\ conn[e] = "open" /\ app' = app /\ conn' = conn /\ closing' = closing
    BY Zenon DEF HandleSimple, Reads, chanVars
  <1>3. Calm(e, assoc[e], assoc[e])
    BY <1>0, Still, Zenon
  <1>4. CASE p.chunk.type = "INIT"
    <2>1. PICK b : b = handleInit(assoc[e], e, p.chunk)
      BY Zenon
    <2>2. assoc'[e] = b
      BY <1>0, <1>4, <2>1, Zenon DEF HandleSimple, Set
    <2>3. CASE assoc[e].state \notin Handshaking
      BY <1>3, <2>1, <2>2, <2>3, Zenon DEF handleInit
    <2>4. CASE assoc[e].state \in Handshaking
      <3>1. /\ LocalKnows(e, b) /\ b.myCookie = e
            /\ \A f \in {"state", "storedInit", "storedCookieEcho", "willSend", "data", "timer"} : b[f] = assoc[e][f]
            /\ \E k \in ControlChunks(e) : k.type = "INIT-ACK" /\ b.control = Append(assoc[e].control, k)
        BY <1>0, <1>1, <2>1, <2>4, InitLearns
      <3>2. Hears(e, assoc[e], b)
        BY <2>4, <3>1, Zenon DEF Hears, Same
      <3> QED  BY <1>2, <2>2, <3>1, <3>2, Zenon DEF Reading
    <2> QED  BY <2>3, <2>4, Zenon
  <1>5. CASE p.chunk.type = "INIT-ACK"
    <2>1. PICK b : b = handleInitAck(assoc[e], p.chunk)
      BY Zenon
    <2>2. assoc'[e] = b
      BY <1>0, <1>5, <2>1, Zenon DEF HandleSimple, Set
    <2>3. CASE assoc[e].state # "cookieWait"
      BY <1>3, <2>1, <2>2, <2>3, Zenon DEF handleInitAck
    <2>4. CASE assoc[e].state = "cookieWait"
      <3>1. Knows(Peer(e))
        BY <1>1, <1>5, Peers, Zenon DEF AgreeInv, Sincere
      <3>2. Answers(e, assoc[e], b) /\ LocalKnows(e, b)
        BY <1>0, <1>1, <1>5, <2>1, <2>4, <3>1, InitAckLearns DEF Answers, Same, Wants
      <3> QED  BY <1>2, <2>2, <3>2, Zenon DEF Reading
    <2> QED  BY <2>3, <2>4, Zenon
  <1> QED  BY <1>4, <1>5, Zenon

\* handleCookieEcho and handleCookieAck when they establish.
LEMMA HandlesCookie ==
  ASSUME TypeOK, AgreeInv, LateInv, NEW e \in Endpoints, NEW p \in net, Completes(e, p)
  PROVE  Reading(e) /\ Settles(e, assoc[e], assoc'[e])
  <1>0. AssocOK(e, assoc[e]) /\ DOMAIN assoc = Endpoints /\ NetOK /\ Phase(assoc[e])
    BY Zenon DEF TypeOK, Places, LateInv
  <1>1. /\ reader[e] = "read" /\ conn[e] = "open" /\ app' = app /\ conn' = conn /\ closing' = closing
        /\ p.to = e
    BY Zenon DEF Completes, HandleCookieEcho, HandleCookieAck, Reads, chanVars
  <1>2. app[e] # "new"
    BY <1>1, Zenon DEF TypeOK, Untouched
  <1>3. Agreed(e) /\ LocalKnows(e, assoc[e])
    <2>1. CASE assoc[e].state = "cookieEchoed"
      BY <2>1, Zenon DEF AgreeInv, Agreed, Knows
    <2>2. CASE HandleCookieEcho(e, p)
      <3>1. Agreed(Peer(e))
        BY <1>1, <2>2, Peers, Zenon DEF AgreeInv, Sincere, HandleCookieEcho
      <3> QED  BY <1>2, <3>1, Peers, Zenon DEF Agreed, Knows
    <2> QED  BY <2>1, <2>2, Zenon DEF Completes
  <1>4. PICK x, y : /\ x = establish(ForgetCookieEcho(ForgetInit(assoc[e])))
                    /\ y = establish(ForgetCookieEcho(assoc[e]))
    BY Zenon
  <1>5. CASE HandleCookieEcho(e, p) /\ assoc[e].state \in Handshaking /\ assoc[e].myCookie # None
    <2>1. p.chunk.cookie = e /\ assoc[e].myCookie = e
      BY <1>0, <1>1, <1>5, Inbound, Zenon DEF HandleCookieEcho, AssocOK
    <2>2. assoc'[e] = x
      <3>1. Set(e, x)
        BY <1>4, <1>5, <2>1, Peers, Zenon DEF HandleCookieEcho, Handshaking, CookieStates
      <3> QED  BY <1>0, <3>1, Zenon DEF Set
    <2>3. Settles(e, assoc[e], x) /\ LocalKnows(e, x)
      <3>1. /\ LocalKnows(e, x) /\ x.state = "established" /\ x.storedCookieEcho = None
            /\ x.storedInit = FALSE /\ (TimersClosed(assoc[e]) => TimersClosed(x))
            /\ \A f \in {"willSend", "data", "myCookie", "control"} : x[f] = assoc[e][f]
        BY <1>0, <1>3, <1>4, Establishes, Zenon
      <3> QED  BY <1>3, <1>5, <3>1, Zenon DEF Settles, Same, Wants
    <2> QED  BY <1>1, <2>2, <2>3, Zenon DEF Reading
  <1>6. CASE HandleCookieAck(e, p) /\ assoc[e].state = "cookieEchoed"
    <2>1. assoc'[e] = y
      BY <1>0, <1>4, <1>6, Zenon DEF HandleCookieAck, Set
    <2>2. ~assoc[e].storedInit /\ assoc[e].storedInit \in BOOLEAN
      BY <1>0, <1>6, Zenon DEF Phase, AssocOK
    <2>3. Settles(e, assoc[e], y) /\ LocalKnows(e, y)
      <3>1. /\ LocalKnows(e, y) /\ y.state = "established" /\ y.storedCookieEcho = None
            /\ y.storedInit = FALSE /\ (TimersClosed(assoc[e]) => TimersClosed(y))
            /\ \A f \in {"willSend", "data", "myCookie", "control"} : y[f] = assoc[e][f]
        BY <1>0, <1>3, <1>4, <2>2, Establishes, Zenon
      <3> QED  BY <1>3, <1>6, <3>1, Zenon DEF Settles, Same, Wants, Handshaking
    <2> QED  BY <1>1, <2>1, <2>3, Zenon DEF Reading
  <1> QED  BY <1>5, <1>6, Zenon DEF Completes

\* Every step, summed up.
LEMMA Outcomes ==
  ASSUME TypeOK, AgreeInv, LateInv, NEW e \in Endpoints, Step(e)
  PROVE  LET a == assoc[e]
             b == assoc'[e]
         IN  \/ Calm(e, a, b) \/ Open(e) \/ Asks(e, a, b) \/ Leaves(e, a, b) \/ Ends(e, a, b)
             \/ Reading(e) /\ (Hears(e, a, b) \/ Answers(e, a, b) \/ Settles(e, a, b))
  <1>0. /\ AssocOK(e, assoc[e]) /\ DOMAIN assoc = Endpoints /\ DOMAIN app = Endpoints
        /\ Calm(e, assoc[e], assoc[e])
    BY Still, Zenon DEF TypeOK, Places
  <1>1. CASE ~Special(e)
    BY <1>1, CalmSteps, Zenon
  <1>2. CASE ShutdownSet(e)
    <2>1. assoc'[e] = setState(assoc[e], "shutdownPending")
      BY <1>0, <1>2, Zenon DEF ShutdownSet, Set
    <2>2. app[e] = "shutdownSet" /\ app'[e] = "shutdownLock"
      BY <1>0, <1>2, Zenon DEF ShutdownSet, Goto
    <2>3. Asks(e, assoc[e], assoc'[e])
      BY <1>0, <2>1, <2>2, Zenon DEF Asks, Same, setState, AssocOK, Fields
    <2> QED  BY <2>3, Zenon
  <1>3. CASE ShutdownLocked(e)
    <2>1. app[e] = "shutdownLock" /\ app'[e] = "shutdownWait"
      BY <1>0, <1>3, Zenon DEF ShutdownLocked, Goto
    <2>2. CASE InflightEmpty(assoc[e])
      <3>1. assoc'[e] = setState(will(assoc[e], "shutdown"), "shutdownSent")
        BY <1>0, <1>3, <2>2, Zenon DEF ShutdownLocked, Set
      <3>2. PICK w : w = will(assoc[e], "shutdown")
        BY Zenon
      <3>3. DOMAIN w = Fields /\ Same(Fields \ {"willSend", "awake"}, assoc[e], w)
            /\ w.willSend = assoc[e].willSend \cup {"shutdown"}
        BY <1>0, <3>2, Zenon DEF Same, will, awakeWriteLoop, AssocOK, Fields
      <3>4. assoc'[e].state = "shutdownSent" /\ Same(Fields \ {"state"}, w, assoc'[e])
        BY <3>1, <3>2, <3>3, Zenon DEF Same, setState, Fields
      <3>5. Leaves(e, assoc[e], assoc'[e])
        BY <2>1, <2>2, <3>3, <3>4 DEF Leaves, Same, Fields, InflightEmpty
      <3> QED  BY <3>5, Zenon
    <2>3. CASE ~InflightEmpty(assoc[e])
      BY <1>0, <1>3, <2>3, Zenon DEF ShutdownLocked, Set
    <2> QED  BY <2>2, <2>3, Zenon
  <1>4. ASSUME NEW p \in net, HandleSimple(e, p), p.chunk.type = "SHUTDOWN-ACK"
        PROVE  Calm(e, assoc[e], assoc'[e]) \/ Ends(e, assoc[e], assoc'[e])
    <2>1. assoc'[e] = handleShutdownAck(assoc[e]) /\ p.to = e /\ app' = app
      BY <1>0, <1>4, Zenon DEF HandleSimple, Reads, Set
    <2>2. CASE assoc[e].state \in {"shutdownSent", "shutdownAckSent"}
      BY <1>0, <1>4, <2>1, <2>2, ShutdownAckKeeps, Zenon DEF Ends
    <2>3. CASE assoc[e].state \notin {"shutdownSent", "shutdownAckSent"}
      BY <1>0, <2>1, <2>3, Zenon DEF handleShutdownAck
    <2> QED  BY <2>2, <2>3, Zenon
  <1> QED  BY <1>1, <1>2, <1>3, <1>4, HandlesOpen, HandlesCookie, Zenon DEF Special

-----------------------------------------------------------------------------
(* The timers of an association whose write loop has ended.                *)

\* The write loop ends after close().
LEMMA WriteLoopCloses ==
  ASSUME TypeOK, NEW e \in Endpoints, WriteStep(e), writer'[e] = "done"
  PROVE  TimersClosed(assoc'[e])
  <1>0. AssocOK(e, assoc[e]) /\ DOMAIN assoc = Endpoints /\ DOMAIN writer = Endpoints
    BY Zenon DEF TypeOK, Places
  <1>1. CASE WriteTurn(e)
    <2>1. PICK g : g = gatherOutbound(assoc[e])
      BY Zenon
    <2>2. PICK b : b = [g.assoc EXCEPT !.awake = @ /\ writer[e] = "gather"]
      BY Zenon
    <2>3. Calm(e, assoc[e], g.assoc)
      BY <1>0, <2>1, GatherOutbound, Zenon
    <2>4. AssocOK(e, b)
      BY <2>2, <2>3, AwakeCalm, Zenon DEF Calm, Keeps
    <2>5. ~(g.ok /\ ~(conn[e] = "closed" /\ g.packets # {}))
      BY <1>0, <1>1, <2>1, Zenon DEF WriteTurn
    <2>6. Set(e, closeAssoc(b))
      BY <1>1, <2>1, <2>2, <2>5, Zenon DEF WriteTurn, Close
    <2> QED  BY <1>0, <2>4, <2>6, CloseCalm, Zenon DEF Set
  <1>2. CASE ToldToClose(e)
    <2>1. Set(e, closeAssoc(assoc[e]))
      BY <1>0, <1>2, Zenon DEF ToldToClose
    <2> QED  BY <1>0, <2>1, CloseCalm, Zenon DEF Set
  <1> QED  BY <1>1, <1>2, Zenon DEF WriteStep

\* Nothing arms the timers again.
LEMMA TimerNext ==
  ASSUME TypeOK, AgreeInv, LateInv, TimerInv, [Next]_vars
  PROVE  TimerInv'
  <1>1. CASE UNCHANGED <<scenario, assoc, closing, readClosed, handshake, reader, writer, app, due, conn>>
    BY <1>1, Zenon DEF TimerInv, TimersClosed
  <1>2. ASSUME NEW e \in Endpoints, Step(e), writer'[e] = "done" PROVE TimersClosed(assoc'[e])
    <2>1. CASE WriteStep(e)
      BY <1>2, <2>1, WriteLoopCloses, Zenon
    <2>2. CASE ~WriteStep(e)
      <3>1. ~Open(e)
        BY <1>2, Zenon DEF Open, TypeOK, Places
      <3>2. writer' = writer
        BY <1>2, <2>2, <3>1, Zenon DEF Step, AppStep, HandshakeCompleted, HandshakeDropped, OpenRefused,
           OpenCanceled, Write, ShutdownCheck, ShutdownSet, ShutdownLocked, ShutdownReturns, AbortAsk,
           AbortFlushed, CloseAsk, CloseReturns, ReadStep, HandleSimple, HandleCookieEcho,
           HandleCookieAck, HandleShutdownComplete, HandleAbort, ReadFails, ReadLoopEnds,
           TimerStep, TimerFires, TimerCallback, TimerGivesUp
      <3>3. TimersClosed(assoc[e])
        BY <1>2, <3>2, Zenon DEF TimerInv
      <3>4. CASE Calm(e, assoc[e], assoc'[e]) \/ Ends(e, assoc[e], assoc'[e])
        BY <3>3, <3>4, Zenon DEF Calm, Ends, Keeps
      <3>5. CASE Asks(e, assoc[e], assoc'[e]) \/ Leaves(e, assoc[e], assoc'[e]) \/ Hears(e, assoc[e], assoc'[e])
        <4>1. assoc'[e].timer = assoc[e].timer
          BY <3>5, Zenon DEF Asks, Leaves, Hears, Same, Fields
        <4> QED  BY <3>3, <4>1, Zenon DEF TimersClosed
      <3>6. CASE Answers(e, assoc[e], assoc'[e]) \/ Settles(e, assoc[e], assoc'[e])
        BY <3>3, <3>6, Zenon DEF Answers, Settles
      <3> QED  BY <1>2, <3>1, <3>4, <3>5, <3>6, Outcomes, Zenon
    <2> QED  BY <2>1, <2>2, Zenon
  <1>3. ASSUME NEW e \in Endpoints, Step(e) PROVE TimerInv'
    <2>1. Elsewhere(e)
      BY <1>3, AppPlaces, ReadPlaces, OtherPlaces, Zenon DEF Step, TypeOK
    <2>2. \A f \in Endpoints : writer'[f] = "done" => TimersClosed(assoc'[f])
      BY <1>2, <1>3, <2>1, Zenon DEF Elsewhere, TimerInv
    <2> QED  BY <2>2, Zenon DEF TimerInv, TimersClosed
  <1> QED  BY <1>1, <1>3, WhoseStep, Zenon

-----------------------------------------------------------------------------
(* The phases of the open, and late timers.                                *)

\* Shutdown goes on only from ESTABLISHED.
LEMMA ShutdownFrom ==
  ASSUME TypeOK, NEW e \in Endpoints, Step(e), app'[e] \in {"shutdownSet", "shutdownLock"}
  PROVE  app[e] \in {"shutdownSet", "shutdownLock"} \/ (assoc[e].state = "established" /\ assoc' = assoc)
  <1>0. DOMAIN app = Endpoints
    BY Zenon DEF TypeOK, Places
  <1>1. CASE AppStep(e)
    <2>1. CASE Open(e) \/ HandshakeCompleted(e) \/ HandshakeDropped(e) \/ OpenRefused(e) \/ OpenCanceled(e)
      BY <1>0, <2>1, Zenon DEF Open, HandshakeCompleted, HandshakeDropped, OpenRefused, OpenCanceled, Goto
    <2>2. CASE Write(e) \/ ShutdownCheck(e) \/ ShutdownSet(e) \/ ShutdownLocked(e) \/ ShutdownReturns(e)
      BY <1>0, <2>2, Zenon DEF Write, ShutdownCheck, ShutdownSet, ShutdownLocked, ShutdownReturns, Goto
    <2>3. CASE AbortAsk(e) \/ AbortFlushed(e) \/ CloseAsk(e) \/ CloseReturns(e)
      BY <1>0, <2>3, Zenon DEF AbortAsk, AbortFlushed, CloseAsk, CloseReturns, Goto
    <2> QED  BY <1>1, <2>1, <2>2, <2>3, Zenon DEF AppStep
  <1>2. CASE ReadStep(e) \/ WriteStep(e) \/ \E t \in TimerIds : TimerStep(e, t)
    <2>1. app' = app
      BY <1>2, Zenon DEF ReadStep, HandleSimple, HandleCookieEcho, HandleCookieAck,
             HandleShutdownComplete, HandleAbort, ReadFails, ReadLoopEnds, WriteStep, WriteTurn,
             ToldToClose, TimerStep, TimerFires, TimerCallback, TimerGivesUp
    <2> QED  BY <2>1, Zenon
  <1> QED  BY <1>1, <1>2, Zenon DEF Step

\* Each step respects the phases.
LEMMA LateNext ==
  ASSUME TypeOK, AgreeInv, LateInv, [Next]_vars
  PROVE  LateInv'
  <1>1. CASE UNCHANGED <<scenario, assoc, closing, readClosed, handshake, reader, writer, app, due, conn>>
    BY <1>1, Zenon DEF LateInv, Phase
  <1>2. ASSUME NEW e \in Endpoints, Step(e)
        PROVE  /\ Phase(assoc'[e])
               /\ app'[e] \in {"shutdownSet", "shutdownLock"} =>
                    ~assoc'[e].storedInit /\ assoc'[e].storedCookieEcho = None
    <2>0. /\ Phase(assoc[e])
          /\ app[e] \in {"shutdownSet", "shutdownLock"} =>
                ~assoc[e].storedInit /\ assoc[e].storedCookieEcho = None
      BY Zenon DEF LateInv
    <2>1. app'[e] \in {"shutdownSet", "shutdownLock"} =>
                ~assoc[e].storedInit /\ assoc[e].storedCookieEcho = None
      BY <1>2, <2>0, ShutdownFrom, Zenon DEF Phase
    <2>2. CASE Calm(e, assoc[e], assoc'[e]) \/ Ends(e, assoc[e], assoc'[e])
      BY <2>0, <2>1, <2>2, Zenon DEF Calm, Ends, Keeps, Talks
    <2>3. CASE Open(e)
      BY <2>3, Opens, Zenon DEF Phase
    <2>4. CASE Asks(e, assoc[e], assoc'[e]) \/ Leaves(e, assoc[e], assoc'[e])
      BY <2>0, <2>4, Zenon DEF Asks, Leaves, Phase, Same, Fields
    <2>5. CASE Hears(e, assoc[e], assoc'[e])
      BY <2>0, <2>1, <2>5, Zenon DEF Hears, Same, Phase
    <2>6. CASE Answers(e, assoc[e], assoc'[e])
      BY <2>0, <2>1, <2>6, Zenon DEF Answers, Phase
    <2>7. CASE Settles(e, assoc[e], assoc'[e])
      BY <2>7, Zenon DEF Settles, Phase
    <2> QED  BY <1>2, <2>2, <2>3, <2>4, <2>5, <2>6, <2>7, Outcomes, Zenon
  <1>3. ASSUME NEW e \in Endpoints, Step(e) PROVE LateInv'
    <2>1. Elsewhere(e)
      BY <1>3, AppPlaces, ReadPlaces, OtherPlaces, Zenon DEF Step, TypeOK
    <2>2. \A f \in Endpoints :
            /\ Phase(assoc'[f])
            /\ app'[f] \in {"shutdownSet", "shutdownLock"} =>
                 ~assoc'[f].storedInit /\ assoc'[f].storedCookieEcho = None
      BY <1>2, <1>3, <2>1, Zenon DEF Elsewhere, LateInv
    <2> QED  BY <2>2, Zenon DEF LateInv, Phase
  <1> QED  BY <1>1, <1>3, WhoseStep, Zenon

\* What a step can append to the control queue.
LEMMA LateStep ==
  ASSUME TypeOK, AgreeInv, LateInv, [Next]_vars, NEW e \in Endpoints
  PROVE  /\ Queues(e, "INIT") => assoc'[e].state \in {"closed", "cookieWait"}
         /\ Queues(e, "COOKIE-ECHO") => assoc'[e].state \in {"closed", "cookieEchoed"}
  <1>0. /\ AssocOK(e, assoc[e]) /\ Phase(assoc[e]) /\ assoc[e].control \in Seq(ControlChunks(e))
        /\ Len(assoc[e].control) \in Nat
    BY DEF TypeOK, LateInv, AssocOK
  <1>1. CASE assoc'[e].control \in {assoc[e].control, << >>}
    <2>1. ~(Len(assoc'[e].control) > Len(assoc[e].control))
      BY <1>0, <1>1
    <2> QED  BY <2>1, Zenon DEF Queues
  <1>2. ASSUME NEW k \in ControlChunks(e), assoc'[e].control = Append(assoc[e].control, k), NEW t, Queues(e, t)
        PROVE  k.type = t
    <2>1. assoc'[e].control[Len(assoc'[e].control)] = k
      BY <1>0, <1>2, Queued
    <2> QED  BY <1>2, <2>1, Zenon DEF Queues
  <1>3. CASE Step(e)
    <2>1. CASE Calm(e, assoc[e], assoc'[e])
      <3>1. Queues1(e, assoc[e], assoc'[e])
        BY <2>1, Zenon DEF Calm, Talks
      <3>2. ASSUME NEW k \in ControlChunks(e), assoc'[e].control = Append(assoc[e].control, k),
                   k.type = "INIT" => assoc[e].storedInit /\ assoc'[e].state = assoc[e].state,
                   k.type = "COOKIE-ECHO" => assoc[e].storedCookieEcho # None /\ assoc'[e].state = assoc[e].state
            PROVE  /\ Queues(e, "INIT") => assoc'[e].state \in {"closed", "cookieWait"}
                   /\ Queues(e, "COOKIE-ECHO") => assoc'[e].state \in {"closed", "cookieEchoed"}
        <4>1. Queues(e, "INIT") => k.type = "INIT"
          BY <1>2, <3>2, Zenon
        <4>2. Queues(e, "COOKIE-ECHO") => k.type = "COOKIE-ECHO"
          BY <1>2, <3>2, Zenon
        <4> QED  BY <1>0, <3>2, <4>1, <4>2, Zenon DEF Phase
      <3> QED  BY <1>1, <3>1, <3>2, Zenon DEF Queues1
    <2>2. CASE Open(e)
      <3>1. assoc[e].control = << >>
        <4>1. assoc[e] = NewAssociation(e)
          BY <2>2, Zenon DEF TypeOK, Open, Untouched
        <4> QED  BY <4>1 DEF NewAssociation
      <3>2. \/ assoc'[e].control = << >>
            \/ /\ assoc'[e].state = "cookieWait"
               /\ \E k \in ControlChunks(e) : k.type = "INIT" /\ assoc'[e].control = Append(assoc[e].control, k)
        BY <2>2, <3>1, Opens, Zenon
      <3>3. ASSUME NEW k \in ControlChunks(e), assoc'[e].control = Append(assoc[e].control, k), k.type = "INIT"
            PROVE  ~Queues(e, "COOKIE-ECHO")
        BY <1>2, <3>3, Zenon
      <3> QED  BY <1>1, <3>2, <3>3, Zenon
    <2>3. CASE Asks(e, assoc[e], assoc'[e]) \/ Leaves(e, assoc[e], assoc'[e]) \/ Settles(e, assoc[e], assoc'[e])
      BY <1>1, <2>3, Zenon DEF Asks, Leaves, Settles, Same, Fields
    <2>4. CASE Ends(e, assoc[e], assoc'[e])
      <3>1. ASSUME NEW k \in ControlChunks(e), assoc'[e].control = Append(assoc[e].control, k),
                   k.type \notin {"INIT", "COOKIE-ECHO"}
            PROVE  ~Queues(e, "INIT") /\ ~Queues(e, "COOKIE-ECHO")
        BY <1>2, <3>1, Zenon
      <3>2. ~assoc[e].storedInit /\ assoc[e].storedCookieEcho = None
        BY <1>0, <2>4, Zenon DEF Ends, Phase
      <3>3. Queues1(e, assoc[e], assoc'[e])
        BY <2>4, Zenon DEF Ends, Talks
      <3> QED  BY <1>1, <3>1, <3>2, <3>3, Zenon DEF Queues1
    <2>5. CASE Hears(e, assoc[e], assoc'[e])
      <3>1. PICK k \in ControlChunks(e) : k.type = "INIT-ACK" /\ assoc'[e].control = Append(assoc[e].control, k)
        BY <2>5, Zenon DEF Hears
      <3> QED  BY <1>2, <3>1, Zenon
    <2>6. CASE Answers(e, assoc[e], assoc'[e])
      <3>1. PICK k \in ControlChunks(e) : k.type = "COOKIE-ECHO" /\ assoc'[e].control = Append(assoc[e].control, k)
        BY <2>6, Zenon DEF Answers
      <3>2. ~Queues(e, "INIT")
        BY <1>2, <3>1, Zenon
      <3> QED  BY <2>6, <3>2, Zenon DEF Answers
    <2> QED  BY <1>3, <2>1, <2>2, <2>3, <2>4, <2>5, <2>6, Outcomes, Zenon
  <1>4. CASE ~Step(e)
    <2>1. assoc'[e] = assoc[e]
      <3>1. ASSUME NEW f \in Endpoints, Step(f) PROVE assoc'[e] = assoc[e]
        <4>1. Elsewhere(f)
          BY <3>1, AppPlaces, ReadPlaces, OtherPlaces, Zenon DEF Step, TypeOK
        <4> QED  BY <1>4, <3>1, <4>1, Zenon DEF Elsewhere
      <3> QED  BY <3>1, WhoseStep, Zenon
    <2> QED  BY <1>1, <2>1, Zenon
  <1> QED  BY <1>3, <1>4, Zenon

-----------------------------------------------------------------------------
(* What the handshake agrees on.                                           *)

\* Knowledge is never lost.
LEMMA KnowsStays ==
  ASSUME TypeOK, AgreeInv, LateInv, NEW e \in Endpoints, Step(e), LocalKnows(e, assoc[e])
  PROVE  LocalKnows(e, assoc'[e])
  <1>1. CASE Calm(e, assoc[e], assoc'[e]) \/ Ends(e, assoc[e], assoc'[e])
    BY <1>1, Zenon DEF Calm, Ends, Talks, SameKnowledge, LocalKnows
  <1>2. CASE Open(e)
    <2>1. assoc[e] = NewAssociation(e)
      BY <1>2, Zenon DEF TypeOK, Open, Untouched
    <2>2. assoc[e].peerTag = None
      BY <2>1 DEF NewAssociation
    <2> QED  BY <2>2, Peers, Zenon DEF LocalKnows
  <1>3. CASE Asks(e, assoc[e], assoc'[e]) \/ Leaves(e, assoc[e], assoc'[e])
    <2>1. Same(Known, assoc[e], assoc'[e])
      BY <1>3, Zenon DEF Asks, Leaves, Same, Fields, Known
    <2> QED  BY <2>1, Zenon DEF Same, Known, LocalKnows
  <1> QED  BY <1>1, <1>2, <1>3, Outcomes, Zenon DEF Reading

\* Nor is agreement: a peer that has not opened yet opens with the tokens.
LEMMA AgreedStays ==
  ASSUME TypeOK, AgreeInv, LateInv, NEW e \in Endpoints, Step(e)
  PROVE  /\ scenario' = scenario
         /\ \A f \in Endpoints : Knows(f) => Knows(f)'
         /\ \A f \in Endpoints : Agreed(f) => Agreed(f)'
  <1>1. scenario' = scenario /\ Elsewhere(e)
    BY AppPlaces, ReadPlaces, OtherPlaces, Zenon DEF Step, TypeOK
  <1>2. \A f \in Endpoints : LocalKnows(f, assoc[f]) => LocalKnows(f, assoc'[f])
    BY <1>1, KnowsStays, Zenon DEF Elsewhere
  <1>3. \A f \in Endpoints : LocalKnows(f, assoc'[f]) => Knows(f)'
    BY <1>1, Zenon DEF Knows, LocalKnows, Both
  <1>4. \A f \in Endpoints : Knows(f) => Knows(f)'
    BY <1>2, <1>3, Zenon DEF Knows
  <1>5. ASSUME NEW f \in Endpoints, Agreed(f) PROVE Agreed(f)'
    <2>1. CASE Knows(Peer(f))
      BY <1>4, <1>5, <2>1, Peers, Zenon DEF Agreed
    <2>2. CASE role(f) = "snap" /\ app[Peer(f)] = "new"
      <3>1. CASE app'[Peer(f)] = "new"
        BY <1>1, <1>4, <1>5, <2>2, <3>1, Zenon DEF Agreed, role
      <3>2. CASE app'[Peer(f)] # "new"
        <4>1. e = Peer(f) /\ Open(e)
          BY <1>1, <2>2, <3>2, Opened, Peers, Zenon DEF Elsewhere
        <4>2. role(e) = "snap"
          BY <2>2, <4>1, ScenariosAssumption, Zenon DEF role, TypeOK
        <4>3. LocalKnows(e, assoc'[e])
          BY <4>1, <4>2, Opens, Zenon
        <4> QED  BY <1>3, <1>4, <1>5, <4>1, <4>3, Zenon DEF Agreed
      <3> QED  BY <3>1, <3>2, Zenon
    <2> QED  BY <1>5, <2>1, <2>2, Zenon DEF Agreed
  <1> QED  BY <1>1, <1>4, <1>5, Zenon

\* The end that takes the step.
LEMMA AgreeOwn ==
  ASSUME TypeOK, AgreeInv, LateInv, NEW e \in Endpoints, Step(e)
  PROVE  /\ assoc'[e].state \in Up \cup {"cookieEchoed"} => Agreed(e)'
         /\ app'[e] \in {"shutdownSet", "shutdownLock"} => Agreed(e)'
         /\ assoc'[e].storedCookieEcho # None => Agreed(e)'
         /\ assoc'[e].myCookie # None => Knows(e)'
         /\ role(e) = "snap" /\ app'[e] # "new" => Knows(e)'
         /\ "violation" \notin assoc'[e].willSend
  <1>1. /\ assoc[e].state \in Up \cup {"cookieEchoed"} => Agreed(e)
        /\ app[e] \in {"shutdownSet", "shutdownLock"} => Agreed(e)
        /\ assoc[e].storedCookieEcho # None => Agreed(e)
        /\ assoc[e].myCookie # None => Knows(e)
        /\ role(e) = "snap" /\ app[e] # "new" => Knows(e)
        /\ "violation" \notin assoc[e].willSend
    BY Zenon DEF AgreeInv
  <1>2. scenario' = scenario /\ (Knows(e) => Knows(e)') /\ (Agreed(e) => Agreed(e)')
    BY AgreedStays, Zenon
  <1>3. ~Open(e) => app[e] # "new"
    BY Opened, Zenon
  <1>4. LocalKnows(e, assoc'[e]) => Knows(e)'
    BY <1>2, Zenon DEF Knows, LocalKnows, Both
  <1>5. app'[e] \in {"shutdownSet", "shutdownLock"} => Agreed(e)'
    BY <1>1, <1>2, ShutdownFrom, Zenon DEF Up
  <1>6. ~Open(e) => (role(e) = "snap" => Knows(e)')
    BY <1>1, <1>2, <1>3, Zenon
  <1>7. CASE ~Open(e) /\ (Calm(e, assoc[e], assoc'[e]) \/ Ends(e, assoc[e], assoc'[e]))
    <2>1. Talks(e, assoc[e], assoc'[e])
      BY <1>7, Zenon DEF Calm, Ends
    <2>2. /\ assoc'[e].state \in Up \cup {"cookieEchoed"} => assoc[e].state \in Up \cup {"cookieEchoed"}
          /\ assoc'[e].storedCookieEcho # None => assoc[e].storedCookieEcho # None
          /\ assoc'[e].myCookie = assoc[e].myCookie
          /\ "violation" \in assoc'[e].willSend => "violation" \in assoc[e].willSend
      BY <2>1, Zenon DEF Talks, SameKnowledge
    <2> QED  BY <1>1, <1>2, <1>5, <1>6, <1>7, <2>2, Zenon
  <1>8. CASE Open(e)
    <2>1. CASE role(e) # "snap"
      BY <1>8, <2>1, Opens, Zenon DEF Up
    <2>2. CASE role(e) = "snap"
      <3>1. /\ LocalKnows(e, assoc'[e]) /\ assoc'[e].storedCookieEcho = None
            /\ assoc'[e].willSend = {}
        BY <1>8, <2>2, Opens, Zenon
      <3>2. Knows(e)'
        BY <1>4, <3>1, Zenon
      <3>3. Elsewhere(e)
        BY AppPlaces, ReadPlaces, OtherPlaces, Zenon DEF Step, TypeOK
      <3>4. role(Peer(e)) = "snap"
        BY <2>2, Peers, ScenariosAssumption DEF role, TypeOK
      <3>5. app[Peer(e)] = "new" \/ Knows(Peer(e))
        BY <3>4, Peers, Zenon DEF AgreeInv
      <3>6. app[Peer(e)] = "new" => app'[Peer(e)] = "new"
        BY <3>3, Peers, Zenon DEF Elsewhere
      <3>7. Knows(Peer(e)) => Knows(Peer(e))'
        BY AgreedStays, Peers, Zenon
      <3>8. role(e)' = "snap"
        BY <1>2, <2>2, Zenon DEF role
      <3>9. Agreed(e)'
        BY <3>2, <3>5, <3>6, <3>7, <3>8, Zenon DEF Agreed
      <3> QED  BY <3>1, <3>2, <3>9, Zenon
    <2> QED  BY <2>1, <2>2, Zenon
  <1>9. CASE Asks(e, assoc[e], assoc'[e]) \/ Leaves(e, assoc[e], assoc'[e])
    <2>1. app[e] \in {"shutdownSet", "shutdownLock"}
      BY <1>9, Zenon DEF Asks, Leaves
    <2>2. Knows(e)' /\ Agreed(e)'
      BY <1>1, <1>2, <2>1, Zenon DEF Agreed
    <2>3. "violation" \notin assoc'[e].willSend
      BY <1>1, <1>9 DEF Asks, Leaves, Same, Fields
    <2> QED  BY <2>2, <2>3, Zenon
  <1>10. CASE Reading(e) /\ Hears(e, assoc[e], assoc'[e])
    BY <1>1, <1>2, <1>4, <1>10, Zenon DEF Reading, Hears, Same
  <1>11. CASE Reading(e) /\ Answers(e, assoc[e], assoc'[e])
    <2>1. Knows(e)'
      BY <1>4, <1>11, Zenon DEF Reading
    <2>2. Knows(Peer(e))'
      BY <1>11, AgreedStays, Peers, Zenon DEF Answers
    <2>3. Agreed(e)'
      BY <2>1, <2>2, Zenon DEF Agreed
    <2> QED  BY <1>1, <1>11, <2>1, <2>3, Zenon DEF Answers, Same, Wants
  <1>12. CASE Reading(e) /\ Settles(e, assoc[e], assoc'[e])
    <2>1. Knows(e)' /\ Agreed(e)'
      BY <1>2, <1>4, <1>12, Zenon DEF Reading, Settles
    <2> QED  BY <1>1, <1>12, <2>1, Zenon DEF Settles, Same, Wants
  <1> QED  BY <1>7, <1>8, <1>9, <1>10, <1>11, <1>12, Outcomes, Zenon

\* Its control queue.
LEMMA AgreeQueue ==
  ASSUME TypeOK, AgreeInv, LateInv, NEW e \in Endpoints, Step(e), NEW i \in DOMAIN assoc'[e].control
  PROVE  /\ assoc'[e].control[i].type = "INIT-ACK" => Knows(e)'
         /\ assoc'[e].control[i].type = "COOKIE-ECHO" => Agreed(e)'
  <1>0. /\ assoc[e].control \in Seq(ControlChunks(e))
        /\ \A j \in DOMAIN assoc[e].control : Sincere(e, assoc[e].control[j])
        /\ assoc[e].storedCookieEcho # None => Agreed(e)
    BY Zenon DEF TypeOK, AssocOK, AgreeInv
  <1>1. scenario' = scenario /\ (Knows(e) => Knows(e)') /\ (Agreed(e) => Agreed(e)')
    BY AgreedStays, Zenon
  <1>2. ASSUME i \in DOMAIN assoc[e].control, assoc'[e].control[i] = assoc[e].control[i]
        PROVE  /\ assoc'[e].control[i].type = "INIT-ACK" => Knows(e)'
               /\ assoc'[e].control[i].type = "COOKIE-ECHO" => Agreed(e)'
    BY <1>0, <1>1, <1>2, Zenon DEF Sincere
  <1>3. CASE assoc'[e].control \in {assoc[e].control, << >>}
    BY <1>2, <1>3
  <1>4. ASSUME NEW k \in ControlChunks(e), assoc'[e].control = Append(assoc[e].control, k),
               k.type = "INIT-ACK" => Knows(e)', k.type = "COOKIE-ECHO" => Agreed(e)'
        PROVE  /\ assoc'[e].control[i].type = "INIT-ACK" => Knows(e)'
               /\ assoc'[e].control[i].type = "COOKIE-ECHO" => Agreed(e)'
    <2>1. \/ assoc'[e].control[i] = k
          \/ i \in DOMAIN assoc[e].control /\ assoc'[e].control[i] = assoc[e].control[i]
      BY <1>0, <1>4, Queued
    <2> QED  BY <1>2, <1>4, <2>1, Zenon
  <1>5. LocalKnows(e, assoc'[e]) => Knows(e)'
    BY <1>1, Zenon DEF Knows, LocalKnows, Both
  <1>6. CASE Calm(e, assoc[e], assoc'[e]) \/ Ends(e, assoc[e], assoc'[e])
    <2>1. Queues1(e, assoc[e], assoc'[e])
      BY <1>6, Zenon DEF Calm, Ends, Talks
    <2> QED  BY <1>0, <1>1, <1>3, <1>4, <2>1, Zenon DEF Queues1
  <1>7. CASE Open(e)
    <2>1. assoc[e] = NewAssociation(e)
      BY <1>7, Zenon DEF TypeOK, Open, Untouched
    <2>2. assoc[e].control = << >>
      BY <2>1 DEF NewAssociation
    <2>3. \/ assoc'[e].control = << >>
          \/ \E k \in ControlChunks(e) : k.type = "INIT" /\ assoc'[e].control = Append(assoc[e].control, k)
      BY <1>7, <2>2, Opens, Zenon
    <2> QED  BY <1>3, <1>4, <2>3, Zenon
  <1>8. CASE Asks(e, assoc[e], assoc'[e]) \/ Leaves(e, assoc[e], assoc'[e]) \/ Settles(e, assoc[e], assoc'[e])
    BY <1>3, <1>8, Zenon DEF Asks, Leaves, Settles, Same, Fields
  <1>9. CASE Reading(e) /\ Hears(e, assoc[e], assoc'[e])
    <2>1. Knows(e)'
      BY <1>5, <1>9, Zenon DEF Reading
    <2> QED  BY <1>4, <1>9, <2>1, Zenon DEF Hears
  <1>10. CASE Reading(e) /\ Answers(e, assoc[e], assoc'[e])
    <2>1. Agreed(e)'
      BY <1>10, AgreeOwn, Zenon DEF Answers
    <2> QED  BY <1>4, <1>10, <2>1, Zenon DEF Answers
  <1> QED  BY <1>6, <1>7, <1>8, <1>9, <1>10, Outcomes, Zenon

\* Both ends, and what is in flight.
LEMMA AgreeNext ==
  ASSUME TypeOK, AgreeInv, LateInv, [Next]_vars
  PROVE  AgreeInv'
  <1>1. CASE /\ UNCHANGED <<scenario, assoc, closing, readClosed, handshake, reader, writer, app, due, conn>>
             /\ net' \subseteq net
    <2>1. \A e \in Endpoints : (Knows(e)' <=> Knows(e)) /\ (Agreed(e)' <=> Agreed(e)) /\ role(e)' = role(e)
      BY <1>1 DEF Knows, Agreed, LocalKnows, Both, role
    <2> QED  BY <1>1, <2>1, Zenon DEF AgreeInv, Sincere
  <1>2. ASSUME NEW e \in Endpoints, Step(e) PROVE AgreeInv'
    <2>1. Elsewhere(e)
      BY <1>2, AppPlaces, ReadPlaces, OtherPlaces, Zenon DEF Step, TypeOK
    <2>2. scenario' = scenario /\ \A f \in Endpoints : (Knows(f) => Knows(f)') /\ (Agreed(f) => Agreed(f)')
      BY <1>2, AgreedStays, Zenon
    <2>3. \A f \in Endpoints : role(f)' = role(f)
      BY <2>2, Zenon DEF role
    <2>4. ASSUME NEW f \in Endpoints
          PROVE  /\ assoc'[f].state \in Up \cup {"cookieEchoed"} => Agreed(f)'
                 /\ app'[f] \in {"shutdownSet", "shutdownLock"} => Agreed(f)'
                 /\ assoc'[f].storedCookieEcho # None => Agreed(f)'
                 /\ assoc'[f].myCookie # None => Knows(f)'
                 /\ role(f)' = "snap" /\ app'[f] # "new" => Knows(f)'
                 /\ "violation" \notin assoc'[f].willSend
      <3>1. CASE f = e
        BY <1>2, <2>3, <3>1, AgreeOwn, Zenon
      <3>2. CASE f # e
        BY <2>1, <2>2, <2>3, <3>2, Zenon DEF Elsewhere, AgreeInv
      <3> QED  BY <3>1, <3>2, Zenon
    <2>5. ASSUME NEW f \in Endpoints, NEW i \in DOMAIN assoc'[f].control
          PROVE  /\ assoc'[f].control[i].type = "INIT-ACK" => Knows(f)'
                 /\ assoc'[f].control[i].type = "COOKIE-ECHO" => Agreed(f)'
      <3>1. CASE f = e
        BY <1>2, <2>5, <3>1, AgreeQueue, Zenon
      <3>2. CASE f # e
        BY <2>1, <2>2, <2>5, <3>2 DEF Elsewhere, AgreeInv, Sincere
      <3> QED  BY <3>1, <3>2, Zenon
    <2>6. ASSUME NEW f \in Endpoints, NEW p \in net', p.to = Peer(f)
          PROVE  /\ p.chunk.type = "INIT-ACK" => Knows(f)'
                 /\ p.chunk.type = "COOKIE-ECHO" => Agreed(f)'
      <3>1. CASE p \in net
        BY <2>2, <2>6, <3>1, Zenon DEF AgreeInv, Sincere
      <3>2. CASE p \notin net
        <4>1. p.to = Peer(e) /\ MaySend(assoc[e], p.chunk)
          BY <1>2, <3>2, NetSteps, Zenon
        <4>2. f = e
          BY <2>6, <4>1, Peers, Zenon
        <4>3. \A c \in popAll(assoc[e].control) : Sincere(e, c)
          BY Zenon DEF AgreeInv, popAll
        <4>4. \A c \in OtherChunks : c.type \notin {"INIT-ACK", "COOKIE-ECHO"}
          BY DEF OtherChunks
        <4> QED  BY <2>2, <4>1, <4>2, <4>3, <4>4, Zenon DEF MaySend, Sincere
      <3> QED  BY <3>1, <3>2, Zenon
    <2> QED  BY <2>4, <2>5, <2>6, Zenon DEF AgreeInv, Sincere
  <1> QED  BY <1>1, <1>2, WhoseStep, Zenon

-----------------------------------------------------------------------------
(* The graceful shutdown.                                                  *)

(***************************************************************************)
(* The association of e has begun to shut down with nothing in flight, and *)
(* can never be ESTABLISHED again: a closed one is not read any more.      *)
(***************************************************************************)
NoReads(e) == conn[e] = "closed" \/ reader[e] \in {"exit", "done"}
Drained(e) ==
  /\ assoc[e].data # "inflight"
  /\ \/ assoc[e].state \in {"shutdownPending", "shutdownReceived", "shutdownSent", "shutdownAckSent"}
     \/ assoc[e].state = "closed" /\ NoReads(e)
  /\ app[e] # "new"
GracefulInv ==
  \A e \in Endpoints :
    LET a == assoc[e]
    IN  /\ closing[e] => NoReads(e)
        /\ handshake[e] # None => handshake[e].by = "timer" \/ reader[e] = "blocked"
        /\ a.state \in {"shutdownSent", "shutdownAckSent"} => Drained(e)
        /\ "shutdownAck" \in a.willSend => Drained(e)
        /\ "shutdownComplete" \in a.willSend => Drained(e) /\ Drained(Peer(e))
        /\ \A p \in net : p.to = Peer(e) =>
             /\ p.chunk.type = "SHUTDOWN-ACK" => Drained(e)
             /\ p.chunk.type = "SHUTDOWN-COMPLETE" => Drained(e) /\ Drained(Peer(e))

\* What neither reading, nor writing, nor a timer does to an association that
\* shuts down: it is closed by close() and the end of the read loop alone.
LEMMA StillOpen ==
  ASSUME NEW e \in Endpoints, NEW a, AssocOK(e, a), a.state \in Shutting
  PROVE  /\ \A c : handleInit(a, e, c) = a /\ handleInitAck(a, c) = a
         /\ \A c : handleData(a, c).state # "closed"
         /\ handleSack(a).state # "closed"
         /\ handleShutdown(a).state # "closed"
         /\ handleShutdownAck(a).state # "closed"
         /\ \A t : onRetransmissionTimeout(a, e, t).state # "closed"
         /\ \A t, v : [a EXCEPT !.timer[t] = v].state # "closed"
         /\ will(a, "abort").state # "closed" /\ push(a, [type |-> "COOKIE-ACK"]).state # "closed"
         /\ gatherOutbound(a).assoc.state # "closed"
  <1>0. /\ a.state # "closed" /\ a.state \notin Handshaking /\ DOMAIN a = Fields
        /\ "state" \in Fields
    BY Zenon DEF Shutting, Handshaking, AssocOK, Fields
  <1>1. \A c : handleInit(a, e, c) = a /\ handleInitAck(a, c) = a
    BY <1>0, Zenon DEF handleInit, handleInitAck, Handshaking
  <1>2. \A c : handleData(a, c).state # "closed"
    BY <1>0, Zenon DEF handleData, violation, will, awakeWriteLoop
  <1>3. handleSack(a).state # "closed"
    <2>1. PICK b : b = awakeWriteLoop([stopTimer(a, "t3RTX") EXCEPT
                          !.data = IF @ = "inflight" THEN "acked" ELSE @, !.retransmit = FALSE])
      BY Zenon
    <2>2. b.state = a.state /\ DOMAIN b = Fields
      BY <1>0, <2>1, Zenon DEF awakeWriteLoop, stopTimer
    <2>3. AckShutdown(b).state # "closed"
      BY <1>0, <2>2, Zenon DEF AckShutdown, setState, will, awakeWriteLoop
    <2> QED  BY <1>0, <2>1, <2>3, Zenon DEF handleSack
  <1>4. handleShutdown(a).state # "closed"
    BY <1>0, Zenon DEF handleShutdown, AckAtOnce, setState, will, awakeWriteLoop
  <1>5. handleShutdownAck(a).state # "closed"
    BY <1>0, Zenon DEF handleShutdownAck, stopTimer, will, awakeWriteLoop
  <1>6. \A t : onRetransmissionTimeout(a, e, t).state # "closed"
    BY <1>0, Zenon DEF onRetransmissionTimeout, sendInit, sendCookieEcho, push, will, awakeWriteLoop
  <1>7. \A t, v : [a EXCEPT !.timer[t] = v].state # "closed"
    BY <1>0, Zenon
  <1>8. will(a, "abort").state # "closed" /\ push(a, [type |-> "COOKIE-ACK"]).state # "closed"
    BY <1>0, Zenon DEF push, will, awakeWriteLoop
  <1>9. gatherOutbound(a).assoc.state # "closed"
    BY <1>0, GatherOutbound, Zenon
  <1> QED  BY <1>1, <1>2, <1>3, <1>4, <1>5, <1>6, <1>7, <1>8, <1>9, Zenon

\* An association that is not read again stays so; one that goes to CLOSED
\* is not read again.
LEMMA NoReadsStays ==
  ASSUME TypeOK, GracefulInv, NEW e \in Endpoints, Step(e), app[e] # "new"
  PROVE  /\ NoReads(e) => NoReads(e)'
         /\ closing'[e] => NoReads(e)'
         /\ handshake'[e] # None => handshake'[e].by = "timer" \/ reader'[e] = "blocked"
         /\ assoc[e].state \in Shutting /\ assoc'[e].state = "closed" => NoReads(e)'
  <1> DEFINE Goal ==
         /\ NoReads(e) => NoReads(e)'
         /\ closing'[e] => NoReads(e)'
         /\ handshake'[e] # None => handshake'[e].by = "timer" \/ reader'[e] = "blocked"
         /\ assoc[e].state \in Shutting /\ assoc'[e].state = "closed" => NoReads(e)'
  <1>0. Places /\ AssocOK(e, assoc[e]) /\ DOMAIN assoc = Endpoints
    BY Zenon DEF TypeOK, Places
  <1>1. /\ closing[e] => NoReads(e)
        /\ handshake[e] # None => handshake[e].by = "timer" \/ reader[e] = "blocked"
    BY Zenon DEF GracefulInv
  <1>2. ASSUME UNCHANGED <<closing, handshake, reader, conn>>,
               assoc[e].state \in Shutting /\ assoc'[e].state = "closed" => NoReads(e)
        PROVE  Goal
    BY <1>1, <1>2, Zenon DEF NoReads
  <1>3. ASSUME UNCHANGED <<closing, handshake, reader, conn>>, assoc' = assoc PROVE Goal
    BY <1>2, <1>3, Zenon DEF Shutting
  <1>4. ASSUME UNCHANGED <<closing, handshake, reader, conn>>, NEW b, Set(e, b),
               assoc[e].state \in Shutting => b.state # "closed"
        PROVE  Goal
    BY <1>0, <1>2, <1>4, Zenon DEF Set
  <1>5. ASSUME NEW b, Close(e, b), reader' = reader \/ reader'[e] = "exit", UNCHANGED handshake,
               handshake[e] # None => reader' = reader
        PROVE  Goal
    BY <1>0, <1>1, <1>5, Zenon DEF Close, NoReads, Places
  <1>6. CASE AppStep(e)
    <2>1. CASE Open(e)
      BY <2>1, Zenon DEF Open
    <2>2. CASE HandshakeCompleted(e)
      <3>1. /\ handshake'[e] = None /\ closing' = closing /\ conn' = conn
            /\ handshake[e].by = "timer" => reader' = reader
        BY <1>0, <2>2, Zenon DEF HandshakeCompleted, Places, chanVars, netVars
      <3>2. handshake[e].by # "timer" => reader[e] = "blocked"
        BY <1>1, <2>2, Zenon DEF HandshakeCompleted
      <3>3. NoReads(e) => NoReads(e)'
        BY <3>1, <3>2, Zenon DEF NoReads
      <3>4. assoc[e].state \in Shutting => assoc'[e].state # "closed"
        BY <1>0, <2>2, StillOpen, Zenon DEF HandshakeCompleted, Set, Shutting
      <3> QED  BY <1>1, <3>1, <3>3, <3>4, Zenon
    <2>3. CASE HandshakeDropped(e)
      <3>1. /\ handshake'[e] = None /\ closing' = closing /\ conn' = conn /\ assoc' = assoc
            /\ handshake[e].by = "timer" => reader' = reader
        BY <1>0, <2>3, Zenon DEF HandshakeDropped, Places, chanVars, netVars
      <3>2. handshake[e].by # "timer" => reader[e] = "blocked"
        BY <1>1, <2>3, Zenon DEF HandshakeDropped
      <3>3. NoReads(e) => NoReads(e)'
        BY <3>1, <3>2, Zenon DEF NoReads
      <3> QED  BY <1>1, <3>1, <3>3, Zenon DEF Shutting
    <2>4. CASE OpenRefused(e) \/ ShutdownCheck(e) \/ ShutdownReturns(e) \/ CloseReturns(e)
      BY <1>3, <2>4, Zenon DEF OpenRefused, ShutdownCheck, ShutdownReturns, CloseReturns, chanVars, netVars
    <2>5. CASE OpenCanceled(e) \/ CloseAsk(e)
      BY <1>5, <2>5, Zenon DEF OpenCanceled, CloseAsk
    <2>6. CASE Write(e)
      <3>1. assoc[e].state \notin Shutting
        BY <2>6, Zenon DEF Write, Shutting
      <3> QED  BY <1>2, <2>6, <3>1, Zenon DEF Write, chanVars, netVars
    <2>7. CASE ShutdownSet(e)
      <3>1. assoc'[e].state = "shutdownPending"
        BY <1>0, <2>7, Zenon DEF ShutdownSet, Set, setState, AssocOK, Fields
      <3> QED  BY <1>2, <2>7, <3>1, Zenon DEF ShutdownSet, chanVars, netVars
    <2>8. CASE ShutdownLocked(e)
      <3>1. setState(will(assoc[e], "shutdown"), "shutdownSent").state # "closed"
        BY <1>0, Zenon DEF setState, will, awakeWriteLoop, AssocOK, Fields
      <3>2. UNCHANGED <<closing, handshake, reader, conn>>
        BY <2>8, Zenon DEF ShutdownLocked, chanVars, netVars
      <3> QED  BY <1>4, <2>8, <3>1, <3>2, Zenon DEF ShutdownLocked, Shutting
    <2>9. CASE AbortAsk(e)
      BY <1>0, <1>4, <2>9, StillOpen, Zenon DEF AbortAsk, chanVars, netVars
    <2>10. CASE AbortFlushed(e)
      BY <1>0, <1>1, <2>10, Zenon DEF AbortFlushed, chanVars, NoReads, Shutting, Places
    <2> QED  BY <1>6, <2>1, <2>2, <2>3, <2>4, <2>5, <2>6, <2>7, <2>8, <2>9, <2>10, Zenon DEF AppStep
  <1>7. CASE ReadStep(e)
    <2>1. ASSUME NEW p \in net, HandleSimple(e, p) PROVE Goal
      BY <1>0, <1>4, <2>1, StillOpen DEF HandleSimple, chanVars
    <2>2. ASSUME NEW p \in net, HandleCookieEcho(e, p) \/ HandleCookieAck(e, p) PROVE Goal
      <3>1. /\ UNCHANGED <<closing, conn>> /\ reader[e] = "read" /\ conn[e] = "open"
            /\ UNCHANGED <<handshake, reader>> \/ reader'[e] = "blocked"
        BY <1>0, <2>2, Zenon DEF HandleCookieEcho, HandleCookieAck, Reads, Blocked, chanVars, Places
      <3>2. ~NoReads(e)
        BY <3>1, Zenon DEF NoReads
      <3>3. assoc[e].state \in Shutting => assoc' = assoc
        BY <2>2, Zenon DEF HandleCookieEcho, HandleCookieAck, CookieStates, Handshaking, Shutting
      <3> QED  BY <1>1, <3>1, <3>2, <3>3, Zenon DEF Shutting
    <2>3. ASSUME NEW p \in net, HandleShutdownComplete(e, p) PROVE Goal
      BY <1>3, <1>5, <2>3, Zenon DEF HandleShutdownComplete
    <2>4. ASSUME NEW p \in net, HandleAbort(e, p) PROVE Goal
      <3>1. reader'[e] = "exit" /\ handshake[e] = None /\ UNCHANGED handshake
        BY <1>0, <2>4, Zenon DEF HandleAbort, Reads, LockFree, Places
      <3> QED  BY <1>5, <2>4, <3>1, Zenon DEF HandleAbort
    <2>5. CASE ReadFails(e)
      <3>1. /\ reader'[e] = "exit" /\ reader[e] = "read" /\ UNCHANGED <<assoc, handshake>>
        BY <1>0, <2>5, Zenon DEF ReadFails, Places
      <3> QED  BY <1>1, <3>1, Zenon DEF NoReads
    <2>6. CASE ReadLoopEnds(e)
      <3>1. reader'[e] = "done" /\ handshake'[e] = None
        BY <1>0, <2>6, Zenon DEF ReadLoopEnds, LockFree, Places
      <3> QED  BY <3>1, Zenon DEF NoReads
    <2> QED  BY <1>7, <2>1, <2>2, <2>3, <2>4, <2>5, <2>6, Zenon DEF ReadStep
  <1>8. CASE WriteTurn(e)
    <2>1. PICK g : g = gatherOutbound(assoc[e])
      BY Zenon
    <2>2. PICK b : b = [g.assoc EXCEPT !.awake = @ /\ writer[e] = "gather"]
      BY Zenon
    <2>3. assoc[e].state \in Shutting => b.state # "closed"
      <3>1. Calm(e, assoc[e], g.assoc) /\ g.assoc.state = assoc[e].state
        BY <1>0, <2>1, GatherOutbound, Zenon
      <3>2. b.state = g.assoc.state
        BY <2>2, <3>1, Zenon DEF Calm, Keeps, AssocOK, Fields
      <3> QED  BY <3>1, <3>2, Zenon DEF Shutting
    <2>4. UNCHANGED <<handshake, reader>>
      BY <1>8, Zenon DEF WriteTurn
    <2>5. CASE Close(e, b)
      BY <1>5, <2>4, <2>5, Zenon
    <2>6. CASE Set(e, b) /\ UNCHANGED <<conn, closing>>
      BY <1>4, <2>3, <2>4, <2>6, Zenon
    <2>7. CASE conn[e] = "closed" /\ UNCHANGED <<conn, closing>>
      BY <1>2, <2>4, <2>7, Zenon DEF NoReads
    <2> QED  BY <1>8, <2>1, <2>2, <2>5, <2>6, <2>7, Zenon DEF WriteTurn
  <1>9. CASE ToldToClose(e)
    BY <1>1, <1>2, <1>9, Zenon DEF ToldToClose, chanVars, netVars
  <1>10. ASSUME NEW t \in TimerIds, TimerStep(e, t) PROVE Goal
    <2>1. CASE TimerFires(e, t)
      <3>1. PICK v : v = timeout(Expire(assoc[e].timer[t]), maxRetrans(t))
        BY Zenon
      <3>2. Set(e, [assoc[e] EXCEPT !.timer[t] = v]) /\ UNCHANGED <<closing, handshake, reader, conn>>
        BY <2>1, <3>1, Zenon DEF TimerFires, chanVars, netVars
      <3>3. assoc[e].state \in Shutting => [assoc[e] EXCEPT !.timer[t] = v].state # "closed"
        BY <1>0, StillOpen
      <3> QED  BY <1>4, <3>2, <3>3, Zenon
    <2>2. CASE TimerCallback(e, t)
      BY <1>0, <1>4, <2>2, StillOpen DEF TimerCallback, chanVars, netVars
    <2>3. CASE TimerGivesUp(e, t)
      BY <1>0, <1>1, <2>3, Zenon DEF TimerGivesUp, Block, chanVars, netVars, NoReads, Shutting, Places
    <2> QED  BY <1>10, <2>1, <2>2, <2>3, Zenon DEF TimerStep
  <1> QED  BY <1>6, <1>7, <1>8, <1>9, <1>10, Zenon DEF Step, WriteStep

\* The same of every step, an open included.
LEMMA ReadsOwn ==
  ASSUME TypeOK, GracefulInv, NEW e \in Endpoints, Step(e)
  PROVE  /\ NoReads(e) => NoReads(e)'
         /\ closing'[e] => NoReads(e)'
         /\ handshake'[e] # None => handshake'[e].by = "timer" \/ reader'[e] = "blocked"
  <1>1. CASE Open(e)
    <2>1. /\ UNCHANGED <<closing, conn, handshake>> /\ handshake[e] = None /\ reader[e] = "off"
      BY <1>1, Zenon DEF Open, TypeOK, Untouched, chanVars, netVars
    <2>2. closing[e] => NoReads(e)
      BY Zenon DEF GracefulInv
    <2> QED  BY <2>1, <2>2, Zenon DEF NoReads
  <1>2. CASE ~Open(e)
    BY <1>2, Opened, NoReadsStays, Zenon
  <1> QED  BY <1>1, <1>2, Zenon

\* An end that has drained stays so: it is never ESTABLISHED again.
LEMMA DrainedStays ==
  ASSUME TypeOK, AgreeInv, LateInv, GracefulInv, NEW e \in Endpoints, Step(e)
  PROVE  \A f \in Endpoints : Drained(f) => Drained(f)'
  <1>1. Elsewhere(e)
    BY AppPlaces, ReadPlaces, OtherPlaces, Zenon DEF Step, TypeOK
  <1>2. ASSUME NEW f \in Endpoints, f # e, Drained(f) PROVE Drained(f)'
    BY <1>1, <1>2, Zenon DEF Elsewhere, Drained, NoReads
  <1>3. ASSUME Drained(e) PROVE Drained(e)'
    <2>1. app[e] # "new" /\ app'[e] # "new"
      BY <1>3, StaysOpened, Zenon DEF Drained
    <2>2. ~Open(e)
      BY <2>1, Zenon DEF Open
    <2>3. /\ NoReads(e) => NoReads(e)'
          /\ assoc[e].state \in Shutting /\ assoc'[e].state = "closed" => NoReads(e)'
      BY <2>1, NoReadsStays, Zenon
    <2>4. /\ assoc[e].data # "inflight"
          /\ assoc[e].state \in Shutting \/ (assoc[e].state = "closed" /\ NoReads(e))
      BY <1>3, Zenon DEF Drained, Shutting
    <2>5. CASE Calm(e, assoc[e], assoc'[e]) \/ Ends(e, assoc[e], assoc'[e])
      <3>1. Ebbs(assoc[e], assoc'[e])
        BY <2>5, Zenon DEF Calm, Ends
      <3>2. assoc'[e].data # "inflight"
        BY <2>4, <3>1, Zenon DEF Ebbs, Shutting
      <3>3. assoc'[e].state \in Shutting \/ (assoc'[e].state = "closed" /\ NoReads(e)')
        BY <2>3, <2>4, <3>1, Zenon DEF Ebbs
      <3> QED  BY <2>1, <3>2, <3>3, Zenon DEF Drained, Shutting
    <2>6. CASE Asks(e, assoc[e], assoc'[e]) \/ Leaves(e, assoc[e], assoc'[e])
      <3>1. assoc'[e].data = assoc[e].data /\ assoc'[e].state \in {"shutdownPending", "shutdownSent"}
        BY <2>6, Zenon DEF Asks, Leaves, Same, Fields
      <3> QED  BY <2>1, <2>4, <3>1, Zenon DEF Drained
    <2>7. CASE /\ Reading(e)
               /\ Hears(e, assoc[e], assoc'[e]) \/ Answers(e, assoc[e], assoc'[e]) \/ Settles(e, assoc[e], assoc'[e])
      <3>1. assoc[e].state \in Handshaking /\ ~NoReads(e)
        BY <2>7, Zenon DEF Reading, NoReads, Hears, Answers, Settles, Handshaking
      <3> QED  BY <2>4, <3>1, Zenon DEF Shutting, Handshaking
    <2> QED  BY <2>2, <2>5, <2>6, <2>7, Outcomes, Zenon
  <1> QED  BY <1>2, <1>3, Zenon

\* The end that takes the step.
LEMMA GracefulOwn ==
  ASSUME TypeOK, AgreeInv, LateInv, GracefulInv, NEW e \in Endpoints, Step(e)
  PROVE  /\ assoc'[e].state \in {"shutdownSent", "shutdownAckSent"} => Drained(e)'
         /\ "shutdownAck" \in assoc'[e].willSend => Drained(e)'
         /\ "shutdownComplete" \in assoc'[e].willSend => Drained(e)' /\ Drained(Peer(e))'
  <1>0. /\ assoc[e].state \in {"shutdownSent", "shutdownAckSent"} => Drained(e)
        /\ "shutdownAck" \in assoc[e].willSend => Drained(e)
        /\ "shutdownComplete" \in assoc[e].willSend => Drained(e) /\ Drained(Peer(e))
    BY Zenon DEF GracefulInv
  <1>1. (Drained(e) => Drained(e)') /\ (Drained(Peer(e)) => Drained(Peer(e))')
    BY DrainedStays, Peers, Zenon
  <1>2. app'[e] # "new"
    BY StaysOpened, Zenon
  <1>3. CASE Calm(e, assoc[e], assoc'[e]) \/ Ends(e, assoc[e], assoc'[e])
    <2>1. Ebbs(assoc[e], assoc'[e])
      BY <1>3, Zenon DEF Calm, Ends
    <2>2. assoc'[e].state \in {"shutdownSent", "shutdownAckSent"} => Drained(e)'
      <3>1. CASE assoc[e].state \in {"shutdownSent", "shutdownAckSent"}
        BY <1>0, <1>1, <3>1, Zenon
      <3>2. CASE assoc[e].state \notin {"shutdownSent", "shutdownAckSent"}
        BY <1>2, <2>1, <3>2, Zenon DEF Ebbs, Drained
      <3> QED  BY <3>1, <3>2, Zenon
    <2>3. "shutdownAck" \in assoc'[e].willSend => Drained(e)'
      BY <1>0, <1>1, <2>1, <2>2, Zenon DEF Ebbs
    <2>4. CASE Calm(e, assoc[e], assoc'[e])
      BY <1>0, <1>1, <2>2, <2>3, <2>4, Zenon DEF Calm
    <2>5. CASE Ends(e, assoc[e], assoc'[e])
      <3>1. PICK p \in net : p.to = e /\ p.chunk.type = "SHUTDOWN-ACK"
        BY <2>5, Zenon DEF Ends
      <3>2. Drained(Peer(e))
        BY <3>1, Peers, Zenon DEF GracefulInv
      <3>3. Drained(e)
        BY <1>0, <2>5, Zenon DEF Ends
      <3> QED  BY <1>1, <2>2, <2>3, <3>2, <3>3, Zenon
    <2> QED  BY <1>3, <2>4, <2>5, Zenon
  <1>4. CASE Open(e)
    BY <1>4, Opens, Zenon
  <1>5. CASE Asks(e, assoc[e], assoc'[e])
    <2>1. assoc'[e].state = "shutdownPending" /\ assoc'[e].willSend = assoc[e].willSend
      BY <1>5, Zenon DEF Asks, Same, Fields
    <2> QED  BY <1>0, <1>1, <2>1, Zenon
  <1>6. CASE Leaves(e, assoc[e], assoc'[e])
    <2>1. /\ assoc'[e].state = "shutdownSent" /\ assoc'[e].willSend = assoc[e].willSend \cup {"shutdown"}
          /\ assoc'[e].data # "inflight"
      BY <1>6, Zenon DEF Leaves, Same, Fields
    <2>2. Drained(e)'
      BY <1>2, <2>1, Zenon DEF Drained
    <2> QED  BY <1>0, <1>1, <2>1, <2>2, Zenon
  <1>7. CASE Hears(e, assoc[e], assoc'[e]) \/ Answers(e, assoc[e], assoc'[e]) \/ Settles(e, assoc[e], assoc'[e])
    <2>1. /\ assoc'[e].state \notin {"shutdownSent", "shutdownAckSent"}
          /\ assoc'[e].willSend = assoc[e].willSend
      BY <1>7, Zenon DEF Hears, Answers, Settles, Same, Wants, Handshaking
    <2> QED  BY <1>0, <1>1, <2>1, Zenon
  <1> QED  BY <1>3, <1>4, <1>5, <1>6, <1>7, Outcomes, Zenon

\* Both ends, and what is in flight.
LEMMA GracefulNext ==
  ASSUME TypeOK, AgreeInv, LateInv, GracefulInv, [Next]_vars
  PROVE  GracefulInv'
  <1>1. CASE /\ UNCHANGED <<scenario, assoc, closing, readClosed, handshake, reader, writer, app, due, conn>>
             /\ net' \subseteq net
    <2>1. \A e \in Endpoints : (Drained(e)' <=> Drained(e)) /\ (NoReads(e)' <=> NoReads(e))
      BY <1>1, Zenon DEF Drained, NoReads
    <2> QED  BY <1>1, <2>1, Peers, Zenon DEF GracefulInv
  <1>2. ASSUME NEW e \in Endpoints, Step(e) PROVE GracefulInv'
    <2>1. Elsewhere(e)
      BY <1>2, AppPlaces, ReadPlaces, OtherPlaces, Zenon DEF Step, TypeOK
    <2>2. \A f \in Endpoints : Drained(f) => Drained(f)'
      BY <1>2, DrainedStays, Zenon
    <2>3. \A f \in Endpoints : Peer(f) \in Endpoints
      BY Peers, Zenon
    <2>4. ASSUME NEW f \in Endpoints
          PROVE  /\ closing'[f] => NoReads(f)'
                 /\ handshake'[f] # None => handshake'[f].by = "timer" \/ reader'[f] = "blocked"
      <3>1. CASE f = e
        BY <1>2, <3>1, ReadsOwn, Zenon
      <3>2. CASE f # e
        BY <2>1, <3>2, Zenon DEF Elsewhere, GracefulInv, NoReads
      <3> QED  BY <3>1, <3>2, Zenon
    <2>5. ASSUME NEW f \in Endpoints
          PROVE  /\ assoc'[f].state \in {"shutdownSent", "shutdownAckSent"} => Drained(f)'
                 /\ "shutdownAck" \in assoc'[f].willSend => Drained(f)'
                 /\ "shutdownComplete" \in assoc'[f].willSend => Drained(f)' /\ Drained(Peer(f))'
      <3>1. CASE f = e
        BY <1>2, <3>1, GracefulOwn, Zenon
      <3>2. CASE f # e
        BY <2>1, <2>2, <2>3, <3>2, Zenon DEF Elsewhere, GracefulInv
      <3> QED  BY <3>1, <3>2, Zenon
    <2>6. ASSUME NEW f \in Endpoints, NEW p \in net', p.to = Peer(f)
          PROVE  /\ p.chunk.type = "SHUTDOWN-ACK" => Drained(f)'
                 /\ p.chunk.type = "SHUTDOWN-COMPLETE" => Drained(f)' /\ Drained(Peer(f))'
      <3>1. CASE p \in net
        BY <2>2, <2>3, <2>6, <3>1, Zenon DEF GracefulInv
      <3>2. CASE p \notin net
        <4>1. p.to = Peer(e) /\ MaySend(assoc[e], p.chunk)
          BY <1>2, <3>2, NetSteps, Zenon
        <4>2. f = e
          BY <2>6, <4>1, Peers, Zenon
        <4>3. assoc[e].control \in Seq(ControlChunks(e))
          BY Zenon DEF TypeOK, AssocOK
        <4>4. \A c \in popAll(assoc[e].control) : c.type \notin {"SHUTDOWN-ACK", "SHUTDOWN-COMPLETE"}
          BY <4>3 DEF popAll, ControlChunks
        <4>5. /\ p.chunk.type = "SHUTDOWN-ACK" => "shutdownAck" \in assoc[e].willSend
              /\ p.chunk.type = "SHUTDOWN-COMPLETE" => "shutdownComplete" \in assoc[e].willSend
          BY <4>1, <4>4, Zenon DEF MaySend
        <4> QED  BY <2>2, <2>3, <4>2, <4>5, Zenon DEF GracefulInv
      <3> QED  BY <3>1, <3>2, Zenon
    <2> QED  BY <2>4, <2>5, <2>6, Zenon DEF GracefulInv
  <1> QED  BY <1>1, <1>2, WhoseStep, Zenon

-----------------------------------------------------------------------------
(* The theorems.                                                           *)

IInv == TypeOK /\ TimerInv /\ LateInv /\ AgreeInv /\ GracefulInv

\* The five hold at the start and are preserved together.
LEMMA IInvInit == Init => IInv
  <1> SUFFICES ASSUME Init PROVE IInv
    BY Zenon
  <1>1. TypeOK
    BY TypeInit, Zenon
  <1>2. ASSUME NEW e \in Endpoints
        PROVE  /\ writer[e] = "off" /\ app[e] = "new" /\ reader[e] = "off" /\ ~closing[e]
               /\ handshake[e] = None /\ assoc[e] = NewAssociation(e) /\ net = {}
    BY Zenon DEF Init
  <1>3. ASSUME NEW e \in Endpoints
        PROVE  /\ assoc[e].state = "closed" /\ assoc[e].storedInit = FALSE /\ assoc[e].storedCookieEcho = None
               /\ assoc[e].myCookie = None /\ assoc[e].willSend = {} /\ assoc[e].control = << >>
    <2>1. PICK a : a = NewAssociation(e)
      BY Zenon
    <2>2. /\ a.state = "closed" /\ a.storedInit = FALSE /\ a.storedCookieEcho = None
          /\ a.myCookie = None /\ a.willSend = {} /\ a.control = << >>
      BY <2>1, Fresh, Zenon
    <2> QED  BY <1>2, <2>1, <2>2, Zenon
  <1>4. TimerInv /\ LateInv
    BY <1>2, <1>3, Zenon DEF TimerInv, LateInv, Phase
  <1>5. AgreeInv
    <2>1. \A e \in Endpoints : DOMAIN assoc[e].control = {}
      <3>1. ASSUME NEW q, q = << >> PROVE DOMAIN q = {}
        BY <3>1
      <3> QED  BY <1>3, <3>1, Zenon
    <2> QED  BY <1>2, <1>3, <2>1, Zenon DEF AgreeInv, Up
  <1>6. GracefulInv
    BY <1>2, <1>3, Zenon DEF GracefulInv
  <1> QED  BY <1>1, <1>4, <1>5, <1>6, Zenon DEF IInv

\* The induction.
LEMMA Invariance == Spec => []IInv
  <1>1. IInv /\ [Next]_vars => IInv'
    BY TypeNext, TimerNext, LateNext, AgreeNext, GracefulNext, Zenon DEF IInv
  <1> QED  BY IInvInit, <1>1, PTL DEF Spec

\* Whatever crosses in the network, ends that are up agree: each knows the
\* other's tag and first TSN, both have settled on the same DATA and
\* FORWARD-TSN chunks, and no DATA is ever a protocol violation (handleInit,
\* handleInitAck, handleCookieEcho, handleCookieAck, handleData).
THEOREM Agreement == Spec => []HandshakeAgrees
  <1>1. IInv => HandshakeAgrees
    <2> SUFFICES ASSUME IInv, NEW e \in Endpoints, assoc[e].state \in Up,
                        role(e) = "snap" => app[Peer(e)] # "new"
                 PROVE  LET a == assoc[e]
                            b == assoc[Peer(e)]
                        IN  /\ a.peerTag = Peer(e) /\ a.peerTSN = Peer(e)
                            /\ b.peerTag = e /\ b.peerTSN = e
                            /\ a.useInterleaving = b.useInterleaving
                            /\ a.useForwardTSN = b.useForwardTSN
                            /\ a.useIForwardTSN = b.useIForwardTSN
                            /\ "violation" \notin a.willSend
      BY Zenon DEF HandshakeAgrees
    <2>1. Agreed(e) /\ "violation" \notin assoc[e].willSend
      BY Zenon DEF IInv, AgreeInv
    <2>2. Knows(e) /\ Knows(Peer(e))
      BY <2>1, Zenon DEF Agreed
    <2>3. Peer(Peer(e)) = e
      BY Peers, Zenon
    <2> QED  BY <2>1, <2>2, <2>3, Zenon DEF Knows, LocalKnows
  <1> QED  BY Invariance, <1>1, PTL

\* When SHUTDOWN-COMPLETE is written nothing is in flight at either end
\* (Shutdown, handleShutdown, handleSack and handleShutdownAck).
THEOREM GracefulShutdown == Spec => []GracefulMeansDelivered
  <1>1. IInv => GracefulMeansDelivered
    BY Zenon DEF IInv, GracefulInv, GracefulMeansDelivered, Drained
  <1> QED  BY Invariance, <1>1, PTL

\* When both loops have ended no timer is armed (readLoop, writeLoop, close).
THEOREM TimersEnd == Spec => []NoTimerOutlivesTheLoops
  <1>1. IInv => NoTimerOutlivesTheLoops
    BY Zenon DEF IInv, TimerInv, TimersClosed, NoTimerOutlivesTheLoops
  <1> QED  BY Invariance, <1>1, PTL

\* A T1 callback that comes late queues nothing that no longer belongs
\* (onRetransmissionTimeout, handleInitAck, handleCookieEcho).
THEOREM LateCallbacks == Spec => LateTimersAreHarmless
  <1>1. IInv /\ [Next]_vars =>
          \A e \in Endpoints :
            /\ Queues(e, "INIT") => assoc'[e].state \in {"closed", "cookieWait"}
            /\ Queues(e, "COOKIE-ECHO") => assoc'[e].state \in {"closed", "cookieEchoed"}
    BY LateStep, Zenon DEF IInv
  <1> QED  BY Invariance, <1>1, PTL DEF Spec, LateTimersAreHarmless

-----------------------------------------------------------------------------
(* Nobody is left waiting: the timers.                                     *)

\* T1: the timers of the open.
T1 == {"t1Init", "t1Cookie"}

\* A timer that runs will fire, fires once, and has not fired too often.
Sound(m, n) ==
  /\ m.armed <=> m.state = "started"
  /\ m.pending = IF m.armed THEN 1 ELSE 0
  /\ n # 0 => m.nRtos <= n
SoundTimers(a) == \A t \in TimerIds : Sound(a.timer[t], maxRetrans(t))

\* start, stop and close leave it so, and a stopped timer is running again.
LEMMA SoundCalls ==
  ASSUME NEW m \in Timer, NEW n \in Nat, Sound(m, n)
  PROVE  /\ Sound(start(m), n) /\ Sound(stop(m), n) /\ Sound(close(m), n)
         /\ start(m).state = "closed" => m.state = "closed"
         /\ stop(m).state = "closed" => m.state = "closed"
         /\ m.state # "closed" => start(m).state = "started"
  <1>1. /\ m.state \in {"stopped", "started", "closed"} /\ m.nRtos \in Nat
        /\ m.pending \in Int /\ m.armed \in BOOLEAN
        /\ DOMAIN m = {"state", "nRtos", "pending", "armed", "flying"}
    BY DEF Timer
  <1>2. CASE m.state = "started"
    <2>1. start(m) = m /\ m.armed /\ m.pending = 1
      BY <1>1, <1>2 DEF start, Sound
    <2>2. stop(m).state = "stopped" /\ stop(m).armed = FALSE /\ stop(m).pending = 0 /\ stop(m).nRtos = 0
      BY <1>1, <1>2, <2>1 DEF stop, AfterStop
    <2>3. close(m).state = "closed" /\ close(m).armed = FALSE /\ close(m).pending = 0 /\ close(m).nRtos = 0
      BY <1>1, <1>2, <2>1 DEF close, AfterStop
    <2> QED  BY <1>2, <2>1, <2>2, <2>3 DEF Sound
  <1>3. CASE m.state # "started"
    <2>1. stop(m) = m /\ ~m.armed /\ m.pending = 0
      BY <1>1, <1>3 DEF stop, Sound
    <2>2. m.state # "stopped" => start(m) = m
      BY DEF start
    <2>3. m.state = "stopped" => start(m).state = "started" /\ start(m).armed = TRUE /\ start(m).pending = 1 /\ start(m).nRtos = 0
      BY <1>1, <2>1 DEF start
    <2>4. close(m).state = "closed" /\ close(m).armed = FALSE /\ close(m).pending = 0 /\ close(m).nRtos = 0
      BY <1>1, <1>3, <2>1 DEF close
    <2> QED  BY <1>1, <1>3, <2>1, <2>2, <2>3, <2>4 DEF Sound
  <1> QED  BY <1>2, <1>3

\* An expiry re-arms the timer or is the last one.
LEMMA SoundExpiry ==
  ASSUME NEW m \in Timer, NEW n \in Nat, Sound(m, n), m.armed
  PROVE  LET x == timeout(Expire(m), n)
         IN  /\ Sound(x, n) /\ x.state # "closed"
             /\ IsExpiry(Expire(m))
             /\ \/ x.state = "started"
                \/ n # 0 /\ Callback(Expire(m), n) = "onRetransmissionFailure"
  <1>1. /\ m.state = "started" /\ m.nRtos \in Nat /\ m.pending = 1 /\ m.flying \in Nat
        /\ DOMAIN m = {"state", "nRtos", "pending", "armed", "flying"}
    BY DEF Timer, Sound
  <1>2. PICK x : x = Expire(m)
    BY Zenon
  <1>3. /\ DOMAIN x = DOMAIN m
        /\ x.state = "started" /\ x.nRtos = m.nRtos /\ x.pending = 1 /\ x.armed = FALSE /\ x.flying = m.flying + 1
    BY <1>1, <1>2 DEF Expire
  <1>4. IsExpiry(x)
    BY <1>3 DEF IsExpiry
  <1>5. PICK u : u = [x EXCEPT !.flying = @ - 1, !.pending = @ - 1]
    BY Zenon
  <1>6. /\ DOMAIN u = DOMAIN m /\ u.state = "started" /\ u.nRtos = m.nRtos /\ u.pending = 0 /\ u.armed = FALSE
    BY <1>1, <1>3, <1>5
  <1>7. CASE MayRetry(x, n)
    <2>1. PICK y : y = [u EXCEPT !.nRtos = @ + 1, !.armed = TRUE, !.pending = @ + 1]
      BY Zenon
    <2>2. y.state = "started" /\ y.armed = TRUE /\ y.pending = 1 /\ y.nRtos = m.nRtos + 1
      BY <1>1, <1>6, <2>1
    <2>3. timeout(x, n) = y
      BY <1>4, <1>5, <1>7, <2>1, Zenon DEF timeout
    <2>4. n # 0 => m.nRtos < n
      BY <1>3, <1>7 DEF MayRetry
    <2>5. Sound(y, n)
      BY <1>1, <2>2, <2>4 DEF Sound
    <2> QED  BY <1>2, <1>4, <2>2, <2>3, <2>5
  <1>8. CASE ~MayRetry(x, n)
    <2>1. PICK y : y = [u EXCEPT !.nRtos = 0, !.state = "stopped"]
      BY Zenon
    <2>2. y.state = "stopped" /\ y.armed = FALSE /\ y.pending = 0 /\ y.nRtos = 0
      BY <1>1, <1>6, <2>1
    <2>3. timeout(x, n) = y
      BY <1>4, <1>5, <1>8, <2>1, Zenon DEF timeout
    <2>4. n # 0 /\ Callback(x, n) = "onRetransmissionFailure"
      BY <1>8, Zenon DEF MayRetry, Callback
    <2>5. Sound(y, n)
      BY <2>2 DEF Sound
    <2> QED  BY <1>2, <1>4, <2>2, <2>3, <2>4, <2>5
  <1> QED  BY <1>7, <1>8

-----------------------------------------------------------------------------
(* Nobody is left waiting: what the handlers do to the timers.             *)

\* The handshake is not begun again, and T1 is left alone.
Gentle(a, b) ==
  /\ b.state \in Handshaking => a.state \in Handshaking
  /\ \A t \in TimerIds : b.timer[t] \in {a.timer[t], start(a.timer[t]), stop(a.timer[t])}
  /\ \A t \in T1 : b.timer[t] = a.timer[t]

\* Nothing but other fields.
LEMMA GentleSame ==
  ASSUME NEW a, NEW b, b.timer = a.timer, b.state \in Handshaking => a.state \in Handshaking
  PROVE  Gentle(a, b)
  BY Zenon DEF Gentle, T1

\* One timer that is not T1, started or stopped.
LEMMA GentleTimer ==
  ASSUME NEW e, NEW a, AssocOK(e, a), NEW t \in TimerIds \ T1
  PROVE  /\ Gentle(a, startTimer(a, t)) /\ startTimer(a, t).state = a.state
         /\ Gentle(a, stopTimer(a, t)) /\ stopTimer(a, t).state = a.state
  <1>1. /\ DOMAIN a = Fields /\ "timer" \in Fields /\ "state" \in Fields /\ DOMAIN a.timer = TimerIds
        /\ T1 \subseteq TimerIds
    BY Zenon DEF AssocOK, Fields, T1, TimerIds
  <1>2. PICK b, c : b = startTimer(a, t) /\ c = stopTimer(a, t)
    BY Zenon
  <1>3. /\ b.state = a.state /\ b.timer = [a.timer EXCEPT ![t] = start(@)]
        /\ c.state = a.state /\ c.timer = [a.timer EXCEPT ![t] = stop(@)]
    BY <1>1, <1>2, Zenon DEF startTimer, stopTimer
  <1>4. Gentle(a, b) /\ Gentle(a, c)
    BY <1>1, <1>3, Zenon DEF Gentle
  <1> QED  BY <1>2, <1>3, <1>4, Zenon

\* The handlers of the read loop but those of INIT-ACK and of the cookies.
LEMMA GentleReads ==
  ASSUME NEW e \in Endpoints, NEW a, AssocOK(e, a)
  PROVE  /\ \A c : Gentle(a, handleInit(a, e, c))
         /\ a.state # "cookieWait" => \A c : Gentle(a, handleInitAck(a, c))
         /\ \A c : Gentle(a, handleData(a, c))
         /\ Gentle(a, handleSack(a)) /\ Gentle(a, handleShutdown(a)) /\ Gentle(a, handleShutdownAck(a))
  <1>0. /\ DOMAIN a = Fields /\ "timer" \in Fields /\ "state" \in Fields /\ Gentle(a, a)
        /\ "t3RTX" \in TimerIds \ T1 /\ "t2Shutdown" \in TimerIds \ T1
    BY GentleSame, Zenon DEF AssocOK, Fields, TimerIds, T1
  <1>1. ASSUME NEW c PROVE Gentle(a, handleInit(a, e, c))
    <2>1. PICK b : b = [learnPeer(a, c.ext) EXCEPT !.myCookie = e]
      BY Zenon
    <2>2. DOMAIN b = Fields /\ b.timer = a.timer /\ b.state = a.state
      BY <1>0, <2>1, Zenon DEF learnPeer, updateInterleavingState
    <2>3. ASSUME NEW k PROVE Gentle(a, push(b, k))
      <3>1. push(b, k).timer = a.timer /\ push(b, k).state = a.state
        BY <1>0, <2>2, Zenon DEF push, awakeWriteLoop
      <3> QED  BY <3>1, GentleSame, Zenon
    <2> QED  BY <1>0, <2>1, <2>3, Zenon DEF handleInit
  <1>2. a.state # "cookieWait" => \A c : Gentle(a, handleInitAck(a, c))
    BY <1>0, Zenon DEF handleInitAck
  <1>3. ASSUME NEW c PROVE Gentle(a, handleData(a, c))
    <2>1. PICK b, d : b = violation(a) /\ d = awakeWriteLoop([a EXCEPT !.received = TRUE, !.ackNow = TRUE])
      BY Zenon
    <2>2. b.timer = a.timer /\ b.state = a.state /\ d.timer = a.timer /\ d.state = a.state
      BY <1>0, <2>1, Zenon DEF violation, will, awakeWriteLoop
    <2>3. Gentle(a, b) /\ Gentle(a, d)
      BY <2>2, GentleSame, Zenon
    <2> QED  BY <1>0, <2>1, <2>3, Zenon DEF handleData
  <1>4. Gentle(a, handleSack(a))
    <2>1. PICK s : s = stopTimer(a, "t3RTX")
      BY Zenon
    <2>2. Gentle(a, s) /\ s.state = a.state /\ DOMAIN s = Fields
      BY <1>0, <2>1, GentleTimer, Zenon DEF stopTimer
    <2>3. PICK b : b = awakeWriteLoop([s EXCEPT !.data = IF @ = "inflight" THEN "acked" ELSE @, !.retransmit = FALSE])
      BY Zenon
    <2>4. b.timer = s.timer /\ b.state = a.state /\ DOMAIN b = Fields
      BY <1>0, <2>2, <2>3, Zenon DEF awakeWriteLoop
    <2>5. PICK c : c = AckShutdown(b)
      BY Zenon
    <2>6. c.timer = s.timer /\ (c.state = a.state \/ c.state \notin Handshaking)
      BY <1>0, <2>4, <2>5, Zenon DEF AckShutdown, setState, will, awakeWriteLoop, Handshaking
    <2>7. Gentle(a, c)
      BY <2>2, <2>6, Zenon DEF Gentle
    <2> QED  BY <1>0, <2>1, <2>3, <2>5, <2>7, Zenon DEF handleSack
  <1>5. Gentle(a, handleShutdown(a))
    <2>1. PICK b, c : b = AckAtOnce(a) /\ c = setState(a, "shutdownReceived")
      BY Zenon
    <2>2. b.timer = a.timer /\ b.state \notin Handshaking /\ c.timer = a.timer /\ c.state \notin Handshaking
      BY <1>0, <2>1, Zenon DEF AckAtOnce, setState, will, awakeWriteLoop, Handshaking
    <2>3. Gentle(a, b) /\ Gentle(a, c)
      BY <2>2, GentleSame, Zenon
    <2> QED  BY <1>0, <2>1, <2>3, Zenon DEF handleShutdown
  <1>6. Gentle(a, handleShutdownAck(a))
    <2>1. PICK s : s = stopTimer(a, "t2Shutdown")
      BY Zenon
    <2>2. Gentle(a, s) /\ s.state = a.state /\ DOMAIN s = Fields
      BY <1>0, <2>1, GentleTimer, Zenon DEF stopTimer
    <2>3. will(s, "shutdownComplete").timer = s.timer /\ will(s, "shutdownComplete").state = s.state
      BY <1>0, <2>2, Zenon DEF will, awakeWriteLoop
    <2>4. Gentle(a, will(s, "shutdownComplete"))
      BY <2>2, <2>3, Zenon DEF Gentle
    <2> QED  BY <1>0, <2>1, <2>4, Zenon DEF handleShutdownAck
  <1> QED  BY <1>1, <1>2, <1>3, <1>4, <1>5, <1>6, Zenon

\* The calls of the application and the callbacks of the timers.
LEMMA GentleCalls ==
  ASSUME NEW e \in Endpoints, NEW a, AssocOK(e, a)
  PROVE  /\ \A w : Gentle(a, will(a, w))
         /\ \A c : Gentle(a, push(a, c)) /\ push(a, c).state = a.state
         /\ \A i : Gentle(a, awakeWriteLoop([a EXCEPT !.data = "pending", !.idata = i]))
         /\ \A s \in States \ Handshaking : Gentle(a, setState(a, s)) /\ Gentle(a, setState(will(a, "shutdown"), s))
         /\ \A t : Gentle(a, onRetransmissionTimeout(a, e, t))
  <1>0. /\ DOMAIN a = Fields /\ "timer" \in Fields /\ "state" \in Fields /\ Gentle(a, a)
    BY GentleSame, Zenon DEF AssocOK, Fields
  <1>1. ASSUME NEW w PROVE Gentle(a, will(a, w))
    <2>1. will(a, w).timer = a.timer /\ will(a, w).state = a.state
      BY <1>0, Zenon DEF will, awakeWriteLoop
    <2> QED  BY <2>1, GentleSame, Zenon
  <1>2. ASSUME NEW c PROVE Gentle(a, push(a, c)) /\ push(a, c).state = a.state
    <2>1. push(a, c).timer = a.timer /\ push(a, c).state = a.state
      BY <1>0, Zenon DEF push, awakeWriteLoop
    <2> QED  BY <2>1, GentleSame, Zenon
  <1>3. ASSUME NEW i PROVE Gentle(a, awakeWriteLoop([a EXCEPT !.data = "pending", !.idata = i]))
    <2>1. PICK b : b = awakeWriteLoop([a EXCEPT !.data = "pending", !.idata = i])
      BY Zenon
    <2>2. b.timer = a.timer /\ b.state = a.state
      BY <1>0, <2>1, Zenon DEF awakeWriteLoop
    <2> QED  BY <2>1, <2>2, GentleSame, Zenon
  <1>4. ASSUME NEW s \in States \ Handshaking
        PROVE  Gentle(a, setState(a, s)) /\ Gentle(a, setState(will(a, "shutdown"), s))
    <2>1. PICK b, c : b = setState(a, s) /\ c = setState(will(a, "shutdown"), s)
      BY Zenon
    <2>2. b.timer = a.timer /\ b.state = s /\ c.timer = a.timer /\ c.state = s
      BY <1>0, <2>1, Zenon DEF setState, will, awakeWriteLoop
    <2> QED  BY <2>1, <2>2, GentleSame, Zenon
  <1>5. ASSUME NEW t PROVE Gentle(a, onRetransmissionTimeout(a, e, t))
    <2>1. PICK b : b = awakeWriteLoop([a EXCEPT !.retransmit = a.data = "inflight"])
      BY Zenon
    <2>2. b.timer = a.timer /\ b.state = a.state
      BY <1>0, <2>1, Zenon DEF awakeWriteLoop
    <2>3. Gentle(a, b)
      BY <2>2, GentleSame, Zenon
    <2>4. Gentle(a, sendInit(a, e)) /\ Gentle(a, sendCookieEcho(a))
      BY <1>0, <1>2, Zenon DEF sendInit, sendCookieEcho
    <2> QED  BY <1>0, <1>1, <2>1, <2>3, <2>4, Zenon DEF onRetransmissionTimeout
  <1> QED  BY <1>1, <1>2, <1>3, <1>4, <1>5, Zenon

\* The gatherers: T3 and T2 are started, if anything.
LEMMA GentleGather ==
  ASSUME NEW e \in Endpoints, NEW a, AssocOK(e, a)
  PROVE  Gentle(a, gatherOutbound(a).assoc) /\ gatherOutbound(a).assoc.state = a.state
  <1>0. /\ DOMAIN a = Fields /\ {"timer", "state", "retransmit", "data", "ackNow", "willSend", "control"} \subseteq Fields
        /\ DOMAIN a.timer = TimerIds /\ T1 \subseteq TimerIds
        /\ "t3RTX" \in TimerIds \ T1 /\ "t2Shutdown" \in TimerIds \ T1
    BY Zenon DEF AssocOK, Fields, TimerIds, T1
  <1>1. gatherOutbound(a).assoc.state = a.state
    BY GatherOutbound, Zenon
  <1>2. CASE "abort" \in a.willSend
    <2>1. gatherOutbound(a).assoc = [a EXCEPT !.willSend = @ \ {"abort", "violation"}]
      BY <1>2, Zenon DEF gatherOutbound
    <2>2. gatherOutbound(a).assoc.timer = a.timer
      BY <1>0, <2>1, Zenon
    <2> QED  BY <1>1, <2>2, GentleSame, Zenon
  <1>3. CASE "abort" \notin a.willSend
    <2> DEFINE Only(g, S) ==
          /\ DOMAIN g.assoc = Fields /\ DOMAIN g.assoc.timer = TimerIds
          /\ \A t \in TimerIds \ S : g.assoc.timer[t] = a.timer[t]
          /\ \A t \in S : g.assoc.timer[t] \in {a.timer[t], start(a.timer[t])}
    <2>1. ASSUME NEW g, NEW S, Only(g, S) PROVE Only(gatherRetransmit(g), S)
      BY <1>0, <2>1, Zenon DEF gatherRetransmit, Add
    <2>2. ASSUME NEW g, Only(g, {}) PROVE Only(gatherData(g), {"t3RTX"})
      <3>1. CASE g.assoc.data = "pending"
        <4>1. PICK d : d = [g.assoc EXCEPT !.data = "inflight"]
          BY Zenon
        <4>2. DOMAIN d = Fields /\ d.timer = g.assoc.timer
          BY <1>0, <2>2, <4>1, Zenon
        <4>3. PICK b : b = startTimer(d, "t3RTX")
          BY Zenon
        <4>4. DOMAIN b = Fields /\ b.timer = [g.assoc.timer EXCEPT !["t3RTX"] = start(@)]
          BY <1>0, <4>2, <4>3, Zenon DEF startTimer
        <4>5. gatherData(g).assoc = b
          BY <3>1, <4>1, <4>3, Zenon DEF gatherData, Add
        <4> QED  BY <1>0, <2>2, <4>4, <4>5, Zenon
      <3>2. CASE g.assoc.data # "pending"
        BY <1>0, <2>2, <3>2, Zenon DEF gatherData
      <3> QED  BY <3>1, <3>2, Zenon
    <2>3. ASSUME NEW g, NEW S, Only(g, S) PROVE Only(gatherSack(g), S)
      BY <1>0, <2>3, Zenon DEF gatherSack, Add
    <2>4. ASSUME NEW g, Only(g, {}) PROVE Only(gatherShutdown(g), {"t2Shutdown"})
      BY <1>0, <2>4, Zenon DEF gatherShutdown, Add, startTimer, Took
    <2>5. PICK g : g = [assoc |-> [a EXCEPT !.control = << >>], packets |-> popAll(a.control)]
      BY Zenon
    <2>6. Only(g, {})
      BY <1>0, <2>5, Zenon
    <2>7. PICK h : h = gatherInState(g)
      BY Zenon
    <2>8. Only(h, {}) \/ Only(h, {"t3RTX"}) \/ Only(h, {"t2Shutdown"})
      <3> HIDE DEF Only
      <3> QED  BY <2>1, <2>2, <2>3, <2>4, <2>6, <2>7, Zenon DEF gatherInState
    <2>9. gatherOutbound(a).assoc = h.assoc
      BY <1>3, <2>5, <2>7, Zenon DEF gatherOutbound
    <2> QED  BY <1>0, <1>1, <2>8, <2>9, Zenon DEF Gentle
  <1> QED  BY <1>1, <1>2, <1>3, Zenon

\* Timers that were sound stay so, and none is closed.
LEMMA GentleSound ==
  ASSUME NEW e, NEW a, AssocOK(e, a), SoundTimers(a), NEW b, Gentle(a, b)
  PROVE  SoundTimers(b) /\ \A t \in TimerIds : b.timer[t].state = "closed" => a.timer[t].state = "closed"
  <1> SUFFICES ASSUME NEW t \in TimerIds
               PROVE  /\ Sound(b.timer[t], maxRetrans(t))
                      /\ b.timer[t].state = "closed" => a.timer[t].state = "closed"
    BY Zenon DEF SoundTimers
  <1>1. PICK m, n : m = a.timer[t] /\ n = maxRetrans(t)
    BY Zenon
  <1>2. m \in Timer /\ n \in Nat /\ Sound(m, n)
    BY <1>1, RetransAssumption DEF AssocOK, SoundTimers, maxRetrans
  <1>3. b.timer[t] \in {m, start(m), stop(m)}
    BY <1>1, Zenon DEF Gentle
  <1>4. /\ Sound(start(m), n) /\ Sound(stop(m), n) /\ Sound(close(m), n)
        /\ start(m).state = "closed" => m.state = "closed"
        /\ stop(m).state = "closed" => m.state = "closed"
        /\ m.state # "closed" => start(m).state = "started"
    BY <1>2, SoundCalls, Zenon
  <1> QED  BY <1>1, <1>2, <1>3, <1>4

\* close() closes them all.
LEMMA CloseSound ==
  ASSUME NEW e, NEW a, AssocOK(e, a), SoundTimers(a)
  PROVE  SoundTimers(closeAssoc(a)) /\ closeAssoc(a).state = "closed"
  <1>1. PICK b : b = closeAssoc(a)
    BY Zenon
  <1>2. DOMAIN a = Fields /\ "timer" \in Fields /\ "state" \in Fields
    BY Zenon DEF AssocOK, Fields
  <1>3. b.timer = [t \in TimerIds |-> close(a.timer[t])] /\ b.state = "closed"
    BY <1>1, <1>2, Zenon DEF closeAssoc, closeAllTimers, setState
  <1>4. ASSUME NEW t \in TimerIds PROVE Sound(b.timer[t], maxRetrans(t))
    <2>1. PICK m, n : m = a.timer[t] /\ n = maxRetrans(t)
      BY Zenon
    <2>2. m \in Timer /\ n \in Nat /\ Sound(m, n)
      BY <2>1, RetransAssumption DEF AssocOK, SoundTimers, maxRetrans
    <2>3. b.timer[t] = close(m)
      BY <1>3, <2>1, Zenon
    <2>4. /\ Sound(start(m), n) /\ Sound(stop(m), n) /\ Sound(close(m), n)
          /\ start(m).state = "closed" => m.state = "closed"
          /\ stop(m).state = "closed" => m.state = "closed"
          /\ m.state # "closed" => start(m).state = "started"
      BY <2>2, SoundCalls, Zenon
    <2> QED  BY <2>1, <2>3, <2>4
  <1> QED  BY <1>1, <1>3, <1>4, Zenon DEF SoundTimers

\* The INIT-ACK hands T1 from t1Init to t1Cookie.
LEMMA InitAckTimers ==
  ASSUME NEW e \in Endpoints, NEW a, AssocOK(e, a), SoundTimers(a), a.state = "cookieWait",
         NEW c, NEW r, r = handleInitAck(a, c)
  PROVE  /\ SoundTimers(r)
         /\ \A t \in TimerIds : r.timer[t].state = "closed" => a.timer[t].state = "closed"
         /\ a.timer["t1Cookie"].state # "closed" => r.timer["t1Cookie"].state = "started"
  <1>0. /\ DOMAIN a = Fields /\ {"timer", "state"} \subseteq Fields /\ DOMAIN a.timer = TimerIds
        /\ "t1Init" \in TimerIds /\ "t1Cookie" \in TimerIds
    BY Zenon DEF AssocOK, Fields, TimerIds
  <1>1. PICK d : d = learnPeer(a, c.ext)
    BY Zenon
  <1>2. DOMAIN d = Fields /\ d.timer = a.timer
    BY <1>0, <1>1, Zenon DEF learnPeer, updateInterleavingState
  <1>3. PICK f : f = [ForgetInit(d) EXCEPT !.storedCookieEcho = c.cookie]
    BY Zenon
  <1>4. DOMAIN f = Fields /\ f.timer = [a.timer EXCEPT !["t1Init"] = stop(@)]
    BY <1>0, <1>2, <1>3, Zenon DEF ForgetInit, stopTimer
  <1>5. PICK h : h = sendCookieEcho(f)
    BY Zenon
  <1>6. DOMAIN h = Fields /\ h.timer = f.timer
    BY <1>0, <1>4, <1>5, Zenon DEF sendCookieEcho, push, awakeWriteLoop
  <1>7. PICK b : b = setState(startTimer(h, "t1Cookie"), "cookieEchoed")
    BY Zenon
  <1>8. b.timer = [f.timer EXCEPT !["t1Cookie"] = start(@)]
    BY <1>0, <1>6, <1>7, Zenon DEF startTimer, setState
  <1>9. /\ b.timer["t1Init"] = stop(a.timer["t1Init"]) /\ b.timer["t1Cookie"] = start(a.timer["t1Cookie"])
        /\ \A t \in TimerIds \ T1 : b.timer[t] = a.timer[t]
    BY <1>0, <1>4, <1>8, Zenon DEF T1
  <1>10. ASSUME NEW t \in TimerIds
         PROVE  /\ Sound(b.timer[t], maxRetrans(t))
                /\ b.timer[t].state = "closed" => a.timer[t].state = "closed"
                /\ t = "t1Cookie" /\ a.timer[t].state # "closed" => b.timer[t].state = "started"
    <2>1. PICK m, n : m = a.timer[t] /\ n = maxRetrans(t)
      BY Zenon
    <2>2. m \in Timer /\ n \in Nat /\ Sound(m, n)
      BY <2>1, RetransAssumption DEF AssocOK, SoundTimers, maxRetrans
    <2>3. b.timer[t] \in {m, stop(m), start(m)} /\ (t = "t1Cookie" => b.timer[t] = start(m))
      BY <1>9, <2>1, Zenon DEF T1
    <2>4. /\ Sound(start(m), n) /\ Sound(stop(m), n) /\ Sound(close(m), n)
          /\ start(m).state = "closed" => m.state = "closed"
          /\ stop(m).state = "closed" => m.state = "closed"
          /\ m.state # "closed" => start(m).state = "started"
      BY <2>2, SoundCalls, Zenon
    <2> QED  BY <2>1, <2>2, <2>3, <2>4
  <1>11. r = b
    BY <1>1, <1>3, <1>5, <1>7, Zenon DEF handleInitAck
  <1> QED  BY <1>0, <1>10, <1>11, Zenon DEF SoundTimers

\* The cookies stop T1.
LEMMA CookieTimers ==
  ASSUME NEW e \in Endpoints, NEW a, AssocOK(e, a), SoundTimers(a)
  PROVE  \A b \in {establish(ForgetCookieEcho(ForgetInit(a))), establish(ForgetCookieEcho(a))} :
           /\ SoundTimers(b) /\ b.state = "established"
           /\ \A t \in TimerIds : b.timer[t].state = "closed" => a.timer[t].state = "closed"
  <1>0. /\ DOMAIN a = Fields /\ {"timer", "state"} \subseteq Fields /\ DOMAIN a.timer = TimerIds
        /\ "t1Init" \in TimerIds /\ "t1Cookie" \in TimerIds
    BY Zenon DEF AssocOK, Fields, TimerIds
  <1>1. ASSUME NEW d, DOMAIN d = Fields, NEW b, b = establish(ForgetCookieEcho(d))
        PROVE  b.state = "established" /\ b.timer = [d.timer EXCEPT !["t1Cookie"] = stop(@)]
    BY <1>0, <1>1, Zenon DEF establish, updateInterleavingState, setState, ForgetCookieEcho, stopTimer
  <1>2. PICK d : d = ForgetInit(a)
    BY Zenon
  <1>3. DOMAIN d = Fields /\ d.timer = [a.timer EXCEPT !["t1Init"] = stop(@)]
    BY <1>0, <1>2, Zenon DEF ForgetInit, stopTimer
  <1>4. ASSUME NEW b, \A t \in TimerIds : b.timer[t] \in {a.timer[t], stop(a.timer[t])}
        PROVE  SoundTimers(b) /\ \A t \in TimerIds : b.timer[t].state = "closed" => a.timer[t].state = "closed"
    <2> SUFFICES ASSUME NEW t \in TimerIds
                 PROVE  /\ Sound(b.timer[t], maxRetrans(t))
                        /\ b.timer[t].state = "closed" => a.timer[t].state = "closed"
      BY Zenon DEF SoundTimers
    <2>1. PICK m, n : m = a.timer[t] /\ n = maxRetrans(t)
      BY Zenon
    <2>2. m \in Timer /\ n \in Nat /\ Sound(m, n)
      BY <2>1, RetransAssumption DEF AssocOK, SoundTimers, maxRetrans
    <2>3. /\ Sound(start(m), n) /\ Sound(stop(m), n) /\ Sound(close(m), n)
          /\ start(m).state = "closed" => m.state = "closed"
          /\ stop(m).state = "closed" => m.state = "closed"
          /\ m.state # "closed" => start(m).state = "started"
      BY <2>2, SoundCalls, Zenon
    <2> QED  BY <1>4, <2>1, <2>2, <2>3
  <1>5. ASSUME NEW b, b = establish(ForgetCookieEcho(a))
        PROVE  b.state = "established" /\ \A t \in TimerIds : b.timer[t] \in {a.timer[t], stop(a.timer[t])}
    <2>1. b.state = "established" /\ b.timer = [a.timer EXCEPT !["t1Cookie"] = stop(@)]
      BY <1>0, <1>1, <1>5, Zenon
    <2> QED  BY <1>0, <2>1, Zenon
  <1>6. ASSUME NEW b, b = establish(ForgetCookieEcho(d))
        PROVE  b.state = "established" /\ \A t \in TimerIds : b.timer[t] \in {a.timer[t], stop(a.timer[t])}
    <2>1. b.state = "established" /\ b.timer = [d.timer EXCEPT !["t1Cookie"] = stop(@)]
      BY <1>1, <1>3, <1>6, Zenon
    <2>2. "t1Init" # "t1Cookie" /\ d.timer["t1Cookie"] = a.timer["t1Cookie"]
      BY <1>0, <1>3, Zenon
    <2> QED  BY <1>0, <1>3, <2>1, <2>2, Zenon
  <1> QED  BY <1>2, <1>4, <1>5, <1>6, Zenon

-----------------------------------------------------------------------------
(* Nobody is left waiting: the channels that end the loops.                *)

\* A read loop that ends, and a connection that is closed, have closed
\* closeWriteLoopCh; readLoopCloseCh is closed when the read loop has ended;
\* who waits for it has seen to it that reading fails; a handler that is
\* blocked is the one that completeHandshake serves.
Control(e) ==
  /\ app[e] # "new" => reader[e] # "off" /\ writer[e] # "off"
  /\ closing[e] => app[e] # "new"
  /\ readClosed[e] <=> reader[e] = "done"
  /\ reader[e] \in {"exit", "done"} => closing[e]
  /\ conn[e] = "closed" => closing[e]
  /\ app[e] = "closing" => conn[e] # "open"
  /\ handshake[e] \in Handshakes \cup {None}
  /\ reader[e] = "blocked" <=> handshake[e] # None /\ handshake[e].by = "reader"

\* Each step of e keeps it so, and a closed channel stays closed.
LEMMA ControlStep ==
  ASSUME TypeOK, GracefulInv, NEW e \in Endpoints, Step(e), Control(e)
  PROVE  Control(e)' /\ (closing[e] => closing'[e])
  <1> DEFINE Goal == Control(e)' /\ (closing[e] => closing'[e])
  <1>0. /\ Places /\ e # None /\ None \notin Endpoints
        /\ handshake[e] # None => handshake[e].by = "timer" \/ reader[e] = "blocked"
    BY Peers, EndpointsAssumption, Zenon DEF TypeOK, GracefulInv
  <1>1. CASE Open(e)
    <2>1. app[e] = "new" /\ handshake[e] = None /\ ~closing[e]
      BY <1>1, Zenon DEF Open, TypeOK, Untouched, Control
    <2>2. /\ reader'[e] = "read" /\ writer'[e] = "gather" /\ app'[e] \in {"opening", "open"}
          /\ UNCHANGED <<closing, readClosed, handshake, conn>>
      BY <1>0, <1>1, Zenon DEF Open, Goto, Places, chanVars, netVars
    <2>3. ~readClosed[e] /\ conn[e] # "closed"
      BY <2>1, Zenon DEF Control
    <2> QED  BY <2>1, <2>2, <2>3, Zenon DEF Control
  <1>2. ASSUME app[e] # "new", UNCHANGED <<closing, readClosed, handshake, reader, conn>>,
               app'[e] \notin {"new", "closing"} \/ app' = app, writer'[e] # "off"
        PROVE  Goal
    BY <1>2, Zenon DEF Control
  <1>3. CASE ~Open(e)
    <2>0. app[e] # "new" /\ writer[e] # "off" /\ reader[e] # "off"
      BY <1>3, Opened, Zenon DEF Control
    <2>1. CASE HandshakeCompleted(e) \/ HandshakeDropped(e)
      <3>1. /\ handshake[e] # None /\ handshake'[e] = None
            /\ reader'[e] = IF handshake[e].by = "reader" THEN "read" ELSE reader[e]
            /\ app'[e] \in {app[e], "open", "failed"}
            /\ UNCHANGED <<closing, readClosed, writer, conn>>
        BY <1>0, <2>1 DEF HandshakeCompleted, HandshakeDropped, Goto, Places, chanVars, netVars
      <3>2. handshake[e].by \in {"reader", "timer"}
        BY <3>1, Zenon DEF Control, Handshakes
      <3> QED  BY <1>0, <2>0, <3>1, <3>2, Zenon DEF Control
    <2>2. CASE OpenRefused(e) \/ Write(e) \/ ShutdownCheck(e) \/ ShutdownSet(e) \/ ShutdownLocked(e)
               \/ ShutdownReturns(e) \/ AbortAsk(e) \/ CloseReturns(e)
      <3>1. /\ UNCHANGED <<closing, readClosed, handshake, reader, conn, writer>>
            /\ app'[e] \notin {"new", "closing"} \/ app' = app
        BY <1>0, <2>2, Zenon DEF OpenRefused, Write, ShutdownCheck, ShutdownSet, ShutdownLocked,
           ShutdownReturns, AbortAsk, CloseReturns, Goto, Places, chanVars, netVars
      <3> QED  BY <1>2, <2>0, <3>1, Zenon
    <2>3. CASE AbortFlushed(e)
      <3>1. /\ conn'[e] = IF conn[e] = "open" THEN "deadline" ELSE conn[e]
            /\ app'[e] = "closing" /\ UNCHANGED <<closing, readClosed, handshake, reader, writer>>
        BY <1>0, <2>3, Zenon DEF AbortFlushed, Goto, Places, chanVars
      <3> QED  BY <2>0, <3>1, Zenon DEF Control
    <2>4. CASE OpenCanceled(e) \/ CloseAsk(e)
      <3>1. /\ conn'[e] = "closed" /\ closing'[e] = TRUE /\ app'[e] = "closing"
            /\ UNCHANGED <<readClosed, handshake, reader, writer>>
        BY <1>0, <2>4, Zenon DEF OpenCanceled, CloseAsk, Close, Goto, Places
      <3> QED  BY <2>0, <3>1, Zenon DEF Control
    <2>5. ASSUME NEW p \in net, HandleSimple(e, p) PROVE Goal
      BY <1>2, <2>0, <2>5, Zenon DEF HandleSimple, chanVars
    <2>6. ASSUME NEW p \in net, HandleCookieEcho(e, p) \/ HandleCookieAck(e, p) PROVE Goal
      <3>1. CASE UNCHANGED <<handshake, reader>>
        BY <1>2, <2>0, <2>6, <3>1, Zenon DEF HandleCookieEcho, HandleCookieAck, chanVars
      <3>2. CASE ~UNCHANGED <<handshake, reader>>
        <4>1. /\ reader[e] = "read" /\ reader'[e] = "blocked" /\ UNCHANGED <<closing, readClosed, app, conn, writer>>
              /\ \E ack \in BOOLEAN : handshake'[e] = [by |-> "reader", ok |-> TRUE, ack |-> ack]
          BY <1>0, <2>6, <3>2, Zenon DEF HandleCookieEcho, HandleCookieAck, Reads, Block, Blocked, Places, chanVars
        <4>2. handshake'[e] \in Handshakes /\ handshake'[e].by = "reader"
          BY <4>1 DEF Handshakes
        <4> QED  BY <2>0, <4>1, <4>2, NoneAssumption, Zenon DEF Control
      <3> QED  BY <3>1, <3>2, Zenon
    <2>7. ASSUME NEW p \in net, HandleShutdownComplete(e, p) PROVE Goal
      <3>1. /\ UNCHANGED <<readClosed, handshake, reader, writer, app>>
            /\ \/ UNCHANGED <<conn, closing>>
               \/ conn'[e] = "closed" /\ closing'[e] = TRUE
        BY <1>0, <2>7, Zenon DEF HandleShutdownComplete, Close, Places
      <3> QED  BY <2>0, <3>1, Zenon DEF Control, Reads
    <2>8. ASSUME NEW p \in net, HandleAbort(e, p) PROVE Goal
      <3>1. /\ UNCHANGED <<readClosed, handshake, writer, app>> /\ reader[e] = "read"
            /\ conn'[e] = "closed" /\ closing'[e] = TRUE /\ reader'[e] = "exit"
        BY <1>0, <2>8, Zenon DEF HandleAbort, Reads, Close, Places
      <3> QED  BY <2>0, <3>1, Zenon DEF Control
    <2>9. CASE ReadFails(e)
      <3>1. /\ UNCHANGED <<readClosed, handshake, writer, app, conn>> /\ reader[e] = "read"
            /\ closing'[e] = TRUE /\ reader'[e] = "exit"
        BY <1>0, <2>9, Zenon DEF ReadFails, Places, netVars
      <3> QED  BY <2>0, <3>1, Zenon DEF Control
    <2>10. CASE ReadLoopEnds(e)
      <3>1. /\ UNCHANGED <<closing, handshake, writer, app, conn>> /\ reader[e] = "exit"
            /\ readClosed'[e] = TRUE /\ reader'[e] = "done"
        BY <1>0, <2>10, Zenon DEF ReadLoopEnds, Places
      <3> QED  BY <2>0, <3>1, Zenon DEF Control
    <2>11. CASE WriteTurn(e)
      <3>1. /\ UNCHANGED <<readClosed, handshake, reader, app>> /\ writer'[e] # "off"
            /\ \/ UNCHANGED <<conn, closing>>
               \/ conn'[e] = "closed" /\ closing'[e] = TRUE
        BY <1>0, <2>11, Zenon DEF WriteTurn, Close, Places
      <3> QED  BY <2>0, <3>1, Zenon DEF Control
    <2>12. CASE ToldToClose(e)
      <3>1. UNCHANGED <<closing, readClosed, handshake, reader, conn, app>> /\ writer'[e] # "off"
        BY <1>0, <2>12, Zenon DEF ToldToClose, Places, chanVars, netVars
      <3> QED  BY <1>2, <2>0, <3>1, Zenon
    <2>13. ASSUME NEW t \in TimerIds, TimerFires(e, t) \/ TimerCallback(e, t) PROVE Goal
      BY <1>2, <2>0, <2>13, Zenon DEF TimerFires, TimerCallback, chanVars, netVars
    <2>14. ASSUME NEW t \in TimerIds, TimerGivesUp(e, t) PROVE Goal
      <3>1. /\ UNCHANGED <<closing, readClosed, reader, conn, app, writer>> /\ handshake[e] = None
            /\ handshake'[e] = [by |-> "timer", ok |-> FALSE, ack |-> FALSE]
        BY <1>0, <2>14, Zenon DEF TimerGivesUp, LockFree, Block, Places, chanVars, netVars
      <3>2. handshake'[e] \in Handshakes /\ handshake'[e].by = "timer"
        BY <3>1 DEF Handshakes
      <3> QED  BY <2>0, <3>1, <3>2, Zenon DEF Control
    <2> QED  BY <1>3, <2>1, <2>2, <2>3, <2>4, <2>5, <2>6, <2>7, <2>8, <2>9, <2>10, <2>11, <2>12, <2>13, <2>14, Zenon
         DEF Step, AppStep, ReadStep, WriteStep, TimerStep
  <1> QED  BY <1>1, <1>3, Zenon

-----------------------------------------------------------------------------
(* Nobody is left waiting: the open.                                       *)

\* The handshake is behind e, or the association is being closed.
Past(e) == assoc[e].state \notin Handshaking \/ closing[e]
\* T1 runs, or has given up and waits for the lock to say so.
Alive(e) ==
  \E t \in T1 : assoc[e].timer[t].state = "started" \/ <<t, "onRetransmissionFailure">> \in due[e]

\* An application that goes on has the handshake behind it, so that no
\* handler blocks for a call that has returned; a client that waits for its
\* open has T1 to end the wait.
OpenInv(e) ==
  /\ app[e] \notin {"new", "opening", "failed"} => Past(e)
  /\ handshake[e] # None /\ handshake[e].ok => Past(e)
  /\ reader[e] = "blocked" => app[e] \in {"opening", "failed"} \/ closing[e]
  /\ SoundTimers(assoc[e])
  /\ \A t \in TimerIds : assoc[e].timer[t].state = "closed" => closing[e]
  /\ app[e] = "opening" /\ role(e) = "client" /\ handshake[e] = None => closing[e] \/ Alive(e)

\* A handler blocks in completeHandshake.
Blocks(e) ==
  /\ reader[e] = "read" /\ conn[e] = "open" /\ app' = app
  /\ assoc[e].state \in Handshaking /\ assoc'[e].state = "established"

\* Where the calls and the handlers go.
LEMMA Moves ==
  ASSUME TypeOK, GracefulInv, NEW e \in Endpoints, Control(e), Step(e), ~Open(e)
  PROVE  /\ app'[e] = "opening" => app[e] = "opening"
         /\ app[e] \in {"opening", "failed"} /\ app'[e] \notin {"opening", "failed"} =>
              closing'[e] \/ (handshake[e] # None /\ handshake[e].ok /\ handshake'[e] = None)
         /\ handshake[e] # None /\ handshake'[e] = None => app'[e] # "opening" \/ closing'[e]
         /\ handshake'[e] # None => handshake'[e] = handshake[e] \/ ~handshake'[e].ok \/ Blocks(e)
         /\ reader'[e] = "blocked" => reader[e] = "blocked" \/ Blocks(e)
  <1> DEFINE Goal ==
         /\ app'[e] = "opening" => app[e] = "opening"
         /\ app[e] \in {"opening", "failed"} /\ app'[e] \notin {"opening", "failed"} =>
              closing'[e] \/ (handshake[e] # None /\ handshake[e].ok /\ handshake'[e] = None)
         /\ handshake[e] # None /\ handshake'[e] = None => app'[e] # "opening" \/ closing'[e]
         /\ handshake'[e] # None => handshake'[e] = handshake[e] \/ ~handshake'[e].ok \/ Blocks(e)
         /\ reader'[e] = "blocked" => reader[e] = "blocked" \/ Blocks(e)
  <1>0. Places /\ (readClosed[e] => closing[e])
    BY Zenon DEF TypeOK, Control
  <1>1. CASE HandshakeCompleted(e)
    <2>1. /\ app[e] = "opening" /\ app'[e] = (IF handshake[e].ok THEN "open" ELSE "failed")
          /\ handshake[e] # None /\ handshake'[e] = None
          /\ reader' = reader \/ reader'[e] = "read"
      BY <1>0, <1>1, Zenon DEF HandshakeCompleted, Goto, Places
    <2> QED  BY <2>1, Zenon
  <1>2. CASE HandshakeDropped(e)
    <2>1. closing'[e] /\ app' = app /\ handshake'[e] = None /\ (reader' = reader \/ reader'[e] = "read")
      BY <1>0, <1>2, Zenon DEF HandshakeDropped, chanVars, Places
    <2> QED  BY <2>1, Zenon
  <1>3. CASE OpenRefused(e) \/ Write(e) \/ ShutdownCheck(e) \/ ShutdownSet(e) \/ ShutdownLocked(e)
             \/ ShutdownReturns(e) \/ AbortAsk(e) \/ AbortFlushed(e) \/ CloseReturns(e)
    <2>1. /\ app'[e] # "opening" \/ app' = app
          /\ app[e] \in {"opening", "failed"} => app'[e] = "failed"
      BY <1>0, <1>3, Zenon DEF OpenRefused, Write, ShutdownCheck, ShutdownSet, ShutdownLocked,
         ShutdownReturns, AbortAsk, AbortFlushed, CloseReturns, Goto, Places
    <2>2. UNCHANGED <<handshake, reader>>
      BY <1>3, Zenon DEF OpenRefused, Write, ShutdownCheck, ShutdownSet, ShutdownLocked,
         ShutdownReturns, AbortAsk, AbortFlushed, CloseReturns
    <2> QED  BY <2>1, <2>2, Zenon
  <1>4. CASE OpenCanceled(e) \/ CloseAsk(e)
    <2>1. UNCHANGED <<handshake, reader>> /\ app'[e] = "closing" /\ closing'[e]
      BY <1>0, <1>4, Zenon DEF OpenCanceled, CloseAsk, Close, Goto, Places
    <2> QED  BY <2>1, Zenon
  <1>5. ASSUME NEW p \in net, HandleCookieEcho(e, p) \/ HandleCookieAck(e, p) PROVE Goal
    <2>0. /\ establish(ForgetCookieEcho(assoc[e])).state = "established"
          /\ establish(ForgetCookieEcho(ForgetInit(assoc[e]))).state = "established"
          /\ DOMAIN assoc = Endpoints
      <3>1. DOMAIN assoc[e] = Fields /\ "state" \in Fields /\ DOMAIN assoc = Endpoints
        BY Zenon DEF TypeOK, Places, AssocOK, Fields
      <3> QED  BY <3>1, Zenon DEF establish, updateInterleavingState, setState, ForgetCookieEcho, ForgetInit, stopTimer
    <2>1. app' = app /\ (UNCHANGED <<handshake, reader>> \/ Blocks(e))
      BY <1>5, <2>0, Zenon DEF HandleCookieEcho, HandleCookieAck, Reads, Blocks, CookieStates, Handshaking, Set
    <2>2. Blocks(e) => handshake[e] = None
      BY <1>5, Zenon DEF HandleCookieEcho, HandleCookieAck, Reads, LockFree
    <2> QED  BY <2>1, <2>2, Zenon
  <1>6. ASSUME UNCHANGED <<app, handshake>>, reader' = reader \/ reader'[e] # "blocked" PROVE Goal
    BY <1>6, Zenon
  <1>7. ASSUME NEW p \in net, HandleSimple(e, p) \/ HandleShutdownComplete(e, p) \/ HandleAbort(e, p) PROVE Goal
    <2>1. UNCHANGED <<app, handshake>> /\ (reader' = reader \/ reader'[e] # "blocked")
      BY <1>0, <1>7, Zenon DEF HandleSimple, HandleShutdownComplete, HandleAbort, Places
    <2> QED  BY <1>6, <2>1, Zenon
  <1>8. CASE ReadFails(e) \/ ReadLoopEnds(e) \/ WriteStep(e)
    <2>1. UNCHANGED <<app, handshake>> /\ (reader' = reader \/ reader'[e] # "blocked")
      BY <1>0, <1>8, Zenon DEF ReadFails, ReadLoopEnds, WriteStep, WriteTurn, ToldToClose, Places
    <2> QED  BY <1>6, <2>1, Zenon
  <1>9. ASSUME NEW t \in TimerIds, TimerFires(e, t) \/ TimerCallback(e, t) PROVE Goal
    BY <1>6, <1>9, Zenon DEF TimerFires, TimerCallback
  <1>10. ASSUME NEW t \in TimerIds, TimerGivesUp(e, t) PROVE Goal
    <2>1. /\ UNCHANGED <<app, reader>> /\ handshake[e] = None
          /\ handshake'[e] = [by |-> "timer", ok |-> FALSE, ack |-> FALSE]
      BY <1>0, <1>10, Zenon DEF TimerGivesUp, LockFree, Block, Places
    <2>2. ~handshake'[e].ok
      BY <2>1
    <2> QED  BY <2>1, <2>2, Zenon
  <1> QED  BY <1>1, <1>2, <1>3, <1>4, <1>5, <1>7, <1>8, <1>9, <1>10, Zenon
       DEF Step, AppStep, ReadStep, TimerStep

\* What a step does to the timers, and to the state of the association.
LEMMA TimersMove ==
  ASSUME TypeOK, NEW e \in Endpoints, Control(e), OpenInv(e), Step(e), ~Open(e), closing[e] => closing'[e]
  PROVE  /\ SoundTimers(assoc'[e])
         /\ \A t \in TimerIds : assoc'[e].timer[t].state = "closed" => closing'[e]
         /\ assoc'[e].state \in Handshaking => assoc[e].state \in Handshaking \/ closing'[e]
         /\ Alive(e) => Alive(e)' \/ closing'[e] \/ handshake'[e] # None
  <1> DEFINE Goal ==
         /\ SoundTimers(assoc'[e])
         /\ \A t \in TimerIds : assoc'[e].timer[t].state = "closed" => closing'[e]
         /\ assoc'[e].state \in Handshaking => assoc[e].state \in Handshaking \/ closing'[e]
         /\ Alive(e) => Alive(e)' \/ closing'[e] \/ handshake'[e] # None
  <1> DEFINE Given == \A t \in T1 : <<t, "onRetransmissionFailure">> \in due[e]
                                      => <<t, "onRetransmissionFailure">> \in due'[e]
  <1>0. /\ AssocOK(e, assoc[e]) /\ DOMAIN assoc = Endpoints /\ DOMAIN closing = Endpoints
        /\ DOMAIN handshake = Endpoints /\ DOMAIN due = Endpoints
        /\ SoundTimers(assoc[e]) /\ T1 \subseteq TimerIds
        /\ \A t \in TimerIds : assoc[e].timer[t].state = "closed" => closing[e]
        /\ conn[e] = "closed" => closing[e]
        /\ reader[e] = "exit" => closing[e]
        /\ Gentle(assoc[e], assoc[e])
    BY GentleSame, Zenon DEF TypeOK, Places, OpenInv, Control, T1, TimerIds
  <1>1. ASSUME NEW b, Set(e, b), Gentle(assoc[e], b), Given \/ handshake'[e] # None PROVE Goal
    <2>1. assoc'[e] = b
      BY <1>0, <1>1, Zenon DEF Set
    <2>2. SoundTimers(b) /\ \A t \in TimerIds : b.timer[t].state = "closed" => assoc[e].timer[t].state = "closed"
      BY <1>0, <1>1, GentleSound, Zenon
    <2>3. Alive(e) => Alive(e)' \/ handshake'[e] # None
      BY <1>1, <2>1, Zenon DEF Alive, Gentle
    <2> QED  BY <1>0, <1>1, <2>1, <2>2, <2>3, Zenon DEF Gentle
  <1>2. ASSUME assoc' = assoc, Given \/ handshake'[e] # None PROVE Goal
    BY <1>0, <1>2, Zenon DEF Alive
  <1>3. ASSUME NEW b, AssocOK(e, b), SoundTimers(b), assoc'[e] = closeAssoc(b), closing'[e] PROVE Goal
    BY <1>3, CloseSound, Zenon
  <1>4. ASSUME NEW b, AssocOK(e, b), SoundTimers(b), Close(e, b) PROVE Goal
    BY <1>0, <1>3, <1>4, Zenon DEF Close, Set
  <1>5. CASE AppStep(e)
    <2>1. CASE HandshakeCompleted(e) \/ HandshakeDropped(e)
      <3>1. UNCHANGED due
        BY <2>1, Zenon DEF HandshakeCompleted, HandshakeDropped
      <3>2. CASE UNCHANGED assoc
        BY <1>2, <3>1, <3>2, Zenon
      <3>3. CASE Set(e, push(assoc[e], [type |-> "COOKIE-ACK"]))
        BY <1>0, <1>1, <3>1, <3>3, GentleCalls, Zenon
      <3>4. CASE Set(e, assoc[e])
        BY <1>0, <1>1, <3>1, <3>4, Zenon
      <3> QED  BY <2>1, <3>2, <3>3, <3>4, Zenon DEF HandshakeCompleted, HandshakeDropped
    <2>2. CASE OpenRefused(e) \/ ShutdownCheck(e) \/ ShutdownReturns(e) \/ AbortFlushed(e) \/ CloseReturns(e)
      BY <1>2, <2>2, Zenon DEF OpenRefused, ShutdownCheck, ShutdownReturns, AbortFlushed, CloseReturns
    <2>3. CASE OpenCanceled(e) \/ CloseAsk(e)
      BY <1>0, <1>4, <2>3, Zenon DEF OpenCanceled, CloseAsk
    <2>4. CASE Write(e) \/ AbortAsk(e)
      BY <1>0, <1>1, <2>4, GentleCalls, Zenon DEF Write, AbortAsk
    <2>5. CASE ShutdownSet(e) \/ ShutdownLocked(e)
      <3>1. {"shutdownPending", "shutdownSent"} \subseteq States \ Handshaking
        BY DEF States, Handshaking
      <3>2. UNCHANGED due
        BY <2>5, Zenon DEF ShutdownSet, ShutdownLocked
      <3> QED  BY <1>0, <1>1, <2>5, <3>1, <3>2, GentleCalls, Zenon DEF ShutdownSet, ShutdownLocked
    <2> QED  BY <1>5, <2>1, <2>2, <2>3, <2>4, <2>5, Zenon DEF AppStep
  <1>6. CASE ReadStep(e)
    <2>1. ASSUME NEW p \in net, HandleSimple(e, p) PROVE Goal
      <3>0. UNCHANGED <<due, closing>>
        BY <2>1, Zenon DEF HandleSimple, chanVars
      <3>1. CASE p.chunk.type = "INIT-ACK" /\ assoc[e].state = "cookieWait"
        <4>1. assoc'[e] = handleInitAck(assoc[e], p.chunk)
          BY <1>0, <2>1, <3>1, Zenon DEF HandleSimple, Set
        <4>2. /\ SoundTimers(assoc'[e])
              /\ \A t \in TimerIds : assoc'[e].timer[t].state = "closed" => assoc[e].timer[t].state = "closed"
              /\ assoc[e].timer["t1Cookie"].state # "closed" => assoc'[e].timer["t1Cookie"].state = "started"
          <5>1. PICK a, c, b : a = assoc[e] /\ c = p.chunk /\ b = handleInitAck(a, c)
            BY Zenon
          <5>2. /\ SoundTimers(b)
                /\ \A t \in TimerIds : b.timer[t].state = "closed" => a.timer[t].state = "closed"
                /\ a.timer["t1Cookie"].state # "closed" => b.timer["t1Cookie"].state = "started"
            <6>1. AssocOK(e, a) /\ SoundTimers(a) /\ a.state = "cookieWait"
              BY <1>0, <3>1, <5>1, Zenon
            <6>2. b = handleInitAck(a, c)
              BY <5>1, Zenon
            <6> QED  BY <6>1, <6>2, InitAckTimers
          <5> QED  BY <4>1, <5>1, <5>2, Zenon
        <4>3. "t1Cookie" \in T1 /\ "t1Cookie" \in TimerIds
          BY Zenon DEF T1, TimerIds
        <4>4. Alive(e)' \/ closing'[e]
          BY <1>0, <3>0, <4>2, <4>3, Zenon DEF Alive
        <4> QED  BY <1>0, <3>0, <3>1, <4>2, <4>4, Zenon DEF Handshaking
      <3>2. CASE ~(p.chunk.type = "INIT-ACK" /\ assoc[e].state = "cookieWait")
        <4>1. \E b : Set(e, b) /\ Gentle(assoc[e], b)
          BY <1>0, <2>1, <3>2, GentleReads, Zenon DEF HandleSimple
        <4> QED  BY <1>1, <3>0, <4>1, Zenon
      <3> QED  BY <3>1, <3>2, Zenon
    <2>2. ASSUME NEW p \in net, HandleCookieEcho(e, p) \/ HandleCookieAck(e, p) PROVE Goal
      <3>0. UNCHANGED <<due, closing>>
        BY <2>2, Zenon DEF HandleCookieEcho, HandleCookieAck, chanVars
      <3>1. CASE UNCHANGED assoc
        BY <1>2, <3>0, <3>1, Zenon
      <3>2. CASE Set(e, push(assoc[e], [type |-> "COOKIE-ACK"]))
        BY <1>0, <1>1, <3>0, <3>2, GentleCalls, Zenon
      <3>3. ASSUME NEW b \in {establish(ForgetCookieEcho(ForgetInit(assoc[e]))), establish(ForgetCookieEcho(assoc[e]))},
                   Set(e, b), NEW ack \in BOOLEAN, Block(e, "reader", TRUE, ack)
            PROVE  Goal
        <4>1. assoc'[e] = b
          BY <1>0, <3>3, Zenon DEF Set
        <4>2. handshake'[e] = [by |-> "reader", ok |-> TRUE, ack |-> ack]
          BY <1>0, <3>3, Zenon DEF Block
        <4>3. handshake'[e] # None
          <5>1. [by |-> "reader", ok |-> TRUE, ack |-> ack] \in Handshakes
            BY DEF Handshakes
          <5> QED  BY <4>2, <5>1, NoneAssumption, Zenon
        <4>4. /\ SoundTimers(b) /\ b.state = "established"
              /\ \A t \in TimerIds : b.timer[t].state = "closed" => assoc[e].timer[t].state = "closed"
          BY <1>0, <3>3, CookieTimers, Zenon
        <4> QED  BY <1>0, <3>0, <4>1, <4>3, <4>4, Zenon DEF Handshaking
      <3> QED  BY <2>2, <3>1, <3>2, <3>3, Zenon DEF HandleCookieEcho, HandleCookieAck
    <2>3. ASSUME NEW p \in net, HandleShutdownComplete(e, p) PROVE Goal
      <3>1. CASE UNCHANGED assoc
        BY <1>2, <2>3, <3>1, Zenon DEF HandleShutdownComplete
      <3>2. CASE Close(e, stopTimer(assoc[e], "t2Shutdown"))
        <4>1. "t2Shutdown" \in TimerIds \ T1
          BY Zenon DEF TimerIds, T1
        <4>2. AssocOK(e, stopTimer(assoc[e], "t2Shutdown")) /\ SoundTimers(stopTimer(assoc[e], "t2Shutdown"))
          BY <1>0, <4>1, TimerCalls, GentleTimer, GentleSound, Zenon
        <4> QED  BY <1>4, <3>2, <4>2, Zenon
      <3> QED  BY <2>3, <3>1, <3>2, Zenon DEF HandleShutdownComplete
    <2>4. ASSUME NEW p \in net, HandleAbort(e, p) PROVE Goal
      BY <1>0, <1>4, <2>4, Zenon DEF HandleAbort
    <2>5. CASE ReadFails(e)
      BY <1>2, <2>5, Zenon DEF ReadFails
    <2>6. CASE ReadLoopEnds(e)
      <3>1. assoc'[e] = setState(assoc[e], "closed") /\ closing'[e]
        BY <1>0, <2>6, Zenon DEF ReadLoopEnds, Set
      <3>2. assoc'[e].timer = assoc[e].timer
        BY <1>0, <3>1, Zenon DEF setState, AssocOK, Fields
      <3> QED  BY <1>0, <3>1, <3>2, Zenon DEF SoundTimers
    <2> QED  BY <1>6, <2>1, <2>2, <2>3, <2>4, <2>5, <2>6, Zenon DEF ReadStep
  <1>7. CASE WriteTurn(e)
    <2>1. PICK g : g = gatherOutbound(assoc[e])
      BY Zenon
    <2>2. PICK b : b = [g.assoc EXCEPT !.awake = @ /\ writer[e] = "gather"]
      BY Zenon
    <2>3. AssocOK(e, g.assoc) /\ Gentle(assoc[e], g.assoc) /\ Calm(e, assoc[e], g.assoc)
      BY <1>0, <2>1, GatherOutbound, GentleGather, Zenon DEF Calm, Keeps
    <2>4. AssocOK(e, b)
      BY <2>2, <2>3, AwakeCalm, Zenon DEF Calm, Keeps
    <2>5. b.timer = g.assoc.timer /\ b.state = g.assoc.state
      BY <2>2, <2>3, Zenon DEF AssocOK, Fields
    <2>6. Gentle(assoc[e], b)
      BY <2>3, <2>5, Zenon DEF Gentle
    <2>7. SoundTimers(b)
      BY <1>0, <2>6, GentleSound, Zenon
    <2>8. UNCHANGED due
      BY <1>7, Zenon DEF WriteTurn
    <2>9. CASE Set(e, b)
      BY <1>1, <2>6, <2>8, <2>9, Zenon
    <2>10. CASE conn[e] = "closed" /\ Set(e, closeAssoc(b))
      BY <1>0, <1>3, <2>4, <2>7, <2>10, Zenon DEF Set
    <2>11. CASE Close(e, b)
      BY <1>4, <2>4, <2>7, <2>11, Zenon
    <2> QED  BY <1>7, <2>1, <2>2, <2>9, <2>10, <2>11, Zenon DEF WriteTurn
  <1>8. CASE ToldToClose(e)
    <2>1. closing'[e] /\ UNCHANGED due
      BY <1>8, Zenon DEF ToldToClose
    <2>2. CASE UNCHANGED assoc
      BY <1>2, <2>1, <2>2, Zenon
    <2>3. CASE Set(e, closeAssoc(assoc[e]))
      BY <1>0, <1>3, <2>1, <2>3, Zenon DEF Set
    <2> QED  BY <1>8, <2>2, <2>3, Zenon DEF ToldToClose
  <1>9. ASSUME NEW t \in TimerIds, TimerFires(e, t) PROVE Goal
    <2>1. PICK m, n : m = assoc[e].timer[t] /\ n = maxRetrans(t)
      BY Zenon
    <2>2. m \in Timer /\ n \in Nat /\ Sound(m, n) /\ m.armed
      BY <1>0, <1>9, <2>1, RetransAssumption DEF AssocOK, SoundTimers, maxRetrans, TimerFires
    <2>3. PICK x : x = timeout(Expire(m), n)
      BY Zenon
    <2>4. /\ Sound(x, n) /\ x.state # "closed" /\ IsExpiry(Expire(m))
          /\ x.state = "started" \/ Callback(Expire(m), n) = "onRetransmissionFailure"
      BY <2>2, <2>3, SoundExpiry, Zenon
    <2>5. assoc'[e] = [assoc[e] EXCEPT !.timer[t] = x]
      BY <1>0, <1>9, <2>1, <2>3, Zenon DEF TimerFires, Set
    <2>6. due'[e] = due[e] \cup {<<t, Callback(Expire(m), n)>>}
      BY <1>0, <1>9, <2>1, <2>4, Zenon DEF TimerFires
    <2>7. assoc'[e].state = assoc[e].state /\ assoc'[e].timer = [assoc[e].timer EXCEPT ![t] = x]
      BY <1>0, <2>5, Zenon DEF AssocOK, Fields
    <2>8. assoc'[e].timer[t] = x /\ \A u \in TimerIds \ {t} : assoc'[e].timer[u] = assoc[e].timer[u]
      BY <1>0, <2>7, Zenon DEF AssocOK
    <2>9. SoundTimers(assoc'[e])
      BY <1>0, <2>1, <2>4, <2>8, Zenon DEF SoundTimers
    <2>10. \A u \in TimerIds : assoc'[e].timer[u].state = "closed" => closing[e]
      BY <1>0, <2>4, <2>8, Zenon
    <2>11. Alive(e) => Alive(e)'
      <3>1. t \in T1 => Alive(e)'
        BY <2>4, <2>6, <2>8, Zenon DEF Alive
      <3>2. t \notin T1 /\ Alive(e) => Alive(e)'
        BY <1>0, <2>6, <2>8, Zenon DEF Alive
      <3> QED  BY <3>1, <3>2, Zenon
    <2> QED  BY <2>7, <2>9, <2>10, <2>11, Zenon
  <1>10. ASSUME NEW t \in TimerIds, TimerCallback(e, t) PROVE Goal
    <2>1. \A u \in T1 : <<u, "onRetransmissionFailure">> # <<t, "onRetransmissionTimeout">>
      OBVIOUS
    <2>2. Given
      BY <1>0, <1>10, <2>1, Zenon DEF TimerCallback
    <2>3. Gentle(assoc[e], onRetransmissionTimeout(assoc[e], e, t))
      BY <1>0, GentleCalls, Zenon
    <2> QED  BY <1>1, <1>10, <2>2, <2>3, Zenon DEF TimerCallback
  <1>11. ASSUME NEW t \in TimerIds, TimerGivesUp(e, t) PROVE Goal
    <2>1. handshake'[e] = [by |-> "timer", ok |-> FALSE, ack |-> FALSE] /\ UNCHANGED assoc
      BY <1>0, <1>11, Zenon DEF TimerGivesUp, Block
    <2>2. handshake'[e] # None
      <3>1. [by |-> "timer", ok |-> FALSE, ack |-> FALSE] \in Handshakes
        BY DEF Handshakes
      <3> QED  BY <2>1, <3>1, NoneAssumption, Zenon
    <2> QED  BY <1>2, <2>1, <2>2, Zenon
  <1> QED  BY <1>5, <1>6, <1>7, <1>8, <1>9, <1>10, <1>11, Zenon DEF Step, WriteStep, TimerStep

\* The opening call starts T1.
LEMMA OpensAlive ==
  ASSUME TypeOK, NEW e \in Endpoints, Control(e), Open(e)
  PROVE  OpenInv(e)'
  <1>0. /\ app[e] = "new" /\ assoc[e] = NewAssociation(e) /\ handshake[e] = None
        /\ DOMAIN assoc = Endpoints /\ DOMAIN app = Endpoints /\ DOMAIN reader = Endpoints
    BY Zenon DEF Open, TypeOK, Untouched, Places
  <1>1. /\ handshake'[e] = None /\ reader'[e] = "read" /\ role(e)' = role(e)
    BY <1>0, Zenon DEF Open, role
  <1>2. PICK a : a = assoc[e]
    BY Zenon
  <1>3. /\ DOMAIN a = Fields /\ {"timer", "state"} \subseteq Fields /\ "t1Init" \in TimerIds /\ "t1Init" \in T1
        /\ a.timer = [t \in TimerIds |-> newRTXTimer]
    <2>1. a.timer = [t \in TimerIds |-> newRTXTimer]
      BY <1>0, <1>2 DEF NewAssociation
    <2>2. AssocOK(e, a)
      BY <1>2, Zenon DEF TypeOK
    <2> QED  BY <2>1, <2>2, Zenon DEF AssocOK, Fields, TimerIds, T1
  <1>4. PICK m : m = newRTXTimer
    BY Zenon
  <1>5. /\ m.state = "stopped" /\ m.armed = FALSE /\ m.pending = 0 /\ m.nRtos = 0
        /\ DOMAIN m = {"state", "nRtos", "pending", "armed", "flying"}
    BY <1>4 DEF newRTXTimer
  <1>6. PICK u : u = start(m)
    BY Zenon
  <1>7. u.state = "started" /\ u.armed = TRUE /\ u.pending = 1 /\ u.nRtos = 0
    BY <1>5, <1>6 DEF start
  <1>8. \A t \in TimerIds : Sound(m, maxRetrans(t)) /\ Sound(u, maxRetrans(t))
    BY <1>5, <1>7, RetransAssumption DEF Sound, maxRetrans
  <1>9. /\ \A t \in TimerIds : assoc'[e].timer[t] \in {m, u}
        /\ \/ app'[e] = "opening" /\ (role(e) = "client" => assoc'[e].timer["t1Init"] = u)
           \/ app'[e] = "open" /\ assoc'[e].state = "established"
    <2>1. CASE role(e) = "server"
      BY <1>0, <1>2, <1>3, <1>4, <2>1, Zenon DEF Open, Goto
    <2>2. CASE role(e) = "client"
      <3>1. PICK i : i = [a EXCEPT !.storedInit = TRUE]
        BY Zenon
      <3>2. DOMAIN i = Fields /\ i.timer = a.timer
        BY <1>3, <3>1, Zenon
      <3>3. PICK h : h = setState(sendInit(i, e), "cookieWait")
        BY Zenon
      <3>4. DOMAIN h = Fields /\ h.timer = a.timer
        BY <1>3, <3>2, <3>3, Zenon DEF setState, sendInit, push, awakeWriteLoop
      <3>5. PICK v : v = startTimer(h, "t1Init")
        BY Zenon
      <3>6. v.timer = [a.timer EXCEPT !["t1Init"] = start(@)]
        BY <1>3, <3>4, <3>5, Zenon DEF startTimer
      <3>7. Set(e, v) /\ app'[e] = "opening"
        BY <1>0, <1>2, <2>2, <3>1, <3>3, <3>5, Zenon DEF Open, Goto
      <3>8. assoc'[e] = v
        BY <1>0, <3>7, Zenon DEF Set
      <3>9. v.timer["t1Init"] = u /\ \A t \in TimerIds : v.timer[t] \in {m, u}
        BY <1>3, <1>4, <1>6, <3>6, Zenon
      <3> QED  BY <3>7, <3>8, <3>9, Zenon
    <2>3. CASE role(e) = "snap"
      <3>1. PICK x : x = Extensions(Peer(e), assoc[Peer(e)])
        BY Zenon
      <3>2. PICK v : v = establish(learnPeer(a, x))
        BY Zenon
      <3>3. v.timer = a.timer /\ v.state = "established"
        BY <1>3, <3>2, Zenon DEF establish, updateInterleavingState, setState, learnPeer
      <3>4. Set(e, v) /\ app'[e] = "open"
        BY <1>0, <1>2, <2>3, <3>1, <3>2, Zenon DEF Open, Goto
      <3>5. assoc'[e] = v
        BY <1>0, <3>4, Zenon DEF Set
      <3> QED  BY <1>3, <1>4, <3>3, <3>4, <3>5, Zenon
    <2>4. role(e) \in Roles
      BY ScenariosAssumption, Zenon DEF role, TypeOK
    <2> QED  BY <2>1, <2>2, <2>3, <2>4, Zenon DEF Roles
  <1>10. SoundTimers(assoc'[e]) /\ \A t \in TimerIds : assoc'[e].timer[t].state # "closed"
    BY <1>5, <1>7, <1>8, <1>9, Zenon DEF SoundTimers
  <1>11. app'[e] = "opening" /\ role(e) = "client" => Alive(e)'
    BY <1>3, <1>7, <1>9, Zenon DEF Alive
  <1>12. app'[e] \notin {"new", "opening", "failed"} => Past(e)'
    BY <1>9, Zenon DEF Past, Handshaking
  <1>13. SoundTimers(assoc[e])'
    BY <1>10, Zenon DEF SoundTimers, maxRetrans
  <1> QED  BY <1>1, <1>10, <1>11, <1>12, <1>13, Zenon DEF OpenInv

\* Every other step of e.
LEMMA OpenStep ==
  ASSUME TypeOK, GracefulInv, NEW e \in Endpoints, Control(e), OpenInv(e), Step(e), scenario' = scenario
  PROVE  OpenInv(e)'
  <1>1. CASE Open(e)
    BY <1>1, OpensAlive, Zenon
  <1>2. CASE ~Open(e)
    <2>0. app[e] # "new" /\ role(e)' = role(e)
      BY <1>2, Opened, Zenon DEF role
    <2>1. closing[e] => closing'[e]
      BY ControlStep, Zenon
    <2>2. /\ SoundTimers(assoc'[e])
          /\ \A t \in TimerIds : assoc'[e].timer[t].state = "closed" => closing'[e]
          /\ assoc'[e].state \in Handshaking => assoc[e].state \in Handshaking \/ closing'[e]
          /\ Alive(e) => Alive(e)' \/ closing'[e] \/ handshake'[e] # None
      BY <1>2, <2>1, TimersMove, Zenon
    <2>3. /\ app'[e] = "opening" => app[e] = "opening"
          /\ app[e] \in {"opening", "failed"} /\ app'[e] \notin {"opening", "failed"} =>
               closing'[e] \/ (handshake[e] # None /\ handshake[e].ok /\ handshake'[e] = None)
          /\ handshake[e] # None /\ handshake'[e] = None => app'[e] # "opening" \/ closing'[e]
          /\ handshake'[e] # None => handshake'[e] = handshake[e] \/ ~handshake'[e].ok \/ Blocks(e)
          /\ reader'[e] = "blocked" => reader[e] = "blocked" \/ Blocks(e)
      BY <1>2, Moves, Zenon
    <2>4. Past(e) => Past(e)'
      BY <2>1, <2>2, Zenon DEF Past
    <2>5. closing'[e] => Past(e)'
      BY Zenon DEF Past
    <2>6. Blocks(e) => app[e] \in {"opening", "failed"} /\ app' = app /\ Past(e)'
      <3>1. closing[e] => NoReads(e)
        BY Zenon DEF GracefulInv
      <3> QED  BY <2>0, <3>1, Zenon DEF Blocks, OpenInv, Past, NoReads, Handshaking
    <2>7. app'[e] \notin {"new", "opening", "failed"} => Past(e)'
      BY <2>0, <2>3, <2>4, <2>5, Zenon DEF OpenInv
    <2>8. handshake'[e] # None /\ handshake'[e].ok => Past(e)'
      BY <2>3, <2>4, <2>6, Zenon DEF OpenInv
    <2>9. reader'[e] = "blocked" => app'[e] \in {"opening", "failed"} \/ closing'[e]
      <3>1. CASE Blocks(e)
        BY <2>6, <3>1, Zenon
      <3>2. CASE reader[e] = "blocked" /\ ~closing'[e] /\ app'[e] \notin {"opening", "failed"} /\ reader'[e] = "blocked"
        <4>1. handshake'[e] = None
          BY <2>1, <2>3, <3>2, Zenon DEF OpenInv
        <4> QED  BY <3>2, <4>1, ControlStep, Zenon DEF Control
      <3> QED  BY <2>1, <2>3, <3>1, <3>2, Zenon DEF OpenInv
    <2>10. app'[e] = "opening" /\ role(e) = "client" /\ handshake'[e] = None => closing'[e] \/ Alive(e)'
      BY <2>1, <2>2, <2>3, Zenon DEF OpenInv
    <2>11. SoundTimers(assoc[e])'
      BY <2>2, Zenon DEF SoundTimers, maxRetrans
    <2> QED  BY <2>0, <2>2, <2>7, <2>8, <2>9, <2>10, <2>11, Zenon DEF OpenInv
  <1> QED  BY <1>1, <1>2, Zenon

-----------------------------------------------------------------------------
(* Nobody is left waiting.                                                 *)

WaitInv == \A e \in Endpoints : Control(e) /\ OpenInv(e)

\* Nobody has opened yet.
LEMMA WaitInit == Init => WaitInv
  <1> SUFFICES ASSUME Init, NEW e \in Endpoints PROVE Control(e) /\ OpenInv(e)
    BY Zenon DEF WaitInv
  <1>1. /\ writer[e] = "off" /\ app[e] = "new" /\ reader[e] = "off" /\ ~closing[e] /\ ~readClosed[e]
        /\ handshake[e] = None /\ assoc[e] = NewAssociation(e) /\ conn[e] = "open"
    BY Zenon DEF Init
  <1>2. Control(e)
    BY <1>1, Zenon DEF Control
  <1>3. assoc[e].timer = [t \in TimerIds |-> newRTXTimer]
    BY <1>1 DEF NewAssociation
  <1>4. newRTXTimer.state = "stopped" /\ newRTXTimer.armed = FALSE /\ newRTXTimer.pending = 0 /\ newRTXTimer.nRtos = 0
    BY DEF newRTXTimer
  <1>5. \A t \in TimerIds : Sound(newRTXTimer, maxRetrans(t))
    BY <1>4, RetransAssumption DEF Sound, maxRetrans
  <1>6. SoundTimers(assoc[e]) /\ \A t \in TimerIds : assoc[e].timer[t].state # "closed"
    BY <1>3, <1>4, <1>5, Zenon DEF SoundTimers
  <1>7. OpenInv(e)
    BY <1>1, <1>6, Zenon DEF OpenInv
  <1> QED  BY <1>2, <1>7, Zenon

\* Each step.
LEMMA WaitNext ==
  ASSUME TypeOK, GracefulInv, WaitInv, [Next]_vars
  PROVE  WaitInv'
  <1>1. CASE UNCHANGED <<scenario, assoc, closing, readClosed, handshake, reader, writer, app, due, conn>>
    BY <1>1, Zenon DEF WaitInv, Control, OpenInv, Past, Alive, SoundTimers, role
  <1>2. ASSUME NEW e \in Endpoints, Step(e) PROVE WaitInv'
    <2>1. Elsewhere(e) /\ scenario' = scenario
      BY <1>2, AppPlaces, ReadPlaces, OtherPlaces, Zenon DEF Step, TypeOK
    <2>2. Control(e)' /\ OpenInv(e)'
      BY <1>2, <2>1, ControlStep, OpenStep, Zenon DEF WaitInv
    <2>3. ASSUME NEW f \in Endpoints \ {e} PROVE Control(f)' /\ OpenInv(f)'
      <3>1. /\ assoc'[f] = assoc[f] /\ app'[f] = app[f] /\ reader'[f] = reader[f] /\ writer'[f] = writer[f]
            /\ handshake'[f] = handshake[f] /\ due'[f] = due[f] /\ conn'[f] = conn[f]
            /\ closing'[f] = closing[f] /\ readClosed'[f] = readClosed[f] /\ role(f)' = role(f)
        BY <2>1, <2>3, Zenon DEF Elsewhere, role
      <3>2. Control(f) /\ OpenInv(f)
        BY <2>3, Zenon DEF WaitInv
      <3>3. Control(f)'
        BY <3>1, <3>2, Zenon DEF Control
      <3>4. OpenInv(f)'
        BY <3>1, <3>2, Zenon DEF OpenInv, Past, Alive, SoundTimers, maxRetrans
      <3> QED  BY <3>3, <3>4, Zenon
    <2> QED  BY <2>2, <2>3, Zenon DEF WaitInv
  <1> QED  BY <1>1, <1>2, WhoseStep, Zenon

\* CanProgress misses nothing: whatever step the loops, the timers and the
\* returning calls take, it is true before it.
LEMMA ProgressIsPossible ==
  ASSUME NEW e \in Endpoints, Progress(e)
  PROVE  CanProgress(e)
  <1>1. CASE ReadStep(e)
    BY <1>1, Zenon DEF CanProgress, ReadStep, HandleSimple, HandleCookieEcho, HandleCookieAck,
       HandleShutdownComplete, HandleAbort, Reads, ReadFails, ReadLoopEnds
  <1>2. CASE WriteStep(e)
    BY <1>2, Zenon DEF CanProgress, WriteStep, WriteTurn, ToldToClose
  <1>3. ASSUME NEW t \in TimerIds, TimerFires(e, t) PROVE CanProgress(e)
    <2>1. Expire(assoc[e].timer[t]).nRtos = assoc[e].timer[t].nRtos
      BY DEF Expire
    <2> QED  BY <1>3, <2>1, Zenon DEF CanProgress, TimerFires
  <1>4. ASSUME NEW t \in TimerIds, TimerCallback(e, t) \/ TimerGivesUp(e, t) PROVE CanProgress(e)
    BY <1>4, Zenon DEF CanProgress, TimerCallback, TimerGivesUp
  <1>5. CASE HandshakeCompleted(e) \/ HandshakeDropped(e) \/ OpenRefused(e) \/ AbortFlushed(e) \/ CloseReturns(e)
    BY <1>5, Zenon DEF CanProgress, HandshakeCompleted, HandshakeDropped, OpenRefused, AbortFlushed, CloseReturns
  <1> QED  BY <1>1, <1>2, <1>3, <1>4, <1>5, Zenon DEF Progress, TimerStep

\* An association that is told to close, and can take no step, has ended.
LEMMA ClosingEnds ==
  ASSUME TypeOK, GracefulInv, WaitInv, NEW e \in Endpoints, ~CanProgress(e), closing[e]
  PROVE  reader[e] = "done" /\ writer[e] = "done" /\ handshake[e] = None
  <1>1. /\ Control(e) /\ NoReads(e) /\ reader[e] \in {"off", "read", "blocked", "exit", "done"}
        /\ writer[e] \in {"off", "gather", "select", "done"}
    BY Zenon DEF WaitInv, GracefulInv, TypeOK, Places
  <1>2. handshake[e] = None
    BY Zenon DEF CanProgress
  <1> QED  BY <1>1, <1>2, Zenon DEF CanProgress, Control, NoReads, LockFree

\* When no loop, timer or returning call can go on, nobody waits (Close,
\* Abort, Client, readLoop, writeLoop, completeHandshake), but for a blocked
\* completeHandshake whose open has failed or that T1's last expiry made.
THEOREM EverybodyReturns == Spec => []NobodyLeftWaiting
  <1>1. IInv /\ WaitInv /\ [Next]_vars => WaitInv'
    BY WaitNext, Zenon DEF IInv
  <1>2. IInv /\ WaitInv => NobodyLeftWaiting
    <2> SUFFICES ASSUME IInv, WaitInv, \A f \in Endpoints : ~CanProgress(f), NEW e \in Endpoints
                 PROVE  Settled(e)
      BY Zenon DEF NobodyLeftWaiting
    <2>0. TypeOK /\ GracefulInv /\ Control(e) /\ OpenInv(e) /\ ~CanProgress(e)
      BY Zenon DEF IInv, WaitInv
    <2>1. closing[e] => reader[e] = "done" /\ writer[e] = "done" /\ handshake[e] = None
      BY <2>0, ClosingEnds, Zenon
    <2>2. app[e] # "abortFlush"
      BY <2>0, Zenon DEF CanProgress
    <2>3. app[e] # "closing"
      <3>1. reader[e] \in {"off", "read", "blocked", "exit", "done"}
        BY <2>0, Zenon DEF TypeOK, Places
      <3>2. SUFFICES ASSUME app[e] = "closing" PROVE FALSE
        BY Zenon
      <3>3. reader[e] # "done" /\ ~closing[e]
        BY <2>0, <2>1, <3>2, Zenon DEF CanProgress, Control
      <3>4. reader[e] = "blocked"
        BY <2>0, <3>1, <3>2, <3>3, Zenon DEF CanProgress, Control
      <3> QED  BY <2>0, <3>2, <3>3, <3>4, Zenon DEF OpenInv
    <2>4. handshake[e] # None => app[e] = "failed" \/ handshake[e].by = "timer"
      <3>1. handshake[e] # None => handshake[e].by = "timer" \/ reader[e] = "blocked"
        BY <2>0, Zenon DEF GracefulInv
      <3>2. handshake[e] # None => app[e] # "opening" /\ ~closing[e]
        BY <2>0, Zenon DEF CanProgress
      <3> QED  BY <2>0, <3>1, <3>2, Zenon DEF OpenInv
    <2>5. role(e) = "client" /\ scenario.maxRtos > MaxInitRetrans => app[e] # "opening"
      <3> SUFFICES ASSUME role(e) = "client", scenario.maxRtos > MaxInitRetrans, app[e] = "opening"
                   PROVE  FALSE
        BY Zenon
      <3>1. handshake[e] = None /\ reader[e] # "done"
        BY <2>0, Zenon DEF CanProgress, Control
      <3>2. ~closing[e] /\ due[e] = {}
        BY <2>0, <2>1, <3>1, Zenon DEF CanProgress, LockFree
      <3>3. PICK t \in T1 : assoc[e].timer[t].state = "started"
        BY <2>0, <3>1, <3>2, Zenon DEF OpenInv, Alive
      <3>4. t \in TimerIds /\ maxRetrans(t) = MaxInitRetrans
        BY <3>3, Zenon DEF T1, TimerIds, maxRetrans
      <3>5. PICK m : m = assoc[e].timer[t]
        BY Zenon
      <3>6. m \in Timer /\ Sound(m, MaxInitRetrans)
        BY <2>0, <3>4, <3>5, Zenon DEF OpenInv, SoundTimers, TypeOK, AssocOK
      <3>7. scenario.maxRtos \in Nat
        BY <2>0, ScenariosAssumption, Zenon DEF TypeOK
      <3>8. m.armed /\ m.nRtos < scenario.maxRtos
        BY <3>3, <3>5, <3>6, <3>7, RetransAssumption DEF Sound, Timer
      <3> QED  BY <2>0, <3>4, <3>5, <3>8, Zenon DEF CanProgress
    <2> QED  BY <2>1, <2>2, <2>3, <2>4, <2>5, Zenon DEF Settled
  <1> QED  BY Invariance, WaitInit, <1>1, <1>2, PTL DEF Spec
=============================================================================
