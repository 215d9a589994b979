------------------------------- MODULE DCSend -------------------------------
(***************************************************************************)
(* The send path of one DataChannel: dc:send requests of several sessions, *)
(* the per-channel work queue and sender goroutine, the ack-on-drain wait, *)
(* the run-time change of the low-water mark and the shutdown of the send  *)
(* state (go/internal/pionserver/dcsend.go and handler.go).                *)
(*                                                                         *)
(* A process is the read loop of a session, the TTL sweeper, the sender    *)
(* goroutine, or pion's SCTP read loop.  A step is what runs between two   *)
(* points at which another goroutine can interfere: a channel operation, a *)
(* lock acquisition, a registry call.                                      *)
(***************************************************************************)
EXTENDS Integers, Sequences, FiniteSets

CONSTANTS
  Sessions,       \* the connections whose read loops use the channel
  Tuners,         \* the sessions that change the low-water mark
  Reaper,         \* the TTL sweeper goroutine (registry.go, StartCleanup)
  QueueDepth,     \* DCConfig.SendQueueDepth
  Thresholds,     \* low-water marks a client may ask for
  InitThreshold,  \* DCConfig.BufferedAmountLowThreshold
  MaxSends,       \* bound: the number of dc:send requests of each session
  MaxTunes,       \* bound: dc:setBufferedAmountLowThreshold requests
  None            \* "no work item"

Item == UNION {{s} \X (1 .. MaxSends[s]) : s \in Sessions}
Actors == Sessions \cup {Reaper}

ASSUME SessionsAssumption ==
  /\ IsFiniteSet(Sessions)
  /\ Tuners \subseteq Sessions
  /\ Reaper \notin Sessions
  /\ None \notin Item

ASSUME BoundsAssumption ==
  /\ QueueDepth \in Nat \ {0}
  /\ Thresholds \subseteq Nat
  /\ InitThreshold \in Nat
  /\ MaxSends \in [Sessions -> Nat]
  /\ MaxTunes \in Nat

VARIABLES
  registered,  \* the registry maps the handle to this send state
  work,        \* state.work: the buffered Go channel, oldest item first
  done,        \* state.done is closed
  threshold,   \* state.threshold
  pc,          \* where each read loop and the sweeper stand
  issued,      \* how many dc:send requests each session has read
  drain,       \* the items issued with awaitDrain
  tune,        \* the threshold argument each session is applying
  tunes,       \* how many threshold requests were made
  sender,      \* where the sender goroutine stands
  cur,         \* the item in the sender goroutine's hand
  lowSeen,     \* the threshold the last successful waitForBuffer compared with
  answers,     \* the responses emitted for each item
  wire,        \* the items handed to pion, in order
  channel,     \* pion's readyState
  buffered,    \* pion's BufferedAmount
  pionLow,     \* pion's own low-water mark
  lowCallback  \* pion is inside the OnBufferedAmountLow callback

stateVars == <<registered, work, done, threshold>>
loopVars == <<pc, issued, drain, tune, tunes>>
senderVars == <<sender, cur, lowSeen>>
outVars == <<answers, wire>>
pionVars == <<channel, buffered, pionLow, lowCallback>>
vars == <<stateVars, loopVars, senderVars, outVars, pionVars>>

Outcome == {"ack", "sendError", "closedBeforeSend", "closedDuringSend",
            "notFound", "invalid"}
LoopPC == {"idle", "enqueue", "recheck", "reclaim", "lookupTune", "storeTune",
           "close", "broadcast", "drain", "dcClose"}
SenderPC == {"select", "send", "lock", "buffer", "done", "parked", "ack", "exited"}

(***************************************************************************)
(* startDCSendGoroutine: a fresh state, registered before its handle is    *)
(* known to any client, with pion's threshold set to the same value.       *)
(***************************************************************************)
Init ==
  /\ registered = TRUE
  /\ work = << >>
  /\ done = FALSE
  /\ threshold = InitThreshold
  /\ pc = [a \in Actors |-> "idle"]
  /\ issued = [s \in Sessions |-> 0]
  /\ drain = {}
  /\ tune = [s \in Sessions |-> InitThreshold]
  /\ tunes = 0
  /\ sender = "select"
  /\ cur = None
  /\ lowSeen = 0
  /\ answers = [i \in Item |-> << >>]
  /\ wire = << >>
  /\ channel = "connecting"
  /\ buffered = 0
  /\ pionLow = InitThreshold
  /\ lowCallback = FALSE

Answer(i, outcome) == answers' = [answers EXCEPT ![i] = Append(@, outcome)]
Goto(a, l) == pc' = [pc EXCEPT ![a] = l]

\* The mutex of state.cond is held by the sender goroutine while it evaluates
\* the wait condition, and by nobody else across steps.
CondFree == sender \notin {"buffer", "done"}

(* The channel and condition operations, each after its mutated forms.     *)

\* cond.Broadcast: a parked sender goes back to acquire the mutex.
WakeNobody == UNCHANGED sender
Broadcast == sender' = IF sender = "parked" THEN "lock" ELSE sender

\* The queue accepts an item.
AnyRoom == TRUE
Room == Len(work) < QueueDepth

\* <-work, and the error response to the request received.
DropHead == work' = Tail(work) /\ UNCHANGED answers
FailAndKeep == Answer(Head(work), "closedBeforeSend") /\ UNCHANGED work
FailHead == Answer(Head(work), "closedBeforeSend") /\ work' = Tail(work)

\* <-work in the sender goroutine.
Peek == cur' = Head(work) /\ UNCHANGED work
TakeNewest == cur' = work[Len(work)] /\ work' = SubSeq(work, 1, Len(work) - 1)
Take == cur' = Head(work) /\ work' = Tail(work)

\* Where a read loop goes after its enqueue.
SkipRecheck == "idle"
AfterEnqueue == IF done THEN "reclaim" ELSE "idle"

\* The two conditions of the wait loop.
AlmostLow == buffered <= threshold + 1
Low == buffered <= threshold
NeverStopped == FALSE
Stopped == done

-----------------------------------------------------------------------------
(* dc:send in the read loop of session s (handleDCSend).                   *)

Current(s) == <<s, issued[s]>>

\* The request is read.  An unknown handle and a bad payload are answered at
\* once; otherwise the loop holds a work item and the state it looked up.
DCSend(s) ==
  /\ pc[s] = "idle"
  /\ issued[s] < MaxSends[s]
  /\ issued' = [issued EXCEPT ![s] = @ + 1]
  /\ LET i == <<s, issued[s] + 1>> IN
       \/ ~registered /\ Answer(i, "notFound") /\ UNCHANGED <<pc, drain>>
       \/ registered /\ Answer(i, "invalid") /\ UNCHANGED <<pc, drain>>
       \/ /\ registered
          /\ Goto(s, "enqueue")
          /\ drain' \in {drain, drain \cup {i}}
          /\ UNCHANGED answers
  /\ UNCHANGED <<stateVars, tune, tunes, senderVars, wire, pionVars>>

\* select: work <- item.  Blocks while the queue is full.
Enqueue(s) ==
  /\ pc[s] = "enqueue"
  /\ Room
  /\ work' = Append(work, Current(s))
  /\ Goto(s, "recheck")
  /\ UNCHANGED <<registered, done, threshold, issued, drain, tune, tunes,
                 senderVars, outVars, pionVars>>

\* select: <-done.
EnqueueClosed(s) ==
  /\ pc[s] = "enqueue"
  /\ done
  /\ Answer(Current(s), "closedBeforeSend")
  /\ Goto(s, "idle")
  /\ UNCHANGED <<stateVars, issued, drain, tune, tunes, senderVars, wire, pionVars>>

\* After the enqueue: has the state closed meanwhile?
Recheck(s) ==
  /\ pc[s] = "recheck"
  /\ Goto(s, AfterEnqueue)
  /\ UNCHANGED <<stateVars, issued, drain, tune, tunes, senderVars, outVars, pionVars>>

\* It has: take one queued item back, if there is one, and fail it.
Reclaim(s) ==
  /\ pc[s] = "reclaim"
  /\ \/ work # << >> /\ FailHead
     \/ work = << >> /\ UNCHANGED <<work, answers>>
  /\ Goto(s, "idle")
  /\ UNCHANGED <<registered, done, threshold, issued, drain, tune, tunes,
                 senderVars, wire, pionVars>>

-----------------------------------------------------------------------------
(* dc:setBufferedAmountLowThreshold in the read loop of session s.         *)

\* dc.SetBufferedAmountLowThreshold: pion's mark first.
SetPionThreshold(s) ==
  /\ pc[s] = "idle"
  /\ tunes < MaxTunes
  /\ tunes' = tunes + 1
  /\ \E t \in Thresholds : pionLow' = t /\ tune' = [tune EXCEPT ![s] = t]
  /\ Goto(s, "lookupTune")
  /\ UNCHANGED <<stateVars, issued, drain, senderVars, outVars, channel,
                 buffered, lowCallback>>

\* registry.LookupDCSendState.
LookupForThreshold(s) ==
  /\ pc[s] = "lookupTune"
  /\ Goto(s, IF registered THEN "storeTune" ELSE "idle")
  /\ UNCHANGED <<stateVars, issued, drain, tune, tunes, senderVars, outVars, pionVars>>

\* state.setThreshold.
SetThreshold(s) ==
  /\ pc[s] = "storeTune"
  /\ CondFree
  /\ threshold' = tune[s]
  /\ Broadcast
  /\ Goto(s, "idle")
  /\ UNCHANGED <<registered, work, done, issued, drain, tune, tunes, cur, lowSeen,
                 outVars, pionVars>>

-----------------------------------------------------------------------------
(* Shutdown: dc:close or resource:delete in a read loop, or the sweeper.   *)

\* The state leaves the registry under its lock, so one actor at most gets it.
\* An actor that finds it gone only closes the pion channel.
BeginClose(a) ==
  /\ pc[a] = "idle"
  /\ registered' = FALSE
  /\ Goto(a, IF registered THEN "close" ELSE "dcClose")
  /\ UNCHANGED <<work, done, threshold, issued, drain, tune, tunes, senderVars,
                 outVars, pionVars>>

\* closeState: close(s.done).
CloseDone(a) ==
  /\ pc[a] = "close"
  /\ done' = TRUE
  /\ Goto(a, "broadcast")
  /\ UNCHANGED <<registered, work, threshold, issued, drain, tune, tunes,
                 senderVars, outVars, pionVars>>

\* closeState: wake the sender goroutine.
CloseBroadcast(a) ==
  /\ pc[a] = "broadcast"
  /\ CondFree
  /\ Broadcast
  /\ Goto(a, "drain")
  /\ UNCHANGED <<stateVars, issued, drain, tune, tunes, cur, lowSeen, outVars, pionVars>>

\* closeState: fail what is still queued, one receive at a time.
CloseDrain(a) ==
  /\ pc[a] = "drain"
  /\ \/ /\ work # << >>
        /\ FailHead
        /\ UNCHANGED pc
     \/ /\ work = << >>
        /\ Goto(a, "dcClose")
        /\ UNCHANGED <<work, answers>>
  /\ UNCHANGED <<registered, done, threshold, issued, drain, tune, tunes,
                 senderVars, wire, pionVars>>

\* dc.Close.
CloseChannel(a) ==
  /\ pc[a] = "dcClose"
  /\ channel' = "closed"
  /\ Goto(a, "idle")
  /\ UNCHANGED <<stateVars, issued, drain, tune, tunes, senderVars, outVars,
                 buffered, pionLow, lowCallback>>

-----------------------------------------------------------------------------
(* The sender goroutine (startDCSendGoroutine, runDCSend, waitForBuffer).  *)

SenderTake ==
  /\ sender = "select"
  /\ work # << >>
  /\ Take
  /\ sender' = "send"
  /\ UNCHANGED <<registered, done, threshold, loopVars, lowSeen, outVars, pionVars>>

SenderExit ==
  /\ sender = "select"
  /\ done
  /\ sender' = "exited"
  /\ UNCHANGED <<stateVars, loopVars, cur, lowSeen, outVars, pionVars>>

\* doSend succeeds: pion buffers the message.
SendOk ==
  /\ sender = "send"
  /\ channel = "open"
  /\ wire' = Append(wire, cur)
  /\ buffered' = buffered + 1
  /\ sender' = IF cur \in drain THEN "lock" ELSE "ack"
  /\ UNCHANGED <<stateVars, loopVars, cur, lowSeen, answers, channel, pionLow, lowCallback>>

\* doSend fails: the channel is not open, or pion refuses the message.
SendError ==
  /\ sender = "send"
  /\ Answer(cur, "sendError")
  /\ sender' = "select"
  /\ cur' = None
  /\ UNCHANGED <<stateVars, loopVars, lowSeen, wire, pionVars>>

\* waitForBuffer: cond.L.Lock, on entry and on return from cond.Wait.
WaitLock ==
  /\ sender = "lock"
  /\ sender' = "buffer"
  /\ UNCHANGED <<stateVars, loopVars, cur, lowSeen, outVars, pionVars>>

\* waitForBuffer: the loop condition.
WaitCheckBuffer ==
  /\ sender = "buffer"
  /\ \/ Low /\ sender' = "ack" /\ lowSeen' = threshold
     \/ ~Low /\ sender' = "done" /\ UNCHANGED lowSeen
  /\ UNCHANGED <<stateVars, loopVars, cur, outVars, pionVars>>

\* waitForBuffer: closed mid-wait, or cond.Wait.
WaitCheckDone ==
  /\ sender = "done"
  /\ \/ Stopped /\ Answer(cur, "closedDuringSend") /\ sender' = "select" /\ cur' = None
     \/ ~Stopped /\ sender' = "parked" /\ UNCHANGED <<cur, answers>>
  /\ UNCHANGED <<stateVars, loopVars, lowSeen, wire, pionVars>>

SenderAck ==
  /\ sender = "ack"
  /\ Answer(cur, "ack")
  /\ sender' = "select"
  /\ cur' = None
  /\ UNCHANGED <<stateVars, loopVars, lowSeen, wire, pionVars>>

Sender ==
  \/ SenderTake \/ SenderExit \/ SendOk \/ SendError
  \/ WaitLock \/ WaitCheckBuffer \/ WaitCheckDone \/ SenderAck

-----------------------------------------------------------------------------
(* pion: the channel opens, its buffer drains as the peer acknowledges,    *)
(* and the remote peer or pc:close may close it.                           *)

PionOpen ==
  /\ channel = "connecting"
  /\ channel' = "open"
  /\ UNCHANGED <<stateVars, loopVars, senderVars, outVars, buffered, pionLow, lowCallback>>

\* Stream.onBufferReleased: the callback fires only when this release crosses
\* the mark, and the SCTP read loop runs it before it releases anything else;
\* what was buffered before a close may still drain.
PionDrain ==
  /\ ~lowCallback
  /\ \E n \in 1 .. buffered :
       /\ buffered' = buffered - n
       /\ lowCallback' = (buffered > pionLow /\ buffered - n <= pionLow)
  /\ UNCHANGED <<stateVars, loopVars, senderVars, outVars, channel, pionLow>>

\* The OnBufferedAmountLow callback: state.signalLow.
SignalLow ==
  /\ lowCallback
  /\ CondFree
  /\ Broadcast
  /\ lowCallback' = FALSE
  /\ UNCHANGED <<stateVars, loopVars, cur, lowSeen, outVars, channel, buffered, pionLow>>

\* OnClose emits an event and touches nothing of the send state.
PionClose ==
  /\ channel # "closed"
  /\ channel' = "closed"
  /\ UNCHANGED <<stateVars, loopVars, senderVars, outVars, buffered, pionLow, lowCallback>>

Pion == PionOpen \/ PionDrain \/ SignalLow \/ PionClose

SendLoop(s) == DCSend(s) \/ Enqueue(s) \/ EnqueueClosed(s) \/ Recheck(s) \/ Reclaim(s)
TuneLoop(s) == SetPionThreshold(s) \/ LookupForThreshold(s) \/ SetThreshold(s)
CloseLoop(a) ==
  \/ BeginClose(a) \/ CloseDone(a) \/ CloseBroadcast(a) \/ CloseDrain(a) \/ CloseChannel(a)

Next ==
  \/ \E s \in Sessions : SendLoop(s)
  \/ \E s \in Tuners : TuneLoop(s)
  \/ \E a \in Actors : CloseLoop(a)
  \/ Sender
  \/ Pion

Spec == Init /\ [][Next]_vars

(***************************************************************************)
(* Fairness.  Go runs every runnable goroutine; a read loop may read no    *)
(* further request, so only the steps that finish one are fair; pion runs  *)
(* its callback, and while the channel is open the peer acknowledges what  *)
(* was sent.  Nothing makes the channel open or close, or a client close   *)
(* it.                                                                     *)
(***************************************************************************)
FinishRequest(a) ==
  \/ a \in Sessions /\ (Enqueue(a) \/ EnqueueClosed(a) \/ Recheck(a) \/ Reclaim(a))
  \/ a \in Tuners /\ (LookupForThreshold(a) \/ SetThreshold(a))
  \/ CloseDone(a) \/ CloseBroadcast(a) \/ CloseDrain(a) \/ CloseChannel(a)

Fairness ==
  /\ \A a \in Actors : WF_vars(FinishRequest(a))
  /\ WF_vars(Sender)
  /\ WF_vars(SignalLow)
  /\ WF_vars(channel = "open" /\ PionDrain)

FairSpec == Spec /\ Fairness

-----------------------------------------------------------------------------
Queued(i) == \E k \in DOMAIN work : work[k] = i
Holding(s) == pc[s] = "enqueue"
HeldByLoop(i) == Holding(i[1]) /\ issued[i[1]] = i[2]
Issued(i) == i[2] <= issued[i[1]]
Rechecking == {s \in Sessions : pc[s] \in {"recheck", "reclaim"}}
\* closeState has returned.
Drained == done /\ \A a \in Actors : pc[a] \notin {"close", "broadcast", "drain"}

TypeOK ==
  /\ registered \in BOOLEAN
  /\ work \in Seq(Item) /\ Len(work) <= QueueDepth
  /\ done \in BOOLEAN
  /\ threshold \in Nat
  /\ pc \in [Actors -> LoopPC]
  /\ issued \in [Sessions -> Nat] /\ \A s \in Sessions : issued[s] <= MaxSends[s]
  /\ drain \subseteq Item
  /\ tune \in [Sessions -> Nat]
  /\ tunes \in 0 .. MaxTunes
  /\ sender \in SenderPC
  /\ cur \in Item \cup {None}
  /\ lowSeen \in Nat
  /\ answers \in [Item -> Seq(Outcome)]
  /\ wire \in Seq(Item)
  /\ channel \in {"connecting", "open", "closed"}
  /\ buffered \in Nat
  /\ pionLow \in Nat
  /\ lowCallback \in BOOLEAN

(***************************************************************************)
(* dcsend.go, closeState: "every item gets exactly one response".  A       *)
(* dc:send is never answered twice, whichever of the sender goroutine, the *)
(* drain of closeState and the re-check of any read loop gets hold of it.  *)
(***************************************************************************)
NeverAnsweredTwice == \A i \in Item : Len(answers[i]) <= 1

(***************************************************************************)
(* And none is dropped: a dc:send that was read and not answered is with   *)
(* its read loop, in the queue, or in the sender goroutine's hand.         *)
(***************************************************************************)
NoRequestLost ==
  \A i \in Item : Issued(i) =>
    \/ answers[i] # << >>
    \/ HeldByLoop(i)
    \/ Queued(i)
    \/ cur = i

(***************************************************************************)
(* Once closeState has returned, each item left in the queue is matched by *)
(* a read loop that is about to reclaim one: with all read loops past      *)
(* their re-check the queue is empty, so no caller waits on a queue that   *)
(* nobody reads any more.                                                  *)
(***************************************************************************)
NoStrandedWork == Drained => Len(work) <= Cardinality(Rechecking)

(***************************************************************************)
(* handleDCSend: "back-to-back dc:send calls on the same DC reach          *)
(* state.work in WebSocket arrival order".  The items of one session go to *)
(* pion in the order in which the session sent them, a shutdown included.  *)
(***************************************************************************)
SendOrder ==
  \A j, k \in DOMAIN wire :
    j < k /\ wire[j][1] = wire[k][1] => wire[j][2] < wire[k][2]

(***************************************************************************)
(* A request answered "closed before send" is not, and will never be, on   *)
(* the wire: a client may send it again without duplicating data.          *)
(***************************************************************************)
ClosedBeforeSendIsUnsent ==
  \A k \in DOMAIN wire :
    \A n \in DOMAIN answers[wire[k]] : answers[wire[k]][n] # "closedBeforeSend"

(***************************************************************************)
(* startDCSendGoroutine: "The ack only fires after dc.Send has returned    *)
(* AND pion's native send buffer has fallen at or below the configured     *)
(* threshold".  The buffer is still at or below the mark the wait compared *)
(* with when the ack is emitted: nothing else has filled it in between.    *)
(***************************************************************************)
AckAfterDrain == sender = "ack" /\ cur \in drain => buffered <= lowSeen

(***************************************************************************)
(* waitForBuffer "blocks until dc.BufferedAmount falls at or below the     *)
(* current threshold, or the state is closed": when either is the case, a  *)
(* parked sender goroutine has a wake-up coming.                           *)
(***************************************************************************)
WakeUpComing ==
  \/ lowCallback
  \/ \E s \in Tuners : pc[s] \in {"lookupTune", "storeTune"}
  \/ \E a \in Actors : pc[a] \in {"close", "broadcast"}
NoLostWakeup == sender = "parked" /\ (done \/ buffered <= threshold) => WakeUpComing

(***************************************************************************)
(* The same as a promise about time: a sender goroutine parked while the   *)
(* buffer is at or below the current threshold does not stay so.           *)
(***************************************************************************)
WaitEndsWhenDrained ==
  (sender = "parked" /\ buffered <= threshold)
    ~> (sender # "parked" \/ buffered > threshold)

(***************************************************************************)
(* runDCSend: "If the DC is closed mid-wait we still ack with an error so  *)
(* the caller's Future doesn't hang", and closeState: "cascade delete +    *)
(* explicit close + dc.OnClose all converge here".  A sender goroutine     *)
(* parked on a channel that has closed does not stay so.                   *)
(***************************************************************************)
WaitEndsWhenClosed == (sender = "parked" /\ channel = "closed") ~> sender # "parked"

(***************************************************************************)
(* Every dc:send is answered while the channel stays open and its peer     *)
(* keeps acknowledging: neither a full queue, nor a parked sender          *)
(* goroutine, nor a change of the mark leaves a caller waiting.            *)
(***************************************************************************)
AnsweredWhileOpen ==
  \A i \in Item : Issued(i) ~> (answers[i] # << >> \/ channel = "closed")

(***************************************************************************)
(* closeState: every dc:send that was read is answered once the state is   *)
(* shut down, whatever pion does, and the sender goroutine ends.           *)
(***************************************************************************)
ShutdownAnswersAll == \A i \in Item : (done /\ Issued(i)) ~> answers[i] # << >>
ShutdownEndsSender == done ~> [](sender = "exited")

(***************************************************************************)
(* The send path implements SendService.                                   *)
(***************************************************************************)
VerdictOf(outcome) ==
  CASE outcome = "ack" -> "ack"
    [] outcome = "closedDuringSend" -> "cut"
    [] outcome \in {"notFound", "invalid"} -> "refused"
    [] OTHER -> "unsent"

Verdict(i) ==
  CASE ~Issued(i) -> "none"
    [] Issued(i) /\ answers[i] = << >> -> "waiting"
    [] Len(answers[i]) = 1 -> VerdictOf(answers[i][1])
    [] OTHER -> "answered twice"

Service == INSTANCE SendService WITH verdict <- [i \in Item |-> Verdict(i)]

(***************************************************************************)
(* Every behaviour of the send path is one of the service dc:send          *)
(* promises: refused or accepted, on the wire at most once and in order,   *)
(* answered once and truthfully.                                           *)
(***************************************************************************)
ImplementsService == Service!Spec
=============================================================================
