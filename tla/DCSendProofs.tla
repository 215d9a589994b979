---------------------------- MODULE DCSendProofs ----------------------------
(***************************************************************************)
(* Proofs about DCSend, for any number of sessions, any queue depth, any   *)
(* thresholds and any number of requests: where each request is, the order *)
(* on the wire and what an answer says of it, that DCSend implements       *)
(* SendService, what an ack after a drain means, that the sender goroutine *)
(* misses no wake-up, and that a shutdown leaves nothing in the queue.     *)
(***************************************************************************)
EXTENDS DCSend, FiniteSetTheorems, TLAPS

-----------------------------------------------------------------------------
(* Items.                                                                  *)

\* An item is a session and the number of one of its requests.
LEMMA ItemShape ==
  \A i : i \in Item <=> \E s \in Sessions : \E n \in 1 .. MaxSends[s] : i = <<s, n>>
  BY DEF Item

\* The components of an item.
LEMMA ItemParts ==
  ASSUME NEW i \in Item
  PROVE  /\ i[1] \in Sessions /\ i[2] \in 1 .. MaxSends[i[1]] /\ i = <<i[1], i[2]>>
         /\ i[2] \in Nat /\ i[2] > 0
  <1>1. PICK s \in Sessions : \E n \in 1 .. MaxSends[s] : i = <<s, n>>
    BY ItemShape, Zenon
  <1>2. PICK n \in 1 .. MaxSends[s] : i = <<s, n>>
    BY <1>1, Zenon
  <1>3. MaxSends[s] \in Nat
    BY BoundsAssumption, Zenon
  <1> QED  BY <1>2, <1>3

\* A request number within the bound makes an item.
LEMMA ItemMake ==
  ASSUME NEW s \in Sessions, NEW n \in 1 .. MaxSends[s]
  PROVE  <<s, n>> \in Item
  BY ItemShape, Zenon

-----------------------------------------------------------------------------
(* Sequences: the shape of what the queue operations return.               *)

\* What a sequence holds.
LEMMA ElementOfSeq ==
  ASSUME NEW S, NEW q \in Seq(S)
  PROVE  \A k \in DOMAIN q : q[k] \in S
  OBVIOUS

\* The first element of a non-empty sequence and the rest.
LEMMA HeadTail ==
  ASSUME NEW S, NEW q \in Seq(S), q # << >>
  PROVE  /\ Head(q) \in S
         /\ Head(q) = q[1]
         /\ Tail(q) \in Seq(S)
         /\ Len(Tail(q)) = Len(q) - 1
         /\ Len(q) \in Nat \ {0}
         /\ 1 \in DOMAIN q
         /\ DOMAIN Tail(q) = 1 .. Len(q) - 1
         /\ \A k \in DOMAIN Tail(q) : k + 1 \in DOMAIN q /\ Tail(q)[k] = q[k + 1]
  OBVIOUS

\* A sequence with one more element.
LEMMA AppendShape ==
  ASSUME NEW S, NEW q \in Seq(S), NEW e \in S
  PROVE  /\ Append(q, e) \in Seq(S)
         /\ Len(Append(q, e)) = Len(q) + 1
         /\ DOMAIN Append(q, e) = 1 .. Len(q) + 1
         /\ \A k \in DOMAIN q : Append(q, e)[k] = q[k]
         /\ Append(q, e)[Len(q) + 1] = e
  OBVIOUS

\* The same, of what has become of the sequence.
LEMMA Appended ==
  ASSUME NEW S, NEW q \in Seq(S), NEW e \in S, NEW w, w = Append(q, e)
  PROVE  /\ DOMAIN w = 1 .. Len(q) + 1 /\ DOMAIN q = 1 .. Len(q) /\ Len(q) \in Nat
         /\ \A k \in DOMAIN q : w[k] = q[k]
         /\ w[Len(q) + 1] = e
  <1>1. DOMAIN q = 1 .. Len(q) /\ Len(q) \in Nat
    OBVIOUS
  <1> QED  BY <1>1, AppendShape

-----------------------------------------------------------------------------
(* Type correctness.                                                       *)

\* One more answer keeps the answers well typed.
LEMMA AnswerType ==
  ASSUME answers \in [Item -> Seq(Outcome)], NEW i \in Item, NEW o \in Outcome,
         Answer(i, o)
  PROVE  answers' \in [Item -> Seq(Outcome)]
  <1>1. Append(answers[i], o) \in Seq(Outcome)
    OBVIOUS
  <1> QED  BY <1>1, Zenon DEF Answer

\* Receiving and failing the head of the queue keeps queue and answers well typed.
LEMMA FailHeadType ==
  ASSUME TypeOK, work # << >>, FailHead
  PROVE  /\ work' \in Seq(Item) /\ Len(work') <= QueueDepth
         /\ answers' \in [Item -> Seq(Outcome)]
  <1>1. Head(work) \in Item /\ Tail(work) \in Seq(Item) /\ Len(Tail(work)) = Len(work) - 1
    BY HeadTail, Zenon DEF TypeOK
  <1>2. answers' \in [Item -> Seq(Outcome)]
    BY <1>1, AnswerType, Zenon DEF FailHead, TypeOK, Outcome
  <1> QED  BY <1>1, <1>2, BoundsAssumption DEF FailHead, TypeOK

\* The request a read loop holds is an item.
LEMMA CurrentIsItem ==
  ASSUME TypeOK, NEW s \in Sessions, issued[s] > 0
  PROVE  Current(s) \in Item
  BY ItemMake, BoundsAssumption DEF TypeOK, Current

(***************************************************************************)
(* TypeOK is not inductive alone: a read loop that holds a request has     *)
(* read one, and the sender goroutine has an item in hand while it works.  *)
(***************************************************************************)
Hands ==
  /\ \A s \in Sessions : pc[s] = "enqueue" => issued[s] > 0
  /\ cur = None <=> sender \in {"select", "exited"}

TypeInv == TypeOK /\ Hands

\* The state before the first request.
LEMMA TypeInit == Init => TypeInv
  <1> SUFFICES ASSUME Init PROVE TypeInv
    BY Zenon
  <1> USE SessionsAssumption, BoundsAssumption DEF Init, Actors
  <1>0. << >> \in Seq(Item) /\ Len(<< >>) = 0 /\ << >> \in Seq(Outcome)
    OBVIOUS
  <1>a. work \in Seq(Item) /\ Len(work) <= QueueDepth /\ wire \in Seq(Item)
    BY <1>0
  <1>b. answers \in [Item -> Seq(Outcome)]
    BY <1>0, Zenon
  <1>c. /\ pc \in [Actors -> LoopPC]
        /\ issued \in [Sessions -> Nat] /\ \A s \in Sessions : issued[s] <= MaxSends[s]
        /\ tune \in [Sessions -> Nat] /\ tunes \in 0 .. MaxTunes
    BY DEF LoopPC
  <1>1. TypeOK
    BY <1>a, <1>b, <1>c, Zenon DEF TypeOK, SenderPC
  <1>2. Hands
    BY Zenon DEF Hands
  <1> QED  BY <1>1, <1>2, Zenon DEF TypeInv

\* Each action keeps the types, and hands an item over only when it has one.
LEMMA TypeNext == TypeInv /\ [Next]_vars => TypeInv'
  <1> SUFFICES ASSUME TypeInv, [Next]_vars PROVE TypeInv'
    BY Zenon
  <1> USE SessionsAssumption, BoundsAssumption
      DEF TypeInv, Hands, Actors, LoopPC, SenderPC, Goto,
          stateVars, loopVars, senderVars, outVars, pionVars
  <1>1. ASSUME NEW s \in Sessions, DCSend(s) PROVE TypeInv'
    <2> DEFINE i == <<s, issued[s] + 1>>
    <2>1. i \in Item
      BY <1>1, ItemMake DEF DCSend, TypeOK
    <2>2. answers' \in [Item -> Seq(Outcome)]
      BY <1>1, <2>1, AnswerType, Zenon DEF DCSend, TypeOK, Outcome
    <2>3. issued' \in [Sessions -> Nat] /\ \A r \in Sessions : issued'[r] <= MaxSends[r]
      BY <1>1 DEF DCSend, TypeOK
    <2>4. pc' \in [Actors -> LoopPC] /\ drain' \subseteq Item
      BY <1>1, <2>1, Zenon DEF DCSend, TypeOK
    <2>5. TypeOK'
      BY <1>1, <2>2, <2>3, <2>4 DEF DCSend, TypeOK
    <2>6. Hands'
      BY <1>1 DEF DCSend, TypeOK
    <2> QED  BY <2>5, <2>6, Zenon
  <1>2. ASSUME NEW s \in Sessions, Enqueue(s) PROVE TypeInv'
    <2>1. Current(s) \in Item
      BY <1>2, CurrentIsItem, Zenon DEF Enqueue
    <2>2. work' \in Seq(Item) /\ Len(work') <= QueueDepth
      BY <1>2, <2>1, AppendShape DEF Enqueue, Room, TypeOK
    <2> QED  BY <1>2, <2>2 DEF Enqueue, TypeOK
  <1>3. ASSUME NEW s \in Sessions, EnqueueClosed(s) PROVE TypeInv'
    <2>1. Current(s) \in Item
      BY <1>3, CurrentIsItem, Zenon DEF EnqueueClosed
    <2>2. answers' \in [Item -> Seq(Outcome)]
      BY <1>3, <2>1, AnswerType, Zenon DEF EnqueueClosed, TypeOK, Outcome
    <2> QED  BY <1>3, <2>2, Zenon DEF EnqueueClosed, TypeOK
  <1>4. ASSUME NEW s \in Sessions, Recheck(s) PROVE TypeInv'
    BY <1>4 DEF Recheck, AfterEnqueue, TypeOK
  <1>5. ASSUME NEW s \in Sessions, Reclaim(s) PROVE TypeInv'
    <2>1. /\ work' \in Seq(Item) /\ Len(work') <= QueueDepth
          /\ answers' \in [Item -> Seq(Outcome)]
      BY <1>5, FailHeadType, Zenon DEF Reclaim, TypeOK
    <2> QED  BY <1>5, <2>1, Zenon DEF Reclaim, TypeOK
  <1>6. ASSUME NEW s \in Tuners, TuneLoop(s) PROVE TypeInv'
    <2>1. CASE SetPionThreshold(s)
      BY <2>1 DEF SetPionThreshold, TypeOK
    <2>2. CASE LookupForThreshold(s)
      BY <2>2 DEF LookupForThreshold, TypeOK
    <2>3. CASE SetThreshold(s)
      BY <2>3 DEF SetThreshold, Broadcast, TypeOK
    <2> QED  BY <1>6, <2>1, <2>2, <2>3, Zenon DEF TuneLoop
  <1>7. ASSUME NEW a \in Actors, CloseLoop(a) PROVE TypeInv'
    <2>1. CASE BeginClose(a)
      BY <2>1, Zenon DEF BeginClose, TypeOK
    <2>2. CASE CloseDone(a)
      BY <2>2, Zenon DEF CloseDone, TypeOK
    <2>3. CASE CloseBroadcast(a)
      BY <2>3 DEF CloseBroadcast, Broadcast, TypeOK
    <2>4. CASE CloseDrain(a)
      <3>1. /\ work' \in Seq(Item) /\ Len(work') <= QueueDepth
            /\ answers' \in [Item -> Seq(Outcome)]
        BY <2>4, FailHeadType, Zenon DEF CloseDrain, TypeOK
      <3>2. /\ pc' \in [Actors -> LoopPC]
            /\ \A s \in Sessions : pc'[s] = "enqueue" => pc[s] = "enqueue"
        BY <2>4, Zenon DEF CloseDrain, TypeOK
      <3>3. UNCHANGED <<registered, done, threshold, issued, drain, tune, tunes, sender, cur, lowSeen,
                        wire, channel, buffered, pionLow, lowCallback>>
        BY <2>4, Zenon DEF CloseDrain
      <3>4. TypeOK'
        BY <3>1, <3>2, <3>3, Zenon DEF TypeOK
      <3>5. Hands'
        BY <3>2, <3>3, Zenon
      <3> QED  BY <3>4, <3>5, Zenon
    <2>5. CASE CloseChannel(a)
      BY <2>5, Zenon DEF CloseChannel, TypeOK
    <2> QED  BY <1>7, <2>1, <2>2, <2>3, <2>4, <2>5, Zenon DEF CloseLoop
  <1>8. CASE Sender
    <2>1. CASE SenderTake
      <3>1. /\ cur' \in Item /\ work' \in Seq(Item) /\ Len(work') <= QueueDepth
        BY <2>1, HeadTail DEF SenderTake, Take, TypeOK
      <3> QED  BY <2>1, <3>1, Zenon DEF SenderTake, TypeOK
    <2>2. CASE SenderExit
      BY <2>2, Zenon DEF SenderExit, TypeOK
    <2>3. CASE SendOk
      <3>1. wire' \in Seq(Item)
        BY <2>3, AppendShape, Zenon DEF SendOk, TypeOK
      <3> QED  BY <2>3, <3>1 DEF SendOk, TypeOK
    <2>4. CASE SendError
      <3>1. answers' \in [Item -> Seq(Outcome)]
        BY <2>4, AnswerType, Zenon DEF SendError, TypeOK, Outcome
      <3> QED  BY <2>4, <3>1, Zenon DEF SendError, TypeOK
    <2>5. CASE WaitLock
      BY <2>5, Zenon DEF WaitLock, TypeOK
    <2>6. CASE WaitCheckBuffer
      BY <2>6, Zenon DEF WaitCheckBuffer, TypeOK
    <2>7. CASE WaitCheckDone
      <3>1. answers' \in [Item -> Seq(Outcome)]
        BY <2>7, AnswerType, Zenon DEF WaitCheckDone, TypeOK, Outcome
      <3> QED  BY <2>7, <3>1, Zenon DEF WaitCheckDone, TypeOK
    <2>8. CASE SenderAck
      <3>1. answers' \in [Item -> Seq(Outcome)]
        BY <2>8, AnswerType, Zenon DEF SenderAck, TypeOK, Outcome
      <3> QED  BY <2>8, <3>1, Zenon DEF SenderAck, TypeOK
    <2> QED  BY <1>8, <2>1, <2>2, <2>3, <2>4, <2>5, <2>6, <2>7, <2>8, Zenon DEF Sender
  <1>9. CASE Pion
    <2>1. CASE PionOpen
      BY <2>1, Zenon DEF PionOpen, TypeOK
    <2>2. CASE PionDrain
      BY <2>2 DEF PionDrain, TypeOK
    <2>3. CASE SignalLow
      BY <2>3, Zenon DEF SignalLow, Broadcast, TypeOK
    <2>4. CASE PionClose
      BY <2>4, Zenon DEF PionClose, TypeOK
    <2> QED  BY <1>9, <2>1, <2>2, <2>3, <2>4, Zenon DEF Pion
  <1>10. CASE UNCHANGED vars
    BY <1>10 DEF vars, TypeOK
  <1> QED
    BY <1>1, <1>2, <1>3, <1>4, <1>5, <1>6, <1>7, <1>8, <1>9, <1>10, Zenon DEF Next, SendLoop

(***************************************************************************)
(* The send path keeps its types, and the queue its capacity.              *)
(***************************************************************************)
THEOREM TypeCorrect == Spec => []TypeOK
  <1>1. TypeInv => TypeOK
    BY Zenon DEF TypeInv
  <1> QED  BY <1>1, TypeInit, TypeNext, PTL DEF Spec

-----------------------------------------------------------------------------
(***************************************************************************)
(* One response per request.  The inductive invariant follows each request *)
(* through the hands it passes: it is fresh, with its read loop, in the    *)
(* queue, with the sender goroutine, or answered, and in one of these      *)
(* places only.                                                            *)
(***************************************************************************)
Fresh == \A i \in Item : ~Issued(i) => answers[i] = << >>

LoopPlace ==
  \A i \in Item : HeldByLoop(i) => answers[i] = << >> /\ ~Queued(i) /\ cur # i

QueuePlace ==
  /\ \A j, k \in DOMAIN work : work[j] = work[k] => j = k
  /\ \A k \in DOMAIN work :
       Issued(work[k]) /\ answers[work[k]] = << >> /\ cur # work[k]

SenderPlace == cur # None => Issued(cur) /\ answers[cur] = << >>

Places ==
  /\ Fresh /\ LoopPlace /\ QueuePlace /\ SenderPlace
  /\ NeverAnsweredTwice /\ NoRequestLost

\* What an answer to a request that had none changes.
LEMMA AnswerEffect ==
  ASSUME TypeOK, NEW i \in Item, NEW o, answers[i] = << >>, Answer(i, o)
  PROVE  /\ answers'[i] # << >>
         /\ \A j \in Item : j # i => answers'[j] = answers[j]
         /\ NeverAnsweredTwice => NeverAnsweredTwice'
  <1>1. answers'[i] = Append(<< >>, o)
    BY Zenon DEF Answer, TypeOK
  <1>2. \A j \in Item : j # i => answers'[j] = answers[j]
    BY Zenon DEF Answer, TypeOK
  <1>3. answers'[i] # << >> /\ Len(answers'[i]) = 1
    BY <1>1
  <1>4. ASSUME NeverAnsweredTwice, NEW j \in Item PROVE Len(answers'[j]) <= 1
    <2>1. CASE j = i
      BY <2>1, <1>3
    <2>2. CASE j # i
      BY <2>2, <1>2, <1>4, Zenon DEF NeverAnsweredTwice
    <2> QED  BY <2>1, <2>2, Zenon
  <1> QED  BY <1>2, <1>3, <1>4, Zenon DEF NeverAnsweredTwice

\* A step that leaves the requests where they are.
LEMMA SamePlaces ==
  ASSUME TypeOK, Places,
         issued' = issued, work' = work, cur' = cur, answers' = answers,
         \A s \in Sessions : pc'[s] = "enqueue" <=> pc[s] = "enqueue"
  PROVE  Places'
  <1>1. \A i \in Item : HeldByLoop(i)' <=> HeldByLoop(i)
    BY ItemParts, Zenon DEF HeldByLoop, Holding
  <1>2. \A i : Queued(i)' <=> Queued(i)
    BY Zenon DEF Queued
  <1>3. \A i : Issued(i)' <=> Issued(i)
    BY Zenon DEF Issued
  <1> QED
    BY <1>1, <1>2, <1>3, Zenon DEF Places, Fresh, LoopPlace, QueuePlace, SenderPlace,
       NeverAnsweredTwice, NoRequestLost

\* The queue's head is received and failed (closeState, or a read loop's re-check).
LEMMA FailHeadPlaces ==
  ASSUME TypeOK, Places, work # << >>, FailHead,
         issued' = issued, cur' = cur,
         \A s \in Sessions : pc'[s] = "enqueue" <=> pc[s] = "enqueue"
  PROVE  Places'
  <1> DEFINE h == Head(work)
  <1>1. /\ h \in Item /\ h = work[1] /\ 1 \in DOMAIN work
        /\ DOMAIN work' = 1 .. Len(work) - 1 /\ Len(work) \in Nat
        /\ \A k \in DOMAIN work' : k + 1 \in DOMAIN work /\ work'[k] = work[k + 1]
    BY HeadTail DEF TypeOK, FailHead
  <1>2. /\ answers'[h] # << >>
        /\ \A j \in Item : j # h => answers'[j] = answers[j]
        /\ NeverAnsweredTwice'
    BY <1>1, AnswerEffect, Zenon DEF FailHead, Places, QueuePlace
  <1>3. \A k \in DOMAIN work : work[k] \in Item
    BY DEF TypeOK
  <1>4. \A i \in Item : HeldByLoop(i)' <=> HeldByLoop(i)
    BY ItemParts, Zenon DEF HeldByLoop, Holding
  <1>5. \A i \in Item : Issued(i)' <=> Issued(i)
    BY Zenon DEF Issued
  <1>6. \A k \in DOMAIN work' : work'[k] # h /\ work'[k] \in Item
    BY <1>1, <1>3 DEF Places, QueuePlace
  <1>7. DOMAIN work = 1 .. Len(work)
    BY DEF TypeOK
  <1>8. \A i \in Item : Queued(i) => i = h \/ Queued(i)'
    <2> SUFFICES ASSUME NEW i \in Item, NEW k \in DOMAIN work, work[k] = i, i # h
                 PROVE  Queued(i)'
      BY Zenon DEF Queued
    <2>1. k \in 2 .. Len(work)
      BY <1>1, <1>7
    <2>2. k - 1 \in DOMAIN work' /\ work'[k - 1] = i
      BY <1>1, <2>1
    <2> QED  BY <2>2, Zenon DEF Queued
  <1>9. \A i \in Item : Queued(i)' => i # h /\ Queued(i)
    BY <1>1, <1>6, Zenon DEF Queued
  <1>10. Issued(h) /\ cur # h
    BY <1>1, Zenon DEF Places, QueuePlace
  <1>11. ~HeldByLoop(h)
    BY <1>1, Zenon DEF Places, LoopPlace, Queued
  <1>12. Fresh'
    BY <1>2, <1>5, <1>10, Zenon DEF Places, Fresh
  <1>13. LoopPlace'
    BY <1>2, <1>4, <1>9, <1>11, Zenon DEF Places, LoopPlace
  <1>14. QueuePlace'
    BY <1>1, <1>2, <1>5, <1>6 DEF Places, QueuePlace
  <1>15. SenderPlace'
    BY <1>2, <1>5, <1>10, Zenon DEF Places, SenderPlace, TypeOK
  <1>16. NoRequestLost'
    BY <1>2, <1>4, <1>5, <1>8, Zenon DEF Places, NoRequestLost
  <1> QED
    BY <1>2, <1>12, <1>13, <1>14, <1>15, <1>16, Zenon DEF Places

\* The sender goroutine answers the request in its hand.
LEMMA SenderAnswerPlaces ==
  ASSUME TypeOK, Places, NEW o, cur # None, Answer(cur, o), cur' = None,
         issued' = issued, work' = work, pc' = pc
  PROVE  Places'
  <1> USE SessionsAssumption
  <1>1. cur \in Item /\ answers[cur] = << >> /\ Issued(cur)
    BY Zenon DEF TypeOK, Places, SenderPlace
  <1>2. /\ answers'[cur] # << >>
        /\ \A j \in Item : j # cur => answers'[j] = answers[j]
        /\ NeverAnsweredTwice'
    BY <1>1, AnswerEffect, Zenon DEF Places
  <1>3. \A k \in DOMAIN work : work[k] \in Item /\ work[k] # cur
    BY DEF TypeOK, Places, QueuePlace
  <1>4. \A i \in Item : /\ HeldByLoop(i)' <=> HeldByLoop(i)
                        /\ Issued(i)' <=> Issued(i)
                        /\ Queued(i)' <=> Queued(i)
    BY Zenon DEF HeldByLoop, Holding, Issued, Queued
  <1>5. ~HeldByLoop(cur)
    BY <1>1, Zenon DEF Places, LoopPlace
  <1>6. Fresh' /\ SenderPlace'
    BY <1>1, <1>2, <1>4, Zenon DEF Places, Fresh, SenderPlace
  <1>7. LoopPlace'
    BY <1>2, <1>4, <1>5, Zenon DEF Places, LoopPlace
  <1>8. QueuePlace'
    BY <1>2, <1>3, <1>4, Zenon DEF Places, QueuePlace
  <1>9. NoRequestLost'
    BY <1>2, <1>4, Zenon DEF Places, NoRequestLost
  <1> QED
    BY <1>2, <1>6, <1>7, <1>8, <1>9, Zenon DEF Places

\* No request has been read, so none is anywhere.
LEMMA PlacesInit == Init => Places
  <1> SUFFICES ASSUME Init PROVE Places
    BY Zenon
  <1>1. /\ DOMAIN work = {} /\ cur = None
        /\ \A i \in Item : answers[i] = << >> /\ Len(answers[i]) = 0
    BY DEF Init
  <1>2. \A i \in Item : ~Issued(i)
    BY ItemParts, BoundsAssumption DEF Init, Issued
  <1>3. \A i \in Item : ~HeldByLoop(i)
    BY ItemParts, Zenon DEF Init, HeldByLoop, Holding, Actors
  <1> QED
    BY <1>1, <1>2, <1>3 DEF Places, Fresh, LoopPlace, QueuePlace, SenderPlace,
       NeverAnsweredTwice, NoRequestLost

\* A request is read: refused at once, or held by its read loop.
LEMMA PlacesDCSend ==
  ASSUME TypeInv, Places, NEW s \in Sessions, DCSend(s)
  PROVE  Places'
  <1> USE SessionsAssumption, BoundsAssumption DEF TypeInv, stateVars, senderVars
  <1> DEFINE i == <<s, issued[s] + 1>>
  <1>1. i \in Item /\ ~Issued(i) /\ answers[i] = << >>
    <2>1. issued[s] \in Nat /\ MaxSends[s] \in Nat /\ issued[s] < MaxSends[s]
      BY Zenon DEF DCSend, TypeOK
    <2>2. i \in Item
      BY <2>1, ItemMake
    <2>3. ~Issued(i)
      BY <2>1 DEF Issued
    <2> QED  BY <2>2, <2>3, Zenon DEF Places, Fresh
  <1>2. /\ work' = work /\ cur' = cur
        /\ issued' = [issued EXCEPT ![s] = @ + 1]
        /\ \A r \in Sessions : r # s => pc'[r] = pc[r]
        /\ pc[s] = "idle" /\ issued'[s] = issued[s] + 1
        /\ \A r \in Sessions : issued[r] \in Nat /\ (r # s => issued'[r] = issued[r])
    BY Zenon DEF DCSend, Goto, TypeOK, Actors
  <1>3. \A j \in Item : Issued(j)' <=> Issued(j) \/ j = i
    <2> TAKE j \in Item
    <2>1. j[1] \in Sessions /\ j[2] \in Nat /\ j = <<j[1], j[2]>> /\ issued[j[1]] \in Nat
      BY <1>2, ItemParts, Zenon
    <2>2. CASE j[1] = s
      <3>1. j = i <=> j[2] = issued[s] + 1
        BY <2>1, <2>2
      <3> QED  BY <1>2, <2>1, <2>2, <3>1 DEF Issued
    <2>3. CASE j[1] # s
      BY <1>2, <2>1, <2>3 DEF Issued
    <2> QED  BY <2>2, <2>3, Zenon
  <1>4. \A k \in DOMAIN work : work[k] \in Item /\ Issued(work[k]) /\ work[k] # i
    <2> TAKE k \in DOMAIN work
    <2>1. work[k] \in Item
      BY DEF TypeOK
    <2>2. Issued(work[k])
      BY Zenon DEF Places, QueuePlace
    <2> QED  BY <1>1, <2>1, <2>2, Zenon
  <1>5. cur # i
    BY <1>1, Zenon DEF Places, SenderPlace, TypeOK
  <1>6. \A j : Queued(j)' <=> Queued(j)
    BY <1>2, Zenon DEF Queued
  <1>7. \A j \in Item : HeldByLoop(j) => HeldByLoop(j)' /\ j # i
    <2> SUFFICES ASSUME NEW j \in Item, HeldByLoop(j) PROVE HeldByLoop(j)' /\ j # i
      BY Zenon
    <2>1. j[1] \in Sessions /\ j[1] # s
      BY <1>2, ItemParts, Zenon DEF HeldByLoop, Holding
    <2> QED  BY <1>2, <2>1 DEF HeldByLoop, Holding
  <1>8. CASE pc' = pc /\ \E o \in Outcome : Answer(i, o)
    <2>1. /\ answers'[i] # << >>
          /\ \A j \in Item : j # i => answers'[j] = answers[j]
          /\ NeverAnsweredTwice'
      BY <1>1, <1>8, AnswerEffect, Zenon DEF Places
    <2>2. \A j \in Item : HeldByLoop(j)' => HeldByLoop(j)
      BY <1>2, <1>8, ItemParts, Zenon DEF HeldByLoop, Holding, TypeOK
    <2>3. Fresh'
      BY <1>3, <2>1, Zenon DEF Places, Fresh
    <2>4. LoopPlace'
      BY <1>2, <1>6, <1>7, <2>1, <2>2, Zenon DEF Places, LoopPlace
    <2>5. QueuePlace'
      BY <1>2, <1>3, <1>4, <2>1, Zenon DEF Places, QueuePlace
    <2>6. SenderPlace'
      BY <1>2, <1>3, <1>5, <2>1, Zenon DEF Places, SenderPlace, TypeOK
    <2>7. NoRequestLost'
      BY <1>2, <1>3, <1>6, <1>7, <2>1, Zenon DEF Places, NoRequestLost
    <2> QED  BY <2>1, <2>3, <2>4, <2>5, <2>6, <2>7, Zenon DEF Places
  <1>9. CASE Goto(s, "enqueue") /\ answers' = answers
    <2>1. pc'[s] = "enqueue" /\ issued'[s] = issued[s] + 1
      BY <1>2, <1>9, Zenon DEF Goto, TypeOK, Actors
    <2>2. \A j \in Item : j = i => HeldByLoop(j)'
      BY <2>1 DEF HeldByLoop, Holding
    <2>3. \A j \in Item : HeldByLoop(j)' => HeldByLoop(j) \/ j = i
      <3> TAKE j \in Item
      <3>1. j[1] \in Sessions /\ j = <<j[1], j[2]>>
        BY ItemParts, Zenon
      <3>2. CASE j[1] = s
        BY <2>1, <3>1, <3>2, Zenon DEF HeldByLoop
      <3>3. CASE j[1] # s
        BY <1>2, <3>1, <3>3, Zenon DEF HeldByLoop, Holding, TypeOK
      <3> QED  BY <3>2, <3>3, Zenon
    <2>4. ~Queued(i)
      BY <1>4, Zenon DEF Queued
    <2>5. Fresh' /\ NeverAnsweredTwice'
      BY <1>3, <1>9, Zenon DEF Places, Fresh, NeverAnsweredTwice
    <2>6. LoopPlace'
      BY <1>1, <1>2, <1>5, <1>6, <1>9, <2>3, <2>4, Zenon DEF Places, LoopPlace
    <2>7. QueuePlace'
      BY <1>2, <1>3, <1>4, <1>9, Zenon DEF Places, QueuePlace
    <2>8. SenderPlace'
      BY <1>2, <1>3, <1>9, Zenon DEF Places, SenderPlace, TypeOK
    <2>9. NoRequestLost'
      <3> SUFFICES ASSUME NEW j \in Item, Issued(j)'
                   PROVE  (answers[j] # << >> \/ HeldByLoop(j) \/ Queued(j) \/ cur = j)'
        BY Zenon DEF NoRequestLost
      <3>1. CASE j = i
        BY <2>2, <3>1, Zenon
      <3>2. CASE Issued(j)
        BY <1>2, <1>6, <1>7, <1>9, <3>2, Zenon DEF Places, NoRequestLost
      <3> QED  BY <1>3, <3>1, <3>2, Zenon
    <2> QED  BY <2>5, <2>6, <2>7, <2>8, <2>9, Zenon DEF Places
  <1> QED  BY <1>8, <1>9, Zenon DEF DCSend, Outcome

\* A read loop puts its request into the queue.
LEMMA PlacesEnqueue ==
  ASSUME TypeInv, Places, NEW s \in Sessions, Enqueue(s)
  PROVE  Places'
  <1> USE SessionsAssumption, BoundsAssumption DEF TypeInv
  <1>1. PICK i \in Item : i = Current(s) /\ i[1] = s /\ i[2] = issued[s]
    <2>1. Current(s) \in Item
      BY CurrentIsItem, Zenon DEF Enqueue, Hands
    <2> QED  BY <2>1, Zenon DEF Current
  <1>2. /\ issued' = issued /\ cur' = cur /\ answers' = answers
        /\ pc[s] = "enqueue" /\ pc'[s] = "recheck"
        /\ \A r \in Sessions : r # s => pc'[r] = pc[r]
    BY Zenon DEF Enqueue, Goto, TypeOK, Actors, senderVars, outVars
  <1>3. /\ DOMAIN work' = 1 .. Len(work) + 1 /\ DOMAIN work = 1 .. Len(work)
        /\ Len(work) \in Nat
        /\ \A k \in DOMAIN work : work'[k] = work[k]
        /\ work'[Len(work) + 1] = i
    <2>1. work \in Seq(Item) /\ work' = Append(work, i)
      BY <1>1, Zenon DEF Enqueue, TypeOK
    <2> QED  BY <2>1, Appended
  <1>4. HeldByLoop(i)
    BY <1>1, <1>2, Zenon DEF HeldByLoop, Holding
  <1>5. answers[i] = << >> /\ ~Queued(i) /\ cur # i /\ Issued(i)
    <2>1. issued[s] \in Nat
      BY Zenon DEF TypeOK
    <2>2. Issued(i)
      BY <1>1, <2>1 DEF Issued
    <2> QED  BY <1>4, <2>2, Zenon DEF Places, LoopPlace
  <1>6. \A j \in Item : HeldByLoop(j)' <=> HeldByLoop(j) /\ j # i
    <2> TAKE j \in Item
    <2>1. j[1] \in Sessions /\ j = <<j[1], j[2]>> /\ i = <<i[1], i[2]>>
      BY ItemParts, Zenon
    <2>2. CASE j[1] = s
      BY <1>1, <1>2, <2>1, <2>2, Zenon DEF HeldByLoop, Holding
    <2>3. CASE j[1] # s
      BY <1>1, <1>2, <2>1, <2>3, Zenon DEF HeldByLoop, Holding
    <2> QED  BY <2>2, <2>3, Zenon
  <1>7. \A j \in Item : Queued(j)' <=> Queued(j) \/ j = i
    BY <1>3 DEF Queued
  <1>8. \A j : Issued(j)' <=> Issued(j)
    BY <1>2, Zenon DEF Issued
  <1>9. Fresh' /\ NeverAnsweredTwice'
    BY <1>2, <1>8, Zenon DEF Places, Fresh, NeverAnsweredTwice
  <1>10. LoopPlace'
    BY <1>2, <1>6, <1>7, Zenon DEF Places, LoopPlace
  <1>11. QueuePlace'
    <2>1. \A k \in DOMAIN work : work[k] # i
      BY <1>5, Zenon DEF Queued
    <2>2. \A k \in DOMAIN work' : k \in DOMAIN work \/ k = Len(work) + 1
      <3>1. \A n \in Nat : \A k \in 1 .. n + 1 : k \in 1 .. n \/ k = n + 1
        OBVIOUS
      <3> QED  BY <1>3, <3>1, Zenon
    <2>3. \A j, k \in DOMAIN work' : work'[j] = work'[k] => j = k
      <3>1. \A j, k \in DOMAIN work : work[j] = work[k] => j = k
        BY Zenon DEF Places, QueuePlace
      <3> QED  BY <1>3, <2>1, <2>2, <3>1, Zenon
    <2>4. \A k \in DOMAIN work' :
            Issued(work'[k]) /\ answers[work'[k]] = << >> /\ cur # work'[k]
      BY <1>3, <1>5, <2>2, Zenon DEF Places, QueuePlace
    <2>5. (\A k \in DOMAIN work : Issued(work[k]))'
      BY <1>2, <2>4, Zenon DEF Issued
    <2> QED  BY <1>2, <2>3, <2>4, <2>5, Zenon DEF QueuePlace
  <1>12. SenderPlace'
    BY <1>2, <1>8, Zenon DEF Places, SenderPlace
  <1>13. NoRequestLost'
    BY <1>2, <1>6, <1>7, <1>8, Zenon DEF Places, NoRequestLost
  <1> QED  BY <1>9, <1>10, <1>11, <1>12, <1>13, Zenon DEF Places

\* A read loop finds the state closed and fails its own request.
LEMMA PlacesEnqueueClosed ==
  ASSUME TypeInv, Places, NEW s \in Sessions, EnqueueClosed(s)
  PROVE  Places'
  <1> USE SessionsAssumption, BoundsAssumption DEF TypeInv
  <1>1. PICK i \in Item : i = Current(s) /\ i[1] = s /\ i[2] = issued[s]
    <2>1. Current(s) \in Item
      BY CurrentIsItem, Zenon DEF EnqueueClosed, Hands
    <2> QED  BY <2>1, Zenon DEF Current
  <1>2. /\ issued' = issued /\ cur' = cur /\ work' = work
        /\ pc[s] = "enqueue" /\ pc'[s] = "idle"
        /\ \A r \in Sessions : r # s => pc'[r] = pc[r]
    BY Zenon DEF EnqueueClosed, Goto, TypeOK, Actors, senderVars, stateVars
  <1>3. HeldByLoop(i)
    BY <1>1, <1>2, Zenon DEF HeldByLoop, Holding
  <1>4. answers[i] = << >> /\ ~Queued(i) /\ cur # i /\ Issued(i)
    <2>1. issued[s] \in Nat
      BY Zenon DEF TypeOK
    <2>2. Issued(i)
      BY <1>1, <2>1 DEF Issued
    <2> QED  BY <1>3, <2>2, Zenon DEF Places, LoopPlace
  <1>5. /\ answers'[i] # << >>
        /\ \A j \in Item : j # i => answers'[j] = answers[j]
        /\ NeverAnsweredTwice'
    BY <1>1, <1>4, AnswerEffect, Zenon DEF EnqueueClosed, Places
  <1>6. \A j \in Item : HeldByLoop(j)' <=> HeldByLoop(j) /\ j # i
    <2> TAKE j \in Item
    <2>1. j[1] \in Sessions /\ j = <<j[1], j[2]>> /\ i = <<i[1], i[2]>>
      BY ItemParts, Zenon
    <2>2. CASE j[1] = s
      BY <1>1, <1>2, <2>1, <2>2, Zenon DEF HeldByLoop, Holding
    <2>3. CASE j[1] # s
      BY <1>1, <1>2, <2>1, <2>3, Zenon DEF HeldByLoop, Holding
    <2> QED  BY <2>2, <2>3, Zenon
  <1>7. \A j : (Queued(j)' <=> Queued(j)) /\ (Issued(j)' <=> Issued(j))
    BY <1>2, Zenon DEF Queued, Issued
  <1>8. \A k \in DOMAIN work : work[k] \in Item /\ work[k] # i
    <2>1. \A k \in DOMAIN work : work[k] \in Item
      <3>1. work \in Seq(Item)
        BY Zenon DEF TypeOK
      <3> QED  BY <3>1, ElementOfSeq, Zenon
    <2> QED  BY <1>4, <2>1, Zenon DEF Queued
  <1>9. Fresh'
    BY <1>4, <1>5, <1>7, Zenon DEF Places, Fresh
  <1>10. LoopPlace'
    BY <1>2, <1>5, <1>6, <1>7, Zenon DEF Places, LoopPlace
  <1>11. QueuePlace'
    BY <1>2, <1>5, <1>7, <1>8, Zenon DEF Places, QueuePlace
  <1>12. SenderPlace'
    BY <1>2, <1>4, <1>5, <1>7, Zenon DEF Places, SenderPlace, TypeOK
  <1>13. NoRequestLost'
    BY <1>2, <1>5, <1>6, <1>7, Zenon DEF Places, NoRequestLost
  <1> QED  BY <1>5, <1>9, <1>10, <1>11, <1>12, <1>13, Zenon DEF Places

\* The sender goroutine receives the head of the queue.
LEMMA PlacesSenderTake ==
  ASSUME TypeInv, Places, SenderTake
  PROVE  Places'
  <1> USE SessionsAssumption DEF TypeInv
  <1>1. PICK h \in Item : h = Head(work)
    BY HeadTail, Zenon DEF SenderTake, TypeOK
  <1>2. /\ h = work[1] /\ 1 \in DOMAIN work /\ DOMAIN work = 1 .. Len(work)
        /\ DOMAIN work' = 1 .. Len(work) - 1 /\ Len(work) \in Nat
        /\ \A k \in DOMAIN work' : k + 1 \in DOMAIN work /\ work'[k] = work[k + 1]
    BY <1>1, HeadTail DEF TypeOK, SenderTake, Take
  <1>3. /\ cur = None /\ cur' = h
        /\ issued' = issued /\ pc' = pc /\ answers' = answers
    BY <1>1, Zenon DEF SenderTake, Take, Hands, loopVars, outVars
  <1>4. Issued(h) /\ answers[h] = << >> /\ Queued(h) /\ ~HeldByLoop(h)
    BY <1>2, Zenon DEF Places, QueuePlace, LoopPlace, Queued
  <1>5. \A j : (Issued(j)' <=> Issued(j)) /\ (HeldByLoop(j)' <=> HeldByLoop(j))
    BY <1>3, Zenon DEF Issued, HeldByLoop, Holding
  <1>6. \A k \in DOMAIN work' : work'[k] # h
    BY <1>2 DEF Places, QueuePlace
  <1>7. \A j \in Item : Queued(j) => j = h \/ Queued(j)'
    <2> SUFFICES ASSUME NEW j \in Item, NEW k \in DOMAIN work, work[k] = j, j # h
                 PROVE  Queued(j)'
      BY Zenon DEF Queued
    <2>1. k \in 2 .. Len(work)
      BY <1>2
    <2>2. k - 1 \in DOMAIN work' /\ work'[k - 1] = j
      BY <1>2, <2>1
    <2> QED  BY <2>2, Zenon DEF Queued
  <1>8. \A j : Queued(j)' => Queued(j)
    BY <1>2, Zenon DEF Queued
  <1>9. Fresh' /\ NeverAnsweredTwice'
    BY <1>3, <1>5, Zenon DEF Places, Fresh, NeverAnsweredTwice
  <1>10. LoopPlace'
    BY <1>3, <1>4, <1>5, <1>8, Zenon DEF Places, LoopPlace
  <1>11. QueuePlace'
    <2>1. \A j, k \in DOMAIN work' : work'[j] = work'[k] => j = k
      <3> SUFFICES ASSUME NEW j \in DOMAIN work', NEW k \in DOMAIN work', work'[j] = work'[k]
                   PROVE  j = k
        BY Zenon
      <3>1. j + 1 = k + 1
        BY <1>2 DEF Places, QueuePlace
      <3> QED  BY <1>2, <3>1
    <2>2. \A k \in DOMAIN work' : Issued(work'[k]) /\ answers[work'[k]] = << >>
      BY <1>2 DEF Places, QueuePlace
    <2>3. (\A k \in DOMAIN work : Issued(work[k]))'
      BY <1>3, <2>2, Zenon DEF Issued
    <2> QED  BY <1>3, <1>6, <2>1, <2>2, <2>3, Zenon DEF QueuePlace
  <1>12. SenderPlace'
    BY <1>3, <1>4, <1>5, Zenon DEF SenderPlace
  <1>13. NoRequestLost'
    BY <1>3, <1>5, <1>7, Zenon DEF Places, NoRequestLost
  <1> QED  BY <1>9, <1>10, <1>11, <1>12, <1>13, Zenon DEF Places

\* Each action moves an item from one place to one other.
LEMMA PlacesNext == TypeInv /\ Places /\ [Next]_vars => Places'
  <1> SUFFICES ASSUME TypeInv, Places, [Next]_vars PROVE Places'
    BY Zenon
  <1> USE DEF TypeInv, stateVars, loopVars, senderVars, outVars, pionVars
  <1>0. TypeOK
    BY Zenon
  <1>1. ASSUME NEW s \in Sessions, SendLoop(s) PROVE Places'
    <2>1. CASE DCSend(s)
      BY <2>1, PlacesDCSend, Zenon
    <2>2. CASE Enqueue(s)
      BY <2>2, PlacesEnqueue, Zenon
    <2>3. CASE EnqueueClosed(s)
      BY <2>3, PlacesEnqueueClosed, Zenon
    <2>4. CASE Recheck(s)
      BY <1>0, <2>4, SamePlaces, Zenon DEF Recheck, AfterEnqueue, Goto, TypeOK, Actors
    <2>5. CASE Reclaim(s)
      <3>1. \A r \in Sessions : pc'[r] = "enqueue" <=> pc[r] = "enqueue"
        BY <2>5, Zenon DEF Reclaim, Goto, TypeOK, Actors
      <3>2. CASE work # << >> /\ FailHead
        BY <1>0, <2>5, <3>1, <3>2, FailHeadPlaces, Zenon DEF Reclaim
      <3>3. CASE UNCHANGED <<work, answers>>
        BY <1>0, <2>5, <3>1, <3>3, SamePlaces, Zenon DEF Reclaim
      <3> QED  BY <2>5, <3>2, <3>3, Zenon DEF Reclaim
    <2> QED  BY <1>1, <2>1, <2>2, <2>3, <2>4, <2>5, Zenon DEF SendLoop
  <1>2. ASSUME NEW s \in Tuners, TuneLoop(s) PROVE Places'
    <2>1. /\ issued' = issued /\ cur' = cur /\ work' = work /\ answers' = answers
      BY <1>2, Zenon DEF TuneLoop, SetPionThreshold, LookupForThreshold, SetThreshold
    <2>2. \A r \in Sessions : pc'[r] = "enqueue" <=> pc[r] = "enqueue"
      BY <1>2, Zenon DEF TuneLoop, SetPionThreshold, LookupForThreshold, SetThreshold,
         Goto, TypeOK, Actors
    <2> QED  BY <1>0, <2>1, <2>2, SamePlaces, Zenon
  <1>3. ASSUME NEW a \in Actors, CloseLoop(a) PROVE Places'
    <2>1. issued' = issued /\ cur' = cur
      BY <1>3, Zenon DEF CloseLoop, BeginClose, CloseDone, CloseBroadcast, CloseDrain, CloseChannel
    <2>2. \A r \in Sessions : pc'[r] = "enqueue" <=> pc[r] = "enqueue"
      BY <1>3, Zenon DEF CloseLoop, BeginClose, CloseDone, CloseBroadcast, CloseDrain,
         CloseChannel, Goto, TypeOK, Actors
    <2>3. CASE work # << >> /\ FailHead
      BY <1>0, <2>1, <2>2, <2>3, FailHeadPlaces, Zenon
    <2>4. CASE UNCHANGED <<work, answers>>
      BY <1>0, <2>1, <2>2, <2>4, SamePlaces, Zenon
    <2> QED
      BY <1>3, <2>3, <2>4, Zenon DEF CloseLoop, BeginClose, CloseDone, CloseBroadcast,
         CloseDrain, CloseChannel
  <1>4. ASSUME Sender PROVE Places'
    <2>1. CASE SenderTake
      BY <2>1, PlacesSenderTake, Zenon
    <2>2. CASE SendError \/ SenderAck \/ (WaitCheckDone /\ Stopped)
      <3>1. cur # None /\ cur' = None /\ issued' = issued /\ work' = work /\ pc' = pc
        BY <2>2, Zenon DEF SendError, SenderAck, WaitCheckDone, Hands
      <3>2. PICK o \in Outcome : Answer(cur, o)
        BY <2>2, Zenon DEF SendError, SenderAck, WaitCheckDone, Outcome
      <3> QED  BY <1>0, <3>1, <3>2, SenderAnswerPlaces, Zenon
    <2>3. CASE SenderExit \/ SendOk \/ WaitLock \/ WaitCheckBuffer \/ (WaitCheckDone /\ ~Stopped)
      BY <1>0, <2>3, SamePlaces, Zenon
         DEF SenderExit, SendOk, WaitLock, WaitCheckBuffer, WaitCheckDone
    <2> QED  BY <1>4, <2>1, <2>2, <2>3, Zenon DEF Sender
  <1>5. CASE Pion
    BY <1>0, <1>5, SamePlaces, Zenon DEF Pion, PionOpen, PionDrain, SignalLow, PionClose
  <1>6. CASE UNCHANGED vars
    BY <1>0, <1>6, SamePlaces, Zenon DEF vars
  <1> QED
    BY <1>1, <1>2, <1>3, <1>4, <1>5, <1>6, Zenon DEF Next

(***************************************************************************)
(* closeState: "every item gets exactly one response".  For every dc:send  *)
(* that a read loop has read, at most one response is emitted.             *)
(***************************************************************************)
THEOREM ExactlyOnce == Spec => []NeverAnsweredTwice
  <1>1. Places => NeverAnsweredTwice
    BY Zenon DEF Places
  <1> QED
    BY <1>1, TypeInit, TypeNext, PlacesInit, PlacesNext, PTL DEF Spec

(***************************************************************************)
(* Until a dc:send is answered it is in the hands of somebody who will     *)
(* answer it: its read loop, the work queue, or the sender goroutine.      *)
(***************************************************************************)
THEOREM NothingLost == Spec => []NoRequestLost
  <1>1. Places => NoRequestLost
    BY Zenon DEF Places
  <1> QED
    BY <1>1, TypeInit, TypeNext, PlacesInit, PlacesNext, PTL DEF Spec

-----------------------------------------------------------------------------
(* The requests of one session are in order along the whole path: what is  *)
(* on the wire, then the item in the sender goroutine's hand, then the     *)
(* queue, then the request in the read loop's hand.                        *)

Before(i, j) == i[1] = j[1] => i[2] < j[2]
OnWire(i) == \E k \in DOMAIN wire : wire[k] = i

QueueOrder ==
  /\ \A j, k \in DOMAIN work : j < k => Before(work[j], work[k])
  /\ \A j \in DOMAIN work : cur # None => Before(cur, work[j])

WireOrder ==
  /\ \A k \in DOMAIN wire : Issued(wire[k])
  /\ \A k \in DOMAIN wire, j \in DOMAIN work : Before(wire[k], work[j])
  /\ sender = "send" => \A k \in DOMAIN wire : Before(wire[k], cur)
  /\ \A s \in Sessions : pc[s] = "enqueue" => ~OnWire(Current(s))
  /\ sender \notin {"select", "send", "exited"} => OnWire(cur)

OrderInv == QueueOrder /\ WireOrder /\ SendOrder /\ ClosedBeforeSendIsUnsent

\* What is in the queue, on the wire and in hand are items.
LEMMA AreItems ==
  ASSUME TypeInv
  PROVE  /\ \A k \in DOMAIN work : work[k] \in Item
         /\ \A k \in DOMAIN wire : wire[k] \in Item
         /\ cur # None => cur \in Item
  BY DEF TypeInv, TypeOK

\* An answer of another kind, or to a request that is not on the wire.
LEMMA AnswerUnsent ==
  ASSUME TypeInv, ClosedBeforeSendIsUnsent, NEW i \in Item, NEW o \in Outcome, Answer(i, o),
         answers[i] = << >>, o # "closedBeforeSend" \/ ~OnWire(i), wire' = wire
  PROVE  ClosedBeforeSendIsUnsent'
  <1>1. answers'[i] = Append(<< >>, o) /\ \A j \in Item : j # i => answers'[j] = answers[j]
    BY Zenon DEF Answer, TypeInv, TypeOK
  <1>2. DOMAIN answers'[i] = {1} /\ answers'[i][1] = o
    BY <1>1
  <1>3. ASSUME NEW k \in DOMAIN wire, NEW n \in DOMAIN answers'[wire[k]]
        PROVE  answers'[wire[k]][n] # "closedBeforeSend"
    <2>1. CASE wire[k] = i
      BY <1>2, <1>3, <2>1, Zenon DEF OnWire
    <2>2. CASE wire[k] # i
      <3>1. answers'[wire[k]] = answers[wire[k]]
        BY <1>1, <2>2, AreItems, Zenon
      <3> QED  BY <1>3, <3>1, Zenon DEF ClosedBeforeSendIsUnsent
    <2> QED  BY <2>1, <2>2, Zenon
  <1> QED  BY <1>3, Zenon DEF ClosedBeforeSendIsUnsent

\* A step that keeps queue, wire, answers and hands.
LEMMA SameOrder ==
  ASSUME TypeInv, OrderInv,
         UNCHANGED <<work, wire, issued, answers>>,
         \/ cur' = cur /\ (sender' = sender \/ {sender, sender'} \cap {"select", "send", "exited"} = {})
         \/ cur' = None /\ sender' \in {"select", "exited"},
         \A s \in Sessions : pc'[s] = "enqueue" => pc[s] = "enqueue"
  PROVE  OrderInv'
  <1>1. \A i : (OnWire(i)' <=> OnWire(i)) /\ (Issued(i)' <=> Issued(i))
    BY Zenon DEF OnWire, Issued
  <1>2. \A s \in Sessions : Current(s)' = Current(s)
    BY Zenon DEF Current
  <1>3. QueueOrder'
    BY Zenon DEF OrderInv, QueueOrder, Before
  <1>4. WireOrder'
    BY <1>1, <1>2, Zenon DEF OrderInv, WireOrder, Before
  <1> QED  BY <1>3, <1>4 DEF OrderInv, SendOrder, ClosedBeforeSendIsUnsent

\* The head of the queue is received and failed.
LEMMA FailHeadOrder ==
  ASSUME TypeInv, Places, OrderInv, work # << >>, FailHead,
         UNCHANGED <<wire, issued, cur, sender>>,
         \A s \in Sessions : pc'[s] = "enqueue" => pc[s] = "enqueue"
  PROVE  OrderInv'
  <1>1. /\ Head(work) \in Item /\ Head(work) = work[1] /\ 1 \in DOMAIN work
        /\ DOMAIN work' = 1 .. Len(work) - 1 /\ Len(work) \in Nat
        /\ \A k \in DOMAIN work' : k + 1 \in DOMAIN work /\ work'[k] = work[k + 1]
    BY HeadTail, Zenon DEF TypeInv, TypeOK, FailHead
  <1>2. ~OnWire(Head(work))
    BY <1>1, ItemParts DEF OrderInv, WireOrder, Before, OnWire
  <1>3. answers[Head(work)] = << >>
    BY <1>1, Zenon DEF Places, QueuePlace
  <1>4. ClosedBeforeSendIsUnsent'
    BY <1>1, <1>2, <1>3, AnswerUnsent, Zenon DEF FailHead, OrderInv, Outcome
  <1>5. QueueOrder'
    <2>1. \A j, k \in DOMAIN work' : j < k => Before(work'[j], work'[k])
      BY <1>1 DEF OrderInv, QueueOrder
    <2>2. \A j \in DOMAIN work' : cur # None => Before(cur, work'[j])
      BY <1>1, Zenon DEF OrderInv, QueueOrder
    <2> QED  BY <2>1, <2>2, Zenon DEF QueueOrder, Before
  <1>6. WireOrder'
    <2>1. \A i : (OnWire(i)' <=> OnWire(i)) /\ (Issued(i)' <=> Issued(i))
      BY Zenon DEF OnWire, Issued
    <2> QED  BY <1>1, <2>1 DEF OrderInv, WireOrder, Before, Current
  <1> QED  BY <1>4, <1>5, <1>6, Zenon DEF OrderInv, SendOrder

\* The sender goroutine's answer.
LEMMA SenderAnswerOrder ==
  ASSUME TypeInv, Places, OrderInv, NEW o \in Outcome, o # "closedBeforeSend", cur # None,
         Answer(cur, o), cur' = None, sender' = "select", UNCHANGED <<work, wire, issued, pc>>
  PROVE  OrderInv'
  <1>1. ClosedBeforeSendIsUnsent'
    BY AreItems, AnswerUnsent, Zenon DEF OrderInv, Places, SenderPlace
  <1>2. QueueOrder'
    BY Zenon DEF OrderInv, QueueOrder, Before
  <1>3. WireOrder'
    BY Zenon DEF OrderInv, WireOrder, Before, OnWire, Issued, Current
  <1> QED  BY <1>1, <1>2, <1>3, Zenon DEF OrderInv, SendOrder

\* Nothing is queued or sent at the start.
LEMMA OrderInit == Init => OrderInv
  BY DEF Init, OrderInv, QueueOrder, WireOrder, SendOrder, ClosedBeforeSendIsUnsent, Actors

\* handleDCSend: a request is read.
LEMMA OrderDCSend ==
  ASSUME TypeInv, Places, OrderInv, NEW s \in Sessions, DCSend(s)
  PROVE  OrderInv'
  <1> USE DEF stateVars, senderVars, pionVars
  <1> DEFINE i == <<s, issued[s] + 1>>
  <1>0. /\ issued[s] \in Nat /\ issued'[s] = issued[s] + 1
        /\ \A r \in Sessions : r # s => issued'[r] = issued[r] /\ pc'[r] = pc[r]
    BY Zenon DEF DCSend, TypeInv, TypeOK, Goto, Actors
  <1>1. i \in Item
    BY <1>0, ItemMake, BoundsAssumption DEF DCSend
  <1>2. \A j \in Item : Issued(j) => Issued(j)'
    <2> SUFFICES ASSUME NEW j \in Item, Issued(j) PROVE j[2] <= issued'[j[1]]
      BY Zenon DEF Issued
    <2>1. j[1] \in Sessions /\ j[2] \in Nat /\ j[2] <= issued[j[1]]
      BY ItemParts, Zenon DEF Issued
    <2> QED  BY <1>0, <2>1
  <1>3. ~OnWire(i) /\ ~Issued(i)
    BY <1>0, AreItems DEF OrderInv, WireOrder, OnWire, Issued
  <1>4. \A r \in Sessions : pc'[r] = "enqueue" => ~OnWire(Current(r))'
    BY <1>0, <1>3 DEF DCSend, OrderInv, WireOrder, OnWire, Current
  <1>5. ClosedBeforeSendIsUnsent'
    <2>1. CASE Answer(i, "notFound") \/ Answer(i, "invalid")
      BY <1>1, <1>3, <2>1, AnswerUnsent, Zenon DEF DCSend, OrderInv, Places, Fresh, Outcome
    <2>2. CASE UNCHANGED answers
      BY <2>2, Zenon DEF DCSend, OrderInv, ClosedBeforeSendIsUnsent
    <2> QED  BY <2>1, <2>2, Zenon DEF DCSend
  <1>6. QueueOrder'
    BY Zenon DEF DCSend, OrderInv, QueueOrder, Before
  <1>7. WireOrder'
    BY <1>2, <1>4, AreItems, Zenon DEF DCSend, OrderInv, WireOrder, Before, OnWire
  <1> QED  BY <1>5, <1>6, <1>7, Zenon DEF DCSend, OrderInv, SendOrder

\* handleDCSend: the request enters the queue.
LEMMA OrderEnqueue ==
  ASSUME TypeInv, Places, OrderInv, NEW s \in Sessions, Enqueue(s)
  PROVE  OrderInv'
  <1> USE DEF senderVars, outVars, pionVars
  <1>1. Current(s) \in Item /\ pc[s] = "enqueue" /\ HeldByLoop(Current(s))
    BY CurrentIsItem, Zenon DEF Enqueue, TypeInv, Hands, HeldByLoop, Holding, Current
  <1>2. ~Queued(Current(s)) /\ cur # Current(s) /\ ~OnWire(Current(s))
    BY <1>1, Zenon DEF Places, LoopPlace, OrderInv, WireOrder
  <1>3. /\ DOMAIN work' = 1 .. Len(work) + 1 /\ Len(work) \in Nat /\ DOMAIN work = 1 .. Len(work)
        /\ \A k \in DOMAIN work : work'[k] = work[k]
        /\ work'[Len(work) + 1] = Current(s)
    <2>1. work \in Seq(Item) /\ work' = Append(work, Current(s))
      BY Zenon DEF Enqueue, TypeInv, TypeOK
    <2> QED  BY <1>1, <2>1, Appended
  <1>4. \A i \in Item : Issued(i) /\ i # Current(s) => Before(i, Current(s))
    BY ItemParts DEF Issued, Before, Current, TypeInv, TypeOK
  <1>5. \A j \in DOMAIN work : Before(work[j], Current(s))
    BY <1>2, <1>4, AreItems, Zenon DEF Places, QueuePlace, Queued
  <1>6. cur # None => Before(cur, Current(s))
    BY <1>2, <1>4, AreItems, Zenon DEF Places, SenderPlace
  <1>7. \A k \in DOMAIN wire : Before(wire[k], Current(s))
    BY <1>2, <1>4, AreItems, Zenon DEF OrderInv, WireOrder, OnWire
  <1>8. UNCHANGED <<wire, issued, answers, cur, sender>>
    BY Zenon DEF Enqueue
  <1>9. QueueOrder'
    <2>1. ASSUME NEW j \in DOMAIN work', NEW k \in DOMAIN work', j < k
          PROVE  Before(work'[j], work'[k])
      <3>1. j \in DOMAIN work
        BY <1>3, <2>1
      <3>2. CASE k \in DOMAIN work
        BY <1>3, <2>1, <3>1, <3>2, Zenon DEF OrderInv, QueueOrder
      <3>3. CASE k = Len(work) + 1
        BY <1>3, <1>5, <3>1, <3>3, Zenon
      <3> QED  BY <1>3, <3>2, <3>3
    <2>2. ASSUME NEW j \in DOMAIN work', cur # None PROVE Before(cur, work'[j])
      BY <1>3, <1>6, <2>2 DEF OrderInv, QueueOrder
    <2> QED  BY <1>8, <2>1, <2>2, Zenon DEF QueueOrder, Before
  <1>10. \A r \in Sessions : pc'[r] = "enqueue" => pc[r] = "enqueue"
    BY Zenon DEF Enqueue, Goto, TypeInv, TypeOK, Actors
  <1>11. WireOrder'
    <2>1. \A k \in DOMAIN wire, j \in DOMAIN work' : Before(wire[k], work'[j])
      BY <1>3, <1>7 DEF OrderInv, WireOrder
    <2> QED
      BY <1>8, <1>10, <2>1, Zenon DEF OrderInv, WireOrder, Before, OnWire, Issued, Current
  <1> QED  BY <1>8, <1>9, <1>11, Zenon DEF OrderInv, SendOrder, ClosedBeforeSendIsUnsent

\* runDCSend: the item in hand goes on the wire.
LEMMA OrderSendOk ==
  ASSUME TypeInv, Places, OrderInv, SendOk
  PROVE  OrderInv'
  <1> USE DEF stateVars, loopVars
  <1>1. cur \in Item /\ cur # None /\ Issued(cur) /\ answers[cur] = << >>
    BY AreItems, Zenon DEF SendOk, TypeInv, Hands, Places, SenderPlace
  <1>2. /\ DOMAIN wire' = 1 .. Len(wire) + 1 /\ Len(wire) \in Nat /\ DOMAIN wire = 1 .. Len(wire)
        /\ \A k \in DOMAIN wire : wire'[k] = wire[k]
        /\ wire'[Len(wire) + 1] = cur
    <2>1. wire \in Seq(Item) /\ wire' = Append(wire, cur)
      BY Zenon DEF SendOk, TypeInv, TypeOK
    <2> QED  BY <1>1, <2>1, Appended
  <1>3. \A k \in DOMAIN wire' : k \in DOMAIN wire \/ (k = Len(wire) + 1 /\ wire'[k] = cur)
    BY <1>2
  <1>4. UNCHANGED <<work, issued, answers, cur, pc>> /\ sender' \notin {"select", "send", "exited"}
    BY Zenon DEF SendOk
  <1>5. QueueOrder'
    BY <1>4, Zenon DEF OrderInv, QueueOrder, Before
  <1>6. \A k \in DOMAIN wire : Before(wire[k], cur)
    BY Zenon DEF SendOk, OrderInv, WireOrder
  <1>7. SendOrder'
    <2> SUFFICES ASSUME NEW j \in DOMAIN wire', NEW k \in DOMAIN wire', j < k
                 PROVE  Before(wire'[j], wire'[k])
      BY Zenon DEF SendOrder, Before
    <2>1. j \in DOMAIN wire
      BY <1>2
    <2>2. CASE k \in DOMAIN wire
      BY <1>2, <2>1, <2>2, Zenon DEF OrderInv, SendOrder, Before
    <2>3. CASE k = Len(wire) + 1
      BY <1>2, <1>6, <2>1, <2>3, Zenon
    <2> QED  BY <1>3, <2>2, <2>3, Zenon
  <1>8. ClosedBeforeSendIsUnsent'
    <2> SUFFICES ASSUME NEW k \in DOMAIN wire', NEW n \in DOMAIN answers[wire'[k]]
                 PROVE  answers[wire'[k]][n] # "closedBeforeSend"
      BY <1>4, Zenon DEF ClosedBeforeSendIsUnsent
    <2>1. CASE k \in DOMAIN wire
      BY <1>2, <2>1, Zenon DEF OrderInv, ClosedBeforeSendIsUnsent
    <2>2. CASE wire'[k] = cur
      BY <1>1, <2>2
    <2> QED  BY <1>3, <2>1, <2>2, Zenon
  <1>9. WireOrder'
    <2>1. OnWire(cur)' /\ \A i : OnWire(i)' => OnWire(i) \/ i = cur
      BY <1>2, <1>3, <1>4 DEF OnWire
    <2>2. \A k \in DOMAIN wire' : wire'[k][2] <= issued'[wire'[k][1]]
      <3> SUFFICES ASSUME NEW k \in DOMAIN wire' PROVE Issued(wire'[k])
        BY <1>4, Zenon DEF Issued
      <3> QED  BY <1>1, <1>2, <1>3, Zenon DEF OrderInv, WireOrder
    <2>3. \A k \in DOMAIN wire', j \in DOMAIN work : Before(wire'[k], work[j])
      BY <1>1, <1>2, <1>3, Zenon DEF OrderInv, WireOrder, QueueOrder
    <2>4. ASSUME NEW s \in Sessions, pc[s] = "enqueue" PROVE ~OnWire(Current(s))'
      <3>1. Current(s) \in Item /\ HeldByLoop(Current(s))
        BY <2>4, CurrentIsItem, Zenon DEF TypeInv, Hands, HeldByLoop, Holding, Current
      <3>2. cur # Current(s) /\ ~OnWire(Current(s)) /\ Current(s)' = Current(s)
        BY <1>4, <2>4, <3>1, Zenon DEF Places, LoopPlace, OrderInv, WireOrder, Current
      <3>3. ~\E k \in DOMAIN wire' : wire'[k] = Current(s)
        BY <1>2, <1>3, <3>2, Zenon DEF OnWire
      <3> QED  BY <3>2, <3>3, Zenon DEF OnWire
    <2>5. (\A s \in Sessions : pc[s] = "enqueue" => ~OnWire(Current(s)))'
      BY <1>4, <2>4, Zenon
    <2>6. (\A k \in DOMAIN wire, j \in DOMAIN work : Before(wire[k], work[j]))'
      BY <1>4, <2>3, Zenon DEF Before
    <2>7. (\A k \in DOMAIN wire : Issued(wire[k]))'
      BY <2>2, Zenon DEF Issued
    <2> QED  BY <1>4, <2>1, <2>5, <2>6, <2>7, Zenon DEF WireOrder
  <1> QED  BY <1>5, <1>7, <1>8, <1>9, Zenon DEF OrderInv

\* startDCSendGoroutine: the sender goroutine receives an item.
LEMMA OrderSenderTake ==
  ASSUME TypeInv, Places, OrderInv, SenderTake
  PROVE  OrderInv'
  <1> USE DEF loopVars, outVars
  <1>1. /\ cur' = work[1] /\ 1 \in DOMAIN work
        /\ DOMAIN work' = 1 .. Len(work) - 1 /\ Len(work) \in Nat
        /\ \A k \in DOMAIN work' : k + 1 \in DOMAIN work /\ work'[k] = work[k + 1]
    BY HeadTail, Zenon DEF SenderTake, Take, TypeInv, TypeOK
  <1>2. UNCHANGED <<wire, issued, answers, pc>> /\ sender' = "send"
    BY Zenon DEF SenderTake
  <1>3. QueueOrder'
    <2>1. ASSUME NEW j \in DOMAIN work' PROVE Before(work[1], work'[j])
      BY <1>1 DEF OrderInv, QueueOrder
    <2>2. \A j, k \in DOMAIN work' : j < k => Before(work'[j], work'[k])
      BY <1>1 DEF OrderInv, QueueOrder
    <2> QED  BY <1>1, <2>1, <2>2, Zenon DEF QueueOrder, Before
  <1>4. WireOrder'
    BY <1>1, <1>2 DEF OrderInv, WireOrder, Before, OnWire, Issued, Current
  <1> QED  BY <1>2, <1>3, <1>4, Zenon DEF OrderInv, SendOrder, ClosedBeforeSendIsUnsent

\* Requests move on in the order in which their session issued them.
LEMMA OrderNext == TypeInv /\ Places /\ OrderInv /\ [Next]_vars => OrderInv'
  <1> SUFFICES ASSUME TypeInv, Places, OrderInv, [Next]_vars PROVE OrderInv'
    BY Zenon
  <1> USE DEF stateVars, loopVars, senderVars, outVars, pionVars
  <1>0. TypeOK
    BY Zenon DEF TypeInv
  <1>1. ASSUME NEW s \in Sessions, SendLoop(s) PROVE OrderInv'
    <2>0. DCSend(s) \/ Enqueue(s)
            \/ \A r \in Sessions : pc'[r] = "enqueue" => pc[r] = "enqueue"
      BY <1>0, <1>1, Zenon DEF SendLoop, EnqueueClosed, Recheck, AfterEnqueue, Reclaim, Goto, TypeOK, Actors
    <2>1. CASE DCSend(s)
      BY <2>1, OrderDCSend, Zenon
    <2>2. CASE Enqueue(s)
      BY <2>2, OrderEnqueue, Zenon
    <2>3. CASE EnqueueClosed(s)
      <3>1. Current(s) \in Item /\ HeldByLoop(Current(s)) /\ pc[s] = "enqueue"
        BY <1>0, <2>3, CurrentIsItem, Zenon DEF EnqueueClosed, TypeInv, Hands, HeldByLoop, Holding, Current
      <3>2. ~OnWire(Current(s)) /\ answers[Current(s)] = << >>
        BY <3>1, Zenon DEF Places, LoopPlace, OrderInv, WireOrder
      <3>3. ClosedBeforeSendIsUnsent'
        BY <2>3, <3>1, <3>2, AnswerUnsent, Zenon DEF EnqueueClosed, OrderInv, Outcome
      <3>4. \A r \in Sessions : pc'[r] = "enqueue" => pc[r] = "enqueue"
        BY <1>0, <2>3, Zenon DEF EnqueueClosed, Goto, TypeOK, Actors
      <3>5. QueueOrder' /\ WireOrder' /\ SendOrder'
        BY <2>3, <3>4, Zenon DEF EnqueueClosed, OrderInv, QueueOrder, WireOrder, SendOrder, Before, OnWire,
           Issued, Current
      <3> QED  BY <3>3, <3>5, Zenon DEF OrderInv
    <2>4. CASE Recheck(s)
      BY <1>0, <2>4, SameOrder, Zenon DEF Recheck, AfterEnqueue, Goto, TypeOK, Actors
    <2>5. CASE Reclaim(s)
      <3>1. \A r \in Sessions : pc'[r] = "enqueue" => pc[r] = "enqueue"
        BY <1>0, <2>5, Zenon DEF Reclaim, Goto, TypeOK, Actors
      <3>2. CASE work # << >> /\ FailHead
        BY <2>5, <3>1, <3>2, FailHeadOrder, Zenon DEF Reclaim
      <3>3. CASE UNCHANGED <<work, answers>>
        BY <2>5, <3>1, <3>3, SameOrder, Zenon DEF Reclaim
      <3> QED  BY <2>5, <3>2, <3>3, Zenon DEF Reclaim
    <2> QED  BY <1>1, <2>1, <2>2, <2>3, <2>4, <2>5, Zenon DEF SendLoop
  <1>2. ASSUME NEW s \in Tuners, TuneLoop(s) PROVE OrderInv'
    <2>1. UNCHANGED <<work, wire, issued, answers, cur>>
      BY <1>2, Zenon DEF TuneLoop, SetPionThreshold, LookupForThreshold, SetThreshold
    <2>2. sender' = sender \/ (sender = "parked" /\ sender' = "lock")
      BY <1>2, Zenon DEF TuneLoop, SetPionThreshold, LookupForThreshold, SetThreshold, Broadcast
    <2>3. \A r \in Sessions : pc'[r] = "enqueue" => pc[r] = "enqueue"
      BY <1>0, <1>2, Zenon DEF TuneLoop, SetPionThreshold, LookupForThreshold, SetThreshold,
         Goto, TypeOK, Actors
    <2> QED  BY <2>1, <2>2, <2>3, SameOrder, Zenon
  <1>3. ASSUME NEW a \in Actors, CloseLoop(a) PROVE OrderInv'
    <2>1. UNCHANGED <<wire, issued, cur>>
      BY <1>3, Zenon DEF CloseLoop, BeginClose, CloseDone, CloseBroadcast, CloseDrain, CloseChannel
    <2>2. \A r \in Sessions : pc'[r] = "enqueue" => pc[r] = "enqueue"
      BY <1>0, <1>3, Zenon DEF CloseLoop, BeginClose, CloseDone, CloseBroadcast, CloseDrain,
         CloseChannel, Goto, TypeOK, Actors
    <2>3. CASE CloseDrain(a) /\ work # << >>
      BY <2>1, <2>2, <2>3, FailHeadOrder, Zenon DEF CloseDrain
    <2>4. CASE ~(CloseDrain(a) /\ work # << >>)
      <3>1. UNCHANGED <<work, answers>>
        BY <1>3, <2>4, Zenon DEF CloseLoop, BeginClose, CloseDone, CloseBroadcast, CloseDrain, CloseChannel
      <3>2. sender' = sender \/ (sender = "parked" /\ sender' = "lock")
        BY <1>3, Zenon DEF CloseLoop, BeginClose, CloseDone, CloseBroadcast, CloseDrain, CloseChannel,
           Broadcast
      <3> QED  BY <2>1, <2>2, <3>1, <3>2, SameOrder, Zenon
    <2> QED  BY <2>3, <2>4, Zenon
  <1>4. CASE Sender
    <2>1. CASE SenderTake
      BY <2>1, OrderSenderTake, Zenon
    <2>2. CASE SendOk
      BY <2>2, OrderSendOk, Zenon
    <2>3. CASE SendError \/ SenderAck \/ (WaitCheckDone /\ Stopped)
      <3>1. /\ cur # None /\ cur' = None /\ sender' = "select" /\ UNCHANGED <<work, wire, issued, pc>>
        BY <2>3, Zenon DEF SendError, SenderAck, WaitCheckDone, TypeInv, Hands
      <3>2. PICK o \in Outcome : Answer(cur, o) /\ o # "closedBeforeSend"
        BY <2>3, Zenon DEF SendError, SenderAck, WaitCheckDone, Outcome
      <3> QED  BY <3>1, <3>2, SenderAnswerOrder, Zenon
    <2>4. CASE SenderExit
      BY <2>4, SameOrder, Zenon DEF SenderExit, TypeInv, Hands
    <2>5. CASE WaitLock \/ WaitCheckBuffer \/ (WaitCheckDone /\ ~Stopped)
      BY <2>5, SameOrder, Zenon DEF WaitLock, WaitCheckBuffer, WaitCheckDone
    <2> QED  BY <1>4, <2>1, <2>2, <2>3, <2>4, <2>5, Zenon DEF Sender
  <1>5. CASE Pion \/ UNCHANGED vars
    <2>1. UNCHANGED <<work, wire, issued, answers, cur, pc>>
      BY <1>5, Zenon DEF Pion, PionOpen, PionDrain, SignalLow, PionClose, vars
    <2>2. sender' = sender \/ (sender = "parked" /\ sender' = "lock")
      BY <1>5, Zenon DEF Pion, PionOpen, PionDrain, SignalLow, PionClose, Broadcast, vars
    <2> QED  BY <2>1, <2>2, SameOrder, Zenon
  <1> QED  BY <1>1, <1>2, <1>3, <1>4, <1>5, Zenon DEF Next

(***************************************************************************)
(* handleDCSend: the requests of a session reach pion in the order in      *)
(* which they arrived, for any number of sessions and any shutdown.        *)
(***************************************************************************)
THEOREM InOrder == Spec => []SendOrder
  <1>1. OrderInv => SendOrder
    BY Zenon DEF OrderInv
  <1> QED
    BY <1>1, TypeInit, TypeNext, PlacesInit, PlacesNext, OrderInit, OrderNext, PTL DEF Spec

(***************************************************************************)
(* closeState and handleDCSend: a request answered "closed before send"    *)
(* never goes on the wire, so it may be sent again.                        *)
(***************************************************************************)
THEOREM UnsentStaysUnsent == Spec => []ClosedBeforeSendIsUnsent
  <1>1. OrderInv => ClosedBeforeSendIsUnsent
    BY Zenon DEF OrderInv
  <1> QED
    BY <1>1, TypeInit, TypeNext, PlacesInit, PlacesNext, OrderInit, OrderNext, PTL DEF Spec

-----------------------------------------------------------------------------
(* DCSend implements SendService: a step that reads a request is Request,  *)
(* SendOk is Transmit, a step that answers is Deliver, and every other     *)
(* step leaves what the callers know and the wire as they are.             *)

AllInv == TypeInv /\ Places /\ OrderInv

\* What a caller knows of a request that has been read.
LEMMA VerdictWhenIssued ==
  ASSUME NEW i, Issued(i)
  PROVE  Verdict(i) # "none" /\ (answers[i] = << >> => Verdict(i) = "waiting")
  BY DEF Verdict, VerdictOf

\* What a caller knows depends on the number read and on the answers only.
LEMMA VerdictSame ==
  ASSUME NEW i, answers'[i] = answers[i], Issued(i)' <=> Issued(i)
  PROVE  Verdict(i)' = Verdict(i)
  BY Zenon DEF Verdict

\* What a caller knows after the first answer.
LEMMA VerdictAnswered ==
  ASSUME TypeOK, NEW i \in Item, NEW o \in Outcome, Issued(i)', Answer(i, o), answers[i] = << >>
  PROVE  Verdict(i)' = VerdictOf(o)
  <1>1. answers'[i] = Append(<< >>, o)
    BY Zenon DEF Answer, TypeOK
  <1>2. answers'[i] # << >> /\ Len(answers'[i]) = 1 /\ answers'[i][1] = o
    BY <1>1
  <1> QED  BY <1>2, Zenon DEF Verdict, VerdictOf

\* A response is a Deliver step of the service.
LEMMA AnswerDelivers ==
  ASSUME TypeOK, NEW i \in Item, NEW o \in Outcome, Issued(i), answers[i] = << >>, Answer(i, o),
         UNCHANGED <<issued, wire>>,
         \/ o \in {"ack", "closedDuringSend"} /\ OnWire(i)
         \/ o \in {"closedBeforeSend", "sendError"} /\ ~OnWire(i)
  PROVE  Service!Next
  <1> DEFINE v == [j \in Item |-> Verdict(j)]
  <1>1. \A j : Issued(j)' <=> Issued(j)
    BY Zenon DEF Issued
  <1>2. \A j \in Item : j # i => answers'[j] = answers[j]
    BY Zenon DEF Answer, TypeOK
  <1>3. \A j \in Item : j # i => Verdict(j)' = Verdict(j)
    BY <1>1, <1>2, VerdictSame, Zenon
  <1>4. Verdict(i)' = VerdictOf(o)
    BY <1>1, VerdictAnswered, Zenon
  <1>5. v' = [v EXCEPT ![i] = VerdictOf(o)]
    BY <1>3, <1>4, Zenon
  <1>6. v[i] = "waiting"
    BY VerdictWhenIssued, Zenon
  <1>7. Service!OnWire(i) <=> OnWire(i)
    BY Zenon DEF Service!OnWire, OnWire
  <1>8. VerdictOf("ack") = "ack" /\ VerdictOf("closedDuringSend") = "cut"
        /\ VerdictOf("closedBeforeSend") = "unsent" /\ VerdictOf("sendError") = "unsent"
    BY Zenon DEF VerdictOf
  <1>9. Service!Deliver(i)
    BY <1>5, <1>6, <1>7, <1>8, Zenon DEF Service!Deliver
  <1> QED  BY <1>9, Zenon DEF Service!Next

\* Reading a request is a Request step of the service.
LEMMA SendRequests ==
  ASSUME AllInv, NEW s \in Sessions, DCSend(s)
  PROVE  Service!Next
  <1> DEFINE v == [j \in Item |-> Verdict(j)]
  <1>0. TypeOK
    BY Zenon DEF AllInv, TypeInv
  <1>i. PICK i : i = <<s, issued[s] + 1>>
    BY Zenon
  <1>1. /\ issued[s] \in Nat /\ issued'[s] = issued[s] + 1
        /\ \A r \in Sessions : r # s => issued'[r] = issued[r]
    BY <1>0, Zenon DEF DCSend, TypeOK
  <1>2. i \in Item
    <2>1. issued[s] + 1 \in Nat /\ 1 <= issued[s] + 1 /\ issued[s] + 1 <= MaxSends[s]
      <3>1. issued[s] < MaxSends[s] /\ MaxSends[s] \in Nat
        BY BoundsAssumption, Zenon DEF DCSend
      <3>2. issued[s] \in Nat
        BY <1>1, Zenon
      <3>3. \A m, n \in Nat : m < n => m + 1 \in Nat /\ 1 <= m + 1 /\ m + 1 <= n
        OBVIOUS
      <3> QED  BY <3>1, <3>2, <3>3, Zenon
    <2>2. issued[s] + 1 \in 1 .. MaxSends[s]
      BY <2>1, BoundsAssumption
    <2> QED  BY <1>i, <2>2, ItemMake, Zenon
  <1>3. ~Issued(i) /\ Issued(i)' /\ answers[i] = << >>
    <2>1. ~Issued(i) /\ Issued(i)'
      BY <1>i, <1>1 DEF Issued
    <2> QED  BY <1>2, <2>1, Zenon DEF AllInv, Places, Fresh
  <1>4. \A j \in Item : j # i => (Issued(j)' <=> Issued(j)) /\ answers'[j] = answers[j]
    <2> SUFFICES ASSUME NEW j \in Item, j # i
                 PROVE  (Issued(j)' <=> Issued(j)) /\ answers'[j] = answers[j]
      BY Zenon
    <2>1. j[1] \in Sessions /\ j[2] \in Nat /\ j = <<j[1], j[2]>>
      BY ItemParts, Zenon
    <2>2. Issued(j)' <=> Issued(j)
      BY <1>i, <1>1, <2>1 DEF Issued
    <2>3. answers'[j] = answers[j]
      BY <1>0, <1>i, <1>2, Zenon DEF DCSend, Answer, TypeOK
    <2> QED  BY <2>2, <2>3, Zenon
  <1>5. \A j \in Item : j # i => Verdict(j)' = Verdict(j)
    BY <1>4, VerdictSame, Zenon
  <1>6. Verdict(i)' \in {"waiting", "refused"}
    <2>1. CASE Answer(i, "notFound") \/ Answer(i, "invalid")
      <3>1. VerdictOf("notFound") = "refused" /\ VerdictOf("invalid") = "refused"
        BY Zenon DEF VerdictOf
      <3> QED  BY <1>0, <1>2, <1>3, <2>1, <3>1, VerdictAnswered, Zenon DEF Outcome
    <2>2. CASE UNCHANGED answers
      BY <1>3, <2>2 DEF Verdict
    <2> QED  BY <1>i, <2>1, <2>2, Zenon DEF DCSend
  <1>7. v' \in {[v EXCEPT ![i] = w] : w \in {"waiting", "refused"}}
    BY <1>5, <1>6, Zenon
  <1>8. v[i] = "none"
    BY <1>2, <1>3 DEF Verdict
  <1>9. \A j \in Item : j[1] = i[1] /\ j[2] < i[2] => v[j] # "none"
    <2> SUFFICES ASSUME NEW j \in Item, j[1] = s, j[2] < issued[s] + 1 PROVE Verdict(j) # "none"
      BY <1>i, Zenon
    <2>1. Issued(j)
      BY <1>1, ItemParts DEF Issued
    <2> QED  BY <2>1, VerdictWhenIssued, Zenon
  <1>10. Service!Request(i)
    BY <1>2, <1>7, <1>8, <1>9, Zenon DEF Service!Request, DCSend
  <1> QED  BY <1>2, <1>10, Zenon DEF Service!Next

\* Handing a message to pion is a Transmit step of the service.
LEMMA SendTransmits ==
  ASSUME AllInv, SendOk
  PROVE  Service!Next
  <1> USE DEF stateVars, loopVars
  <1>1. cur \in Item /\ Issued(cur) /\ answers[cur] = << >>
    BY AreItems, Zenon DEF AllInv, SendOk, TypeInv, Hands, Places, SenderPlace
  <1>2. \A k \in DOMAIN wire : Before(wire[k], cur)
    BY Zenon DEF AllInv, SendOk, OrderInv, WireOrder
  <1>3. ~Service!OnWire(cur)
    BY <1>1, <1>2, ItemParts DEF Service!OnWire, Before
  <1>4. Verdict(cur) = "waiting"
    BY <1>1, VerdictWhenIssued, Zenon
  <1>5. \A i \in Item : Verdict(i)' = Verdict(i)
    BY VerdictSame, Zenon DEF SendOk, Issued
  <1>6. Service!Transmit(cur)
    BY <1>1, <1>2, <1>3, <1>4, <1>5, Zenon DEF Service!Transmit, SendOk, Before
  <1> QED  BY <1>1, <1>6, Zenon DEF Service!Next

\* A step that reads and answers nothing and sends nothing stutters.
LEMMA SameService ==
  ASSUME UNCHANGED <<issued, answers, wire>>
  PROVE  UNCHANGED Service!serviceVars
  <1>1. \A i \in Item : Verdict(i)' = Verdict(i)
    BY VerdictSame, Zenon DEF Issued
  <1> QED  BY <1>1, Zenon DEF Service!serviceVars

\* A step of the send path is a step of the service, or no step of it.
LEMMA ServiceStep == AllInv /\ [Next]_vars => [Service!Next]_(Service!serviceVars)
  <1> SUFFICES ASSUME AllInv, [Next]_vars
               PROVE  Service!Next \/ UNCHANGED Service!serviceVars
    BY Zenon
  <1> USE DEF stateVars, loopVars, senderVars, outVars, pionVars
  <1>0. TypeOK
    BY Zenon DEF AllInv, TypeInv
  <1>h. ASSUME work # << >>, FailHead, UNCHANGED <<issued, wire>> PROVE Service!Next
    <2>1. Head(work) \in Item /\ Head(work) = work[1] /\ 1 \in DOMAIN work
      BY <1>0, <1>h, HeadTail, Zenon DEF TypeOK
    <2>2. ~OnWire(Head(work))
      BY <2>1, ItemParts DEF AllInv, OrderInv, WireOrder, Before, OnWire
    <2>3. Issued(Head(work)) /\ answers[Head(work)] = << >>
      BY <2>1, Zenon DEF AllInv, Places, QueuePlace
    <2> QED  BY <1>0, <1>h, <2>1, <2>2, <2>3, AnswerDelivers, Zenon DEF FailHead, Outcome
  <1>1. ASSUME NEW s \in Sessions, SendLoop(s)
        PROVE  Service!Next \/ UNCHANGED Service!serviceVars
    <2>1. CASE DCSend(s)
      BY <2>1, SendRequests, Zenon
    <2>2. CASE EnqueueClosed(s)
      <3>1. Current(s) \in Item /\ HeldByLoop(Current(s)) /\ pc[s] = "enqueue" /\ Issued(Current(s))
        <4>1. pc[s] = "enqueue" /\ issued[s] \in Nat /\ issued[s] > 0
          BY <1>0, <2>2, Zenon DEF EnqueueClosed, AllInv, TypeInv, TypeOK, Hands
        <4>2. Current(s) \in Item
          BY <1>0, <4>1, CurrentIsItem, Zenon
        <4> QED  BY <4>1, <4>2 DEF HeldByLoop, Holding, Current, Issued
      <3>2. ~OnWire(Current(s)) /\ answers[Current(s)] = << >>
        BY <3>1, Zenon DEF AllInv, Places, LoopPlace, OrderInv, WireOrder
      <3> QED  BY <1>0, <2>2, <3>1, <3>2, AnswerDelivers, Zenon DEF EnqueueClosed, Outcome
    <2>3. CASE Reclaim(s)
      BY <1>h, <2>3, SameService, Zenon DEF Reclaim
    <2>4. CASE Enqueue(s) \/ Recheck(s)
      BY <2>4, SameService, Zenon DEF Enqueue, Recheck
    <2> QED  BY <1>1, <2>1, <2>2, <2>3, <2>4, Zenon DEF SendLoop
  <1>2. ASSUME NEW s \in Tuners, TuneLoop(s) PROVE UNCHANGED Service!serviceVars
    BY <1>2, SameService, Zenon DEF TuneLoop, SetPionThreshold, LookupForThreshold, SetThreshold
  <1>3. ASSUME NEW a \in Actors, CloseLoop(a)
        PROVE  Service!Next \/ UNCHANGED Service!serviceVars
    <2>1. CASE CloseDrain(a)
      BY <1>h, <2>1, SameService, Zenon DEF CloseDrain
    <2>2. CASE ~CloseDrain(a)
      BY <1>3, <2>2, SameService, Zenon DEF CloseLoop, BeginClose, CloseDone, CloseBroadcast, CloseChannel
    <2> QED  BY <2>1, <2>2, Zenon
  <1>4. CASE Sender
    <2>1. CASE SendOk
      BY <2>1, SendTransmits, Zenon
    <2>2. CASE SendError \/ SenderAck \/ (WaitCheckDone /\ Stopped)
      <3>1. cur \in Item /\ Issued(cur) /\ answers[cur] = << >> /\ UNCHANGED <<issued, wire>>
        BY <2>2, AreItems, Zenon DEF SendError, SenderAck, WaitCheckDone, AllInv, TypeInv, Hands, Places,
           SenderPlace
      <3>2. sender = "send" => ~OnWire(cur)
        BY <3>1, ItemParts DEF AllInv, OrderInv, WireOrder, Before, OnWire
      <3>3. sender \in {"done", "ack"} => OnWire(cur)
        BY Zenon DEF AllInv, OrderInv, WireOrder
      <3> QED
        BY <1>0, <2>2, <3>1, <3>2, <3>3, AnswerDelivers, Zenon
           DEF SendError, SenderAck, WaitCheckDone, Outcome
    <2>3. CASE SenderTake \/ SenderExit \/ WaitLock \/ WaitCheckBuffer \/ (WaitCheckDone /\ ~Stopped)
      BY <2>3, SameService, Zenon DEF SenderTake, SenderExit, WaitLock, WaitCheckBuffer, WaitCheckDone
    <2> QED  BY <1>4, <2>1, <2>2, <2>3, Zenon DEF Sender
  <1>5. CASE Pion \/ UNCHANGED vars
    BY <1>5, SameService, Zenon DEF Pion, PionOpen, PionDrain, SignalLow, PionClose, vars
  <1> QED  BY <1>1, <1>2, <1>3, <1>4, <1>5, Zenon DEF Next

(***************************************************************************)
(* The send path implements SendService: for its callers, whatever         *)
(* goroutines, queue and shutdown do, a dc:send is refused or accepted,    *)
(* goes on the wire at most once and in order, and is answered once, with  *)
(* an answer that says whether it went on the wire.                        *)
(***************************************************************************)
THEOREM Refinement == Spec => ImplementsService
  <1>1. Init => Service!Init
    <2> SUFFICES ASSUME Init PROVE Service!Init
      BY Zenon
    <2>1. \A i \in Item : ~Issued(i)
      BY ItemParts DEF Init, Issued
    <2>2. \A i \in Item : answers[i] = << >> /\ Len(answers[i]) = 0
      BY Zenon DEF Init
    <2>3. \A i \in Item : Verdict(i) = "none"
      BY <2>1, <2>2 DEF Verdict
    <2> QED  BY <2>3, Zenon DEF Init, Service!Init
  <1>2. Init => AllInv
    BY TypeInit, PlacesInit, OrderInit, Zenon DEF AllInv
  <1>3. AllInv /\ [Next]_vars => AllInv'
    BY TypeNext, PlacesNext, OrderNext, Zenon DEF AllInv
  <1> QED
    BY <1>1, <1>2, <1>3, ServiceStep, PTL DEF Spec, ImplementsService, Service!Spec

-----------------------------------------------------------------------------
(* The ack after the drain.  drain grows only by a request that is being   *)
(* read, which is not the one in the sender goroutine's hand, and only     *)
(* the sender goroutine fills pion's buffer.                               *)

\* drain does not grow by the item in the sender goroutine's hand.
LEMMA DrainOfCurrent ==
  ASSUME TypeInv, Places, [Next]_vars, cur' = cur, cur \in drain', cur # None
  PROVE  cur \in drain
  <1> USE DEF stateVars, loopVars, senderVars, outVars, pionVars
  <1>1. ASSUME NEW s \in Sessions, DCSend(s) PROVE cur \in drain
    <2>1. cur # <<s, issued[s] + 1>>
      BY <1>1 DEF TypeInv, TypeOK, Places, SenderPlace, Issued
    <2> QED  BY <1>1, <2>1, Zenon DEF DCSend
  <1>2. CASE UNCHANGED drain
    BY <1>2, Zenon
  <1>3. \/ \E s \in Sessions : DCSend(s)
        \/ UNCHANGED drain
    BY Zenon DEF Next, SendLoop, Enqueue, EnqueueClosed, Recheck, Reclaim,
       TuneLoop, SetPionThreshold, LookupForThreshold, SetThreshold,
       CloseLoop, BeginClose, CloseDone, CloseBroadcast, CloseDrain, CloseChannel,
       Sender, SenderTake, SenderExit, SendOk, SendError, WaitLock, WaitCheckBuffer,
       WaitCheckDone, SenderAck, Pion, PionOpen, PionDrain, SignalLow, PionClose, vars
  <1> QED  BY <1>1, <1>2, <1>3, Zenon

\* Only the sender goroutine's own steps bring it to its ack or fill the buffer.
LEMMA AckStep ==
  ASSUME TypeInv, [Next]_vars, sender' = "ack"
  PROVE  \/ SendOk
         \/ WaitCheckBuffer
         \/ sender = "ack" /\ cur' = cur /\ lowSeen' = lowSeen /\ buffered' <= buffered
  <1> USE DEF TypeInv, TypeOK, stateVars, loopVars, senderVars, outVars, pionVars
  <1>1. ASSUME NEW s \in Sessions, SendLoop(s)
        PROVE  sender = "ack" /\ cur' = cur /\ lowSeen' = lowSeen /\ buffered' <= buffered
    BY <1>1 DEF SendLoop, DCSend, Enqueue, EnqueueClosed, Recheck, Reclaim
  <1>2. ASSUME NEW s \in Tuners, TuneLoop(s)
        PROVE  sender = "ack" /\ cur' = cur /\ lowSeen' = lowSeen /\ buffered' <= buffered
    BY <1>2 DEF TuneLoop, SetPionThreshold, LookupForThreshold, SetThreshold, Broadcast
  <1>3. ASSUME NEW a \in Actors, CloseLoop(a)
        PROVE  sender = "ack" /\ cur' = cur /\ lowSeen' = lowSeen /\ buffered' <= buffered
    BY <1>3 DEF CloseLoop, BeginClose, CloseDone, CloseBroadcast, CloseDrain, CloseChannel,
       Broadcast
  <1>4. CASE Sender
    BY <1>4, Zenon DEF Sender, SenderTake, SenderExit, SendError, WaitLock, WaitCheckDone, SenderAck
  <1>5. CASE Pion
    BY <1>5 DEF Pion, PionOpen, PionDrain, SignalLow, PionClose, Broadcast
  <1>6. CASE UNCHANGED vars
    BY <1>6 DEF vars
  <1> QED  BY <1>1, <1>2, <1>3, <1>4, <1>5, <1>6, Zenon DEF Next

\* The sender acknowledges only after a look at the buffer that it can trust.
LEMMA AckNext ==
  TypeInv /\ Places /\ AckAfterDrain /\ [Next]_vars => AckAfterDrain'
  <1> SUFFICES ASSUME TypeInv, Places, AckAfterDrain, [Next]_vars,
                      sender' = "ack", cur' \in drain'
               PROVE  buffered' <= lowSeen'
    BY Zenon DEF AckAfterDrain
  <1> USE DEF stateVars, loopVars, senderVars, outVars, pionVars
  <1>1. CASE SendOk
    BY <1>1, Zenon DEF SendOk
  <1>2. CASE WaitCheckBuffer
    BY <1>2, Zenon DEF WaitCheckBuffer, Low, TypeInv, TypeOK
  <1>3. CASE sender = "ack" /\ cur' = cur /\ lowSeen' = lowSeen /\ buffered' <= buffered
    <2>1. cur # None
      BY <1>3, Zenon DEF TypeInv, Hands
    <2>2. cur \in drain
      BY <1>3, <2>1, DrainOfCurrent, Zenon
    <2>3. buffered' \in Nat
      BY TypeNext, Zenon DEF TypeInv, TypeOK
    <2> QED  BY <1>3, <2>2, <2>3 DEF AckAfterDrain, TypeInv, TypeOK
  <1> QED  BY <1>1, <1>2, <1>3, AckStep, Zenon

(***************************************************************************)
(* startDCSendGoroutine: the ack of a request that asked to wait for the   *)
(* drain is emitted while the buffer is at or below the mark the wait      *)
(* compared with, whatever the read loops and pion do in between.          *)
(***************************************************************************)
THEOREM AckMeansDrained == Spec => []AckAfterDrain
  <1>1. Init => AckAfterDrain
    BY Zenon DEF Init, AckAfterDrain
  <1> QED
    BY <1>1, TypeInit, TypeNext, PlacesInit, PlacesNext, AckNext, PTL DEF Spec

-----------------------------------------------------------------------------
(* No lost wake-up.  While the state is registered and nobody is tuning,   *)
(* pion's mark is the state's, so a release that crosses it is reported,   *)
(* and the report cannot get between the check and the wait.  A state that *)
(* is no longer registered is in the hands of a closer that will           *)
(* broadcast.  The argument needs that a single session tunes the channel. *)

Tuning == \E s \in Tuners : pc[s] \in {"lookupTune", "storeTune"}

\* Between its check of the buffer and its wait, and while it waits.
Committed == sender \in {"done", "parked"}

WakeInv ==
  /\ ~registered /\ ~done => \E a \in Actors : pc[a] = "close"
  /\ done /\ sender = "parked" => \E a \in Actors : pc[a] = "broadcast"
  /\ \A s \in Tuners : pc[s] \in {"lookupTune", "storeTune"} => pionLow = tune[s]
  /\ registered /\ ~Tuning => pionLow = threshold
  /\ Committed /\ registered /\ ~Tuning => buffered > threshold \/ lowCallback

\* At the start nobody waits and nobody tunes.
LEMMA WakeInit == Init => WakeInv
  BY SessionsAssumption, Zenon DEF Init, WakeInv, Tuning, Committed, Actors

\* With one tuner, the threshold pion has and the stored one part only while it tunes.
LEMMA WakeNext ==
  ASSUME \A s, t \in Tuners : s = t
  PROVE  TypeInv /\ WakeInv /\ [Next]_vars => WakeInv'
  <1> SUFFICES ASSUME TypeInv, WakeInv, [Next]_vars PROVE WakeInv'
    BY Zenon
  <1> USE SessionsAssumption
      DEF Goto, stateVars, loopVars, senderVars, outVars, pionVars
  <1>0. TypeOK
    BY Zenon DEF TypeInv
  <1>1. ASSUME NEW s \in Sessions, SendLoop(s) PROVE WakeInv'
    <2>1. /\ \A a \in Actors : a # s => pc'[a] = pc[a]
          /\ pc[s] \in {"idle", "enqueue", "recheck", "reclaim"}
          /\ pc'[s] \in {"idle", "enqueue", "recheck", "reclaim"}
          /\ UNCHANGED <<registered, done, threshold, tune, sender, pionLow, buffered, lowCallback>>
      BY <1>0, <1>1, Zenon DEF SendLoop, DCSend, Enqueue, EnqueueClosed, Recheck, AfterEnqueue, Reclaim,
         TypeOK, Actors
    <2> QED  BY <1>0, <2>1, Zenon DEF WakeInv, Tuning, Committed, Actors
  <1>2. ASSUME NEW s \in Tuners, TuneLoop(s) PROVE WakeInv'
    <2>1. CASE SetPionThreshold(s)
      BY <1>0, <2>1, Zenon DEF SetPionThreshold, WakeInv, Tuning, Committed, TypeOK, Actors
    <2>2. CASE LookupForThreshold(s)
      BY <1>0, <2>2, Zenon DEF LookupForThreshold, WakeInv, Tuning, Committed, TypeOK, Actors
    <2>3. CASE SetThreshold(s)
      BY <1>0, <2>3, Zenon DEF SetThreshold, Broadcast, CondFree, WakeInv, Tuning, Committed,
         TypeOK, Actors
    <2> QED  BY <1>2, <2>1, <2>2, <2>3, Zenon DEF TuneLoop
  <1>3. ASSUME NEW a \in Actors, CloseLoop(a) PROVE WakeInv'
    <2>1. CASE BeginClose(a)
      BY <1>0, <2>1, Zenon DEF BeginClose, WakeInv, Tuning, Committed, TypeOK, Actors
    <2>2. CASE CloseDone(a)
      BY <1>0, <2>2, Zenon DEF CloseDone, WakeInv, Tuning, Committed, TypeOK, Actors
    <2>3. CASE CloseBroadcast(a)
      BY <1>0, <2>3, Zenon DEF CloseBroadcast, Broadcast, CondFree, WakeInv, Tuning, Committed,
         TypeOK, Actors
    <2>4. CASE CloseDrain(a)
      BY <1>0, <2>4, Zenon DEF CloseDrain, WakeInv, Tuning, Committed, TypeOK, Actors
    <2>5. CASE CloseChannel(a)
      BY <1>0, <2>5, Zenon DEF CloseChannel, WakeInv, Tuning, Committed, TypeOK, Actors
    <2> QED  BY <1>3, <2>1, <2>2, <2>3, <2>4, <2>5, Zenon DEF CloseLoop
  <1>4. CASE Sender
    <2>1. /\ UNCHANGED <<registered, done, threshold, pc, tune, pionLow, lowCallback>>
          /\ sender' = "done" => buffered' = buffered /\ ~Low
          /\ sender' = "parked" => buffered' = buffered /\ sender = "done" /\ ~done
      BY <1>4, Zenon DEF Sender, SenderTake, SenderExit, SendOk, SendError, WaitLock, WaitCheckBuffer,
         WaitCheckDone, SenderAck, Stopped
    <2> QED  BY <1>0, <2>1 DEF WakeInv, Tuning, Committed, Low, TypeOK
  <1>5. CASE Pion
    <2>1. CASE PionDrain
      BY <1>0, <2>1 DEF PionDrain, WakeInv, Tuning, Committed, TypeOK
    <2>2. CASE PionOpen
      BY <2>2, Zenon DEF PionOpen, WakeInv, Tuning, Committed
    <2>3. CASE SignalLow
      <3>1. /\ sender' \notin {"done", "parked"}
            /\ UNCHANGED <<registered, done, threshold, pc, tune, pionLow>>
        BY <1>0, <2>3, Zenon DEF SignalLow, Broadcast, CondFree, TypeOK, SenderPC
      <3> QED  BY <3>1, Zenon DEF WakeInv, Tuning, Committed
    <2>4. CASE PionClose
      BY <2>4, Zenon DEF PionClose, WakeInv, Tuning, Committed
    <2> QED  BY <1>5, <2>1, <2>2, <2>3, <2>4, Zenon DEF Pion
  <1>6. CASE UNCHANGED vars
    BY <1>6, Zenon DEF vars, WakeInv, Tuning, Committed
  <1> QED  BY <1>1, <1>2, <1>3, <1>4, <1>5, <1>6, Zenon DEF Next

(***************************************************************************)
(* waitForBuffer misses no wake-up as long as only one session changes the *)
(* low-water mark: whenever the sender goroutine is parked although the    *)
(* buffer is low or the state closed, a callback, a setThreshold or a      *)
(* closeState that will wake it is on its way.  (With two tuning sessions  *)
(* this fails: dcsend_two_tuners.)                                         *)
(***************************************************************************)
THEOREM WakeUpNotLost ==
  ASSUME \A s, t \in Tuners : s = t
  PROVE  Spec => []NoLostWakeup
  <1>1. TypeInv /\ WakeInv => NoLostWakeup
    BY DEF TypeInv, TypeOK, WakeInv, Tuning, Committed, NoLostWakeup, WakeUpComing
  <1>2. TypeInv /\ WakeInv /\ [Next]_vars => WakeInv'
    BY WakeNext, Zenon
  <1> QED  BY <1>1, <1>2, TypeInit, TypeNext, WakeInit, PTL DEF Spec

-----------------------------------------------------------------------------
(* Nothing is stranded in the queue.                                       *)

\* Only the actor that took the state out of the registry closes it.
ShutInv == registered => ~done /\ \A a \in Actors : pc[a] # "close"

\* The read loops in their re-check can be counted.
LEMMA RecheckingFinite == IsFiniteSet(Rechecking) /\ Cardinality(Rechecking) \in Nat
  <1>1. IsFiniteSet(Rechecking)
    BY SessionsAssumption, FS_Subset, Zenon DEF Rechecking
  <1> QED  BY <1>1, FS_CardinalityType, Zenon

\* Work that is queued after the drain has a read loop at its re-check.
LEMMA StrandNext ==
  TypeInv /\ ShutInv /\ NoStrandedWork /\ [Next]_vars => ShutInv' /\ NoStrandedWork'
  <1> SUFFICES ASSUME TypeInv, ShutInv, NoStrandedWork, [Next]_vars
               PROVE  ShutInv' /\ NoStrandedWork'
    BY Zenon
  <1> USE SessionsAssumption, RecheckingFinite
      DEF Goto, stateVars, loopVars, senderVars, outVars, pionVars
  <1>0. TypeOK /\ Len(work) \in Nat
    BY DEF TypeInv, TypeOK
  <1>t. work # << >> => Len(Tail(work)) = Len(work) - 1
    BY HeadTail, Zenon DEF TypeInv, TypeOK
  <1>1. ASSUME NEW s \in Sessions, SendLoop(s) PROVE ShutInv' /\ NoStrandedWork'
    <2>0. /\ \A a \in Actors : a # s => pc'[a] = pc[a]
          /\ pc[s] \in {"idle", "enqueue", "recheck", "reclaim"}
          /\ pc'[s] \in {"idle", "enqueue", "recheck", "reclaim"}
          /\ UNCHANGED <<registered, done>>
      BY <1>0, <1>1, Zenon DEF SendLoop, DCSend, Enqueue, EnqueueClosed, Recheck, AfterEnqueue, Reclaim,
         TypeOK, Actors
    <2>1. ShutInv' /\ (Drained' => Drained) /\ done' = done
      BY <2>0, Zenon DEF ShutInv, Drained, Actors
    <2>2. CASE DCSend(s) \/ EnqueueClosed(s)
      <3>1. work' = work /\ Rechecking' = Rechecking
        BY <1>0, <2>2, Zenon DEF DCSend, EnqueueClosed, Rechecking, TypeOK, Actors
      <3> QED  BY <2>1, <3>1, Zenon DEF NoStrandedWork
    <2>3. CASE Enqueue(s)
      <3>1. Rechecking' = Rechecking \cup {s} /\ s \notin Rechecking
        BY <1>0, <2>3 DEF Enqueue, Rechecking, TypeOK, Actors
      <3>2. Cardinality(Rechecking') = Cardinality(Rechecking) + 1
        BY <3>1, FS_AddElement, Zenon
      <3>3. Len(work') = Len(work) + 1
        <4>1. work \in Seq(Item) /\ work' = Append(work, Current(s))
          BY <1>0, <2>3, Zenon DEF Enqueue, TypeOK
        <4> QED  BY <4>1
      <3> QED  BY <1>0, <2>1, <3>2, <3>3 DEF NoStrandedWork
    <2>4. CASE Recheck(s)
      <3>1. work' = work
        BY <2>4, Zenon DEF Recheck
      <3>2. CASE done
        <4>1. Rechecking' = Rechecking
          BY <1>0, <2>4, <3>2, Zenon DEF Recheck, AfterEnqueue, Rechecking, TypeOK, Actors
        <4> QED  BY <2>1, <3>1, <4>1, Zenon DEF NoStrandedWork
      <3>3. CASE ~done
        BY <2>1, <3>3, Zenon DEF NoStrandedWork, Drained
      <3> QED  BY <3>2, <3>3, Zenon
    <2>5. CASE Reclaim(s)
      <3>1. Rechecking' = Rechecking \ {s} /\ s \in Rechecking
        BY <1>0, <2>5, Zenon DEF Reclaim, Rechecking, TypeOK, Actors
      <3>2. Cardinality(Rechecking') = Cardinality(Rechecking) - 1
        BY <3>1, FS_RemoveElement, Zenon
      <3>3. Cardinality(Rechecking') \in Nat
        BY <3>1, FS_RemoveElement, FS_CardinalityType, Zenon
      <3>4. Len(work') = 0 \/ Len(work') = Len(work) - 1
        <4>1. CASE work # << >>
          BY <1>t, <2>5, <4>1, Zenon DEF Reclaim, FailHead
        <4>2. CASE work = << >>
          BY <2>5, <4>2 DEF Reclaim
        <4> QED  BY <4>1, <4>2, Zenon
      <3> QED  BY <1>0, <2>1, <3>2, <3>3, <3>4 DEF NoStrandedWork
    <2> QED  BY <1>1, <2>2, <2>3, <2>4, <2>5, Zenon DEF SendLoop
  <1>2. ASSUME NEW s \in Tuners, TuneLoop(s) PROVE ShutInv' /\ NoStrandedWork'
    <2>0. /\ \A a \in Actors : a # s => pc'[a] = pc[a]
          /\ {pc[s], pc'[s]} \subseteq {"idle", "lookupTune", "storeTune"}
          /\ UNCHANGED <<registered, done, work>>
      BY <1>0, <1>2, Zenon DEF TuneLoop, SetPionThreshold, LookupForThreshold, SetThreshold, TypeOK, Actors
    <2>1. ShutInv' /\ (Drained' => Drained)
      BY <2>0, Zenon DEF ShutInv, Drained, Actors
    <2>2. Rechecking' = Rechecking
      BY <2>0, Zenon DEF Rechecking, Actors
    <2> QED  BY <2>0, <2>1, <2>2, Zenon DEF NoStrandedWork
  <1>3. ASSUME NEW a \in Actors, CloseLoop(a) PROVE ShutInv' /\ NoStrandedWork'
    <2>f. /\ \A b \in Actors : b # a => pc'[b] = pc[b]
          /\ {pc[a], pc'[a]} \cap {"recheck", "reclaim"} = {}
          /\ pc'[a] = "close" => ~registered'
          /\ registered' => registered /\ (done' => done \/ pc[a] = "close")
      <3>1. CASE BeginClose(a)
        BY <1>0, <3>1, Zenon DEF BeginClose, TypeOK, Actors
      <3>2. CASE CloseDone(a)
        BY <1>0, <3>2, Zenon DEF CloseDone, TypeOK, Actors
      <3>3. CASE CloseBroadcast(a)
        BY <1>0, <3>3, Zenon DEF CloseBroadcast, TypeOK, Actors
      <3>4. CASE CloseDrain(a)
        BY <1>0, <3>4, Zenon DEF CloseDrain, TypeOK, Actors
      <3>5. CASE CloseChannel(a)
        BY <1>0, <3>5, Zenon DEF CloseChannel, TypeOK, Actors
      <3> QED  BY <1>3, <3>1, <3>2, <3>3, <3>4, <3>5, Zenon DEF CloseLoop
    <2>g. ShutInv'
      BY <2>f, Zenon DEF ShutInv
    <2>h. Rechecking' = Rechecking
      BY <2>f, Zenon DEF Rechecking, Actors
    <2>0. Rechecking' = Rechecking /\ ShutInv'
      BY <2>g, <2>h, Zenon
    <2>1. CASE BeginClose(a) \/ CloseChannel(a)
      <3>1. (Drained' => Drained) /\ work' = work
        BY <1>0, <2>1 DEF BeginClose, CloseChannel, Drained, TypeOK, Actors
      <3> QED  BY <2>0, <3>1, Zenon DEF NoStrandedWork
    <2>2. CASE CloseDone(a) \/ CloseBroadcast(a)
      <3>1. ~Drained'
        BY <1>0, <2>2, Zenon DEF CloseDone, CloseBroadcast, Drained, TypeOK, Actors
      <3> QED  BY <2>0, <3>1, Zenon DEF NoStrandedWork
    <2>3. CASE CloseDrain(a)
      <3>1. ~Drained' \/ Len(work') = 0
        BY <1>0, <2>3 DEF CloseDrain, Drained, TypeOK, Actors
      <3> QED  BY <2>0, <3>1 DEF NoStrandedWork
    <2> QED  BY <1>3, <2>1, <2>2, <2>3, Zenon DEF CloseLoop
  <1>4. CASE Sender
    <2>1. UNCHANGED <<registered, done, pc>> /\ (work' = work \/ (work # << >> /\ work' = Tail(work)))
      BY <1>4, Zenon DEF Sender, SenderTake, Take, SenderExit, SendOk, SendError, WaitLock, WaitCheckBuffer,
         WaitCheckDone, SenderAck
    <2>2. Rechecking' = Rechecking /\ Drained' = Drained
      BY <2>1, Zenon DEF Rechecking, Drained
    <2> QED  BY <1>0, <1>t, <2>1, <2>2 DEF ShutInv, NoStrandedWork
  <1>5. CASE Pion \/ UNCHANGED vars
    <2>1. UNCHANGED <<registered, done, pc, work>>
      BY <1>5, Zenon DEF Pion, PionOpen, PionDrain, SignalLow, PionClose, vars
    <2>2. Rechecking' = Rechecking /\ Drained' = Drained
      BY <2>1, Zenon DEF Rechecking, Drained
    <2> QED  BY <2>1, <2>2, Zenon DEF ShutInv, NoStrandedWork
  <1> QED  BY <1>1, <1>2, <1>3, <1>4, <1>5, Zenon DEF Next

(***************************************************************************)
(* After closeState has returned, every item still in the queue has a read *)
(* loop that is going to take one out again: handleDCSend's re-check       *)
(* strands no request, however many sessions race the shutdown.            *)
(***************************************************************************)
THEOREM NothingStranded == Spec => []NoStrandedWork
  <1>1. Init => ShutInv /\ NoStrandedWork
    BY Zenon DEF Init, ShutInv, NoStrandedWork, Drained, Actors
  <1> QED  BY <1>1, TypeInit, TypeNext, StrandNext, PTL DEF Spec
=============================================================================
