------------------------- MODULE SessionOrderProofs -------------------------
(***************************************************************************)
(* Answers and events go down in order, no answer is missing, and the      *)
(* events of a handle reach its listener in order, each once, however late *)
(* it listens, for every script of the client, either transport and all    *)
(* sizes of channels and buffers.                                          *)
(***************************************************************************)
EXTENDS SessionSteps, FiniteSetTheorems

-----------------------------------------------------------------------------
(* Where the numbers are.                                                  *)

\* The numbers of the members of P in a sequence, and of one frame.
Nums(P, s) == {s[k].n : k \in {k \in DOMAIN s : s[k] \in P}}
One(P, x) == IF x \in P THEN {x.n} ELSE {}
Rising(P, s) == \A j, k \in DOMAIN s : j < k /\ s[j] \in P /\ s[k] \in P => s[j].n < s[k].n
Ahead(A, B) == \A x \in A, y \in B : x < y

Seen(P) == Nums(P, client.seen)
Down(P) == Nums(P, down)
Held(P) == IF Busy THEN One(P, srv.held) ELSE {}
Chan(P) == Nums(P, srv.ch)
Slot(p, P) == IF srv.slot[p] # None THEN One(P, srv.slot[p].frame) ELSE {}

(***************************************************************************)
(* What goes down goes in order: seen, on its way, in the writer's hand,   *)
(* in the channel, with the producer, and to come.                         *)
(***************************************************************************)
Chain(P, p, ToCome) ==
  /\ Rising(P, client.seen) /\ Rising(P, down) /\ Rising(P, srv.ch)
  /\ Ahead(Seen(P), Down(P) \cup Held(P) \cup Chan(P) \cup Slot(p, P) \cup ToCome)
  /\ Ahead(Down(P), Held(P) \cup Chan(P) \cup Slot(p, P) \cup ToCome)
  /\ Ahead(Held(P), Chan(P) \cup Slot(p, P) \cup ToCome)
  /\ Ahead(Chan(P), Slot(p, P) \cup ToCome)
  /\ Ahead(Slot(p, P), ToCome)

\* The requests on their way to processFrame, and those to come.
InHand == IF srv.reader = "handling" THEN One(Prompt, srv.frame) ELSE {}
Inq == Nums(Prompt, inq)
Push == IF pushing # None THEN One(Prompt, pushing.frame) ELSE {}
Unasked == {k \in Nat : k >= client.next}
Upward == InHand \cup Inq \cup Push \cup Unasked
UpChain ==
  /\ Rising(Prompt, inq)
  /\ Ahead(InHand, Inq \cup Push \cup Unasked)
  /\ Ahead(Inq, Push \cup Unasked)
  /\ Ahead(Push, Unasked)

Unsent == {k \in Nat : k > srv.events}

OrderInv ==
  /\ Chain(Events, "event", Unsent)
  /\ Chain(Answers, "reader", Upward)
  /\ UpChain

(***************************************************************************)
(* No answer is missing: of what the client has seen; of what it will see, *)
(* while it is open; of what the writer has or can take, while there is a  *)
(* writer; and none at all while the whole session is up.                  *)
(***************************************************************************)
Gapless(X) == \A n \in X : \A m \in 1 .. n : AtOnce(m) => m \in X
Delivered == Seen(Answers) \cup Down(Answers)
Written == Delivered \cup Held(Answers) \cup Chan(Answers)
GapInv ==
  /\ srv.fsDone \/ closer # "no" => ~client.open
  /\ client.open /\ srv.writer # "gone" /\ srv.reader # "gone" => ~srv.done
  /\ Gapless(Seen(Answers))
  /\ client.open => Gapless(Delivered)
  /\ client.open /\ srv.writer # "gone" => Gapless(Written)
  /\ client.open /\ srv.writer # "gone" /\ srv.reader # "gone" =>
       \A m \in 1 .. client.next - 1 : AtOnce(m) =>
         m \in Written \cup Slot("reader", Answers) \cup InHand \cup Inq \cup Push

-----------------------------------------------------------------------------
(* Sequences.                                                              *)

\* Something is put at the end.
LEMMA AtTheEnd ==
  ASSUME NEW R, NEW P, NEW s \in Seq(R), NEW x \in R
  PROVE  /\ Append(s, x) \in Seq(R)
         /\ Nums(P, Append(s, x)) = Nums(P, s) \cup One(P, x)
  <1>1. /\ Append(s, x) \in Seq(R) /\ Len(s) \in Nat /\ DOMAIN s = 1 .. Len(s)
        /\ DOMAIN Append(s, x) = 1 .. Len(s) + 1
        /\ \A k \in 1 .. Len(s) : Append(s, x)[k] = s[k]
        /\ Append(s, x)[Len(s) + 1] = x
    OBVIOUS
  <1>2. ASSUME NEW y \in Nums(P, Append(s, x)) PROVE y \in Nums(P, s) \cup One(P, x)
    <2>1. PICK k \in 1 .. Len(s) + 1 : Append(s, x)[k] \in P /\ y = Append(s, x)[k].n
      BY <1>1, <1>2 DEF Nums
    <2>2. CASE k = Len(s) + 1
      BY <1>1, <2>1, <2>2, Zenon DEF One
    <2>3. CASE k # Len(s) + 1
      <3>1. k \in 1 .. Len(s)
        BY <1>1, <2>3
      <3> QED  BY <1>1, <2>1, <3>1, Zenon DEF Nums
    <2> QED  BY <2>2, <2>3, Zenon
  <1>3. Nums(P, s) \subseteq Nums(P, Append(s, x))
    <2>1. 1 .. Len(s) \subseteq 1 .. Len(s) + 1
      BY <1>1
    <2> QED  BY <1>1, <2>1, Zenon DEF Nums
  <1>4. One(P, x) \subseteq Nums(P, Append(s, x))
    <2>1. Len(s) + 1 \in 1 .. Len(s) + 1
      BY <1>1
    <2> QED  BY <1>1, <2>1, Zenon DEF Nums, One
  <1> QED  BY <1>1, <1>2, <1>3, <1>4, Zenon

\* A sequence goes on rising.
LEMMA StillRising ==
  ASSUME NEW R, NEW P, NEW s \in Seq(R), NEW x \in R, Rising(P, s), Ahead(Nums(P, s), One(P, x))
  PROVE  Rising(P, Append(s, x))
  <1>1. /\ Len(s) \in Nat /\ DOMAIN s = 1 .. Len(s)
        /\ DOMAIN Append(s, x) = 1 .. Len(s) + 1
        /\ \A k \in 1 .. Len(s) : Append(s, x)[k] = s[k]
        /\ Append(s, x)[Len(s) + 1] = x
    OBVIOUS
  <1>2. SUFFICES ASSUME NEW j \in 1 .. Len(s) + 1, NEW k \in 1 .. Len(s) + 1, j < k,
                        Append(s, x)[j] \in P, Append(s, x)[k] \in P
                 PROVE  Append(s, x)[j].n < Append(s, x)[k].n
    BY <1>1, Zenon DEF Rising
  <1>3. j \in 1 .. Len(s) /\ (k \in 1 .. Len(s) \/ k = Len(s) + 1)
    BY <1>1, <1>2
  <1>4. CASE k \in 1 .. Len(s)
    BY <1>1, <1>2, <1>3, <1>4, Zenon DEF Rising
  <1>5. CASE k = Len(s) + 1
    <2>1. s[j].n \in Nums(P, s) /\ x.n \in One(P, x)
      BY <1>1, <1>2, <1>3, <1>5, Zenon DEF Nums, One
    <2> QED  BY <1>1, <1>3, <1>5, <2>1, Zenon DEF Ahead
  <1> QED  BY <1>3, <1>4, <1>5, Zenon

\* The first is taken.
LEMMA AtTheFront ==
  ASSUME NEW R, NEW P, NEW s \in Seq(R), s # << >>
  PROVE  /\ Tail(s) \in Seq(R) /\ Head(s) \in R
         /\ Nums(P, s) = One(P, Head(s)) \cup Nums(P, Tail(s))
         /\ Rising(P, s) => Rising(P, Tail(s)) /\ Ahead(One(P, Head(s)), Nums(P, Tail(s)))
  <1>1. /\ Tail(s) \in Seq(R) /\ Head(s) \in R /\ Len(s) \in Nat /\ Len(s) > 0
        /\ DOMAIN s = 1 .. Len(s) /\ Head(s) = s[1]
        /\ DOMAIN Tail(s) = 1 .. Len(s) - 1
        /\ \A k \in 1 .. Len(s) - 1 : Tail(s)[k] = s[k + 1]
    OBVIOUS
  <1>2. ASSUME NEW y \in Nums(P, s) PROVE y \in One(P, Head(s)) \cup Nums(P, Tail(s))
    <2>1. PICK k \in 1 .. Len(s) : s[k] \in P /\ y = s[k].n
      BY <1>1, <1>2 DEF Nums
    <2>2. CASE k = 1
      BY <1>1, <2>1, <2>2, Zenon DEF One
    <2>3. CASE k # 1
      <3>1. k - 1 \in 1 .. Len(s) - 1 /\ Tail(s)[k - 1] = s[k]
        BY <1>1, <2>3
      <3> QED  BY <1>1, <2>1, <3>1, Zenon DEF Nums
    <2> QED  BY <2>2, <2>3, Zenon
  <1>3. One(P, Head(s)) \subseteq Nums(P, s)
    <2>1. 1 \in 1 .. Len(s)
      BY <1>1
    <2> QED  BY <1>1, <2>1, Zenon DEF Nums, One
  <1>4. ASSUME NEW y \in Nums(P, Tail(s))
        PROVE  \E k \in 2 .. Len(s) : s[k] \in P /\ y = s[k].n
    <2>1. PICK k \in 1 .. Len(s) - 1 : Tail(s)[k] \in P /\ y = Tail(s)[k].n
      BY <1>1, <1>4 DEF Nums
    <2>2. k + 1 \in 2 .. Len(s) /\ Tail(s)[k] = s[k + 1]
      BY <1>1
    <2> QED  BY <2>1, <2>2, Zenon
  <1>5. 2 .. Len(s) \subseteq 1 .. Len(s)
    BY <1>1
  <1>6. Nums(P, Tail(s)) \subseteq Nums(P, s)
    BY <1>1, <1>4, <1>5, Zenon DEF Nums
  <1>7. ASSUME Rising(P, s) PROVE Rising(P, Tail(s))
    <2>1. SUFFICES ASSUME NEW j \in 1 .. Len(s) - 1, NEW k \in 1 .. Len(s) - 1, j < k,
                          Tail(s)[j] \in P, Tail(s)[k] \in P
                   PROVE  Tail(s)[j].n < Tail(s)[k].n
      BY <1>1, Zenon DEF Rising
    <2>2. /\ j + 1 \in 1 .. Len(s) /\ k + 1 \in 1 .. Len(s) /\ j + 1 < k + 1
          /\ Tail(s)[j] = s[j + 1] /\ Tail(s)[k] = s[k + 1]
      BY <1>1, <2>1
    <2> QED  BY <1>1, <1>7, <2>1, <2>2, Zenon DEF Rising
  <1>8. ASSUME Rising(P, s), NEW x \in One(P, Head(s)), NEW y \in Nums(P, Tail(s)) PROVE x < y
    <2>1. PICK k \in 2 .. Len(s) : s[k] \in P /\ y = s[k].n
      BY <1>4, <1>8, Zenon
    <2>2. s[1] \in P /\ x = s[1].n
      BY <1>1, <1>8, Zenon DEF One
    <2>3. 1 \in 1 .. Len(s) /\ k \in 1 .. Len(s) /\ 1 < k
      BY <1>1
    <2> QED  BY <1>1, <1>8, <2>1, <2>2, <2>3, Zenon DEF Rising
  <1> QED  BY <1>1, <1>2, <1>3, <1>6, <1>7, <1>8, Zenon DEF Ahead

-----------------------------------------------------------------------------
(* How the numbers move down, P being what producer p enqueues: the client *)
(* takes one, the writer delivers one or takes one from the channel, the   *)
(* producer puts one into the channel, gives it up, or gets one, and the   *)
(* writer ends.                                                            *)

Still(P, p) ==
  /\ Seen(P)' = Seen(P) /\ Down(P)' = Down(P) /\ Held(P)' = Held(P)
  /\ Chan(P)' = Chan(P) /\ Slot(p, P)' = Slot(p, P)
Arrives(P, p) ==
  /\ \E X : /\ Down(P) = X \cup Down(P)'
            /\ Rising(P, down) => Ahead(X, Down(P)')
            /\ Seen(P)' = IF client.open THEN Seen(P) \cup X ELSE Seen(P)
  /\ Held(P)' = Held(P) /\ Chan(P)' = Chan(P) /\ Slot(p, P)' = Slot(p, P)
Leaves(P, p) ==
  /\ srv.writer # "gone"
  /\ Down(P)' = Down(P) \cup Held(P) /\ Held(P)' = {}
  /\ Seen(P)' = Seen(P) /\ Chan(P)' = Chan(P) /\ Slot(p, P)' = Slot(p, P)
Picked(P, p) ==
  /\ srv.writer # "gone"
  /\ Held(P) = {} /\ Chan(P) = Held(P)' \cup Chan(P)'
  /\ Rising(P, srv.ch) => Ahead(Held(P)', Chan(P)')
  /\ Seen(P)' = Seen(P) /\ Down(P)' = Down(P) /\ Slot(p, P)' = Slot(p, P)
Queued(P, p) ==
  /\ Chan(P)' = Chan(P) \cup Slot(p, P) /\ Slot(p, P)' = {}
  /\ Seen(P)' = Seen(P) /\ Down(P)' = Down(P) /\ Held(P)' = Held(P)
GivenUp(P, p) ==
  /\ srv.done /\ Slot(p, P)' = {}
  /\ Seen(P)' = Seen(P) /\ Down(P)' = Down(P) /\ Held(P)' = Held(P) /\ Chan(P)' = Chan(P)
Raised(P, p) ==
  /\ (p = "reader" /\ Handle) \/ (p = "event" /\ Event)
  /\ Slot(p, P) = {}
  /\ Seen(P)' = Seen(P) /\ Down(P)' = Down(P) /\ Held(P)' = Held(P) /\ Chan(P)' = Chan(P)
Ended(P, p) ==
  /\ srv'.writer = "gone" /\ Held(P)' = {}
  /\ Seen(P)' = Seen(P) /\ Down(P)' = Down(P) /\ Chan(P)' = Chan(P)
  /\ Slot(p, P)' = Slot(p, P)

\* A frame of one producer is not one of another.
LEMMA Disjoint ==
  ASSUME NEW p \in {"reader", "event"}, NEW q \in Producers, p # q, NEW x \in Emits(q)
  PROVE  x \notin Emits(p)
  <1>1. Emits("reader") = Answers /\ Emits("event") = Events /\ Emits("dc") = Others
    BY Zenon DEF Emits
  <1>2. CASE p = "reader"
    BY <1>1, <1>2, Zenon DEF Producers, Answers, Events, Others
  <1>3. CASE p = "event"
    BY <1>1, <1>3, Zenon DEF Producers, Answers, Events, Others
  <1> QED  BY <1>2, <1>3, Zenon

\* Every step is one of these moves.
LEMMA DownMoves ==
  ASSUME SessionOK, [Next]_vars, NEW p \in {"reader", "event"}, NEW P, P = Emits(p)
  PROVE  \/ Still(P, p) \/ Arrives(P, p) \/ Leaves(P, p) \/ Picked(P, p)
         \/ Queued(P, p) \/ GivenUp(P, p) \/ Raised(P, p) \/ Ended(P, p)
  <1>0. /\ DOMAIN srv = Fields /\ DOMAIN srv.slot = Producers /\ p \in Producers
        /\ down \in Seq(Responses) /\ client.seen \in Seq(Responses) /\ srv.ch \in Seq(Responses)
        /\ Busy => srv.held \in Responses
        /\ \A q \in Producers : srv.slot[q] # None =>
             srv.slot[q] \in [frame : Emits(q), at : {"check", "select"}]
    BY Zenon DEF SessionOK, ClientOK, ServerOK, Producers
  <1>1. ASSUME ~ClientReceives, ~Write
        PROVE  Seen(P)' = Seen(P) /\ Down(P)' = Down(P)
    BY <1>1, DownSame, SeenSame, Zenon DEF Seen, Down
  <1>2. ASSUME srv'.writer = srv.writer, srv'.held = srv.held
        PROVE  Held(P)' = Held(P)
    BY <1>2, Zenon DEF Held, Busy
  <1>3. ASSUME srv'.slot[p] = srv.slot[p] PROVE Slot(p, P)' = Slot(p, P)
    BY <1>3, Zenon DEF Slot
  <1>4. CASE ClientReceives
    <2>1. PICK r : r = Head(down)
      BY Zenon
    <2>2. /\ down # << >> /\ down' = Tail(down) /\ srv' = srv
          /\ client'.seen = IF client.open THEN Append(client.seen, r) ELSE client.seen
      BY <1>4, <2>1, ReceiveEffect, Zenon DEF ClientReceives, SessionOK, ClientOK
    <2>3. /\ r \in Responses /\ Down(P) = One(P, r) \cup Down(P)'
          /\ Rising(P, down) => Ahead(One(P, r), Down(P)')
      <3>1. /\ Head(down) \in Responses
            /\ Nums(P, down) = One(P, Head(down)) \cup Nums(P, Tail(down))
            /\ Rising(P, down) => Ahead(One(P, Head(down)), Nums(P, Tail(down)))
        <4>1. PICK d \in Seq(Responses) : d = down
          BY <1>0, Zenon
        <4>2. d # << >>
          BY <2>2, <4>1, Zenon
        <4>3. /\ Nums(P, d) = One(P, Head(d)) \cup Nums(P, Tail(d))
              /\ Rising(P, d) => Ahead(One(P, Head(d)), Nums(P, Tail(d)))
          BY <4>2, AtTheFront
        <4>4. Head(d) \in Responses
          BY <4>2
        <4> QED  BY <4>1, <4>3, <4>4, Zenon
      <3> QED  BY <2>1, <2>2, <3>1, Zenon DEF Down
    <2>4. Nums(P, Append(client.seen, r)) = Seen(P) \cup One(P, r)
      BY <1>0, <2>3, AtTheEnd DEF Seen
    <2>5. Seen(P)' = IF client.open THEN Seen(P) \cup One(P, r) ELSE Seen(P)
      BY <2>2, <2>4, Zenon DEF Seen
    <2> QED  BY <1>2, <1>3, <2>2, <2>3, <2>5, Zenon DEF Arrives, Chan
  <1>5. CASE Write
    <2>1. /\ Unless({"writer", "held"}) /\ Busy /\ srv.writer # "gone"
          /\ ~Busy' /\ down' = Append(down, srv.held) /\ client' = client
      BY <1>0, <1>5, WriterEffect, Zenon DEF Write
    <2>2. Nums(P, Append(down, srv.held)) = Nums(P, down) \cup One(P, srv.held)
      <3>1. PICK d \in Seq(Responses), x \in Responses : d = down /\ x = srv.held
        BY <1>0, <2>1, Zenon
      <3>2. Nums(P, Append(d, x)) = Nums(P, d) \cup One(P, x)
        BY AtTheEnd
      <3> QED  BY <3>1, <3>2, Zenon
    <2>3. Down(P)' = Down(P) \cup Held(P) /\ Held(P)' = {}
      BY <2>1, <2>2, Zenon DEF Down, Held
    <2> QED  BY <1>3, <2>1, <2>3, Zenon DEF Leaves, Unless, Fields, Chan, Seen
  <1>6. CASE WriterTakes
    <2>1. /\ Unless({"writer", "held", "ch"}) /\ srv.ch # << >>
          /\ ~Busy /\ srv.writer # "gone" /\ Busy'
          /\ srv'.held = Head(srv.ch) /\ srv'.ch = Tail(srv.ch)
      BY <1>0, <1>6, WriterEffect, Zenon
    <2>2. /\ Nums(P, srv.ch) = One(P, Head(srv.ch)) \cup Nums(P, Tail(srv.ch))
          /\ Rising(P, srv.ch) => Ahead(One(P, Head(srv.ch)), Nums(P, Tail(srv.ch)))
      <3>1. PICK d \in Seq(Responses) : d = srv.ch
        BY <1>0, Zenon
      <3>2. d # << >>
        BY <2>1, <3>1, Zenon
      <3>3. /\ Nums(P, d) = One(P, Head(d)) \cup Nums(P, Tail(d))
            /\ Rising(P, d) => Ahead(One(P, Head(d)), Nums(P, Tail(d)))
        BY <3>2, AtTheFront
      <3> QED  BY <3>1, <3>3, Zenon
    <2>3. Held(P) = {} /\ Held(P)' = One(P, Head(srv.ch)) /\ Chan(P)' = Nums(P, Tail(srv.ch))
      BY <2>1, Zenon DEF Held, Chan
    <2>4. ~ClientReceives /\ ~Write
      BY <1>6, <2>1, Zenon DEF ClientReceives, WriterTakes, Write, Busy
    <2> QED  BY <1>1, <1>3, <2>1, <2>2, <2>3, <2>4, Zenon DEF Picked, Unless, Fields, Chan
  <1>7. CASE ~ClientReceives /\ ~Write /\ ~WriterTakes
    <2>0. Seen(P)' = Seen(P) /\ Down(P)' = Down(P)
      BY <1>1, <1>7, Zenon
    <2>1. ASSUME NEW q \in Producers, EnqueueChecks(q)
          PROVE  Still(P, p) \/ GivenUp(P, p)
      <3>1. /\ Unless({"slot"}) /\ DOMAIN srv'.slot = Producers
            /\ \A x \in Producers \ {q} : srv'.slot[x] = srv.slot[x]
            /\ srv.slot[q] # None
            /\ srv'.slot[q] = IF srv.done THEN None ELSE [srv.slot[q] EXCEPT !.at = "select"]
        BY <1>0, <2>1, EnqueueEffect, Zenon
      <3>2. Held(P)' = Held(P) /\ Chan(P)' = Chan(P)
        BY <1>2, <3>1, Zenon DEF Unless, Fields, Chan
      <3>3. CASE p # q
        BY <1>0, <1>3, <2>0, <3>1, <3>2, <3>3, Zenon DEF Still
      <3>4. CASE p = q /\ srv.done
        BY <2>0, <3>1, <3>2, <3>4, Zenon DEF GivenUp, Slot
      <3>5. CASE p = q /\ ~srv.done
        <4>1. srv.slot[p] \in [frame : Emits(p), at : {"check", "select"}]
          BY <1>0, <3>1, <3>5, Zenon
        <4>2. [srv.slot[p] EXCEPT !.at = "select"].frame = srv.slot[p].frame
          BY <4>1
        <4>3. [srv.slot[p] EXCEPT !.at = "select"] # None
          <5>1. Emits(p) \subseteq Responses
            BY Zenon DEF Emits, Answers, Events
          <5>2. [srv.slot[p] EXCEPT !.at = "select"] \in [frame : Frames \cup Responses, at : {"check", "select"}]
            BY <4>1, <5>1
          <5> QED  BY <5>2, NoneAssumption, Zenon
        <4>4. Slot(p, P)' = Slot(p, P)
          BY <3>1, <3>5, <4>2, <4>3, Zenon DEF Slot
        <4> QED  BY <2>0, <3>2, <4>4, Zenon DEF Still
      <3> QED  BY <3>3, <3>4, <3>5, Zenon
    <2>2. ASSUME NEW q \in Producers, EnqueueSelects(q)
          PROVE  Still(P, p) \/ GivenUp(P, p) \/ Queued(P, p)
      <3>1. /\ Unless({"slot", "ch"}) /\ DOMAIN srv'.slot = Producers
            /\ \A x \in Producers \ {q} : srv'.slot[x] = srv.slot[x]
            /\ srv.slot[q] # None /\ srv'.slot[q] = None
            /\ srv'.ch = Append(srv.ch, srv.slot[q].frame) \/ (srv.done /\ srv'.ch = srv.ch)
        BY <1>0, <2>2, EnqueueEffect, Zenon
      <3>2. Held(P)' = Held(P)
        BY <1>2, <3>1, Zenon DEF Unless, Fields
      <3>3. PICK x : x = srv.slot[q].frame
        BY Zenon
      <3>4. x \in Emits(q) /\ x \in Responses
        <4>1. x \in Emits(q)
          BY <1>0, <3>1, <3>3, Zenon
        <4> QED  BY <4>1, Zenon DEF Emits, Producers, Answers, Events, Others
      <3>5. Nums(P, Append(srv.ch, x)) = Chan(P) \cup One(P, x)
        BY <1>0, <3>4, AtTheEnd DEF Chan
      <3>6. CASE p = q
        <4>1. Slot(p, P)' = {} /\ Slot(p, P) = One(P, x)
          BY <3>1, <3>3, <3>6, Zenon DEF Slot
        <4>2. Chan(P)' = Chan(P) \cup Slot(p, P) \/ (srv.done /\ Chan(P)' = Chan(P))
          BY <3>1, <3>3, <3>5, <4>1, Zenon DEF Chan
        <4> QED  BY <2>0, <3>2, <4>1, <4>2, Zenon DEF Queued, GivenUp
      <3>7. CASE p # q
        <4>1. One(P, x) = {}
          BY <3>4, <3>7, Disjoint, Zenon DEF One
        <4>2. Chan(P)' = Chan(P)
          BY <3>1, <3>3, <3>5, <4>1, Zenon DEF Chan
        <4> QED  BY <1>0, <1>3, <2>0, <3>1, <3>2, <3>7, <4>2, Zenon DEF Still
      <3> QED  BY <3>6, <3>7, Zenon
    <2>3. ASSUME Unless(Fields \ {"writer", "held", "ch", "slot"})
          PROVE  Still(P, p)
      BY <1>2, <1>3, <2>0, <2>3, Zenon DEF Still, Unless, Fields, Chan
    <2>4. CASE CloseIn \/ CloseOut \/ PingerEnds \/ DeadlinePasses \/ ReaderTakes \/ ReaderEnds
      <3>1. \/ Unless({"fsDone", "done", "pinger", "conn"}) \/ Unless({"reader", "frame"})
            \/ Unless({"reader", "done", "conn"})
        BY <1>0, <2>4, FlagEffect, ReaderEffect, Zenon
      <3> QED  BY <2>3, <3>1, Zenon DEF Unless, Fields
    <2>5. CASE ~ServerStep
      BY <1>2, <1>3, <2>0, <2>5, NotServer, Zenon DEF Still, Chan
    <2>6. CASE Handle
      <3>1. CASE srv.frame.kind \in {"async", "notify"}
        <4>1. Unless({"reader", "frame", "acks"})
          BY <1>0, <2>6, <3>1, ReaderEffect, Zenon
        <4> QED  BY <2>3, <4>1, Zenon DEF Unless, Fields
      <3>2. CASE srv.frame.kind \notin {"async", "notify"}
        <4>1. /\ Unless({"reader", "frame", "slot"})
              /\ \A q \in Producers \ {"reader"} : srv'.slot[q] = srv.slot[q]
          BY <1>0, <2>6, <3>2, ReaderEffect, Zenon
        <4>2. Held(P)' = Held(P) /\ Chan(P)' = Chan(P)
          BY <1>2, <4>1, Zenon DEF Unless, Fields, Chan
        <4>3. CASE p = "reader"
          <5>1. srv.slot["reader"] = None
            BY <2>6, Zenon DEF Handle, SessionOK, ServerOK
          <5> QED  BY <2>0, <2>6, <4>2, <4>3, <5>1, Zenon DEF Raised, Slot
        <4>4. CASE p # "reader"
          BY <1>0, <1>3, <2>0, <4>1, <4>2, <4>4, Zenon DEF Still
        <4> QED  BY <4>3, <4>4, Zenon
      <3> QED  BY <3>1, <3>2, Zenon
    <2>7. CASE SendAcknowledged
      <3>1. /\ Unless({"acks", "slot"})
            /\ \A q \in Producers \ {"dc"} : srv'.slot[q] = srv.slot[q]
        BY <1>0, <2>7, ProducerEffect, Zenon
      <3>2. Held(P)' = Held(P) /\ Chan(P)' = Chan(P) /\ p # "dc"
        BY <1>2, <3>1, Zenon DEF Unless, Fields, Chan
      <3> QED  BY <1>0, <1>3, <2>0, <3>1, <3>2, Zenon DEF Still
    <2>8. CASE Event
      <3>1. /\ Unless({"events", "slot"}) /\ srv.slot["event"] = None
            /\ \A q \in Producers \ {"event"} : srv'.slot[q] = srv.slot[q]
        BY <1>0, <2>8, ProducerEffect, Zenon
      <3>2. Held(P)' = Held(P) /\ Chan(P)' = Chan(P)
        BY <1>2, <3>1, Zenon DEF Unless, Fields, Chan
      <3>3. CASE p = "event"
        BY <2>0, <2>8, <3>1, <3>2, <3>3, Zenon DEF Raised, Slot
      <3>4. CASE p # "event"
        BY <1>0, <1>3, <2>0, <3>1, <3>2, <3>4, Zenon DEF Still
      <3> QED  BY <3>3, <3>4, Zenon
    <2>9. CASE WriterRechecks
      <3>1. Unless({"writer"}) /\ Busy /\ (srv'.writer = "gone" \/ Busy')
        BY <1>0, <2>9, WriterEffect, Zenon
      <3>2. Chan(P)' = Chan(P) /\ Slot(p, P)' = Slot(p, P) /\ srv'.held = srv.held
        BY <1>3, <3>1, Zenon DEF Unless, Fields, Chan
      <3>3. CASE Busy'
        BY <2>0, <3>1, <3>2, <3>3, Zenon DEF Still, Held
      <3>4. CASE srv'.writer = "gone"
        BY <2>0, <3>2, <3>4, Zenon DEF Ended, Held, Busy
      <3> QED  BY <3>1, <3>3, <3>4, Zenon
    <2>10. CASE WriterStops \/ WriteFails
      <3>1. Unless({"writer", "conn", "done"}) /\ srv'.writer = "gone"
        BY <1>0, <2>10, WriterEffect, Zenon
      <3>2. Chan(P)' = Chan(P) /\ Slot(p, P)' = Slot(p, P)
        BY <1>3, <3>1, Zenon DEF Unless, Fields, Chan
      <3> QED  BY <2>0, <3>1, <3>2, Zenon DEF Ended, Held, Busy
    <2> QED  BY <1>7, <2>1, <2>2, <2>4, <2>5, <2>6, <2>7, <2>8, <2>9, <2>10, Zenon DEF ServerStep
  <1> QED  BY <1>4, <1>5, <1>6, <1>7, Zenon

\* The sequences go on rising.
LEMMA RisingNext ==
  ASSUME SessionOK, [Next]_vars, NEW p \in {"reader", "event"}, NEW P, P = Emits(p), NEW T,
         Chain(P, p, T)
  PROVE  Rising(P, client'.seen) /\ Rising(P, down') /\ Rising(P, srv'.ch)
  <1>0. /\ Rising(P, client.seen) /\ Rising(P, down) /\ Rising(P, srv.ch)
        /\ Ahead(Seen(P), Down(P)) /\ Ahead(Down(P), Held(P)) /\ Ahead(Chan(P), Slot(p, P))
    BY Zenon DEF Chain, Ahead
  <1>1. /\ DOMAIN srv = Fields /\ DOMAIN srv.slot = Producers /\ p \in Producers
        /\ DOMAIN client = ClientFields /\ client.handle \in {"unknown", "subscribed", "disposed"}
        /\ down \in Seq(Responses) /\ client.seen \in Seq(Responses) /\ srv.ch \in Seq(Responses)
        /\ Busy => srv.held \in Responses
        /\ \A q \in Producers : srv.slot[q] # None =>
             srv.slot[q] \in [frame : Emits(q), at : {"check", "select"}]
    BY Zenon DEF SessionOK, ClientOK, ServerOK, Producers
  <1>2. PICK d \in Seq(Responses), c \in Seq(Responses), w \in Seq(Responses) :
          d = down /\ c = srv.ch /\ w = client.seen
    BY <1>1, Zenon
  <1>3. CASE ClientReceives
    <2>1. /\ down # << >> /\ down' = Tail(down) /\ srv' = srv
          /\ client'.seen = IF client.open THEN Append(client.seen, Head(down)) ELSE client.seen
      BY <1>1, <1>3, ReceiveEffect, Zenon DEF ClientReceives
    <2>2. d # << >> /\ Rising(P, d)
      BY <1>0, <1>2, <2>1, Zenon
    <2>3. Rising(P, Tail(d)) /\ One(P, Head(d)) \subseteq Nums(P, d)
      <3>1. Rising(P, Tail(d))
        BY <2>2, AtTheFront
      <3>2. 1 \in DOMAIN d /\ Head(d) = d[1]
        BY <2>2
      <3> QED  BY <3>1, <3>2, Zenon DEF One, Nums
    <2>4. PICK r \in Responses : r = Head(d)
      BY <2>2
    <2>5. Rising(P, w) /\ Ahead(Nums(P, w), One(P, r))
      BY <1>0, <1>2, <2>3, <2>4, Zenon DEF Ahead, Seen, Down
    <2>6. Rising(P, Append(w, r))
      BY <2>5, StillRising
    <2> QED  BY <1>0, <1>2, <2>1, <2>3, <2>4, <2>6, Zenon
  <1>4. CASE Write
    <2>1. /\ Unless({"writer", "held"}) /\ Busy /\ down' = Append(down, srv.held) /\ client' = client
      BY <1>1, <1>4, WriterEffect, Zenon DEF Write
    <2>2. PICK r \in Responses : r = srv.held
      BY <1>1, <2>1, Zenon
    <2>3. Rising(P, d) /\ Ahead(Nums(P, d), One(P, r))
      BY <1>0, <1>2, <2>1, <2>2, Zenon DEF Ahead, Held, Down
    <2>4. Rising(P, Append(d, r))
      BY <2>3, StillRising
    <2> QED  BY <1>0, <1>2, <2>1, <2>2, <2>4, Zenon DEF Unless, Fields
  <1>5. CASE ~ClientReceives /\ ~Write
    <2>1. client'.seen = client.seen /\ down' = down
      BY <1>5, DownSame, SeenSame, Zenon
    <2>2. SUFFICES Rising(P, srv'.ch)
      BY <1>0, <2>1, Zenon
    <2>3. CASE WriterTakes
      <3>1. srv.ch # << >> /\ srv'.ch = Tail(srv.ch)
        BY <1>1, <2>3, WriterEffect, Zenon
      <3>2. c # << >> /\ Rising(P, c)
        BY <1>0, <1>2, <3>1, Zenon
      <3>3. Rising(P, Tail(c))
        BY <3>2, AtTheFront
      <3> QED  BY <1>2, <3>1, <3>3, Zenon
    <2>4. ASSUME NEW q \in Producers, EnqueueSelects(q) PROVE Rising(P, srv'.ch)
      <3>1. /\ srv.slot[q] # None
            /\ srv'.ch = Append(srv.ch, srv.slot[q].frame) \/ srv'.ch = srv.ch
        BY <1>1, <2>4, EnqueueEffect, Zenon
      <3>2. srv.slot[q].frame \in Emits(q)
        BY <1>1, <3>1, Zenon
      <3>3. Emits(q) \subseteq Responses
        BY Zenon DEF Emits, Producers, Answers, Events, Others
      <3>4. PICK r \in Responses : r = srv.slot[q].frame /\ r \in Emits(q)
        BY <3>2, <3>3, Zenon
      <3>5. Rising(P, c) /\ Ahead(Nums(P, c), One(P, r))
        <4>1. CASE p = q
          BY <1>0, <1>2, <3>1, <3>4, <4>1, Zenon DEF Ahead, Chan, Slot
        <4>2. CASE p # q
          <5>1. One(P, r) = {}
            BY <3>4, <4>2, Disjoint, Zenon DEF One
          <5> QED  BY <1>0, <1>2, <5>1, Zenon DEF Ahead
        <4> QED  BY <4>1, <4>2, Zenon
      <3>6. Rising(P, Append(c, r))
        BY <3>5, StillRising
      <3> QED  BY <1>0, <1>2, <3>1, <3>4, <3>6, Zenon
    <2>5. ASSUME ~WriterTakes, \A q \in Producers : ~EnqueueSelects(q) PROVE srv'.ch = srv.ch
      <3>1. CASE ~ServerStep
        BY <3>1, NotServer, Zenon
      <3>2. CASE \E q \in Producers : EnqueueChecks(q)
        BY <1>1, <3>2, EnqueueEffect, Zenon DEF Unless, Fields
      <3>3. CASE CloseIn \/ CloseOut \/ PingerEnds \/ DeadlinePasses
        BY <1>1, <3>3, FlagEffect, Zenon DEF Unless, Fields
      <3>4. CASE ReaderTakes \/ ReaderEnds \/ Handle
        BY <1>1, <3>4, ReaderEffect, Zenon DEF Unless, Fields
      <3>5. CASE SendAcknowledged \/ Event
        BY <1>1, <3>5, ProducerEffect, Zenon DEF Unless, Fields
      <3>6. CASE WriterRechecks \/ WriterStops \/ WriteFails
        BY <1>1, <3>6, WriterEffect, Zenon DEF Unless, Fields
      <3> QED  BY <1>5, <2>5, <3>1, <3>2, <3>3, <3>4, <3>5, <3>6, Zenon DEF ServerStep
    <2> QED  BY <1>0, <2>3, <2>4, <2>5, Zenon
  <1> QED  BY <1>3, <1>4, <1>5, Zenon

\* Whatever moves, the order stays, if the producer's next number and those to
\* come after it are from those that were to come.
LEMMA ChainNext ==
  ASSUME SessionOK, [Next]_vars, NEW p \in {"reader", "event"}, NEW P, P = Emits(p), NEW T, NEW U,
         Chain(P, p, T), U \subseteq T, Ahead(Slot(p, P)', U),
         Raised(P, p) => Slot(p, P)' \subseteq T
  PROVE  Chain(P, p, U)'
  <1>1. Rising(P, client'.seen) /\ Rising(P, down') /\ Rising(P, srv'.ch)
    BY RisingNext
  <1>2. \/ Still(P, p) \/ Arrives(P, p) \/ Leaves(P, p) \/ Picked(P, p)
        \/ Queued(P, p) \/ GivenUp(P, p) \/ Raised(P, p) \/ Ended(P, p)
    BY DownMoves
  <1>3. PICK a, b, c, d, e : a = Seen(P) /\ b = Down(P) /\ c = Held(P) /\ d = Chan(P) /\ e = Slot(p, P)
    BY Zenon
  <1>4. PICK a1, b1, c1, d1, e1 : /\ a1 = Seen(P)' /\ b1 = Down(P)' /\ c1 = Held(P)'
                                  /\ d1 = Chan(P)' /\ e1 = Slot(p, P)'
    BY Zenon
  <1>5. /\ Ahead(a, b \cup c \cup d \cup e \cup T) /\ Ahead(b, c \cup d \cup e \cup T)
        /\ Ahead(c, d \cup e \cup T) /\ Ahead(d, e \cup T) /\ Ahead(e, T)
    BY <1>3, Zenon DEF Chain
  <1>6. SUFFICES /\ Ahead(a1, b1 \cup c1 \cup d1 \cup e1 \cup U) /\ Ahead(b1, c1 \cup d1 \cup e1 \cup U)
                 /\ Ahead(c1, d1 \cup e1 \cup U) /\ Ahead(d1, e1 \cup U) /\ Ahead(e1, U)
    BY <1>1, <1>4, Zenon DEF Chain
  <1>7. Ahead(e1, U)
    BY <1>4, Zenon
  <1>8. CASE Still(P, p) \/ GivenUp(P, p) \/ Ended(P, p)
    <2>1. a1 = a /\ b1 = b /\ c1 \subseteq c /\ d1 = d /\ e1 \subseteq e
      BY <1>3, <1>4, <1>8, Zenon DEF Still, GivenUp, Ended
    <2> QED  BY <1>5, <1>7, <2>1, Zenon DEF Ahead
  <1>9. CASE Arrives(P, p)
    <2>1. PICK X : /\ b = X \cup b1 /\ Ahead(X, b1) /\ a1 \subseteq a \cup X
                   /\ c1 = c /\ d1 = d /\ e1 = e
      BY <1>3, <1>4, <1>9, Zenon DEF Arrives, Chain
    <2> QED  BY <1>5, <1>7, <2>1, Zenon DEF Ahead
  <1>10. CASE Leaves(P, p)
    <2>1. a1 = a /\ b1 = b \cup c /\ c1 = {} /\ d1 = d /\ e1 = e
      BY <1>3, <1>4, <1>10, Zenon DEF Leaves
    <2> QED  BY <1>5, <1>7, <2>1, Zenon DEF Ahead
  <1>11. CASE Picked(P, p)
    <2>1. a1 = a /\ b1 = b /\ d = c1 \cup d1 /\ Ahead(c1, d1) /\ e1 = e
      BY <1>3, <1>4, <1>11, Zenon DEF Picked, Chain
    <2> QED  BY <1>5, <1>7, <2>1, Zenon DEF Ahead
  <1>12. CASE Queued(P, p)
    <2>1. a1 = a /\ b1 = b /\ c1 = c /\ d1 = d \cup e /\ e1 = {}
      BY <1>3, <1>4, <1>12, Zenon DEF Queued
    <2> QED  BY <1>5, <1>7, <2>1, Zenon DEF Ahead
  <1>13. CASE Raised(P, p)
    <2>1. a1 = a /\ b1 = b /\ c1 = c /\ d1 = d /\ e1 \subseteq T
      BY <1>3, <1>4, <1>13, Zenon DEF Raised
    <2> QED  BY <1>5, <1>7, <2>1, Zenon DEF Ahead
  <1> QED  BY <1>2, <1>8, <1>9, <1>10, <1>11, <1>12, <1>13, Zenon

-----------------------------------------------------------------------------
(* How the numbers of the requests move up: to the call or the socket, to  *)
(* the read loop's queue, to the read loop, and to processFrame.           *)

NextIs == IF AtOnce(client.next) THEN {client.next} ELSE {}
UpStill ==
  InHand' = InHand /\ Inq' = Inq /\ Push' = Push /\ client'.next = client.next
Asks ==
  /\ client'.next = client.next + 1
  /\ InHand' = InHand /\ Push = {}
  /\ \/ Inq' = Inq \cup NextIs /\ Push' = {}
     \/ Inq' = Inq /\ Push' = NextIs
Passes ==
  Inq' = Inq \cup Push /\ Push' = {} /\ InHand' = InHand /\ client'.next = client.next
Refused ==
  srv.fsDone /\ Push' = {} /\ Inq' = Inq /\ InHand' = InHand /\ client'.next = client.next
Reads ==
  /\ InHand = {} /\ Inq = InHand' \cup Inq'
  /\ Rising(Prompt, inq) => Ahead(InHand', Inq')
  /\ Push' = Push /\ client'.next = client.next
Handled ==
  Handle /\ InHand' = {} /\ Inq' = Inq /\ Push' = Push /\ client'.next = client.next

\* Only a request takes a number.
LEMMA NextSame ==
  ASSUME SessionOK, [Next]_vars, ~Request
  PROVE  client'.next = client.next
  <1>1. DOMAIN client = ClientFields /\ client.handle \in {"unknown", "subscribed", "disposed"}
    BY Zenon DEF SessionOK, ClientOK
  <1>2. CASE ~ClientStep
    BY <1>2, OtherSteps, Zenon
  <1>3. CASE ClientStep
    <2>1. Retains(Mailbox \cup {"open", "seen", "pending", "stall"})
      BY <1>1, <1>3, ClientEffect, ReceiveEffect, Zenon DEF ClientStep, Retains
    <2> QED  BY <2>1, Zenon DEF Retains, ClientFields, Mailbox
  <1> QED  BY <1>2, <1>3, Zenon

\* Only pion's callbacks count events.
LEMMA EventsSame ==
  ASSUME SessionOK, [Next]_vars, ~Event
  PROVE  srv'.events = srv.events
  <1>1. DOMAIN srv = Fields /\ DOMAIN srv.slot = Producers
    BY Zenon DEF SessionOK, ServerOK
  <1>2. CASE ~ServerStep
    BY <1>2, NotServer, Zenon
  <1>3. CASE \E q \in Producers : EnqueueChecks(q) \/ EnqueueSelects(q)
    BY <1>1, <1>3, EnqueueEffect, Zenon DEF Unless, Fields
  <1>4. CASE CloseIn \/ CloseOut \/ PingerEnds \/ DeadlinePasses
    BY <1>1, <1>4, FlagEffect, Zenon DEF Unless, Fields
  <1>5. CASE ReaderTakes \/ ReaderEnds \/ Handle
    <2>1. \/ Unless({"reader", "frame"}) \/ Unless({"reader", "done", "conn"})
          \/ Unless({"reader", "frame", "acks"}) \/ Unless({"reader", "frame", "slot"})
      BY <1>1, <1>5, ReaderEffect, Zenon
    <2> QED  BY <2>1, Zenon DEF Unless, Fields
  <1>6. CASE SendAcknowledged
    BY <1>1, <1>6, ProducerEffect, Zenon DEF Unless, Fields
  <1>7. CASE WriterTakes \/ Write \/ WriterRechecks \/ WriterStops \/ WriteFails
    BY <1>1, <1>7, WriterEffect, Zenon DEF Unless, Fields
  <1> QED  BY <1>2, <1>3, <1>4, <1>5, <1>6, <1>7, Zenon DEF ServerStep

\* Only the reader changes what it has in hand, and it does not come back.
LEMMA ReaderSame ==
  ASSUME SessionOK, [Next]_vars, ~ReaderTakes, ~ReaderEnds, ~Handle
  PROVE  srv'.reader = srv.reader /\ srv'.frame = srv.frame
  <1>1. DOMAIN srv = Fields /\ DOMAIN srv.slot = Producers
    BY Zenon DEF SessionOK, ServerOK
  <1>2. CASE ~ServerStep
    BY <1>2, NotServer, Zenon
  <1>3. CASE \E q \in Producers : EnqueueChecks(q) \/ EnqueueSelects(q)
    BY <1>1, <1>3, EnqueueEffect, Zenon DEF Unless, Fields
  <1>4. CASE CloseIn \/ CloseOut \/ PingerEnds \/ DeadlinePasses
    BY <1>1, <1>4, FlagEffect, Zenon DEF Unless, Fields
  <1>6. CASE SendAcknowledged \/ Event
    BY <1>1, <1>6, ProducerEffect, Zenon DEF Unless, Fields
  <1>7. CASE WriterTakes \/ Write \/ WriterRechecks \/ WriterStops \/ WriteFails
    BY <1>1, <1>7, WriterEffect, Zenon DEF Unless, Fields
  <1> QED  BY <1>2, <1>3, <1>4, <1>6, <1>7, Zenon DEF ServerStep

\* Every step is one of these moves, and the queue goes on rising.
LEMMA UpMoves ==
  ASSUME SessionOK, [Next]_vars, UpChain
  PROVE  /\ UpStill \/ Asks \/ Passes \/ Refused \/ Reads \/ Handled
         /\ Rising(Prompt, inq')
  <1>0. /\ DOMAIN srv = Fields /\ DOMAIN srv.slot = Producers
        /\ inq \in Seq(Asked) /\ Prompt' = Prompt /\ Rising(Prompt, inq)
        /\ pushing # None => pushing \in [frame : Asked, at : {"check", "select"}]
        /\ client.next \in Nat
    BY SameKinds, Zenon DEF SessionOK, ServerOK, ClientOK, UpChain
  <1>1. PICK R, Q : R = Asked /\ Q = Prompt
    BY Zenon
  <1>2. PICK s \in Seq(R) : s = inq
    BY <1>0, <1>1, Zenon
  <1>3. ASSUME srv'.reader = srv.reader, srv'.frame = srv.frame PROVE InHand' = InHand
    BY <1>0, <1>3, Zenon DEF InHand
  <1>4. ASSUME inq' = inq PROVE Inq' = Inq /\ Rising(Prompt, inq')
    BY <1>0, <1>4, Zenon DEF Inq
  <1>5. ASSUME pushing' = pushing PROVE Push' = Push
    BY <1>0, <1>5, Zenon DEF Push
  <1>6. CASE Request
    <2>1. /\ pushing = None /\ srv' = srv /\ client'.next = client.next + 1
          /\ \/ inq' = Append(inq, Frame) /\ pushing' = pushing
             \/ pushing' = [frame |-> Frame, at |-> "check"] /\ inq' = inq
      BY <1>6, ClientEffect, Zenon DEF Request, SessionOK, ClientOK
    <2>2. Frame \in Asked /\ Frame.n = client.next /\ (Frame \in Prompt <=> AtOnce(client.next))
      BY <1>6, FrameIsAsked, Zenon
    <2>3. One(Prompt, Frame) = NextIs
      BY <2>2, Zenon DEF One, NextIs
    <2>4. Push = {} /\ InHand' = InHand
      BY <1>3, <2>1, Zenon DEF Push
    <2>5. CASE inq' = Append(inq, Frame) /\ pushing' = pushing
      <3>1. PICK f \in R : f = Frame
        BY <1>1, <2>2, Zenon
      <3>2. Nums(Q, Append(s, f)) = Nums(Q, s) \cup One(Q, f)
        BY AtTheEnd
      <3>3. Inq' = Inq \cup NextIs /\ Push' = {}
        BY <1>0, <1>1, <1>2, <1>5, <2>3, <2>4, <2>5, <3>1, <3>2, Zenon DEF Inq
      <3>4. Rising(Q, s) /\ Ahead(Nums(Q, s), One(Q, f))
        <4>1. Ahead(Inq, NextIs)
          <5>1. NextIs \subseteq Unasked
            BY <1>0 DEF NextIs, Unasked
          <5> QED  BY <5>1, Zenon DEF UpChain, Ahead
        <4> QED  BY <1>0, <1>1, <1>2, <2>3, <3>1, <4>1, Zenon DEF Inq
      <3>5. Rising(Q, Append(s, f))
        BY <3>4, StillRising
      <3> QED  BY <1>1, <1>2, <2>1, <2>4, <2>5, <3>1, <3>3, <3>5, Zenon DEF Asks
    <2>6. CASE pushing' = [frame |-> Frame, at |-> "check"] /\ inq' = inq
      <3>1. PICK f \in Asked : f = Frame
        BY <2>2, Zenon
      <3>2. [frame |-> f, at |-> "check"] # None
        <4>1. f \in Frames
          BY Zenon DEF Asked
        <4>2. [frame |-> f, at |-> "check"] \in [frame : Frames \cup Responses, at : {"check", "select"}]
          BY <4>1
        <4> QED  BY <4>2, NoneAssumption, Zenon
      <3>3. Push' = NextIs
        BY <1>0, <2>3, <2>6, <3>1, <3>2, Zenon DEF Push
      <3> QED  BY <1>4, <2>1, <2>4, <2>6, <3>3, Zenon DEF Asks
    <2> QED  BY <2>1, <2>5, <2>6, Zenon
  <1>7. CASE PushChecks
    <2>1. /\ pushing # None /\ srv' = srv /\ inq' = inq /\ client' = client
          /\ pushing' = IF srv.fsDone THEN None ELSE [pushing EXCEPT !.at = "select"]
      BY <1>7, Zenon DEF PushChecks
    <2>2. PICK u \in [frame : Asked, at : {"check", "select"}] : u = pushing
      BY <1>0, <2>1, Zenon
    <2>3. [u EXCEPT !.at = "select"].frame = u.frame /\ [u EXCEPT !.at = "select"] # None
      <3>1. Asked \subseteq Frames
        BY Zenon DEF Asked
      <3>2. /\ [u EXCEPT !.at = "select"] \in [frame : Frames \cup Responses, at : {"check", "select"}]
            /\ [u EXCEPT !.at = "select"].frame = u.frame
        BY <3>1
      <3> QED  BY <3>2, NoneAssumption, Zenon
    <2>4. Push' = Push \/ (srv.fsDone /\ Push' = {})
      BY <1>0, <2>1, <2>2, <2>3, Zenon DEF Push
    <2> QED  BY <1>3, <1>4, <2>1, <2>4, Zenon DEF UpStill, Refused
  <1>8. CASE PushSelects
    <2>1. /\ pushing # None /\ srv' = srv /\ client' = client /\ pushing' = None
          /\ inq' = Append(inq, pushing.frame) \/ (srv.fsDone /\ inq' = inq)
      BY <1>8, Zenon DEF PushSelects
    <2>2. PICK f \in R : f = pushing.frame
      BY <1>0, <1>1, <2>1, Zenon
    <2>3. Push' = {} /\ Push = One(Q, f) /\ InHand' = InHand
      BY <1>1, <1>3, <2>1, <2>2, Zenon DEF Push
    <2>4. CASE inq' = Append(inq, pushing.frame)
      <3>1. Nums(Q, Append(s, f)) = Nums(Q, s) \cup One(Q, f)
        BY AtTheEnd
      <3>2. Inq' = Inq \cup Push
        BY <1>0, <1>1, <1>2, <2>2, <2>3, <2>4, <3>1, Zenon DEF Inq
      <3>3. Rising(Q, s) /\ Ahead(Nums(Q, s), One(Q, f))
        BY <1>0, <1>1, <1>2, <2>3, Zenon DEF Inq, UpChain, Ahead
      <3>4. Rising(Q, Append(s, f))
        BY <3>3, StillRising
      <3> QED  BY <1>1, <1>2, <2>1, <2>2, <2>3, <2>4, <3>2, <3>4, Zenon DEF Passes
    <2>5. CASE srv.fsDone /\ inq' = inq
      BY <1>4, <2>1, <2>3, <2>5, Zenon DEF Refused
    <2> QED  BY <2>1, <2>4, <2>5, Zenon
  <1>9. CASE ReaderTakes
    <2>1. /\ srv.reader = "idle" /\ inq # << >> /\ inq' = Tail(inq)
          /\ pushing' = pushing /\ client' = client
          /\ srv'.reader = "handling" /\ srv'.frame = Head(inq)
      BY <1>0, <1>9, ReaderEffect, Zenon DEF ReaderTakes, AtRead
    <2>2. s # << >> /\ Rising(Q, s)
      BY <1>0, <1>1, <1>2, <2>1, Zenon
    <2>3. Nums(Q, s) = One(Q, Head(s)) \cup Nums(Q, Tail(s))
      BY <2>2, AtTheFront
    <2>4. Rising(Q, Tail(s)) /\ Ahead(One(Q, Head(s)), Nums(Q, Tail(s)))
      BY <2>2, AtTheFront
    <2>5. InHand = {} /\ InHand' = One(Q, Head(s)) /\ Inq' = Nums(Q, Tail(s)) /\ Inq = Nums(Q, s)
      BY <1>0, <1>1, <1>2, <2>1, Zenon DEF InHand, Inq
    <2> QED  BY <1>1, <1>2, <1>5, <2>1, <2>3, <2>4, <2>5, Zenon DEF Reads
  <1>10. CASE ~Request /\ ~PushChecks /\ ~PushSelects /\ ~ReaderTakes
    <2>1. Inq' = Inq /\ Push' = Push /\ client'.next = client.next /\ Rising(Prompt, inq')
      BY <1>4, <1>5, <1>10, UpSame, NextSame, Zenon
    <2>2. CASE Handle
      <3>1. srv'.reader = "idle"
        BY <1>0, <2>2, ReaderEffect, Zenon
      <3> QED  BY <2>1, <2>2, <3>1, Zenon DEF Handled, InHand
    <2>3. CASE ReaderEnds
      <3>1. srv'.reader = "gone" /\ srv.reader = "idle"
        BY <1>0, <2>3, ReaderEffect, Zenon DEF ReaderEnds, AtRead
      <3> QED  BY <2>1, <3>1, Zenon DEF UpStill, InHand
    <2>4. CASE ~Handle /\ ~ReaderEnds
      BY <1>3, <1>10, <2>1, <2>4, ReaderSame, Zenon DEF UpStill
    <2> QED  BY <2>1, <2>2, <2>3, <2>4, Zenon
  <1> QED  BY <1>6, <1>7, <1>8, <1>9, <1>10, Zenon

\* The order of the requests stays, and none is to come that was not.
LEMMA UpChainNext ==
  ASSUME SessionOK, [Next]_vars, UpChain
  PROVE  UpChain' /\ Upward' \subseteq Upward /\ Ahead(InHand, Upward' \ InHand')
  <1>1. UpStill \/ Asks \/ Passes \/ Refused \/ Reads \/ Handled
    BY UpMoves, Zenon
  <1>2. Rising(Prompt', inq')
    BY UpMoves, SameKinds, Zenon
  <1>3. PICK a, b, c, d : a = InHand /\ b = Inq /\ c = Push /\ d = Unasked
    BY Zenon
  <1>4. PICK a1, b1, c1, d1 : a1 = InHand' /\ b1 = Inq' /\ c1 = Push' /\ d1 = Unasked'
    BY Zenon
  <1>5. Ahead(a, b \cup c \cup d) /\ Ahead(b, c \cup d) /\ Ahead(c, d)
    BY <1>3, Zenon DEF UpChain
  <1>6. SUFFICES /\ Ahead(a1, b1 \cup c1 \cup d1) /\ Ahead(b1, c1 \cup d1) /\ Ahead(c1, d1)
                 /\ a1 \cup b1 \cup c1 \cup d1 \subseteq a \cup b \cup c \cup d
                 /\ Ahead(a, (b1 \cup c1 \cup d1) \ a1)
    BY <1>2, <1>3, <1>4, Zenon DEF UpChain, Upward, Ahead
  <1>7. ASSUME client'.next = client.next PROVE d1 = d
    BY <1>3, <1>4, <1>7, Zenon DEF Unasked
  <1>8. CASE UpStill \/ Refused \/ Handled
    <2>1. a1 \subseteq a /\ b1 = b /\ c1 \subseteq c /\ d1 = d
      BY <1>3, <1>4, <1>7, <1>8, Zenon DEF UpStill, Refused, Handled
    <2> QED  BY <1>5, <2>1, Zenon DEF Ahead
  <1>9. CASE Passes
    <2>1. a1 = a /\ b1 = b \cup c /\ c1 = {} /\ d1 = d
      BY <1>3, <1>4, <1>7, <1>9, Zenon DEF Passes
    <2> QED  BY <1>5, <2>1, Zenon DEF Ahead
  <1>10. CASE Reads
    <2>1. a = {} /\ b = a1 \cup b1 /\ Ahead(a1, b1) /\ c1 = c /\ d1 = d
      BY <1>3, <1>4, <1>7, <1>10, Zenon DEF Reads, UpChain
    <2> QED  BY <1>5, <2>1, Zenon DEF Ahead
  <1>11. CASE Asks
    <2>1. PICK X : X = NextIs
      BY Zenon
    <2>2. X \subseteq d /\ d1 \subseteq d /\ Ahead(X, d1)
      <3>1. client.next \in Nat /\ client'.next = client.next + 1
        BY <1>11, Zenon DEF Asks, SessionOK, ClientOK
      <3>2. X \subseteq {client.next}
        BY <2>1, Zenon DEF NextIs
      <3>3. d = {k \in Nat : k >= client.next} /\ d1 = {k \in Nat : k >= client.next + 1}
        BY <1>3, <1>4, <3>1, Zenon DEF Unasked
      <3> QED  BY <3>1, <3>2, <3>3 DEF Ahead
    <2>3. a1 = a /\ c = {} /\ ((b1 = b \cup X /\ c1 = {}) \/ (b1 = b /\ c1 = X))
      BY <1>3, <1>4, <1>11, <2>1, Zenon DEF Asks
    <2> QED  BY <1>5, <2>2, <2>3, Zenon DEF Ahead
  <1> QED  BY <1>1, <1>8, <1>9, <1>10, <1>11, Zenon

\* The answer that processFrame makes has the number of the request in hand.
LEMMA HandleEffect ==
  ASSUME SessionOK, [Next]_vars, Handle
  PROVE  InHand' = {} /\ Slot("reader", Answers) = {} /\ Slot("reader", Answers)' = InHand
  <1>0. DOMAIN srv = Fields /\ DOMAIN srv.slot = Producers /\ srv.frame \in Asked
        /\ srv.reader = "handling" /\ srv.slot["reader"] = None /\ Answers' = Answers
    BY SameKinds, Zenon DEF SessionOK, ServerOK, Handle
  <1>1. Slot("reader", Answers) = {}
    BY <1>0, Zenon DEF Slot
  <1>2. InHand = One(Prompt, srv.frame)
    BY <1>0, Zenon DEF InHand
  <1>3. CASE srv.frame.kind \in {"async", "notify"}
    <2>1. Unless({"reader", "frame", "acks"}) /\ srv'.reader = "idle"
      BY <1>0, <1>3, ReaderEffect, Zenon
    <2>2. srv'.slot["reader"] = None
      BY <1>0, <2>1, Zenon DEF Unless, Fields
    <2>3. srv.frame \notin Prompt
      <3>1. srv.frame \in Deferred
        BY <1>0, <1>3, MadeOf, Zenon
      <3> QED  BY <3>1, Zenon DEF Deferred, Prompt
    <2> QED  BY <1>1, <1>2, <2>1, <2>2, <2>3, Zenon DEF Slot, InHand, One
  <1>4. CASE srv.frame.kind \notin {"async", "notify"}
    <2>1. srv'.reader = "idle" /\ srv'.slot["reader"] = Response(srv.frame)
      BY <1>0, <1>4, ReaderEffect, Zenon
    <2>2. PICK f \in Asked : f = srv.frame
      BY <1>0, Zenon
    <2>3. /\ f \in Prompt /\ Response(f) \in [frame : Answers, at : {"check", "select"}]
          /\ Response(f).frame.n = f.n
      BY <1>4, <2>2, MadeOf, Zenon
    <2>4. Response(f) # None
      <3>1. Answers \subseteq Responses
        BY Zenon DEF Answers
      <3>2. Response(f) \in [frame : Frames \cup Responses, at : {"check", "select"}]
        BY <2>3, <3>1
      <3> QED  BY <3>2, NoneAssumption, Zenon
    <2>5. Response(f).frame \in Answers
      BY <2>3, Zenon
    <2>6. Slot("reader", Answers)' = One(Answers, Response(f).frame)
      BY <1>0, <2>1, <2>2, <2>4, Zenon DEF Slot
    <2>7. One(Answers, Response(f).frame) = {f.n} /\ InHand = {f.n}
      BY <1>2, <2>2, <2>3, <2>5, Zenon DEF One
    <2> QED  BY <1>1, <2>1, <2>6, <2>7, Zenon DEF InHand
  <1> QED  BY <1>3, <1>4, Zenon

\* The slot of a producer gets a number only by a step of its own.
LEMMA SlotShrinks ==
  ASSUME SessionOK, [Next]_vars, NEW p \in {"reader", "event"}, NEW P, P = Emits(p)
  PROVE  Raised(P, p) \/ Slot(p, P)' \subseteq Slot(p, P)
  BY DownMoves, Zenon DEF Still, Arrives, Leaves, Picked, Queued, GivenUp, Ended

\* All orders stay.
LEMMA OrderNext ==
  ASSUME SessionOK, [Next]_vars, OrderInv
  PROVE  OrderInv'
  <1>1. UpChain' /\ Upward' \subseteq Upward /\ Ahead(InHand, Upward' \ InHand')
    BY UpChainNext, Zenon DEF OrderInv
  <1>2. Chain(Answers, "reader", Upward)'
    <2>1. PICK P, T, U : P = Answers /\ T = Upward /\ U = Upward'
      BY Zenon
    <2>2. PICK p \in {"reader", "event"} : p = "reader"
      BY Zenon
    <2>3. P = Emits(p) /\ Chain(P, p, T) /\ U \subseteq T /\ Answers' = P
      BY <1>1, <2>1, <2>2, SameKinds, Zenon DEF Emits, OrderInv
    <2>4. Ahead(Slot(p, P)', U) /\ (Raised(P, p) => Slot(p, P)' \subseteq T)
      <3>1. CASE Raised(P, p)
        <4>1. Handle
          BY <2>2, <3>1, Zenon DEF Raised
        <4>2. Slot(p, P)' = InHand /\ InHand' = {}
          BY <2>1, <2>2, <2>3, <4>1, HandleEffect, Zenon DEF Slot
        <4> QED  BY <1>1, <2>1, <4>2, Zenon DEF Upward, Ahead
      <3>2. CASE ~Raised(P, p)
        <4>1. Slot(p, P)' \subseteq Slot(p, P)
          BY <2>3, <3>2, SlotShrinks
        <4>2. Ahead(Slot(p, P), T)
          BY <2>3, Zenon DEF Chain
        <4> QED  BY <2>3, <3>2, <4>1, <4>2, Zenon DEF Ahead
      <3> QED  BY <3>1, <3>2, Zenon
    <2>5. Chain(P, p, U)'
      BY <2>3, <2>4, ChainNext
    <2> QED  BY <2>1, <2>2, <2>3, <2>5, Zenon DEF Chain, Seen, Down, Held, Chan, Slot
  <1>3. Chain(Events, "event", Unsent)'
    <2>1. PICK P, T, U : P = Events /\ T = Unsent /\ U = Unsent'
      BY Zenon
    <2>2. PICK p \in {"reader", "event"} : p = "event"
      BY Zenon
    <2>3. P = Emits(p) /\ Chain(P, p, T)
      BY <2>1, <2>2, Zenon DEF Emits, OrderInv
    <2>4. U \subseteq T /\ Ahead(Slot(p, P)', U) /\ (Raised(P, p) => Slot(p, P)' \subseteq T)
      <3>0. DOMAIN srv = Fields /\ DOMAIN srv.slot = Producers /\ srv.events \in Nat
        BY Zenon DEF SessionOK, ServerOK
      <3>1. CASE Event
        <4>1. PICK k \in Nat : k = srv.events
          BY <3>0, Zenon
        <4>2. srv'.events = k + 1 /\ srv'.slot["event"] = Answer([n |-> k + 1], 0, "event")
          BY <3>0, <3>1, <4>1, ProducerEffect, Zenon
        <4>3. k + 1 \in Nat
          OBVIOUS
        <4>4. Answer([n |-> k + 1], 0, "event").frame.n = k + 1
          BY <4>3, MadeOf, Zenon
        <4>5. Slot(p, P)' \subseteq {k + 1}
          BY <2>2, <4>2, <4>4, Zenon DEF Slot, One
        <4>6. T = {m \in Nat : m > k} /\ U = {m \in Nat : m > k + 1}
          BY <2>1, <4>1, <4>2, Zenon DEF Unsent
        <4>7. PICK X : X = Slot(p, P)'
          BY Zenon
        <4>8. U \subseteq T /\ Ahead(X, U) /\ X \subseteq T
          BY <4>5, <4>6, <4>7 DEF Ahead
        <4> QED  BY <4>7, <4>8, Zenon
      <3>2. CASE ~Event
        <4>1. U = T
          BY <2>1, <3>2, EventsSame, Zenon DEF Unsent
        <4>2. ~Raised(P, p)
          BY <2>2, <3>2, Zenon DEF Raised
        <4>3. Slot(p, P)' \subseteq Slot(p, P)
          BY <2>3, <4>2, SlotShrinks
        <4>4. Ahead(Slot(p, P), T)
          BY <2>3, Zenon DEF Chain
        <4> QED  BY <4>1, <4>2, <4>3, <4>4, Zenon DEF Ahead
      <3> QED  BY <3>1, <3>2, Zenon
    <2>5. Chain(P, p, U)'
      BY <2>3, <2>4, ChainNext
    <2> QED  BY <2>1, <2>2, <2>5, Zenon DEF Chain, Seen, Down, Held, Chan, Slot, Events
  <1> QED  BY <1>1, <1>2, <1>3, Zenon DEF OrderInv

\* Nothing is on its way at the start.
LEMMA OrderInit == Init => OrderInv
  <1> SUFFICES ASSUME Init PROVE OrderInv
    BY Zenon
  <1>1. /\ client.seen = << >> /\ down = << >> /\ srv.ch = << >> /\ inq = << >>
        /\ srv.slot = [p \in Producers |-> None] /\ srv.writer = "idle" /\ srv.reader = "idle"
        /\ pushing = None
    BY Zenon DEF Init, NewSession
  <1>2. \A P : Nums(P, << >>) = {} /\ Rising(P, << >>)
    BY DEF Nums, Rising
  <1>3. Slot("event", Events) = {} /\ Slot("reader", Answers) = {}
    BY <1>1, Zenon DEF Slot, Producers
  <1>4. InHand = {} /\ Push = {} /\ Inq = {} /\ Rising(Prompt, inq)
    BY <1>1, <1>2, Zenon DEF InHand, Push, Inq
  <1>5. \A P : Held(P) = {} /\ Seen(P) = {} /\ Down(P) = {} /\ Chan(P) = {}
    BY <1>1, <1>2, Zenon DEF Held, Busy, Seen, Down, Chan
  <1>6. \A P : Rising(P, client.seen) /\ Rising(P, down) /\ Rising(P, srv.ch)
    BY <1>1, <1>2, Zenon
  <1> QED  BY <1>3, <1>4, <1>5, <1>6, Zenon DEF OrderInv, Chain, UpChain, Ahead

-----------------------------------------------------------------------------
(* No answer is missing.                                                   *)

\* The numbers are natural numbers.
LEMMA Numbers ==
  ASSUME SessionOK, NEW P, NEW p \in Producers
  PROVE  /\ Seen(P) \subseteq Nat /\ Down(P) \subseteq Nat /\ Held(P) \subseteq Nat
         /\ Chan(P) \subseteq Nat /\ Slot(p, P) \subseteq Nat
  <1>1. \A x \in Responses : One(P, x) \subseteq Nat
    BY Zenon DEF One, Responses
  <1>2. ASSUME NEW q \in Seq(Responses) PROVE Nums(P, q) \subseteq Nat
    <2>1. \A k \in DOMAIN q : q[k] \in Responses
      OBVIOUS
    <2> QED  BY <2>1, Zenon DEF Nums, Responses
  <1>3. Seen(P) \subseteq Nat /\ Down(P) \subseteq Nat /\ Chan(P) \subseteq Nat
    BY <1>2, Zenon DEF SessionOK, ClientOK, ServerOK, Seen, Down, Chan
  <1>4. Held(P) \subseteq Nat
    BY <1>1, Zenon DEF SessionOK, ServerOK, Held
  <1>5. Slot(p, P) \subseteq Nat
    <2>1. Emits(p) \subseteq Responses
      BY Zenon DEF Emits, Producers, Answers, Events, Others
    <2>2. srv.slot[p] # None => srv.slot[p].frame \in Emits(p)
      BY Zenon DEF SessionOK, ServerOK
    <2> QED  BY <1>1, <2>1, <2>2, Zenon DEF Slot
  <1> QED  BY <1>3, <1>4, <1>5, Zenon

\* What is before the rest has no gap of its own.
LEMMA LowerPart ==
  ASSUME NEW X \in SUBSET Nat, NEW Y, Gapless(X \cup Y), Ahead(X, Y)
  PROVE  Gapless(X)
  <1>1. SUFFICES ASSUME NEW n \in X, NEW m \in 1 .. n, AtOnce(m) PROVE m \in X
    BY Zenon DEF Gapless
  <1>2. m \in X \cup Y
    BY <1>1, Zenon DEF Gapless
  <1>3. m \notin Y
    <2>1. ~(n < m)
      OBVIOUS
    <2> QED  BY <2>1, Zenon DEF Ahead
  <1> QED  BY <1>2, <1>3, Zenon

\* The script is fixed, and so are the gaps.
LEMMA GaplessSame ==
  ASSUME [Next]_vars, NEW X
  PROVE  Gapless(X)' <=> Gapless(X)
  BY SameScript, Zenon DEF Gapless, AtOnce

\* While the session is up nothing is lost on the way.
LEMMA NothingMissing ==
  ASSUME SessionOK, [Next]_vars, OrderInv, GapInv,
         client'.open, srv'.writer # "gone", srv'.reader # "gone"
  PROVE  \A m \in 1 .. client'.next - 1 : AtOnce(m) =>
           m \in (Written \cup Slot("reader", Answers) \cup InHand \cup Inq \cup Push)'
  <1>0. client.open /\ srv.writer # "gone" /\ srv.reader # "gone" /\ ~srv.done /\ ~srv.fsDone
    BY EndsStay, Zenon DEF GapInv
  <1>1. PICK P : P = Answers /\ Answers' = P
    BY SameKinds, Zenon
  <1>2. PICK p \in {"reader", "event"} : p = "reader" /\ P = Emits(p)
    BY <1>1, Zenon DEF Emits
  <1>3. PICK W, V : W = Written \cup Slot(p, P) /\ V = (Written \cup Slot(p, P))'
    BY Zenon
  <1>4. PICK A, B : A = InHand \cup Inq \cup Push /\ B = (InHand \cup Inq \cup Push)'
    BY Zenon
  <1>5. /\ W = Seen(P) \cup Down(P) \cup Held(P) \cup Chan(P) \cup Slot(p, P)
        /\ V = Seen(P)' \cup Down(P)' \cup Held(P)' \cup Chan(P)' \cup Slot(p, P)'
    BY <1>1, <1>3, Zenon DEF Written, Delivered, Seen, Down, Held, Chan
  <1>6. W \subseteq V
    <2>1. \/ Still(P, p) \/ Arrives(P, p) \/ Leaves(P, p) \/ Picked(P, p)
          \/ Queued(P, p) \/ GivenUp(P, p) \/ Raised(P, p) \/ Ended(P, p)
      BY <1>2, DownMoves
    <2>2. CASE Still(P, p) \/ Leaves(P, p) \/ Picked(P, p) \/ Queued(P, p) \/ Raised(P, p)
      BY <1>5, <2>2, Zenon DEF Still, Leaves, Picked, Queued, Raised
    <2>3. CASE Arrives(P, p)
      BY <1>0, <1>5, <2>3, Zenon DEF Arrives
    <2>4. ~GivenUp(P, p) /\ ~Ended(P, p)
      BY <1>0, Zenon DEF GivenUp, Ended
    <2> QED  BY <2>1, <2>2, <2>3, <2>4, Zenon
  <1>7. A \subseteq B \cup V /\ (client'.next = client.next \/ (client'.next = client.next + 1 /\ NextIs \subseteq B))
    <2>1. UpStill \/ Asks \/ Passes \/ Refused \/ Reads \/ Handled
      BY UpMoves, Zenon DEF OrderInv
    <2>2. CASE UpStill \/ Passes \/ Reads
      BY <1>4, <2>2, Zenon DEF UpStill, Passes, Reads
    <2>3. CASE Asks
      BY <1>4, <2>3, Zenon DEF Asks
    <2>4. ~Refused
      BY <1>0, Zenon DEF Refused
    <2>5. CASE Handled
      <3>1. Slot("reader", Answers)' = InHand
        BY <2>5, HandleEffect, Zenon DEF Handled
      <3>2. InHand \subseteq V
        BY <1>1, <1>2, <1>5, <3>1, Zenon DEF Slot
      <3> QED  BY <1>4, <2>5, <3>2, Zenon DEF Handled
    <2> QED  BY <2>1, <2>2, <2>3, <2>4, <2>5, Zenon
  <1>8. SUFFICES ASSUME NEW m \in 1 .. client'.next - 1, AtOnce(m) PROVE m \in V \cup B
    BY <1>1, <1>2, <1>3, <1>4, Zenon DEF Slot
  <1>9. CASE m \in 1 .. client.next - 1
    <2>1. m \in W \cup A
      BY <1>0, <1>1, <1>2, <1>3, <1>4, <1>8, <1>9, Zenon DEF GapInv
    <2> QED  BY <1>6, <1>7, <2>1, Zenon
  <1>10. CASE m \notin 1 .. client.next - 1
    <2>1. client.next \in Nat
      BY Zenon DEF SessionOK, ClientOK
    <2>2. client'.next = client.next + 1 /\ NextIs \subseteq B
      BY <1>7, <1>8, <1>10, Zenon
    <2>3. m = client.next
      BY <1>8, <1>10, <2>1, <2>2
    <2> QED  BY <1>8, <2>2, <2>3, Zenon DEF NextIs
  <1> QED  BY <1>9, <1>10, Zenon

\* What the producer puts into the channel leaves no gap behind it.
LEMMA NoGapBefore ==
  ASSUME SessionOK, OrderInv, GapInv, client.open, srv.writer # "gone"
  PROVE  Gapless(Written \cup Slot("reader", Answers))
  <1>1. Gapless(Written)
    BY Zenon DEF GapInv
  <1>2. SUFFICES ASSUME NEW n \in Slot("reader", Answers), NEW m \in 1 .. n, AtOnce(m)
                 PROVE  m \in Written \cup Slot("reader", Answers)
    BY <1>1, Zenon DEF Gapless
  <1>3. srv.reader # "gone"
    <2>1. srv.slot["reader"] # None
      BY <1>2, Zenon DEF Slot
    <2> QED  BY <2>1, Zenon DEF SessionOK, ServerOK
  <1>4. \A y \in Upward : n < y
    BY Zenon DEF OrderInv, Chain, Ahead
  <1>5. n \in Nat /\ client.next \in Nat
    BY Numbers, Zenon DEF SessionOK, ClientOK, Producers
  <1>6. n < client.next
    <2>1. client.next \in Unasked
      BY <1>5 DEF Unasked
    <2> QED  BY <1>4, <2>1, Zenon DEF Upward
  <1>7. m \in 1 .. client.next - 1 /\ ~(n < m)
    BY <1>5, <1>6
  <1>8. m \in Written \cup Slot("reader", Answers) \cup InHand \cup Inq \cup Push
    BY <1>2, <1>3, <1>7, Zenon DEF GapInv
  <1> QED  BY <1>4, <1>7, <1>8, Zenon DEF Upward

\* No gap comes.
LEMMA GapNext ==
  ASSUME SessionOK, [Next]_vars, OrderInv, GapInv
  PROVE  GapInv'
  <1>1. (srv.fsDone \/ closer # "no" => ~client.open)'
    BY EndsStay, Zenon DEF GapInv
  <1>2. (client.open /\ srv.writer # "gone" /\ srv.reader # "gone" => ~srv.done)'
    BY EndsStay, Zenon DEF GapInv
  <1>3. PICK P : P = Answers /\ Answers' = P
    BY SameKinds, Zenon
  <1>4. PICK p \in {"reader", "event"} : p = "reader" /\ P = Emits(p)
    BY <1>3, Zenon DEF Emits
  <1>5. PICK a, b, c, d, e : a = Seen(P) /\ b = Down(P) /\ c = Held(P) /\ d = Chan(P) /\ e = Slot(p, P)
    BY Zenon
  <1>6. PICK a1, b1, c1, d1, e1 : /\ a1 = Seen(P)' /\ b1 = Down(P)' /\ c1 = Held(P)'
                                  /\ d1 = Chan(P)' /\ e1 = Slot(p, P)'
    BY Zenon
  <1>7. /\ a \in SUBSET Nat /\ b \in SUBSET Nat /\ c \in SUBSET Nat
        /\ Ahead(a, b \cup c \cup d \cup e) /\ Ahead(b, c \cup d \cup e)
        /\ Ahead(c, d \cup e) /\ Ahead(d, e)
    <2>1. a \in SUBSET Nat /\ b \in SUBSET Nat /\ c \in SUBSET Nat
      BY <1>4, <1>5, Numbers, Zenon DEF Producers
    <2>2. /\ Ahead(a, b \cup c \cup d \cup e) /\ Ahead(b, c \cup d \cup e)
          /\ Ahead(c, d \cup e) /\ Ahead(d, e)
      BY <1>3, <1>4, <1>5, Zenon DEF OrderInv, Chain, Ahead
    <2> QED  BY <2>1, <2>2, Zenon
  <1>8. /\ Gapless(a) /\ (client.open => Gapless(a \cup b))
        /\ client.open /\ srv.writer # "gone" =>
             Gapless(a \cup b \cup c \cup d) /\ Gapless(a \cup b \cup c \cup d \cup e)
    <2>1. Seen(Answers) = a /\ Delivered = a \cup b /\ Written = a \cup b \cup c \cup d
          /\ Slot("reader", Answers) = e
      BY <1>3, <1>4, <1>5, Zenon DEF Delivered, Written
    <2> QED  BY <2>1, NoGapBefore, Zenon DEF GapInv
  <1>9. SUFFICES /\ Gapless(a1) /\ (client'.open => Gapless(a1 \cup b1))
                 /\ client'.open /\ srv'.writer # "gone" => Gapless(a1 \cup b1 \cup c1 \cup d1)
    <2>1. Seen(Answers)' = a1 /\ Delivered' = a1 \cup b1 /\ Written' = a1 \cup b1 \cup c1 \cup d1
      BY <1>3, <1>6, Zenon DEF Delivered, Written, Seen, Down, Held, Chan
    <2>2. /\ Gapless(a1)' <=> Gapless(a1)
          /\ Gapless(a1 \cup b1)' <=> Gapless(a1 \cup b1)
          /\ Gapless(a1 \cup b1 \cup c1 \cup d1)' <=> Gapless(a1 \cup b1 \cup c1 \cup d1)
      BY GaplessSame, Zenon
    <2>3. /\ Gapless(Seen(Answers))' /\ (client.open => Gapless(Delivered))'
          /\ (client.open /\ srv.writer # "gone" => Gapless(Written))'
      BY <1>9, <2>1, <2>2, Zenon DEF Gapless
    <2>4. (client.open /\ srv.writer # "gone" /\ srv.reader # "gone" =>
             \A m \in 1 .. client.next - 1 : AtOnce(m) =>
               m \in Written \cup Slot("reader", Answers) \cup InHand \cup Inq \cup Push)'
      BY NothingMissing, SameScript, Zenon DEF AtOnce
    <2> QED  BY <1>1, <1>2, <2>3, <2>4, Zenon DEF GapInv
  <1>10. /\ client'.open => client.open
         /\ srv'.writer # "gone" => srv.writer # "gone"
    BY EndsStay, Zenon
  <1>11. \/ Still(P, p) \/ Arrives(P, p) \/ Leaves(P, p) \/ Picked(P, p)
         \/ Queued(P, p) \/ GivenUp(P, p) \/ Raised(P, p) \/ Ended(P, p)
    BY <1>4, DownMoves
  <1>12. CASE Still(P, p) \/ GivenUp(P, p) \/ Raised(P, p) \/ Ended(P, p)
    <2>1. a1 = a /\ b1 = b /\ d1 = d /\ (c1 = c \/ srv'.writer = "gone")
      BY <1>5, <1>6, <1>12, Zenon DEF Still, GivenUp, Raised, Ended
    <2> QED  BY <1>8, <1>10, <2>1, Zenon
  <1>13. CASE Arrives(P, p)
    <2>1. PICK X : /\ b = X \cup b1 /\ Ahead(X, b1) /\ c1 = c /\ d1 = d
                   /\ a1 = IF client.open THEN a \cup X ELSE a
      BY <1>3, <1>4, <1>5, <1>6, <1>13, Zenon DEF Arrives, OrderInv, Chain
    <2>2. CASE client.open
      <3>1. a1 \cup b1 = a \cup b /\ a1 \in SUBSET Nat /\ Ahead(a1, b1)
        BY <1>7, <2>1, <2>2, Zenon DEF Ahead
      <3>2. Gapless(a1 \cup b1)
        BY <1>8, <2>2, <3>1, Zenon
      <3>3. Gapless(a1)
        BY <3>1, <3>2, LowerPart, Zenon
      <3> QED  BY <1>8, <1>10, <2>1, <3>1, <3>2, <3>3, Zenon
    <2>3. CASE ~client.open
      BY <1>8, <1>10, <2>1, <2>3, Zenon
    <2> QED  BY <2>2, <2>3, Zenon
  <1>14. CASE Leaves(P, p)
    <2>1. a1 = a /\ b1 = b \cup c /\ c1 = {} /\ d1 = d /\ srv.writer # "gone"
      BY <1>5, <1>6, <1>14, Zenon DEF Leaves
    <2>2. ASSUME client.open PROVE Gapless(a1 \cup b1)
      <3>1. PICK X, Y : X = a1 \cup b1 /\ Y = d
        BY Zenon
      <3>2. X \in SUBSET Nat /\ Ahead(X, Y) /\ X \cup Y = a \cup b \cup c \cup d
        BY <1>7, <2>1, <3>1, Zenon DEF Ahead
      <3>3. Gapless(X \cup Y)
        BY <1>8, <2>1, <2>2, <3>2, Zenon
      <3>4. Gapless(X)
        BY <3>2, <3>3, LowerPart, Zenon
      <3> QED  BY <3>1, <3>4, Zenon
    <2>3. a1 \cup b1 \cup c1 \cup d1 = a \cup b \cup c \cup d
      BY <2>1, Zenon
    <2> QED  BY <1>8, <1>10, <2>1, <2>2, <2>3, Zenon
  <1>15. CASE Picked(P, p)
    <2>1. a1 = a /\ b1 = b /\ c = {} /\ d = c1 \cup d1
      BY <1>5, <1>6, <1>15, Zenon DEF Picked
    <2>2. a1 \cup b1 \cup c1 \cup d1 = a \cup b \cup c \cup d
      BY <2>1, Zenon
    <2> QED  BY <1>8, <1>10, <2>1, <2>2, Zenon
  <1>16. CASE Queued(P, p)
    <2>1. a1 = a /\ b1 = b /\ c1 = c /\ d1 = d \cup e
      BY <1>5, <1>6, <1>16, Zenon DEF Queued
    <2>2. a1 \cup b1 \cup c1 \cup d1 = a \cup b \cup c \cup d \cup e
      BY <2>1, Zenon
    <2> QED  BY <1>8, <1>10, <2>1, <2>2, Zenon
  <1> QED  BY <1>11, <1>12, <1>13, <1>14, <1>15, <1>16, Zenon

\* Nothing is asked for at the start.
LEMMA GapInit == Init => GapInv
  <1> SUFFICES ASSUME Init PROVE GapInv
    BY Zenon
  <1>1. /\ client.seen = << >> /\ down = << >> /\ srv.ch = << >> /\ client.next = 1
        /\ srv.writer = "idle" /\ srv.fsDone = FALSE /\ srv.done = FALSE /\ closer = "no"
    BY Zenon DEF Init, NewSession
  <1>2. Nums(Answers, << >>) = {}
    BY DEF Nums
  <1>3. Seen(Answers) = {} /\ Delivered = {} /\ Written = {}
    BY <1>1, <1>2, Zenon DEF Held, Busy, Seen, Down, Chan, Delivered, Written
  <1>4. \A m \in 1 .. client.next - 1 : FALSE
    BY <1>1
  <1> QED  BY <1>1, <1>3, <1>4, Zenon DEF GapInv, Gapless

\* In order and without a gap, as the client sees it.
LEMMA OrderAndGaps == SessionOK /\ OrderInv /\ GapInv => AnswersInOrder
  <1> SUFFICES ASSUME SessionOK, OrderInv, GapInv PROVE AnswersInOrder
    BY Zenon
  <1> DEFINE n(k) == client.seen[k].n
             answers == {k \in DOMAIN client.seen : client.seen[k].type # "event" /\ AtOnce(n(k))}
  <1>1. PICK w \in Seq(Responses) : w = client.seen
    BY Zenon DEF SessionOK, ClientOK
  <1>2. \A k \in DOMAIN w : w[k] \in Responses
    OBVIOUS
  <1>3. \A k \in DOMAIN client.seen : k \in answers <=> client.seen[k] \in Answers
    BY <1>1, <1>2, Zenon DEF Answers
  <1>4. \A j, k \in answers : j < k => n(j) < n(k)
    BY <1>3, Zenon DEF OrderInv, Chain, Rising
  <1>5. ASSUME NEW k \in answers, NEW m \in 1 .. n(k), AtOnce(m)
        PROVE  \E j \in answers : n(j) = m
    <2>1. n(k) \in Seen(Answers)
      BY <1>3, Zenon DEF Seen, Nums
    <2>2. m \in Seen(Answers)
      BY <1>5, <2>1, Zenon DEF GapInv, Gapless
    <2> QED  BY <1>3, <2>2, Zenon DEF Seen, Nums
  <1> QED  BY <1>4, <1>5, Zenon DEF AnswersInOrder

(***************************************************************************)
(* The answers to synchronous requests reach the client in the order of    *)
(* the requests and with none missing before one that came, for every      *)
(* script, either transport and every size of the channels, with data      *)
(* channels and pion's callbacks enqueueing at the same time               *)
(* (connWriter.enqueue, processFrame, handleFrame).                        *)
(***************************************************************************)
THEOREM AnswersOrdered == Spec => []AnswersInOrder
  <1>1. Init => SessionOK /\ OrderInv /\ GapInv
    BY SessionInit, OrderInit, GapInit, Zenon
  <1>2. SessionOK /\ OrderInv /\ GapInv /\ [Next]_vars => (SessionOK /\ OrderInv /\ GapInv)'
    BY SessionNext, OrderNext, GapNext, Zenon
  <1> QED  BY <1>1, <1>2, OrderAndGaps, PTL DEF Spec

-----------------------------------------------------------------------------
(* The events of a handle on the client.                                   *)

(***************************************************************************)
(* The events of the handle are in one place, with the dispatcher, with    *)
(* the resource or with the listener, and a full buffer means that so many *)
(* were seen.                                                              *)
(***************************************************************************)
Mail(c) == IF c.handle = "unknown" THEN c.buffered ELSE IF c.listening THEN c.got ELSE c.kept
OnePlace(c) ==
  /\ c.handle = "unknown" => c.got = << >> /\ c.kept = << >> /\ ~c.listening
  /\ c.handle # "unknown" => c.buffered = << >>
  /\ IF c.listening THEN c.kept = << >> ELSE c.got = << >>
  /\ Len(c.kept) <= MaxBuffered /\ Len(c.buffered) <= MaxBuffered
Values(q) == {q[k] : k \in DOMAIN q}
Faithful(q, X, gone) ==
  /\ IsFiniteSet(X) /\ Len(q) <= Cardinality(X)
  /\ \A j, k \in DOMAIN q : j < k => q[j] < q[k]
  /\ Values(q) \subseteq X
  /\ ~gone /\ Cardinality(X) <= MaxBuffered => X \subseteq Values(q)
KeptInv ==
  OnePlace(client) /\ Faithful(Mail(client), Seen(Events), client.handle = "disposed")

-----------------------------------------------------------------------------
(* The events of the handle.                                               *)

\* One more event, the last so far, is added to what is kept, or dropped.
LEMMA OneMore ==
  ASSUME NEW q \in Seq(Nat), NEW X \in SUBSET Nat, NEW gone \in BOOLEAN, Faithful(q, X, gone),
         NEW x \in Nat, Ahead(X, {x})
  PROVE  /\ Faithful(Append(q, x), X \cup {x}, gone)
         /\ gone \/ Len(q) >= MaxBuffered => Faithful(q, X \cup {x}, gone)
  <1>0. Len(q) \in Nat /\ MaxBuffered \in Nat
    BY SizeAssumption
  <1>1. x \notin X
    <2>1. ~(x < x)
      OBVIOUS
    <2> QED  BY <2>1, Zenon DEF Ahead
  <1>2. /\ IsFiniteSet(X \cup {x}) /\ Cardinality(X) \in Nat
        /\ Cardinality(X \cup {x}) = Cardinality(X) + 1
    BY <1>1, FS_AddElement, FS_CardinalityType DEF Faithful
  <1>3. /\ Append(q, x) \in Seq(Nat) /\ Len(Append(q, x)) = Len(q) + 1
        /\ DOMAIN q = 1 .. Len(q) /\ DOMAIN Append(q, x) = 1 .. Len(q) + 1
        /\ \A k \in 1 .. Len(q) : Append(q, x)[k] = q[k]
        /\ Append(q, x)[Len(q) + 1] = x
    OBVIOUS
  <1>4. \A k \in 1 .. Len(q) : q[k] \in X
    BY <1>3, Zenon DEF Faithful, Values
  <1>5. Values(Append(q, x)) = Values(q) \cup {x}
    <2>1. \A k \in 1 .. Len(q) + 1 : k \in 1 .. Len(q) \/ k = Len(q) + 1
      BY <1>0
    <2>2. 1 .. Len(q) \subseteq 1 .. Len(q) + 1 /\ Len(q) + 1 \in 1 .. Len(q) + 1
      BY <1>0
    <2>3. Values(Append(q, x)) \subseteq Values(q) \cup {x}
      BY <1>3, <2>1, Zenon DEF Values
    <2>4. Values(q) \cup {x} \subseteq Values(Append(q, x))
      BY <1>3, <2>2, Zenon DEF Values
    <2> QED  BY <2>3, <2>4, Zenon
  <1>6. Faithful(Append(q, x), X \cup {x}, gone)
    <2>1. Len(Append(q, x)) <= Cardinality(X \cup {x})
      BY <1>0, <1>2, <1>3 DEF Faithful
    <2>2. ASSUME NEW j \in 1 .. Len(q) + 1, NEW k \in 1 .. Len(q) + 1, j < k
          PROVE  Append(q, x)[j] < Append(q, x)[k]
      <3>1. j \in 1 .. Len(q) /\ (k \in 1 .. Len(q) \/ k = Len(q) + 1)
        BY <1>0, <2>2
      <3>2. CASE k \in 1 .. Len(q)
        BY <1>3, <2>2, <3>1, <3>2, Zenon DEF Faithful
      <3>3. CASE k = Len(q) + 1
        BY <1>3, <1>4, <3>1, <3>3, Zenon DEF Ahead
      <3> QED  BY <3>1, <3>2, <3>3, Zenon
    <2>3. Cardinality(X \cup {x}) <= MaxBuffered => Cardinality(X) <= MaxBuffered
      BY <1>0, <1>2
    <2> QED  BY <1>2, <1>3, <1>5, <2>1, <2>2, <2>3, Zenon DEF Faithful
  <1>7. ASSUME gone \/ Len(q) >= MaxBuffered PROVE Faithful(q, X \cup {x}, gone)
    <2>1. Len(q) <= Cardinality(X)
      BY Zenon DEF Faithful
    <2>2. Len(q) <= Cardinality(X \cup {x})
      BY <1>0, <1>2, <2>1
    <2>3. gone \/ ~(Cardinality(X \cup {x}) <= MaxBuffered)
      <3>1. Len(q) >= MaxBuffered => ~(Cardinality(X \cup {x}) <= MaxBuffered)
        BY <1>0, <1>2, <2>1
      <3> QED  BY <1>7, <3>1, Zenon
    <2> QED  BY <1>2, <2>2, <2>3, Zenon DEF Faithful
  <1> QED  BY <1>6, <1>7, Zenon

\* A broadcast adds the event to what is kept, unless the handle is disposed of
\* or its buffer is full.
LEMMA BroadcastKeeps ==
  ASSUME NEW c, MailOK(c), OnePlace(c), NEW x \in Nat, NEW b, b = broadcast(c, x)
  PROVE  /\ OnePlace(b) /\ b.handle = c.handle
         /\ \/ Mail(b) = Append(Mail(c), x)
            \/ /\ Mail(b) = Mail(c)
               /\ c.handle = "disposed" \/ Len(Mail(c)) >= MaxBuffered
  <1>0. MaxBuffered \in Nat
    BY SizeAssumption
  <1>1. /\ DOMAIN c = ClientFields /\ c.got \in Seq(Nat) /\ c.kept \in Seq(Nat)
        /\ c.buffered \in Seq(Nat) /\ c.handle \in {"unknown", "subscribed", "disposed"}
    BY Zenon DEF MailOK
  <1>2. \A q \in Seq(Nat) :
          /\ Len(q) < MaxBuffered => Len(Append(q, x)) <= MaxBuffered
          /\ ~(Len(q) < MaxBuffered) => Len(q) >= MaxBuffered
    BY <1>0
  <1>3. CASE c.handle = "disposed"
    <2>1. b = c
      BY <1>3, Zenon DEF broadcast
    <2> QED  BY <1>3, <2>1, Zenon
  <1>4. CASE c.handle = "unknown"
    <2>1. b = IF Len(c.buffered) < MaxBuffered THEN [c EXCEPT !.buffered = Append(@, x)] ELSE c
      BY <1>4, Zenon DEF broadcast
    <2>2. CASE Len(c.buffered) < MaxBuffered
      <3>1. /\ b.buffered = Append(c.buffered, x) /\ b.handle = c.handle
            /\ b.got = c.got /\ b.kept = c.kept /\ b.listening = c.listening
        BY <1>1, <2>1, <2>2, Zenon DEF ClientFields
      <3>2. Len(b.buffered) <= MaxBuffered
        BY <1>1, <1>2, <2>2, <3>1, Zenon
      <3> QED  BY <1>4, <3>1, <3>2, Zenon DEF OnePlace, Mail
    <2>3. CASE ~(Len(c.buffered) < MaxBuffered)
      BY <1>1, <1>2, <1>4, <2>1, <2>3, Zenon DEF Mail
    <2> QED  BY <2>2, <2>3, Zenon
  <1>5. CASE c.handle = "subscribed"
    <2>0. b = add(c, x)
      BY <1>5, Zenon DEF broadcast
    <2>1. CASE c.listening
      <3>1. b = [c EXCEPT !.got = Append(@, x)]
        BY <2>0, <2>1, Zenon DEF add
      <3>2. /\ b.got = Append(c.got, x) /\ b.handle = c.handle
            /\ b.buffered = c.buffered /\ b.kept = c.kept /\ b.listening = c.listening
        BY <1>1, <3>1, Zenon DEF ClientFields
      <3> QED  BY <1>5, <2>1, <3>2, Zenon DEF OnePlace, Mail
    <2>2. CASE ~c.listening /\ Len(c.kept) < MaxBuffered
      <3>1. b = [c EXCEPT !.kept = Append(@, x)]
        BY <2>0, <2>2, Zenon DEF add
      <3>2. /\ b.kept = Append(c.kept, x) /\ b.handle = c.handle
            /\ b.buffered = c.buffered /\ b.got = c.got /\ b.listening = c.listening
        BY <1>1, <3>1, Zenon DEF ClientFields
      <3>3. Len(b.kept) <= MaxBuffered
        BY <1>1, <1>2, <2>2, <3>2, Zenon
      <3> QED  BY <1>5, <2>2, <3>2, <3>3, Zenon DEF OnePlace, Mail
    <2>3. CASE ~c.listening /\ ~(Len(c.kept) < MaxBuffered)
      <3>1. b = c
        BY <2>0, <2>3, Zenon DEF add
      <3> QED  BY <1>1, <1>2, <1>5, <2>3, <3>1, Zenon DEF Mail
    <2> QED  BY <2>1, <2>2, <2>3, Zenon
  <1> QED  BY <1>1, <1>3, <1>4, <1>5, Zenon

\* The listeners, one after the other, lose nothing.
LEMMA ReplayKeeps ==
  ASSUME MailOK(client), OnePlace(client), Subscribe \/ Listen \/ Dispose
  PROVE  /\ OnePlace(client')
         /\ \/ Mail(client') = Mail(client) /\ client.handle # "disposed" /\ client'.handle # "disposed"
            \/ Mail(client') \in {Mail(client), << >>} /\ client'.handle = "disposed"
  <1>0. MaxBuffered \in Nat
    BY SizeAssumption
  <1>1. /\ DOMAIN client = ClientFields /\ client.got \in Seq(Nat) /\ client.kept \in Seq(Nat)
        /\ client.buffered \in Seq(Nat) /\ client.handle \in {"unknown", "subscribed", "disposed"}
    BY Zenon DEF MailOK
  <1>2. \A q \in Seq(Nat) : << >> \o q = q /\ Len(q) \in Nat
    OBVIOUS
  <1>3. Len(<< >>) = 0 /\ 0 <= MaxBuffered
    BY <1>0
  <1>4. CASE Subscribe
    <2>1. /\ client.handle = "unknown" /\ client.got = << >> /\ client.kept = << >>
          /\ ~client.listening /\ client' = listen(client) /\ Len(client.buffered) <= MaxBuffered
      BY <1>4, Zenon DEF Subscribe, OnePlace
    <2>2. PICK d : d = [client EXCEPT !.handle = "subscribed", !.buffered = << >>]
      BY Zenon
    <2>3. /\ DOMAIN d = ClientFields /\ d.handle = "subscribed" /\ d.buffered = << >>
          /\ d.got = << >> /\ d.kept = << >> /\ ~d.listening
      BY <1>1, <2>1, <2>2, Zenon DEF ClientFields
    <2>4. 0 + Len(client.buffered) <= MaxBuffered
      BY <1>1, <2>1
    <2>5. Fitting(Len(d.kept), client.buffered) = client.buffered
      BY <1>3, <2>3, <2>4, Zenon DEF Fitting
    <2>6. client' = [d EXCEPT !.kept = << >> \o client.buffered]
      BY <2>1, <2>2, <2>3, <2>5, Zenon DEF listen, addAll
    <2>7. /\ client'.handle = "subscribed" /\ client'.buffered = << >> /\ client'.got = << >>
          /\ ~client'.listening /\ client'.kept = client.buffered
      BY <1>1, <1>2, <2>3, <2>6, Zenon DEF ClientFields
    <2> QED  BY <1>3, <2>1, <2>7, Zenon DEF OnePlace, Mail
  <1>5. CASE Listen
    <2>1. /\ client.handle = "subscribed" /\ ~client.listening /\ client.got = << >>
          /\ client.buffered = << >>
          /\ client' = [client EXCEPT !.listening = TRUE, !.got = @ \o client.kept, !.kept = << >>]
      BY <1>5, Zenon DEF Listen, OnePlace
    <2>2. /\ client'.handle = "subscribed" /\ client'.buffered = << >> /\ client'.kept = << >>
          /\ client'.listening /\ client'.got = << >> \o client.kept
      BY <1>1, <2>1, Zenon DEF ClientFields
    <2> QED  BY <1>1, <1>2, <1>3, <2>1, <2>2, Zenon DEF OnePlace, Mail
  <1>6. CASE Dispose
    <2>1. /\ client.handle = "subscribed" /\ client.buffered = << >>
          /\ client' = [client EXCEPT !.handle = "disposed", !.kept = << >>]
      BY <1>6, Zenon DEF Dispose, OnePlace
    <2>2. /\ client'.handle = "disposed" /\ client'.buffered = << >> /\ client'.kept = << >>
          /\ client'.listening = client.listening /\ client'.got = client.got
      BY <1>1, <2>1, Zenon DEF ClientFields
    <2> QED  BY <1>3, <2>1, <2>2, Zenon DEF OnePlace, Mail
  <1> QED  BY <1>4, <1>5, <1>6, Zenon

\* What is kept stays in order and complete.
LEMMA KeptNext ==
  ASSUME SessionOK, [Next]_vars, OrderInv, KeptInv
  PROVE  KeptInv'
  <1>0. /\ MailOK(client) /\ MailOK(client') /\ OnePlace(client)
        /\ DOMAIN client = ClientFields /\ client.handle \in {"unknown", "subscribed", "disposed"}
        /\ Faithful(Mail(client), Seen(Events), client.handle = "disposed")
    BY ClientNext, Zenon DEF SessionOK, ClientOK, MailOK, KeptInv
  <1>1. Events' = Events
    BY Zenon DEF Events
  <1>2. ASSUME client'.seen = client.seen PROVE Seen(Events)' = Seen(Events)
    BY <1>1, <1>2, Zenon DEF Seen
  <1>3. ASSUME Retains({"open", "next", "pending", "stall", "seen"}),
               Seen(Events)' = Seen(Events)
        PROVE  KeptInv'
    <2>1. /\ client'.handle = client.handle /\ client'.got = client.got /\ client'.kept = client.kept
          /\ client'.buffered = client.buffered /\ client'.listening = client.listening
      BY <1>3, Zenon DEF Retains, ClientFields
    <2>2. Mail(client') = Mail(client) /\ OnePlace(client')
      BY <1>0, <2>1, Zenon DEF Mail, OnePlace
    <2> QED  BY <1>0, <1>3, <2>1, <2>2, Zenon DEF KeptInv
  <1>4. CASE ~ClientStep
    <2>1. client' = client
      BY <1>4, OtherSteps, Zenon
    <2> QED  BY <1>0, <1>2, <2>1, Zenon DEF KeptInv
  <1>5. CASE ClientDisconnected \/ Request \/ RequestTimesOut \/ ClientCloses \/ Stall
    <2>1. Retains({"open", "next", "pending", "stall"})
      BY <1>0, <1>5, ClientEffect, Zenon DEF Retains
    <2>2. client'.seen = client.seen
      BY <2>1, Zenon DEF Retains, ClientFields
    <2>3. Retains({"open", "next", "pending", "stall", "seen"})
      BY <2>1, Zenon DEF Retains
    <2> QED  BY <1>2, <1>3, <2>2, <2>3, Zenon
  <1>6. CASE Subscribe \/ Listen \/ Dispose
    <2>1. Seen(Events)' = Seen(Events)
      <3>1. Retains(Mailbox)
        BY <1>0, <1>6, ClientEffect, Zenon
      <3> QED  BY <1>2, <3>1, Zenon DEF Retains, ClientFields, Mailbox
    <2>2. /\ OnePlace(client')
          /\ \/ Mail(client') = Mail(client) /\ client.handle # "disposed" /\ client'.handle # "disposed"
             \/ Mail(client') \in {Mail(client), << >>} /\ client'.handle = "disposed"
      BY <1>0, <1>6, ReplayKeeps, Zenon
    <2>3. PICK X : X = Seen(Events)
      BY Zenon
    <2>4. Faithful(<< >>, X, TRUE)
      <3>1. IsFiniteSet(X)
        BY <1>0, <2>3, Zenon DEF Faithful
      <3>2. Cardinality(X) \in Nat
        BY <3>1, FS_CardinalityType, Zenon
      <3>3. Len(<< >>) <= Cardinality(X) /\ DOMAIN << >> = {}
        BY <3>2
      <3> QED  BY <3>1, <3>3, Zenon DEF Faithful, Values
    <2>5. Faithful(Mail(client'), X, client'.handle = "disposed")
      BY <1>0, <2>2, <2>3, <2>4, Zenon DEF Faithful
    <2> QED  BY <2>1, <2>2, <2>3, <2>5, Zenon DEF KeptInv
  <1>7. CASE ClientReceives
    <2>1. PICK d \in Seq(Responses) : d = down
      BY Zenon DEF SessionOK
    <2>2. d # << >>
      BY <1>7, <2>1, Zenon DEF ClientReceives
    <2>3. PICK r \in Responses : r = Head(d)
      BY <2>2
    <2>4. /\ client'.seen = IF client.open THEN Append(client.seen, r) ELSE client.seen
          /\ ~client.open \/ r.type # "event" => Retains({"pending", "seen"})
          /\ client.open /\ r.type = "event" => Broadcasts(r.n)
      BY <1>0, <1>7, <2>1, <2>3, ReceiveEffect, Zenon
    <2>5. PICK w \in Seq(Responses) : w = client.seen
      BY Zenon DEF SessionOK, ClientOK
    <2>9. PICK E : E = Events
      BY Zenon
    <2>6. Nums(E, Append(w, r)) = Nums(E, w) \cup One(E, r)
      BY AtTheEnd
    <2>7. CASE ~client.open \/ r.type # "event"
      <3>1. Seen(Events)' = Seen(Events)
        <4>1. r.type # "event" => One(E, r) = {}
          BY <2>5, <2>9, Zenon DEF One, Events
        <4> QED  BY <1>1, <2>4, <2>5, <2>9, <2>6, <2>7, <4>1, Zenon DEF Seen
      <3>2. Retains({"open", "next", "pending", "stall", "seen"})
        BY <2>4, <2>7, Zenon DEF Retains
      <3> QED  BY <1>3, <3>1, <3>2, Zenon
    <2>8. CASE client.open /\ r.type = "event"
      <3>1. PICK x \in Nat : x = r.n
        BY Zenon DEF Responses
      <3>2. One(E, r) = {x}
        BY <2>5, <2>9, <2>8, <3>1, Zenon DEF One, Events
      <3>3. PICK X : X = Seen(Events)
        BY Zenon
      <3>4. Seen(Events)' = X \cup {x}
        BY <1>1, <2>4, <2>5, <2>9, <2>6, <2>8, <3>2, <3>3, Zenon DEF Seen
      <3>5. Ahead(X, {x}) /\ X \in SUBSET Nat
        <4>1. 1 \in DOMAIN d /\ Head(d) = d[1]
          BY <2>2
        <4>2. {x} \subseteq Nums(E, d)
          BY <2>3, <2>5, <2>9, <2>8, <3>1, <4>1, Zenon DEF Nums, Events
        <4>3. Ahead(Seen(Events), Down(Events))
          BY Zenon DEF OrderInv, Chain, Ahead
        <4>4. Seen(Events) \subseteq Nat
          BY Numbers, Zenon DEF Producers
        <4> QED  BY <2>1, <2>5, <2>9, <3>3, <4>2, <4>3, <4>4, Zenon DEF Down, Ahead
      <3>6. PICK c : /\ DOMAIN c = ClientFields
                     /\ \A f \in Mailbox : c[f] = client[f]
                     /\ client' = broadcast(c, x)
        BY <2>4, <2>8, <3>1, Zenon DEF Broadcasts
      <3>7. MailOK(c) /\ OnePlace(c) /\ Mail(c) = Mail(client) /\ c.handle = client.handle
        BY <1>0, <3>6, Zenon DEF MailOK, OnePlace, Mail, Mailbox
      <3>8. PICK b : b = broadcast(c, x)
        BY Zenon
      <3>9. /\ OnePlace(b) /\ b.handle = c.handle
            /\ \/ Mail(b) = Append(Mail(c), x)
               \/ /\ Mail(b) = Mail(c)
                  /\ c.handle = "disposed" \/ Len(Mail(c)) >= MaxBuffered
        BY <3>7, <3>8, BroadcastKeeps, Zenon
      <3>10. PICK q \in Seq(Nat), gone \in BOOLEAN : q = Mail(c) /\ gone = (c.handle = "disposed")
        BY <3>7, Zenon DEF MailOK, Mail
      <3>11. Faithful(q, X, gone)
        BY <1>0, <3>3, <3>7, <3>10, Zenon
      <3>12. /\ Faithful(Append(q, x), X \cup {x}, gone)
             /\ gone \/ Len(q) >= MaxBuffered => Faithful(q, X \cup {x}, gone)
        BY <3>5, <3>11, OneMore, Zenon
      <3>13. Faithful(Mail(b), X \cup {x}, gone)
        BY <3>9, <3>10, <3>12, Zenon
      <3>14. Faithful(Mail(b), X \cup {x}, b.handle = "disposed")
        BY <3>9, <3>10, <3>13, Zenon
      <3> QED  BY <3>4, <3>6, <3>8, <3>9, <3>14, Zenon DEF KeptInv
    <2> QED  BY <2>7, <2>8, Zenon
  <1> QED  BY <1>4, <1>5, <1>6, <1>7, Zenon DEF ClientStep

\* No event is seen at the start.
LEMMA KeptInit == Init => KeptInv
  <1> SUFFICES ASSUME Init PROVE KeptInv
    BY Zenon
  <1>1. /\ client.seen = << >> /\ client.handle = "unknown" /\ client.buffered = << >>
        /\ client.kept = << >> /\ client.got = << >> /\ client.listening = FALSE
    BY Zenon DEF Init
  <1>2. Len(<< >>) = 0 /\ 0 <= MaxBuffered /\ 0 <= 0 /\ DOMAIN << >> = {}
    BY SizeAssumption
  <1>3. IsFiniteSet({}) /\ Cardinality({}) = 0
    BY FS_EmptySet, Zenon
  <1>4. Seen(Events) = {}
    BY <1>1, <1>2, Zenon DEF Seen, Nums
  <1>5. Mail(client) = << >> /\ OnePlace(client)
    BY <1>1, <1>2, Zenon DEF Mail, OnePlace
  <1>6. Faithful(<< >>, {}, client.handle = "disposed")
    BY <1>2, <1>3, Zenon DEF Faithful, Values
  <1> QED  BY <1>4, <1>5, <1>6, Zenon DEF KeptInv

\* In order and complete, as the listener gets them.
LEMMA OrderAndMail == SessionOK /\ OrderInv /\ KeptInv => EventsInOrder
  <1> SUFFICES ASSUME SessionOK, OrderInv, KeptInv PROVE EventsInOrder
    BY Zenon
  <1> DEFINE n(k) == client.seen[k].n
             events == {k \in DOMAIN client.seen : client.seen[k].type = "event"}
             all == {n(k) : k \in events}
             kept == client.got \o client.kept \o client.buffered
             have == {kept[k] : k \in DOMAIN kept}
  <1>1. PICK w \in Seq(Responses) : w = client.seen
    BY Zenon DEF SessionOK, ClientOK
  <1>2. \A k \in DOMAIN w : w[k] \in Responses
    OBVIOUS
  <1>3. \A k \in DOMAIN client.seen : k \in events <=> client.seen[k] \in Events
    BY <1>1, <1>2, Zenon DEF Events
  <1>4. \A j, k \in events : j < k => n(j) < n(k)
    BY <1>3, Zenon DEF OrderInv, Chain, Rising
  <1>5. all = Seen(Events)
    BY <1>3, Zenon DEF Seen, Nums
  <1>6. kept = Mail(client)
    <2>1. client.got \in Seq(Nat) /\ client.kept \in Seq(Nat) /\ client.buffered \in Seq(Nat)
      BY Zenon DEF SessionOK, ClientOK
    <2>2. \A q \in Seq(Nat) : /\ << >> \o q = q /\ q \o << >> = q
      OBVIOUS
    <2>3. OnePlace(client)
      BY Zenon DEF KeptInv
    <2>4. CASE client.handle = "unknown"
      BY <2>1, <2>2, <2>3, <2>4, Zenon DEF OnePlace, Mail
    <2>5. CASE client.handle # "unknown" /\ client.listening
      BY <2>1, <2>2, <2>3, <2>5, Zenon DEF OnePlace, Mail
    <2>6. CASE client.handle # "unknown" /\ ~client.listening
      BY <2>1, <2>2, <2>3, <2>6, Zenon DEF OnePlace, Mail
    <2> QED  BY <2>4, <2>5, <2>6, Zenon
  <1>7. have = Values(kept)
    BY Zenon DEF Values
  <1>8. Faithful(kept, all, client.handle = "disposed")
    BY <1>5, <1>6, Zenon DEF KeptInv
  <1> HIDE DEF kept
  <1>9. /\ \A j, k \in DOMAIN kept : j < k => kept[j] < kept[k]
        /\ have \subseteq all
        /\ client.handle # "disposed" /\ Cardinality(all) <= MaxBuffered => all \subseteq have
    BY <1>7, <1>8, Zenon DEF Faithful
  <1> USE DEF kept
  <1> QED  BY <1>4, <1>9, Zenon DEF EventsInOrder

(***************************************************************************)
(* The events of a handle reach the client in order, and its listener, how *)
(* late it comes, gets them in order and each once, none missing unless    *)
(* more came than are buffered, for every size of the channels and of the  *)
(* buffers (EventDispatcher, BufferedBroadcast, connWriter.enqueue).       *)
(***************************************************************************)
THEOREM EventsOrdered == Spec => []EventsInOrder
  <1>1. Init => SessionOK /\ OrderInv /\ KeptInv
    BY SessionInit, OrderInit, KeptInit, Zenon
  <1>2. SessionOK /\ OrderInv /\ KeptInv /\ [Next]_vars => (SessionOK /\ OrderInv /\ KeptInv)'
    BY SessionNext, OrderNext, KeptNext, Zenon
  <1> QED  BY <1>1, <1>2, OrderAndMail, PTL DEF Spec
=============================================================================
