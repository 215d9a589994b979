------------------------------ MODULE Registry ------------------------------
(***************************************************************************)
(* The handle registry every session shares: PeerConnections, the          *)
(* DataChannels they own, the send state of each channel, the time stamps  *)
(* the TTL sweeper reads, cascade deletion, and the sweep itself           *)
(* (go/internal/pionserver/registry.go, with the handlers and callbacks of *)
(* handler.go that create and delete resources).                           *)
(*                                                                         *)
(* A process is the read loop of a session, a pion callback goroutine, or  *)
(* the sweeper.  A step is one critical section of the registry's lock, one*)
(* lock-free store to a stamp, or one call into pion.  Time is the age of a*)
(* stamp, in seconds, saturating just above MaxAge.  The slices of handles *)
(* are sets: no property depends on the order in which they are closed.    *)
(***************************************************************************)
EXTENDS Integers, Sequences, FiniteSets

CONSTANTS
  PCs,        \* handles the registry can give to PeerConnections
  DCs,        \* handles it can give to DataChannels
  Sessions,   \* read loops
  Callbacks,  \* pion goroutines that run callbacks
  Sweeper,    \* the goroutine of StartCleanup
  Requests,   \* the requests clients make about a handle
  MaxAge,     \* the TTL
  Coalesce,   \* touchStamp leaves a stamp at most this old alone
  None

Handles == PCs \cup DCs
Actors == Sessions \cup Callbacks \cup {Sweeper}

ASSUME RegistryAssumption ==
  /\ Requests \subseteq {"createDc", "pcClose", "dcClose", "delete", "other"}
  /\ MaxAge \in Nat /\ Coalesce \in Nat /\ Coalesce <= MaxAge
  /\ PCs \cap DCs = {} /\ None \notin Handles
  /\ Sessions \cap Callbacks = {} /\ Sweeper \notin Sessions \cup Callbacks

VARIABLES
  resources,   \* the keys of r.resources, which are those of r.lastSeen
  parent,      \* r.parent
  children,    \* r.children
  states,      \* the keys of r.dcSendStates
  age,         \* the time since each stamp of r.lastSeen
  senders,     \* the channels whose sender goroutine runs
  owner,       \* the PeerConnection on which pion created each channel
  open,        \* the pion channels that are not closed
  transport,   \* pion's state of each PeerConnection
  pc,          \* where each process stands
  arg,         \* the handle its request or event is about
  req,         \* the request a read loop is handling
  fresh,       \* the channel a process is registering
  stamps,      \* the stamps a Touch has still to refresh
  closing,     \* the send states a process has removed and not yet closed
  closers,     \* the pion objects it has removed and not yet closed
  expired,     \* Cleanup: the expired handles not yet classified
  roots,       \* Cleanup: the root resource of each expired handle
  reap,        \* Cleanup: the handles to delete
  spared       \* Cleanup: the handles to refresh

mapVars == <<resources, parent, children, states>>
pionVars == <<owner, open, transport>>
procVars == <<pc, arg, req>>
closeVars == <<closing, closers>>
sweepVars == <<expired, roots, reap, spared>>
timeVars == <<age, stamps>>
vars == <<mapVars, pionVars, procVars, fresh, closeVars, sweepVars, timeVars, senders>>

Steps == {"idle", "touch", "lookup", "createDc", "registerChild", "startSend",
          "pcClose", "dcClose", "delete", "closing", "check", "reap", "refresh"}

Init ==
  /\ resources = {} /\ states = {} /\ senders = {} /\ open = {}
  /\ parent = [d \in DCs |-> None]
  /\ children = [p \in PCs |-> {}]
  /\ owner = [d \in DCs |-> None]
  /\ transport = [p \in PCs |-> "unborn"]
  /\ age = [h \in Handles |-> MaxAge + 1]
  /\ pc = [a \in Actors |-> "idle"]
  /\ arg = [a \in Actors |-> None]
  /\ req = [a \in Actors |-> "other"]
  /\ fresh = [a \in Actors |-> None]
  /\ stamps = [a \in Actors |-> << >>]
  /\ closing = [a \in Actors |-> {}]
  /\ closers = [a \in Actors |-> {}]
  /\ expired = {} /\ reap = {} /\ spared = {}
  /\ roots = [h \in Handles |-> None]

\* A process goes to step l with handle h and request r in its hands.
Begin(a, l, h, r) ==
  /\ pc' = [pc EXCEPT ![a] = l]
  /\ arg' = [arg EXCEPT ![a] = IF l = "idle" THEN None ELSE h]
  /\ req' = [req EXCEPT ![a] = IF l = "idle" THEN "other" ELSE r]
Goto(a, l) == Begin(a, l, arg[a], req[a])

\* The handles a client has been told, by an ack or by event:dataChannel.
Known ==
  {p \in PCs : transport[p] # "unborn"}
    \cup {d \in DCs : owner[d] # None /\ \A a \in Actors : fresh[a] # d}

-----------------------------------------------------------------------------
(* Touch: the stamps of the handle and of its ancestors, collected under   *)
(* the read lock and refreshed without it.                                 *)

\* An ancestor that has left the registry has a nil stamp.
OwnStamp(h) == IF h \in resources THEN <<h>> ELSE << >>
Chain(h) ==
  IF h \in DCs /\ h \in resources /\ parent[h] \in resources
    THEN <<h, parent[h]>> ELSE OwnStamp(h)

\* touchStamp.
Refreshed(n) == IF n > Coalesce THEN 0 ELSE n

AfterTouch(a) ==
  IF a \in Sessions THEN "lookup" ELSE IF a \in Callbacks THEN "idle" ELSE "refresh"

Touch(a, h, r) ==
  /\ stamps' = [stamps EXCEPT ![a] = Chain(h)]
  /\ Begin(a, IF Chain(h) = << >> THEN AfterTouch(a) ELSE "touch", h, r)

\* A stamp whose handle is deleted meanwhile is still written; no map holds it.
Stamp(a) ==
  /\ pc[a] = "touch"
  /\ age' = [age EXCEPT ![Head(stamps[a])] = Refreshed(@)]
  /\ stamps' = [stamps EXCEPT ![a] = Tail(@)]
  /\ Goto(a, IF Len(stamps[a]) = 1 THEN AfterTouch(a) ELSE "touch")
  /\ UNCHANGED <<mapVars, pionVars, fresh, closeVars, sweepVars, senders>>

Older(n) == IF n > MaxAge THEN n ELSE n + 1

Tick ==
  /\ age' = [h \in Handles |-> Older(age[h])]
  /\ UNCHANGED <<mapVars, pionVars, procVars, fresh, closeVars, sweepVars, stamps, senders>>

-----------------------------------------------------------------------------
(* Deletion: detach under the lock, close outside it.                      *)

\* collectLocked on each handle of H: the handles it detaches.
Childless(H) == resources \cap H
Collected(H) == resources \cap (H \cup UNION {children[p] : p \in H \cap resources \cap PCs})

\* removeDCSendStateLocked: the send states that are detached with D.
StatesOf(D) == states \cap D

\* The entries of r.children that remain.
KeepListed(p, D) == IF p \in D THEN {} ELSE children[p]
Remaining(p, D) == IF p \in D THEN {} ELSE children[p] \ D

Collect(a, D) ==
  /\ resources' = resources \ D
  /\ parent' = [d \in DCs |-> IF d \in D THEN None ELSE parent[d]]
  /\ children' = [p \in PCs |-> Remaining(p, D)]
  /\ states' = states \ D
  /\ closing' = [closing EXCEPT ![a] = StatesOf(D)]
  /\ closers' = [closers EXCEPT ![a] = D]

\* closeCollected, and stopDCSendGoroutine: closeState on each send state...
CloseState(a) ==
  /\ pc[a] = "closing"
  /\ \E d \in closing[a] :
       /\ closing' = [closing EXCEPT ![a] = @ \ {d}]
       /\ senders' = senders \ {d}
  /\ UNCHANGED <<mapVars, pionVars, procVars, fresh, closers, sweepVars, timeVars>>

\* pc.Close closes the channels pion created on the connection.
LeaveOpen(h) == UNCHANGED <<open, transport>>
PionClose(h) ==
  /\ open' = open \ {d \in DCs : d = h \/ owner[d] = h}
  /\ transport' = [p \in PCs |-> IF p = h THEN "closed" ELSE transport[p]]

AfterClose(a) == IF a = Sweeper THEN "refresh" ELSE "idle"

\* ... and then Close on each resource.
CloseResource(a) ==
  /\ pc[a] = "closing"
  /\ closing[a] = {}
  /\ \E h \in closers[a] :
       /\ closers' = [closers EXCEPT ![a] = @ \ {h}]
       /\ PionClose(h)
       /\ Goto(a, IF closers[a] = {h} THEN AfterClose(a) ELSE "closing")
  /\ UNCHANGED <<mapVars, owner, fresh, closing, sweepVars, timeVars, senders>>

-----------------------------------------------------------------------------
(* The read loop of session s.                                             *)

\* pc:create: Register.  The callbacks are installed before the ack.
CreatePC(s) ==
  /\ pc[s] = "idle"
  /\ \E p \in PCs :
       /\ transport[p] = "unborn"
       /\ transport' = [transport EXCEPT ![p] = "new"]
       /\ resources' = resources \cup {p}
       /\ age' = [age EXCEPT ![p] = 0]
  /\ UNCHANGED <<parent, children, states, owner, open, procVars, fresh, closeVars,
                 sweepVars, stamps, senders>>

\* processFrame: a request with a handle first touches it.
Receive(s) ==
  /\ pc[s] = "idle"
  /\ \E h \in Known, r \in Requests : Touch(s, h, r)
  /\ UNCHANGED <<mapVars, pionVars, fresh, closeVars, sweepVars, age, senders>>

\* lookupPC, lookupDC and the other handlers' Lookup; a wrong handle is refused.
\* Delete looks for the handle itself.
Accepted(s) ==
  \/ req[s] = "delete"
  \/ req[s] \in {"createDc", "pcClose"} /\ arg[s] \in resources \cap PCs
  \/ req[s] = "dcClose" /\ arg[s] \in resources \cap DCs

Lookup(s) ==
  /\ pc[s] = "lookup"
  /\ age' = IF arg[s] \in resources THEN [age EXCEPT ![arg[s]] = Refreshed(@)] ELSE age
  /\ Goto(s, IF Accepted(s) THEN req[s] ELSE "idle")
  /\ UNCHANGED <<mapVars, pionVars, fresh, closeVars, sweepVars, stamps, senders>>

NewChannel(a, p) ==
  \E d \in DCs :
    /\ owner[d] = None
    /\ owner' = [owner EXCEPT ![d] = p]
    /\ open' = open \cup {d}
    /\ fresh' = [fresh EXCEPT ![a] = d]

\* pc:createDc: pion refuses on a closed connection, or for reasons of its own.
CreateDc(s) ==
  /\ pc[s] = "createDc"
  /\ \/ transport[arg[s]] # "closed" /\ NewChannel(s, arg[s]) /\ Goto(s, "registerChild")
     \/ Goto(s, "idle") /\ UNCHANGED <<owner, open, fresh>>
  /\ UNCHANGED <<mapVars, transport, closeVars, sweepVars, timeVars, senders>>

\* RegisterChild: the parent's presence is not looked at.
RegisterChild(a) ==
  LET d == fresh[a] p == arg[a] IN
  /\ pc[a] = "registerChild"
  /\ resources' = resources \cup {d}
  /\ parent' = [parent EXCEPT ![d] = p]
  /\ children' = [children EXCEPT ![p] = @ \cup {d}]
  /\ age' = [age EXCEPT ![d] = 0]
  /\ Goto(a, "startSend")
  /\ UNCHANGED <<states, pionVars, fresh, closeVars, sweepVars, stamps, senders>>

\* startDCSendGoroutine, the callbacks, and the ack of pc:createDc or the
\* event:dataChannel, which touches the connection.
StartSend(a) ==
  /\ pc[a] = "startSend"
  /\ states' = states \cup {fresh[a]}
  /\ senders' = senders \cup {fresh[a]}
  /\ fresh' = [fresh EXCEPT ![a] = None]
  /\ \/ a \in Callbacks /\ Touch(a, arg[a], "other")
     \/ a \in Sessions /\ Goto(a, "idle") /\ UNCHANGED stamps
  /\ UNCHANGED <<resources, parent, children, pionVars, closeVars, sweepVars, age>>

\* pc:close: the registry keeps the handle, its channels and their send states.
PCClose(s) ==
  /\ pc[s] = "pcClose"
  /\ PionClose(arg[s])
  /\ Goto(s, "idle")
  /\ UNCHANGED <<mapVars, owner, fresh, closeVars, sweepVars, timeVars, senders>>

\* RemoveDCSendState.
KeepState(h) == states
WithoutState(h) == states \ {h}

\* dc:close: the send state goes, the handle stays.
DCClose(s) ==
  /\ pc[s] = "dcClose"
  /\ states' = WithoutState(arg[s])
  /\ closing' = [closing EXCEPT ![s] = states \cap {arg[s]}]
  /\ closers' = [closers EXCEPT ![s] = {arg[s]}]
  /\ Goto(s, "closing")
  /\ UNCHANGED <<resources, parent, children, pionVars, fresh, sweepVars, timeVars, senders>>

\* resource:delete: Delete.
DeleteResource(s) ==
  /\ pc[s] = "delete"
  /\ \/ arg[s] \in resources /\ Collect(s, Collected({arg[s]})) /\ Goto(s, "closing")
     \/ arg[s] \notin resources /\ Goto(s, "idle") /\ UNCHANGED <<mapVars, closeVars>>
  /\ UNCHANGED <<pionVars, fresh, sweepVars, timeVars, senders>>

-----------------------------------------------------------------------------
(* pion: connection states, and callbacks on goroutines of its own.        *)

Connect ==
  /\ \E p \in PCs : /\ transport[p] \in {"new", "failed"}
                    /\ transport' = [transport EXCEPT ![p] = "connected"]
  /\ UNCHANGED <<mapVars, owner, open, procVars, fresh, closeVars, sweepVars, timeVars, senders>>

Disconnect ==
  /\ \E p \in PCs : /\ transport[p] = "connected"
                    /\ transport' = [transport EXCEPT ![p] = "failed"]
  /\ UNCHANGED <<mapVars, owner, open, procVars, fresh, closeVars, sweepVars, timeVars, senders>>

\* OnDataChannel: the remote peer opened a channel.
OnDataChannel(c) ==
  /\ pc[c] = "idle"
  /\ \E p \in PCs : /\ transport[p] = "connected"
                    /\ NewChannel(c, p)
                    /\ Begin(c, "registerChild", p, "other")
  /\ UNCHANGED <<mapVars, transport, closeVars, sweepVars, timeVars, senders>>

\* Every other callback emits an event, which touches the handle.
OnEvent(c) ==
  /\ pc[c] = "idle"
  /\ \E h \in Known : Touch(c, h, "other")
  /\ UNCHANGED <<mapVars, pionVars, fresh, closeVars, sweepVars, age, senders>>

-----------------------------------------------------------------------------
(* Cleanup.                                                                *)

Expired == {h \in resources : age[h] > MaxAge}
Root(h) == IF h \in DCs /\ parent[h] # None THEN parent[h] ELSE h

\* One pass under the read lock.
Scan ==
  /\ pc[Sweeper] = "idle"
  /\ Expired # {}
  /\ expired' = Expired
  /\ roots' = [h \in Handles |->
                 IF h \in Expired /\ Root(h) \in resources THEN Root(h) ELSE None]
  /\ Goto(Sweeper, "check")
  /\ UNCHANGED <<mapVars, pionVars, fresh, closeVars, reap, spared, timeVars, senders>>

\* isLivePeerConnection, asked of pion without the lock.
LiveItself(h) == h \in PCs /\ transport[h] = "connected"
IsLive(h) == roots[h] # None /\ transport[roots[h]] = "connected"

CheckLive ==
  /\ pc[Sweeper] = "check"
  /\ \E h \in expired :
       /\ expired' = expired \ {h}
       /\ \/ IsLive(h) /\ spared' = spared \cup {h} /\ UNCHANGED reap
          \/ ~IsLive(h) /\ reap' = reap \cup {h} /\ UNCHANGED spared
       /\ Goto(Sweeper, IF expired = {h} THEN "reap" ELSE "check")
  /\ UNCHANGED <<mapVars, pionVars, fresh, closeVars, roots, timeVars, senders>>

Reap ==
  /\ pc[Sweeper] = "reap"
  /\ Collect(Sweeper, Collected(reap))
  /\ Goto(Sweeper, IF Collected(reap) = {} THEN "refresh" ELSE "closing")
  /\ reap' = {}
  /\ roots' = [h \in Handles |-> None]
  /\ UNCHANGED <<pionVars, fresh, expired, spared, timeVars, senders>>

\* The spared handles are touched.
ForgetSpared(h) == Goto(Sweeper, "refresh") /\ UNCHANGED stamps
TouchSpared(h) == Touch(Sweeper, h, "other")

Refresh ==
  /\ pc[Sweeper] = "refresh"
  /\ \/ \E h \in spared : spared' = spared \ {h} /\ TouchSpared(h)
     \/ spared = {} /\ Goto(Sweeper, "idle") /\ UNCHANGED <<spared, stamps>>
  /\ UNCHANGED <<mapVars, pionVars, fresh, closeVars, expired, roots, reap, age, senders>>

Finish(a) == Stamp(a) \/ CloseState(a) \/ CloseResource(a) \/ RegisterChild(a) \/ StartSend(a)
ReadLoop(s) ==
  \/ CreatePC(s) \/ Receive(s) \/ Lookup(s) \/ CreateDc(s)
  \/ PCClose(s) \/ DCClose(s) \/ DeleteResource(s)
Callback(c) == OnDataChannel(c) \/ OnEvent(c)
Sweep == Scan \/ CheckLive \/ Reap \/ Refresh
Transport == Connect \/ Disconnect

Step ==
  \/ \E a \in Actors : Finish(a)
  \/ \E s \in Sessions : ReadLoop(s)
  \/ \E c \in Callbacks : Callback(c)
  \/ Sweep \/ Transport

Next == Step \/ Tick

Spec == Init /\ [][Next]_vars

(***************************************************************************)
(* Fairness.  Go runs every runnable goroutine, so a process finishes what *)
(* it has begun, and the ticker keeps starting sweeps.  Nothing makes a    *)
(* client send, pion call back, a transport change, or time pass.          *)
(***************************************************************************)
Handle(s) == Lookup(s) \/ CreateDc(s) \/ PCClose(s) \/ DCClose(s) \/ DeleteResource(s)

Fairness ==
  /\ \A s \in Sessions : WF_vars(Finish(s) \/ Handle(s))
  /\ \A c \in Callbacks : WF_vars(Finish(c))
  /\ WF_vars(Finish(Sweeper) \/ Sweep)

FairSpec == Spec /\ Fairness

-----------------------------------------------------------------------------
(***************************************************************************)
(* r.parent and r.children mirror each other, and name exactly the         *)
(* registered channels, through cascades, single deletions and             *)
(* registrations that race them.                                           *)
(***************************************************************************)
TreeConsistent ==
  /\ \A d \in DCs : d \in resources <=> parent[d] # None
  /\ \A d \in DCs, p \in PCs : d \in children[p] <=> parent[d] = p

(***************************************************************************)
(* RemoveDCSendState: "Caller is responsible for calling .closeState() so  *)
(* the goroutine exits".  A running sender goroutine belongs to a state    *)
(* that is still registered, or in the hands of exactly one process that   *)
(* is about to close it: explicit close, cascade and sweep never lose a    *)
(* state between them, nor take the same one twice.                        *)
(***************************************************************************)
EverySenderHasCloser ==
  /\ senders = states \cup UNION {closing[a] : a \in Actors}
  /\ \A a \in Actors :
       /\ closing[a] \cap states = {}
       /\ \A b \in Actors : a # b => closing[a] \cap closing[b] = {}

(***************************************************************************)
(* Delete: "If the resource is a PeerConnection, cascade-deletes its       *)
(* DataChannels".  When a connection leaves the registry, every channel    *)
(* registered under it leaves in the same step, with its send state.       *)
(***************************************************************************)
CascadeTakesAll ==
  [][\A p \in PCs : p \in resources /\ p \notin resources' =>
       \A d \in DCs : parent[d] = p => d \notin resources' /\ d \notin states']_vars

(***************************************************************************)
(* spec.md 6, implicit cleanup: a resource whose stamp has expired does    *)
(* not stay so; it is deleted, or refreshed by a Touch.                    *)
(***************************************************************************)
ExpiredIsSettled ==
  \A h \in Handles : (h \in resources /\ age[h] > MaxAge)
                       ~> (h \notin resources \/ age[h] <= MaxAge)

(***************************************************************************)
(* spec.md 6, explicit cleanup: "immediately close and remove".  A channel *)
(* that a client knew and that has left the registry gets closed in pion.  *)
(***************************************************************************)
RemovedIsClosed ==
  \A d \in DCs : (d \in Known /\ d \notin resources) ~> d \notin open

(***************************************************************************)
(* A channel that has left the registry does not keep its send state, and  *)
(* so its sender goroutine, for ever.                                      *)
(***************************************************************************)
SenderEndsWithChannel ==
  \A d \in DCs : (d \in Known /\ d \notin resources) ~> d \notin senders

(***************************************************************************)
(* Cleanup, read literally: no sweep deletes a connection that is          *)
(* connected at the moment it is deleted.                                  *)
(***************************************************************************)
ConnectedNotReaped ==
  [][pc[Sweeper] = "reap" /\ pc'[Sweeper] # "reap" =>
       \A p \in resources \ resources' : p \in PCs => transport[p] # "connected"]_vars
=============================================================================
