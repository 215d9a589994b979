--------------------------- MODULE RegistryProofs ---------------------------
(***************************************************************************)
(* Proofs about Registry and RegistrySweep, for any number of handles,     *)
(* sessions, callback goroutines and any TTL: the maps mirror each other,  *)
(* every send state has one closer, a cascade takes every channel, and a   *)
(* sweep spares what stays connected and what a touch has kept in use,     *)
(* although it asks pion without the lock and deletes later.               *)
(***************************************************************************)
EXTENDS RegistrySweep, TLAPS

-----------------------------------------------------------------------------
(* The inductive invariant.  Beyond types it says where a channel is while *)
(* it is being registered: in the hand of one process, under a handle that *)
(* no map holds yet; and that only a process that is closing holds states. *)

MapTypes ==
  /\ resources \subseteq Handles /\ states \subseteq DCs /\ senders \subseteq DCs
  /\ parent \in [DCs -> PCs \cup {None}] /\ owner \in [DCs -> PCs \cup {None}]
  /\ children \in [PCs -> SUBSET DCs]
ProcTypes ==
  /\ pc \in [Actors -> Steps]
  /\ arg \in [Actors -> Handles \cup {None}]
  /\ fresh \in [Actors -> DCs \cup {None}]
  /\ closing \in [Actors -> SUBSET DCs]
  /\ DOMAIN req = Actors
  /\ expired \subseteq Handles /\ reap \subseteq Handles /\ spared \subseteq Handles

FreshInv ==
  /\ \A a \in Actors :
       /\ fresh[a] # None <=> pc[a] \in {"registerChild", "startSend"}
       /\ pc[a] = "registerChild" => arg[a] \in PCs /\ fresh[a] \notin resources
       /\ pc[a] = "createDc" => arg[a] \in PCs
       /\ fresh[a] # None => owner[fresh[a]] # None /\ fresh[a] \notin senders
  /\ \A a, b \in Actors : fresh[a] # None /\ fresh[a] = fresh[b] => a = b
  /\ \A d \in DCs : owner[d] = None => d \notin resources /\ d \notin senders

ClosingInv == \A a \in Actors : closing[a] # {} => pc[a] = "closing"

RegInv ==
  /\ MapTypes /\ ProcTypes /\ FreshInv /\ ClosingInv
  /\ TreeConsistent /\ EverySenderHasCloser

\* The empty registry.
LEMMA RegInit == Init => RegInv
  <1> SUFFICES ASSUME Init PROVE RegInv
    BY Zenon
  <1> USE RegistryAssumption DEF Init, Handles
  <1>1. MapTypes /\ ProcTypes
    BY Zenon DEF MapTypes, ProcTypes, Steps
  <1>2. FreshInv /\ ClosingInv
    BY Zenon DEF FreshInv, ClosingInv
  <1>3. TreeConsistent /\ EverySenderHasCloser
    BY Zenon DEF TreeConsistent, EverySenderHasCloser
  <1> QED  BY <1>1, <1>2, <1>3, Zenon DEF RegInv

\* Plain steps hold neither a fresh channel nor send states to close.
Plain == Steps \ {"registerChild", "startSend", "closing", "createDc"}

\* A process moves between plain steps and leaves maps, channels and states.
LEMMA PlainMove ==
  ASSUME RegInv, NEW a \in Actors, NEW l \in Steps, NEW h \in Handles \cup {None}, NEW r,
         Begin(a, l, h, r), fresh[a] = None, closing[a] = {},
         l \in Plain \/ (l = "createDc" /\ h \in PCs) \/ l = "closing",
         UNCHANGED <<mapVars, owner, senders, fresh, closing>>,
         expired' \subseteq Handles, reap' \subseteq Handles, spared' \subseteq Handles
  PROVE  RegInv'
  <1> USE DEF mapVars
  <1>1. /\ pc' = [pc EXCEPT ![a] = l]
        /\ arg' \in [Actors -> Handles \cup {None}] /\ DOMAIN req' = Actors
        /\ arg'[a] = IF l = "idle" THEN None ELSE h
        /\ \A b \in Actors : b # a => arg'[b] = arg[b]
    BY Zenon DEF RegInv, ProcTypes, Begin
  <1>2. MapTypes' /\ ProcTypes'
    BY <1>1, Zenon DEF RegInv, MapTypes, ProcTypes
  <1>3. FreshInv'
    BY <1>1 DEF RegInv, FreshInv, ProcTypes, Plain
  <1>4. ClosingInv'
    BY <1>1, Zenon DEF RegInv, ClosingInv, ProcTypes
  <1>5. TreeConsistent' /\ EverySenderHasCloser'
    BY DEF RegInv, TreeConsistent, EverySenderHasCloser
  <1> QED  BY <1>2, <1>3, <1>4, <1>5, Zenon DEF RegInv

\* A step of pion or of time leaves everything of the registry.
LEMMA SameReg ==
  ASSUME RegInv, UNCHANGED <<mapVars, owner, senders, fresh, closing, procVars>>,
         expired' \subseteq Handles, reap' \subseteq Handles, spared' \subseteq Handles
  PROVE  RegInv'
  BY DEF RegInv, MapTypes, ProcTypes, FreshInv, ClosingInv, TreeConsistent, EverySenderHasCloser,
     mapVars, procVars

\* collectLocked on the handles of H, under the lock (Delete and Cleanup).
LEMMA CollectKeeps ==
  ASSUME RegInv, NEW a \in Actors, NEW H, NEW l \in Steps, NEW h \in Handles \cup {None}, NEW r,
         Collect(a, Collected(H)), Begin(a, l, h, r), pc[a] \in Plain,
         l = "closing" \/ (l \in Plain /\ Collected(H) = {}),
         UNCHANGED <<owner, senders, fresh>>,
         expired' \subseteq Handles, reap' \subseteq Handles, spared' \subseteq Handles
  PROVE  RegInv'
  <1> DEFINE D == Collected(H)
  <1>1. /\ pc' = [pc EXCEPT ![a] = l]
        /\ arg' \in [Actors -> Handles \cup {None}] /\ DOMAIN req' = Actors
        /\ \A b \in Actors : b # a => arg'[b] = arg[b]
    BY Zenon DEF RegInv, ProcTypes, Begin
  <1>2. /\ resources' = resources \ D /\ states' = states \ D
        /\ \A d \in DCs : parent'[d] = IF d \in D THEN None ELSE parent[d]
        /\ \A p \in PCs : children'[p] = IF p \in D THEN {} ELSE children[p] \ D
        /\ parent' \in [DCs -> PCs \cup {None}] /\ children' \in [PCs -> SUBSET DCs]
    BY Zenon DEF RegInv, MapTypes, Collect, Remaining
  <1>3. fresh[a] = None /\ closing[a] = {}
    BY Zenon DEF RegInv, FreshInv, ClosingInv, Plain
  <1>4. /\ closing'[a] = states \cap D /\ closing' \in [Actors -> SUBSET DCs]
        /\ \A b \in Actors : b # a => closing'[b] = closing[b]
    BY Zenon DEF RegInv, MapTypes, ProcTypes, Collect, StatesOf
  <1>5. MapTypes' /\ ProcTypes'
    BY <1>1, <1>2, <1>4, Zenon DEF RegInv, MapTypes, ProcTypes
  <1>6. FreshInv'
    BY <1>1, <1>2, <1>3, Zenon DEF RegInv, FreshInv, ProcTypes, Plain
  <1>7. ClosingInv'
    BY <1>1, <1>4, Zenon DEF RegInv, ClosingInv, ProcTypes
  <1>8. TreeConsistent'
    <2>1. \A p \in PCs : p \in D => children[p] \subseteq D
      BY RegistryAssumption DEF Collected, RegInv, TreeConsistent, MapTypes, Handles
    <2>2. \A d \in DCs : d \in resources' <=> parent'[d] # None
      BY <1>2, Zenon DEF RegInv, TreeConsistent
    <2>3. \A d \in DCs, p \in PCs : d \in children'[p] <=> parent'[d] = p
      BY <1>2, <2>1, RegistryAssumption DEF RegInv, TreeConsistent, Handles
    <2> QED  BY <2>2, <2>3, Zenon DEF TreeConsistent
  <1>9. EverySenderHasCloser'
    <2>1. senders' = states' \cup UNION {closing'[b] : b \in Actors}
      <3>1. \A d \in states : d \in states' \/ d \in closing'[a]
        BY <1>2, <1>4, Zenon
      <3>2. \A b \in Actors : closing[b] \subseteq closing'[b]
        BY <1>3, <1>4, Zenon
      <3>3. \A b \in Actors : closing'[b] \subseteq closing[b] \cup states
        BY <1>3, <1>4, Zenon
      <3> QED  BY <1>2, <3>1, <3>2, <3>3 DEF RegInv, EverySenderHasCloser
    <2>2. \A b \in Actors : closing'[b] \cap states' = {}
      BY <1>2, <1>4, Zenon DEF RegInv, EverySenderHasCloser
    <2>3. \A b, c \in Actors : b # c => closing'[b] \cap closing'[c] = {}
      BY <1>3, <1>4, Zenon DEF RegInv, EverySenderHasCloser
    <2> QED  BY <2>1, <2>2, <2>3, Zenon DEF EverySenderHasCloser
  <1> QED  BY <1>5, <1>6, <1>7, <1>8, <1>9, Zenon DEF RegInv

\* closeCollected: closeState on one of the states in hand.
LEMMA CloseStateKeeps ==
  ASSUME RegInv, NEW a \in Actors, CloseState(a)
  PROVE  RegInv'
  <1> USE DEF mapVars, pionVars, procVars, sweepVars
  <1>1. PICK d \in closing[a] : closing' = [closing EXCEPT ![a] = @ \ {d}] /\ senders' = senders \ {d}
    BY Zenon DEF CloseState
  <1>2. /\ UNCHANGED <<resources, parent, children, states, owner, pc, arg, req, fresh>>
        /\ UNCHANGED <<expired, reap, spared>>
    BY Zenon DEF CloseState
  <1>3. MapTypes' /\ ProcTypes'
    BY <1>1, <1>2, Zenon DEF RegInv, MapTypes, ProcTypes
  <1>4. FreshInv' /\ ClosingInv' /\ TreeConsistent'
    BY <1>1, <1>2 DEF RegInv, FreshInv, ClosingInv, TreeConsistent, ProcTypes, CloseState
  <1>5. EverySenderHasCloser'
    <2>1. d \notin states /\ \A b \in Actors : b # a => d \notin closing[b]
      BY <1>1, Zenon DEF RegInv, EverySenderHasCloser
    <2>2. closing'[a] = closing[a] \ {d} /\ \A b \in Actors : b # a => closing'[b] = closing[b]
      BY <1>1, Zenon DEF RegInv, ProcTypes
    <2>3. senders' = states' \cup UNION {closing'[b] : b \in Actors}
      <3>1. \A x : x \in senders <=> x \in states \/ \E b \in Actors : x \in closing[b]
        BY Zenon DEF RegInv, EverySenderHasCloser
      <3>2. \A x : (\E b \in Actors : x \in closing'[b]) <=> x # d /\ \E b \in Actors : x \in closing[b]
        BY <2>1, <2>2, Zenon
      <3>3. \A x : x \in senders' <=> x \in states' \/ \E b \in Actors : x \in closing'[b]
        BY <1>1, <1>2, <2>1, <3>1, <3>2, Zenon
      <3> QED  BY <3>3, Zenon
    <2> QED  BY <1>2, <2>2, <2>3, Zenon DEF RegInv, EverySenderHasCloser
  <1> QED  BY <1>3, <1>4, <1>5, Zenon DEF RegInv

\* RegisterChild, with the channel and its connection in hand.
LEMMA RegisterChildKeeps ==
  ASSUME RegInv, NEW a \in Actors, RegisterChild(a)
  PROVE  RegInv'
  <1> USE DEF mapVars, pionVars, sweepVars, closeVars
  <1>0. PICK d, p : d = fresh[a] /\ p = arg[a]
    BY Zenon
  <1>1. d \in DCs /\ p \in PCs /\ d \notin resources /\ parent[d] = None /\ owner[d] # None
    BY <1>0 DEF RegInv, FreshInv, ProcTypes, TreeConsistent, RegisterChild
  <1>2. /\ resources' = resources \cup {d}
        /\ parent' = [parent EXCEPT ![d] = p]
        /\ children' = [children EXCEPT ![p] = @ \cup {d}]
        /\ UNCHANGED <<states, owner, fresh, closing, senders, expired, reap, spared>>
    BY <1>0, Zenon DEF RegisterChild
  <1>3. /\ pc[a] = "registerChild" /\ pc' = [pc EXCEPT ![a] = "startSend"]
        /\ arg' \in [Actors -> Handles \cup {None}] /\ DOMAIN req' = Actors
        /\ \A b \in Actors : b # a => arg'[b] = arg[b]
    BY Zenon DEF RegisterChild, Goto, Begin, RegInv, ProcTypes
  <1>4. MapTypes' /\ ProcTypes'
    BY <1>1, <1>2, <1>3, Zenon DEF RegInv, MapTypes, ProcTypes, Steps, Handles
  <1>5. FreshInv'
    BY <1>0, <1>1, <1>2, <1>3, Zenon DEF RegInv, FreshInv, ProcTypes
  <1>6. ClosingInv' /\ EverySenderHasCloser'
    BY <1>2, <1>3 DEF RegInv, ClosingInv, EverySenderHasCloser, ProcTypes
  <1>7. TreeConsistent'
    BY <1>1, <1>2, RegistryAssumption DEF RegInv, TreeConsistent, MapTypes, Handles
  <1> QED  BY <1>4, <1>5, <1>6, <1>7, Zenon DEF RegInv

\* startDCSendGoroutine: RegisterDCSendState, and the goroutine starts.
LEMMA StartSendKeeps ==
  ASSUME RegInv, NEW a \in Actors, StartSend(a)
  PROVE  RegInv'
  <1> USE DEF mapVars, pionVars, sweepVars, closeVars
  <1>0. PICK d : d = fresh[a]
    BY Zenon
  <1>1. d \in DCs /\ d \notin senders /\ owner[d] # None /\ pc[a] = "startSend"
    BY <1>0, Zenon DEF RegInv, FreshInv, ProcTypes, StartSend
  <1>2. /\ states' = states \cup {d} /\ senders' = senders \cup {d}
        /\ fresh' = [fresh EXCEPT ![a] = None]
        /\ UNCHANGED <<resources, parent, children, owner, closing, expired, reap, spared>>
    BY <1>0, Zenon DEF StartSend
  <1>3. PICK l \in Plain : /\ pc' = [pc EXCEPT ![a] = l]
                            /\ arg' \in [Actors -> Handles \cup {None}] /\ DOMAIN req' = Actors
                            /\ \A b \in Actors : b # a => arg'[b] = arg[b]
    BY DEF StartSend, Touch, AfterTouch, Goto, Begin, RegInv, ProcTypes, Plain, Steps
  <1>4. MapTypes' /\ ProcTypes'
    BY <1>1, <1>2, <1>3, Zenon DEF RegInv, MapTypes, ProcTypes, Plain
  <1>5. FreshInv'
    BY <1>0, <1>1, <1>2, <1>3, Zenon DEF RegInv, FreshInv, ProcTypes, Plain
  <1>6. ClosingInv' /\ TreeConsistent'
    BY <1>1, <1>2, <1>3, Zenon DEF RegInv, ClosingInv, TreeConsistent, ProcTypes
  <1>7. EverySenderHasCloser'
    <2>1. \A b \in Actors : d \notin closing[b]
      BY <1>1, Zenon DEF RegInv, EverySenderHasCloser
    <2> QED  BY <1>1, <1>2, <2>1, Zenon DEF RegInv, EverySenderHasCloser
  <1> QED  BY <1>4, <1>5, <1>6, <1>7, Zenon DEF RegInv

\* A channel that pion has created is in the hand of one process.
LEMMA NewChannelKeeps ==
  ASSUME RegInv, NEW a \in Actors, NEW p \in PCs, NEW r, NewChannel(a, p),
         Begin(a, "registerChild", p, r), fresh[a] = None, pc[a] # "closing",
         UNCHANGED <<mapVars, senders, closing, expired, reap, spared>>
  PROVE  RegInv'
  <1> USE DEF mapVars
  <1>1. PICK d \in DCs : /\ owner[d] = None /\ owner' = [owner EXCEPT ![d] = p]
                         /\ fresh' = [fresh EXCEPT ![a] = d]
    BY Zenon DEF NewChannel
  <1>2. /\ pc' = [pc EXCEPT ![a] = "registerChild"]
        /\ arg' = [arg EXCEPT ![a] = p] /\ DOMAIN req' = Actors
    BY Zenon DEF Begin, RegInv, ProcTypes
  <1>3. d # None /\ p # None
    BY RegistryAssumption, Zenon DEF Handles
  <1>4. MapTypes' /\ ProcTypes'
    BY <1>1, <1>2, Zenon DEF RegInv, MapTypes, ProcTypes, Steps, Handles
  <1>5. FreshInv'
    <2>1. \A b \in Actors : fresh[b] # d
      BY <1>1, <1>3, Zenon DEF RegInv, FreshInv
    <2>2. d \notin resources /\ d \notin senders
      BY <1>1, Zenon DEF RegInv, FreshInv
    <2>3. /\ pc'[a] = "registerChild" /\ arg'[a] = p /\ fresh'[a] = d
          /\ \A b \in Actors : b # a => pc'[b] = pc[b] /\ arg'[b] = arg[b] /\ fresh'[b] = fresh[b]
          /\ owner'[d] = p /\ \A c \in DCs : c # d => owner'[c] = owner[c]
      BY <1>1, <1>2, Zenon DEF RegInv, ProcTypes, MapTypes
    <2>4. (\A b \in Actors :
             /\ fresh[b] # None <=> pc[b] \in {"registerChild", "startSend"}
             /\ pc[b] = "registerChild" => arg[b] \in PCs /\ fresh[b] \notin resources
             /\ pc[b] = "createDc" => arg[b] \in PCs
             /\ fresh[b] # None => owner[fresh[b]] # None /\ fresh[b] \notin senders)'
      <3> SUFFICES ASSUME NEW b \in Actors
                   PROVE  /\ fresh'[b] # None <=> pc'[b] \in {"registerChild", "startSend"}
                          /\ pc'[b] = "registerChild" => arg'[b] \in PCs /\ fresh'[b] \notin resources
                          /\ pc'[b] = "createDc" => arg'[b] \in PCs
                          /\ fresh'[b] # None => owner'[fresh'[b]] # None /\ fresh'[b] \notin senders
        BY Zenon
      <3>1. CASE b = a
        BY <1>3, <2>2, <2>3, <3>1, Zenon
      <3>2. CASE b # a
        <4>1. fresh[b] \in DCs \cup {None}
          BY Zenon DEF RegInv, ProcTypes
        <4>2. /\ pc'[b] = pc[b] /\ arg'[b] = arg[b] /\ fresh'[b] = fresh[b]
              /\ fresh[b] # None => owner'[fresh[b]] = owner[fresh[b]]
          BY <2>1, <2>3, <3>2, <4>1, Zenon
        <4> QED  BY <4>2, Zenon DEF RegInv, FreshInv
      <3> QED  BY <3>1, <3>2, Zenon
    <2>5. (\A b, c \in Actors : fresh[b] # None /\ fresh[b] = fresh[c] => b = c)'
      <3>1. \A b, c \in Actors : fresh[b] # None /\ fresh[b] = fresh[c] => b = c
        BY Zenon DEF RegInv, FreshInv
      <3> SUFFICES ASSUME NEW b \in Actors, NEW c \in Actors, fresh'[b] # None, fresh'[b] = fresh'[c]
                   PROVE  b = c
        BY Zenon
      <3>2. CASE b = a \/ c = a
        BY <2>1, <2>3, <3>2, Zenon
      <3>3. CASE b # a /\ c # a
        BY <2>3, <3>1, <3>3, Zenon
      <3> QED  BY <3>2, <3>3, Zenon
    <2>6. (\A c \in DCs : owner[c] = None => c \notin resources /\ c \notin senders)'
      BY <1>3, <2>3, Zenon DEF RegInv, FreshInv
    <2> QED  BY <2>4, <2>5, <2>6, Zenon DEF FreshInv
  <1>6. ClosingInv' /\ TreeConsistent' /\ EverySenderHasCloser'
    BY <1>2 DEF RegInv, ClosingInv, TreeConsistent, EverySenderHasCloser, ProcTypes
  <1> QED  BY <1>4, <1>5, <1>6, Zenon DEF RegInv

\* dc:close takes the channel's state out of the registry.
LEMMA DCCloseKeeps ==
  ASSUME RegInv, NEW s \in Sessions, DCClose(s)
  PROVE  RegInv'
  <1> USE DEF mapVars, pionVars, sweepVars, Actors
  <1>1. /\ states' = states \ {arg[s]}
        /\ closing' = [closing EXCEPT ![s] = states \cap {arg[s]}]
        /\ UNCHANGED <<resources, parent, children, owner, fresh, senders, expired, reap, spared>>
    BY Zenon DEF DCClose, WithoutState
  <1>2. /\ pc[s] = "dcClose" /\ pc' = [pc EXCEPT ![s] = "closing"]
        /\ arg' \in [Actors -> Handles \cup {None}] /\ DOMAIN req' = Actors
        /\ \A b \in Actors : b # s => arg'[b] = arg[b]
    BY Zenon DEF DCClose, Goto, Begin, RegInv, ProcTypes
  <1>3. closing[s] = {}
    BY <1>2, Zenon DEF RegInv, ClosingInv
  <1>4. MapTypes' /\ ProcTypes'
    BY <1>1, <1>2, Zenon DEF RegInv, MapTypes, ProcTypes, Steps
  <1>5. FreshInv' /\ ClosingInv' /\ TreeConsistent'
    BY <1>1, <1>2 DEF RegInv, FreshInv, ClosingInv, TreeConsistent, ProcTypes
  <1>6. EverySenderHasCloser'
    <2>1. closing'[s] = states \cap {arg[s]} /\ \A b \in Actors : b # s => closing'[b] = closing[b]
      BY <1>1, Zenon DEF RegInv, ProcTypes
    <2>2. \A x : x \in senders <=> x \in states \/ \E b \in Actors : x \in closing[b]
      BY Zenon DEF RegInv, EverySenderHasCloser
    <2>3. \A x : x \in senders' <=> x \in states' \/ \E b \in Actors : x \in closing'[b]
      BY <1>1, <1>3, <2>1, <2>2, Zenon
    <2>4. senders' = states' \cup UNION {closing'[b] : b \in Actors}
      BY <2>3, Zenon
    <2> QED  BY <1>1, <1>3, <2>1, <2>4 DEF RegInv, EverySenderHasCloser
  <1> QED  BY <1>4, <1>5, <1>6, Zenon DEF RegInv

\* Register: a new connection has no channels yet.
LEMMA CreatePCKeeps ==
  ASSUME RegInv, NEW s \in Sessions, CreatePC(s)
  PROVE  RegInv'
  <1> USE DEF procVars, closeVars, sweepVars
  <1>1. PICK p \in PCs : resources' = resources \cup {p}
    BY Zenon DEF CreatePC
  <1>2. UNCHANGED <<parent, children, states, owner, procVars, fresh, closing, senders, expired, reap, spared>>
    BY Zenon DEF CreatePC
  <1>3. p \notin DCs
    BY RegistryAssumption, Zenon
  <1>4. MapTypes' /\ ProcTypes' /\ ClosingInv' /\ EverySenderHasCloser'
    BY <1>1, <1>2 DEF RegInv, MapTypes, ProcTypes, ClosingInv, EverySenderHasCloser, Handles
  <1>5. \A d \in DCs : d \in resources' <=> d \in resources
    BY <1>1, <1>3, Zenon
  <1>6. TreeConsistent'
    BY <1>2, <1>5, Zenon DEF RegInv, TreeConsistent
  <1>7. FreshInv'
    BY <1>2, <1>5, RegistryAssumption, Zenon DEF RegInv, FreshInv, ProcTypes, Handles
  <1> QED  BY <1>4, <1>6, <1>7, Zenon DEF RegInv

\* A Touch begins: the process is to refresh stamps, or goes on at once.
LEMMA TouchKeeps ==
  ASSUME RegInv, NEW a \in Actors, NEW h \in Handles \cup {None}, NEW r, Touch(a, h, r), pc[a] \in Plain,
         UNCHANGED <<mapVars, owner, senders, fresh, closing>>,
         expired' \subseteq Handles, reap' \subseteq Handles, spared' \subseteq Handles
  PROVE  RegInv'
  <1>1. PICK l \in Plain : Begin(a, l, h, r)
    BY Zenon DEF Touch, AfterTouch, Plain, Steps
  <1>2. fresh[a] = None /\ closing[a] = {} /\ l \in Steps
    BY Zenon DEF RegInv, FreshInv, ClosingInv, Plain
  <1> QED  BY <1>1, <1>2, PlainMove, Zenon

\* Clients know handles only.
LEMMA KnownAreHandles == Known \subseteq Handles
  BY Zenon DEF Known, Handles

\* Every step of every process keeps the maps in step with each other.
LEMMA RegNext == RegInv /\ [Next]_vars => RegInv'
  <1> SUFFICES ASSUME RegInv, [Next]_vars PROVE RegInv'
    BY Zenon
  <1> USE DEF pionVars, closeVars, sweepVars, timeVars
  <1>0. /\ \A a \in Actors : pc[a] \in Steps /\ arg[a] \in Handles \cup {None}
        /\ expired \subseteq Handles /\ reap \subseteq Handles /\ spared \subseteq Handles
        /\ resources \subseteq Handles
    BY Zenon DEF RegInv, MapTypes, ProcTypes
  <1>i. \A a \in Actors : pc[a] \in Plain \cup {"createDc"} => fresh[a] = None /\ closing[a] = {}
    BY Zenon DEF RegInv, FreshInv, ClosingInv, Plain
  <1>s. Sessions \subseteq Actors /\ Callbacks \subseteq Actors /\ Sweeper \in Actors
    BY Zenon DEF Actors
  <1>1. ASSUME NEW a \in Actors, Finish(a) PROVE RegInv'
    <2>1. CASE Stamp(a)
      <3>1. PICK l \in Plain : Begin(a, l, arg[a], req[a])
        BY <2>1, Zenon DEF Stamp, Goto, AfterTouch, Plain, Steps
      <3>2. pc[a] \in Plain /\ l \in Steps
        BY <2>1, Zenon DEF Stamp, Plain, Steps
      <3> QED  BY <1>0, <1>i, <2>1, <3>1, <3>2, PlainMove, Zenon DEF Stamp
    <2>2. CASE CloseState(a)
      BY <2>2, CloseStateKeeps, Zenon
    <2>3. CASE CloseResource(a)
      <3>1. PICK l \in Plain \cup {"closing"} : Begin(a, l, arg[a], req[a])
        BY <2>3, Zenon DEF CloseResource, AfterClose, Goto, Plain, Steps
      <3>2. l \in Steps /\ closing[a] = {} /\ fresh[a] = None
        BY <2>3, Zenon DEF CloseResource, Plain, Steps, RegInv, FreshInv
      <3> QED  BY <1>0, <2>3, <3>1, <3>2, PlainMove, Zenon DEF CloseResource
    <2>4. CASE RegisterChild(a)
      BY <2>4, RegisterChildKeeps, Zenon
    <2>5. CASE StartSend(a)
      BY <2>5, StartSendKeeps, Zenon
    <2> QED  BY <1>1, <2>1, <2>2, <2>3, <2>4, <2>5, Zenon DEF Finish
  <1>2. ASSUME NEW s \in Sessions, ReadLoop(s) PROVE RegInv'
    <2>1. CASE CreatePC(s)
      BY <2>1, CreatePCKeeps, Zenon
    <2>2. CASE Receive(s)
      <3>1. PICK h \in Known, r \in Requests : Touch(s, h, r)
        BY <2>2, Zenon DEF Receive
      <3>2. pc[s] \in Plain
        BY <2>2, Zenon DEF Receive, Plain, Steps
      <3> QED  BY <1>0, <1>s, <2>2, <3>1, <3>2, KnownAreHandles, TouchKeeps, Zenon DEF Receive
    <2>3. CASE Lookup(s)
      <3>1. PICK l : /\ Begin(s, l, arg[s], req[s])
                     /\ l \in Plain \/ (l = "createDc" /\ arg[s] \in PCs)
        <4>1. CASE Accepted(s)
          <5>1. Begin(s, req[s], arg[s], req[s])
            BY <2>3, <4>1, Zenon DEF Lookup, Goto
          <5>2. req[s] \in Plain \/ (req[s] = "createDc" /\ arg[s] \in PCs)
            BY <4>1, Zenon DEF Accepted, Plain, Steps
          <5> QED  BY <5>1, <5>2, Zenon
        <4>2. CASE ~Accepted(s)
          <5>1. Begin(s, "idle", arg[s], req[s])
            BY <2>3, <4>2, Zenon DEF Lookup, Goto
          <5> QED  BY <5>1 DEF Plain, Steps
        <4> QED  BY <4>1, <4>2, Zenon
      <3>2. pc[s] \in Plain /\ l \in Steps
        BY <2>3, <3>1, Zenon DEF Lookup, Plain, Steps
      <3> QED  BY <1>0, <1>i, <1>s, <2>3, <3>1, <3>2, PlainMove, Zenon DEF Lookup
    <2>4. CASE CreateDc(s)
      <3>1. pc[s] = "createDc" /\ arg[s] \in PCs /\ fresh[s] = None /\ closing[s] = {}
        BY <1>i, <1>s, <2>4, Zenon DEF CreateDc, RegInv, FreshInv
      <3>2. CASE NewChannel(s, arg[s]) /\ Goto(s, "registerChild")
        BY <1>s, <2>4, <3>1, <3>2, NewChannelKeeps, Zenon DEF CreateDc, Goto
      <3>3. CASE Goto(s, "idle") /\ UNCHANGED <<owner, open, fresh>>
        BY <1>0, <1>s, <2>4, <3>1, <3>3, PlainMove, Zenon DEF CreateDc, Goto, Plain, Steps
      <3> QED  BY <2>4, <3>2, <3>3, Zenon DEF CreateDc
    <2>5. CASE PCClose(s)
      <3>1. pc[s] \in Plain /\ "idle" \in Plain /\ "idle" \in Steps
        BY <2>5, Zenon DEF PCClose, Plain, Steps
      <3> QED  BY <1>0, <1>i, <1>s, <2>5, <3>1, PlainMove, Zenon DEF PCClose, Goto
    <2>6. CASE DCClose(s)
      BY <2>6, DCCloseKeeps, Zenon
    <2>7. CASE DeleteResource(s)
      <3>1. pc[s] \in Plain /\ "idle" \in Plain /\ "idle" \in Steps /\ "closing" \in Steps
        BY <2>7, Zenon DEF DeleteResource, Plain, Steps
      <3>2. CASE Collect(s, Collected({arg[s]})) /\ Goto(s, "closing")
        BY <1>0, <1>s, <2>7, <3>1, <3>2, CollectKeeps, Zenon DEF DeleteResource, Goto
      <3>3. CASE Goto(s, "idle") /\ UNCHANGED <<mapVars, closeVars>>
        BY <1>0, <1>i, <1>s, <2>7, <3>1, <3>3, PlainMove, Zenon DEF DeleteResource, Goto
      <3> QED  BY <2>7, <3>2, <3>3, Zenon DEF DeleteResource
    <2> QED  BY <1>2, <2>1, <2>2, <2>3, <2>4, <2>5, <2>6, <2>7, Zenon DEF ReadLoop
  <1>3. ASSUME NEW c \in Callbacks, Callback(c) PROVE RegInv'
    <2>0. pc[c] \in Plain /\ pc[c] # "closing"
      BY <1>3, Zenon DEF Callback, OnDataChannel, OnEvent, Plain, Steps
    <2>1. CASE OnDataChannel(c)
      BY <1>i, <1>s, <2>0, <2>1, NewChannelKeeps, Zenon DEF OnDataChannel
    <2>2. CASE OnEvent(c)
      BY <1>0, <1>s, <2>0, <2>2, KnownAreHandles, TouchKeeps, Zenon DEF OnEvent
    <2> QED  BY <1>3, <2>1, <2>2, Zenon DEF Callback
  <1>4. CASE Sweep
    <2>0. pc[Sweeper] \in Plain
      BY <1>4, Zenon DEF Sweep, Scan, CheckLive, Reap, Refresh, Plain, Steps
    <2>p. {"idle", "check", "reap", "refresh"} \subseteq Plain /\ Plain \subseteq Steps /\ "closing" \in Steps
      BY Zenon DEF Plain, Steps
    <2>1. CASE Scan
      <3>1. expired' \subseteq Handles
        BY <1>0, <2>1, Zenon DEF Scan, Expired
      <3> QED  BY <1>0, <1>i, <1>s, <2>0, <2>1, <2>p, <3>1, PlainMove, Zenon DEF Scan, Goto
    <2>2. CASE CheckLive
      <3>1. expired' \subseteq Handles /\ reap' \subseteq Handles /\ spared' \subseteq Handles
        BY <1>0, <2>2, Zenon DEF CheckLive
      <3>2. PICK l \in Plain : Begin(Sweeper, l, arg[Sweeper], req[Sweeper])
        BY <2>2, <2>p, Zenon DEF CheckLive, Goto
      <3> QED  BY <1>0, <1>i, <1>s, <2>0, <2>2, <2>p, <3>1, <3>2, PlainMove, Zenon DEF CheckLive
    <2>3. CASE Reap
      <3>1. PICK l \in Steps : /\ Begin(Sweeper, l, arg[Sweeper], req[Sweeper])
                               /\ l = "closing" \/ (l \in Plain /\ Collected(reap) = {})
        BY <2>3, <2>p, Zenon DEF Reap, Goto
      <3> QED  BY <1>0, <1>s, <2>0, <2>3, <3>1, CollectKeeps, Zenon DEF Reap
    <2>4. CASE Refresh
      <3>1. CASE \E h \in spared : spared' = spared \ {h} /\ TouchSpared(h)
        <4>1. PICK h \in spared : spared' = spared \ {h} /\ Touch(Sweeper, h, "other")
          BY <3>1, Zenon DEF TouchSpared
        <4> QED  BY <1>0, <1>s, <2>0, <2>4, <4>1, TouchKeeps, Zenon DEF Refresh
      <3>2. CASE Goto(Sweeper, "idle") /\ UNCHANGED <<spared, stamps>>
        BY <1>0, <1>i, <1>s, <2>0, <2>4, <2>p, <3>2, PlainMove, Zenon DEF Refresh, Goto
      <3> QED  BY <2>4, <3>1, <3>2, Zenon DEF Refresh
    <2> QED  BY <1>4, <2>1, <2>2, <2>3, <2>4, Zenon DEF Sweep
  <1>5. CASE Transport \/ Tick \/ UNCHANGED vars
    BY <1>0, <1>5, SameReg, Zenon DEF Transport, Connect, Disconnect, Tick, vars
  <1> QED  BY <1>1, <1>2, <1>3, <1>4, <1>5, Zenon DEF Next, Step

(***************************************************************************)
(* r.parent, r.children and r.resources agree at all times, through        *)
(* registrations, deletions, cascades and sweeps in any interleaving.      *)
(***************************************************************************)
THEOREM MapsMirror == Spec => []TreeConsistent
  <1>1. RegInv => TreeConsistent
    BY Zenon DEF RegInv
  <1> QED  BY <1>1, RegInit, RegNext, PTL DEF Spec

(***************************************************************************)
(* A running sender goroutine is registered, or in the hands of exactly    *)
(* one process that is about to close it, whichever of dc:close,           *)
(* resource:delete, cascade and sweep reach it at once.                    *)
(***************************************************************************)
THEOREM OneCloser == Spec => []EverySenderHasCloser
  <1>1. RegInv => EverySenderHasCloser
    BY Zenon DEF RegInv
  <1> QED  BY <1>1, RegInit, RegNext, PTL DEF Spec

\* Connections leave the registry only through collectLocked.
LEMMA LeaveByCollect ==
  ASSUME RegInv, [Next]_vars, NEW p \in PCs, p \in resources, p \notin resources'
  PROVE  \E a \in Actors, H \in SUBSET Handles : Collect(a, Collected(H)) /\ p \in Collected(H)
  <1> USE DEF mapVars, pionVars, closeVars, sweepVars, timeVars
  <1>1. (\E s \in Sessions : DeleteResource(s)) \/ Reap \/ resources \subseteq resources'
    BY Zenon DEF Next, Step, Finish, Stamp, CloseState, CloseResource, RegisterChild, StartSend,
       ReadLoop, CreatePC, Receive, Lookup, CreateDc, PCClose, DCClose,
       Callback, OnDataChannel, OnEvent, Sweep, Scan, CheckLive, Refresh,
       Transport, Connect, Disconnect, Tick, vars
  <1>2. ASSUME NEW s \in Sessions, DeleteResource(s)
        PROVE  \E a \in Actors, H \in SUBSET Handles : Collect(a, Collected(H)) /\ p \in Collected(H)
    <2>1. Collect(s, Collected({arg[s]})) /\ {arg[s]} \in SUBSET Handles
      BY <1>2, Zenon DEF DeleteResource, RegInv, MapTypes
    <2>2. p \in Collected({arg[s]})
      BY <2>1, Zenon DEF Collect
    <2> QED  BY <2>1, <2>2, Zenon DEF Actors
  <1>3. CASE Reap
    <2>1. Collect(Sweeper, Collected(reap)) /\ reap \in SUBSET Handles
      BY <1>3, Zenon DEF Reap, RegInv, ProcTypes
    <2>2. p \in Collected(reap)
      BY <2>1, Zenon DEF Collect
    <2> QED  BY <2>1, <2>2, Zenon DEF Actors
  <1> QED  BY <1>1, <1>2, <1>3, Zenon

(***************************************************************************)
(* Delete and Cleanup cascade: in the step in which a connection leaves    *)
(* the registry every channel registered under it leaves too, with its     *)
(* send state.                                                             *)
(***************************************************************************)
THEOREM Cascade == Spec => CascadeTakesAll
  <1> DEFINE Takes == \A p \in PCs : p \in resources /\ p \notin resources' =>
                        \A d \in DCs : parent[d] = p => d \notin resources' /\ d \notin states'
  <1>1. RegInv /\ [Next]_vars => Takes
    <2> SUFFICES ASSUME RegInv, [Next]_vars, NEW p \in PCs, p \in resources, p \notin resources',
                        NEW d \in DCs, parent[d] = p
                 PROVE  d \notin resources' /\ d \notin states'
      BY Zenon
    <2>1. PICK a \in Actors, H \in SUBSET Handles : Collect(a, Collected(H)) /\ p \in Collected(H)
      BY LeaveByCollect, Zenon
    <2>2. d \in children[p] /\ d \in resources
      BY RegistryAssumption, Zenon DEF RegInv, TreeConsistent, Handles
    <2>3. p \in H
      BY <2>1, RegistryAssumption DEF Collected, RegInv, MapTypes
    <2>4. d \in Collected(H)
      BY <2>2, <2>3, Zenon DEF Collected
    <2> QED  BY <2>1, <2>4, Zenon DEF Collect
  <1>2. Spec => [][Takes]_vars
    BY <1>1, RegInit, RegNext, PTL DEF Spec
  <1> QED  BY <1>2, Zenon DEF CascadeTakesAll

-----------------------------------------------------------------------------
(* The sweep.                                                              *)

\* The handle is a channel nobody is about to register: if it has left the
\* registry it will not come back.
Announced(h) ==
  h \in DCs => owner[h] # None /\ \A a \in Actors : pc[a] = "registerChild" => fresh[a] # h

\* A root that still means something: channels that have left have none.
HasRoot(h) == h \in PCs \/ h \in resources

(***************************************************************************)
(* What the sweep remembers stays true until it deletes.  The root it      *)
(* noted for a handle is still the handle's root, and what it has decided  *)
(* to delete has a root that was seen not connected, or not registered,    *)
(* since the scan.                                                         *)
(***************************************************************************)
SteadyInv ==
  /\ steady \subseteq PCs
  /\ \A p \in steady : transport[p] = "connected"
  /\ pc[Sweeper] \notin {"check", "reap"} => reap = {} /\ steady = {}
  /\ \A h \in expired \cup reap : Announced(h)
  /\ \A h \in expired : HasRoot(h) => roots[h] = Root(h) \/ (roots[h] = None /\ Root(h) \notin steady)
  /\ \A h \in reap : HasRoot(h) => Root(h) \notin steady

\* No sweep is under way at the start.
LEMMA SteadyInit == SweepInit => SteadyInv
  BY Zenon DEF SweepInit, Init, SteadyInv

\* A history step is a step of the registry.
LEMMA HistoryIsStep == [SweepNext]_sweepHistory => [Next]_vars
  BY Zenon DEF SweepNext, sweepHistory, Next

\* No step changes the root of a handle that nobody is registering.
LEMMA RootStable ==
  ASSUME RegInv, [Next]_vars, NEW h \in Handles, Announced(h), HasRoot(h)'
  PROVE  HasRoot(h) /\ Root(h)' = Root(h)
  <1> USE DEF mapVars, pionVars, closeVars, sweepVars, timeVars
  <1>1. CASE h \in PCs
    BY <1>1, RegistryAssumption, Zenon DEF HasRoot, Root
  <1>2. CASE h \in DCs
    <2>0. h \notin PCs /\ h \in resources'
      BY <1>2, RegistryAssumption, Zenon DEF HasRoot
    <2>1. ASSUME NEW a \in Actors, RegisterChild(a) PROVE h \in resources /\ parent'[h] = parent[h]
      BY <1>2, <2>0, <2>1, Zenon DEF RegisterChild, Announced, RegInv, MapTypes
    <2>2. ASSUME NEW a, NEW D, Collect(a, D) PROVE h \in resources /\ parent'[h] = parent[h]
      BY <1>2, <2>0, <2>2, Zenon DEF Collect
    <2>3. ASSUME NEW s \in Sessions, CreatePC(s) PROVE h \in resources /\ parent'[h] = parent[h]
      BY <2>0, <2>3, Zenon DEF CreatePC
    <2>4. \/ \E a \in Actors : RegisterChild(a)
          \/ \E a, D : Collect(a, D)
          \/ \E s \in Sessions : CreatePC(s)
          \/ UNCHANGED <<resources, parent>>
      BY Zenon DEF Next, Step, Finish, Stamp, CloseState, CloseResource, StartSend,
         ReadLoop, Receive, Lookup, CreateDc, PCClose, DCClose, DeleteResource,
         Callback, OnDataChannel, OnEvent, Sweep, Scan, CheckLive, Reap, Refresh,
         Transport, Connect, Disconnect, Tick, vars
    <2>5. h \in resources /\ parent'[h] = parent[h]
      BY <2>0, <2>1, <2>2, <2>3, <2>4, Zenon
    <2> QED  BY <2>0, <2>5, Zenon DEF HasRoot, Root
  <1> QED  BY <1>1, <1>2, Zenon DEF Handles

\* A channel is registered by the process that got it from pion, once.
LEMMA ToRegister ==
  ASSUME RegInv, [Next]_vars, NEW b \in Actors, pc'[b] = "registerChild"
  PROVE  \/ pc[b] = "registerChild" /\ fresh'[b] = fresh[b]
         \/ fresh'[b] \in DCs /\ owner[fresh'[b]] = None
  <1> USE DEF mapVars, pionVars, closeVars, sweepVars, timeVars, procVars
  <1> DEFINE Goal ==
        \/ pc[b] = "registerChild" /\ fresh'[b] = fresh[b]
        \/ fresh'[b] \in DCs /\ owner[fresh'[b]] = None
  <1>0. ProcTypes
    BY Zenon DEF RegInv
  <1>m. ASSUME NEW a \in Actors, NEW l, NEW h, NEW r, Begin(a, l, h, r), l # "registerChild",
               \A c \in Actors : c # a => fresh'[c] = fresh[c]
        PROVE  Goal
    BY <1>0, <1>m, Zenon DEF Begin, ProcTypes
  <1>n. ASSUME NEW a \in Actors, NEW p, NewChannel(a, p), NEW h, NEW r, Begin(a, "registerChild", h, r)
        PROVE  Goal
    BY <1>0, <1>n, Zenon DEF Begin, NewChannel, ProcTypes
  <1>1. ASSUME NEW a \in Actors, Finish(a) PROVE Goal
    <2>1. CASE CloseState(a)
      BY <2>1, Zenon DEF CloseState
    <2>2. CASE Stamp(a)
      BY <1>m, <2>2, Zenon DEF Stamp, Goto, AfterTouch
    <2>3. CASE CloseResource(a)
      BY <1>m, <2>3, Zenon DEF CloseResource, Goto, AfterClose
    <2>4. CASE RegisterChild(a)
      BY <1>m, <2>4, Zenon DEF RegisterChild, Goto
    <2>5. CASE StartSend(a)
      <3>1. \A c \in Actors : c # a => fresh'[c] = fresh[c]
        BY <1>0, <2>5, Zenon DEF StartSend, ProcTypes
      <3> QED  BY <1>m, <2>5, <3>1, Zenon DEF StartSend, Touch, Goto, AfterTouch
    <2> QED  BY <1>1, <2>1, <2>2, <2>3, <2>4, <2>5, Zenon DEF Finish
  <1>2. ASSUME NEW s \in Sessions, ReadLoop(s) PROVE Goal
    <2>0. s \in Actors
      BY Zenon DEF Actors
    <2>1. CASE CreatePC(s)
      BY <2>1, Zenon DEF CreatePC
    <2>2. CASE CreateDc(s)
      BY <1>m, <1>n, <2>0, <2>2, Zenon DEF CreateDc, Goto
    <2>3. CASE Receive(s)
      BY <1>m, <2>0, <2>3, Zenon DEF Receive, Touch, AfterTouch
    <2>4. CASE Lookup(s)
      BY <1>m, <2>0, <2>4, Zenon DEF Lookup, Accepted, Goto
    <2>5. CASE PCClose(s) \/ DCClose(s) \/ DeleteResource(s)
      BY <1>m, <2>0, <2>5, Zenon DEF PCClose, DCClose, DeleteResource, Goto
    <2> QED  BY <1>2, <2>1, <2>2, <2>3, <2>4, <2>5, Zenon DEF ReadLoop
  <1>3. ASSUME NEW c \in Callbacks, Callback(c) PROVE Goal
    <2>0. c \in Actors
      BY Zenon DEF Actors
    <2>1. CASE OnDataChannel(c)
      BY <1>n, <2>0, <2>1, Zenon DEF OnDataChannel
    <2>2. CASE OnEvent(c)
      BY <1>m, <2>0, <2>2, Zenon DEF OnEvent, Touch, AfterTouch
    <2> QED  BY <1>3, <2>1, <2>2, Zenon DEF Callback
  <1>4. CASE Sweep
    <2>0. Sweeper \in Actors
      BY Zenon DEF Actors
    <2>1. CASE Scan \/ CheckLive \/ Reap
      BY <1>m, <2>0, <2>1, Zenon DEF Scan, CheckLive, Reap, Goto
    <2>2. CASE Refresh
      BY <1>m, <2>0, <2>2, Zenon DEF Refresh, TouchSpared, Touch, AfterTouch, Goto
    <2> QED  BY <1>4, <2>1, <2>2, Zenon DEF Sweep
  <1>5. CASE Transport \/ Tick \/ UNCHANGED vars
    BY <1>5, Zenon DEF Transport, Connect, Disconnect, Tick, vars
  <1> QED  BY <1>1, <1>2, <1>3, <1>4, <1>5, Zenon DEF Next, Step

\* pion gives a handle away once.
LEMMA OwnerStays ==
  ASSUME RegInv, [Next]_vars, NEW d \in DCs, owner[d] # None
  PROVE  owner'[d] # None
  <1> USE DEF mapVars, pionVars, closeVars, sweepVars, timeVars
  <1>1. owner' = owner \/ \E a, p : NewChannel(a, p)
    BY Zenon DEF Next, Step, Finish, Stamp, CloseState, CloseResource, RegisterChild, StartSend,
       ReadLoop, CreatePC, Receive, Lookup, CreateDc, PCClose, DCClose, DeleteResource,
       Callback, OnDataChannel, OnEvent, Sweep, Scan, CheckLive, Reap, Refresh,
       Transport, Connect, Disconnect, Tick, vars
  <1>2. ASSUME NEW a, NEW p, NewChannel(a, p) PROVE owner'[d] = owner[d]
    BY <1>2, Zenon DEF NewChannel, RegInv, MapTypes
  <1> QED  BY <1>1, <1>2, Zenon

\* Nobody begins to register a channel that was registered before.
LEMMA AnnouncedStable ==
  ASSUME RegInv, [Next]_vars, NEW h \in Handles, Announced(h)
  PROVE  Announced(h)'
  BY ToRegister, OwnerStays, Zenon DEF Announced

\* The steps of the sweep, and what the others leave.
LEMMA SweepSteps ==
  ASSUME RegInv, [Next]_vars
  PROVE  \/ Scan \/ CheckLive \/ Reap
         \/ /\ UNCHANGED <<expired, roots, reap>>
            /\ pc[Sweeper] \in {"idle", "check", "reap"} => pc'[Sweeper] = pc[Sweeper]
  <1> USE DEF mapVars, pionVars, closeVars, sweepVars, timeVars
  <1>1. Scan \/ CheckLive \/ Reap \/ UNCHANGED <<expired, roots, reap>>
    BY ZenonT(30) DEF Next, Step, Finish, Stamp, CloseState, CloseResource, RegisterChild, StartSend,
       ReadLoop, CreatePC, Receive, Lookup, CreateDc, PCClose, DCClose, DeleteResource,
       Callback, OnDataChannel, OnEvent, Sweep, Refresh, Transport, Connect, Disconnect, Tick, vars
  <1> DEFINE Waits == pc[Sweeper] \in {"idle", "check", "reap"} => pc'[Sweeper] = pc[Sweeper]
  <1>2. ProcTypes
    BY Zenon DEF RegInv
  <1>m. ASSUME NEW a \in Actors, NEW l, NEW h, NEW r, Begin(a, l, h, r),
               a # Sweeper \/ pc[a] \notin {"idle", "check", "reap"}
        PROVE  Waits
    BY <1>2, <1>m DEF Begin, ProcTypes
  <1>3. ASSUME NEW a \in Actors, Finish(a) PROVE Waits
    <2>1. CASE CloseState(a)
      BY <2>1, Zenon DEF CloseState, procVars
    <2>2. CASE Stamp(a) \/ CloseResource(a) \/ RegisterChild(a) \/ StartSend(a)
      BY <1>m, <2>2, Zenon DEF Stamp, CloseResource, RegisterChild, StartSend, Touch, Goto
    <2> QED  BY <1>3, <2>1, <2>2, Zenon DEF Finish
  <1>4. ASSUME NEW s \in Sessions, ReadLoop(s) PROVE Waits
    <2>0. s \in Actors /\ s # Sweeper
      BY RegistryAssumption, Zenon DEF Actors
    <2>1. CASE CreatePC(s)
      BY <2>1, Zenon DEF CreatePC, procVars
    <2>2. CASE CreateDc(s) \/ Receive(s) \/ Lookup(s)
      BY <1>m, <2>0, <2>2, Zenon DEF CreateDc, Receive, Lookup, Accepted, Touch, Goto
    <2>3. CASE PCClose(s) \/ DCClose(s) \/ DeleteResource(s)
      BY <1>m, <2>0, <2>3, Zenon DEF PCClose, DCClose, DeleteResource, Goto
    <2> QED  BY <1>4, <2>1, <2>2, <2>3, Zenon DEF ReadLoop
  <1>5. ASSUME NEW c \in Callbacks, Callback(c) PROVE Waits
    <2>0. c \in Actors /\ c # Sweeper
      BY RegistryAssumption, Zenon DEF Actors
    <2> QED  BY <1>m, <1>5, <2>0, Zenon DEF Callback, OnDataChannel, OnEvent, Touch
  <1>6. CASE Refresh
    <2>0. Sweeper \in Actors
      BY Zenon DEF Actors
    <2> QED  BY <1>m, <1>6, <2>0, Zenon DEF Refresh, TouchSpared, Touch, Goto
  <1>7. CASE Transport \/ Tick \/ UNCHANGED vars
    BY <1>7, Zenon DEF Transport, Connect, Disconnect, Tick, vars, procVars
  <1> QED  BY <1>1, <1>3, <1>4, <1>5, <1>6, <1>7, Zenon DEF Next, Step, Sweep

\* The history lets go of a connection when it leaves "connected", and of all
\* of them when the sweep ends; it takes connections in at a scan only.
LEMMA SteadyStep ==
  ASSUME SteadyInv, [SweepNext]_sweepHistory
  PROVE  /\ steady' \subseteq PCs
         /\ \A p \in steady' : transport'[p] = "connected"
         /\ SweepOver => steady' = {}
         /\ IF ScanNow THEN steady' \subseteq resources ELSE steady' \subseteq steady
  <1>1. CASE Step /\ History
    BY <1>1, Zenon DEF History, SteadyInv
  <1>2. CASE Tick /\ UNCHANGED <<active, steady>>
    BY <1>2, Zenon DEF Tick, SteadyInv, pionVars, procVars, SweepOver, ScanNow
  <1>3. CASE UNCHANGED sweepHistory
    BY <1>3, Zenon DEF sweepHistory, vars, SteadyInv, pionVars, procVars, SweepOver, ScanNow
  <1> QED  BY <1>1, <1>2, <1>3, Zenon DEF SweepNext

\* Each step keeps what the sweep remembers.
LEMMA SteadyPreserved ==
  ASSUME RegInv, SteadyInv, [SweepNext]_sweepHistory
  PROVE  SteadyInv'
  <1>0. [Next]_vars
    BY HistoryIsStep, Zenon
  <1>1. /\ steady' \subseteq PCs
        /\ \A p \in steady' : transport'[p] = "connected"
        /\ SweepOver => steady' = {}
        /\ IF ScanNow THEN steady' \subseteq resources ELSE steady' \subseteq steady
    BY SteadyStep, Zenon
  <1>2. \A h \in Handles : Announced(h) => Announced(h)'
    BY <1>0, AnnouncedStable, Zenon
  <1>3. \A h \in Handles : Announced(h) /\ HasRoot(h)' => HasRoot(h) /\ Root(h)' = Root(h)
    BY <1>0, RootStable, Zenon
  <1>4. /\ pc \in [Actors -> Steps] /\ Sweeper \in Actors
        /\ expired \subseteq Handles /\ reap \subseteq Handles /\ resources \subseteq Handles
    BY Zenon DEF RegInv, ProcTypes, MapTypes, Actors
  <1>5. CASE Scan
    <2>1. /\ reap = {} /\ reap' = {}
          /\ expired' \subseteq resources
          /\ \A h \in expired' : roots'[h] = IF Root(h) \in resources THEN Root(h) ELSE None
          /\ ScanNow
      BY <1>4, <1>5, Zenon DEF Scan, Goto, Begin, Expired, ScanNow, SteadyInv
    <2>2. \A h \in expired' : Announced(h)
      BY <1>4, <2>1, Zenon DEF Announced, RegInv, FreshInv
    <2> QED  BY <1>1, <1>2, <1>3, <1>4, <2>1, <2>2, Zenon DEF SteadyInv, ScanNow
  <1>6. CASE CheckLive
    <2>1. /\ ~ScanNow /\ pc'[Sweeper] \in {"check", "reap"}
          /\ expired' \subseteq expired
          /\ UNCHANGED <<roots, transport>>
      BY <1>4, <1>6, Zenon DEF CheckLive, Goto, Begin, ScanNow, pionVars
    <2>2. \A h \in reap' : h \in reap \/ (h \in expired /\ ~IsLive(h))
      BY <1>6, Zenon DEF CheckLive
    <2>3. \A h \in Handles : Root(h) # None
      BY RegistryAssumption, Zenon DEF Root
    <2>4. \A h \in reap' : Announced(h)' /\ (HasRoot(h)' => Root(h)' \notin steady')
      BY <1>1, <1>2, <1>3, <1>4, <2>1, <2>2, <2>3 DEF SteadyInv, IsLive
    <2> QED  BY <1>1, <1>2, <1>3, <1>4, <2>1, <2>4, Zenon DEF SteadyInv
  <1>7. CASE Reap
    <2>1. reap' = {} /\ expired' = expired /\ roots' = [h \in Handles |-> None] /\ SweepOver
      BY <1>4, <1>7, Zenon DEF Reap, Goto, Begin, SweepOver
    <2> QED  BY <1>1, <1>2, <1>4, <2>1, Zenon DEF SteadyInv
  <1>8. CASE /\ UNCHANGED <<expired, roots, reap>>
             /\ pc[Sweeper] \in {"idle", "check", "reap"} => pc'[Sweeper] = pc[Sweeper]
    <2>1. ~ScanNow /\ (pc'[Sweeper] \notin {"check", "reap"} => reap' = {} /\ steady' = {})
      BY <1>1, <1>8, Zenon DEF ScanNow, SweepOver, SteadyInv
    <2> QED  BY <1>1, <1>2, <1>3, <1>4, <1>8, <2>1, Zenon DEF SteadyInv
  <1> QED  BY <1>0, <1>5, <1>6, <1>7, <1>8, SweepSteps, Zenon

(***************************************************************************)
(* Cleanup spares what is connected from the scan on, and the channels of  *)
(* it, for every set of handles, sessions and callbacks, TTL and           *)
(* coalescing interval, although it asks pion without the lock and deletes *)
(* in a later step.                                                        *)
(***************************************************************************)
THEOREM SteadySpared == SweepSpec => []SteadyNotReaped
  <1>1. SweepInit => RegInv /\ SteadyInv
    BY RegInit, SteadyInit, Zenon DEF SweepInit
  <1>2. RegInv /\ SteadyInv /\ [SweepNext]_sweepHistory => RegInv' /\ SteadyInv'
    BY HistoryIsStep, RegNext, SteadyPreserved, Zenon
  <1>3. RegInv /\ SteadyInv => SteadyNotReaped
    <2> SUFFICES ASSUME RegInv, SteadyInv, NEW h \in Collected(reap)
                 PROVE  Root(h) \notin steady
      BY Zenon DEF SteadyNotReaped
    <2>1. h \in resources
      BY Zenon DEF Collected
    <2>2. CASE h \in reap
      BY <2>1, <2>2, Zenon DEF SteadyInv, HasRoot
    <2>3. CASE h \notin reap
      <3>1. PICK p \in reap \cap resources \cap PCs : h \in children[p]
        BY <2>3, Zenon DEF Collected
      <3>2. h \in DCs /\ parent[h] = p
        BY <3>1, Zenon DEF RegInv, MapTypes, TreeConsistent
      <3>3. Root(p) = p /\ Root(h) = p
        BY <3>1, <3>2, RegistryAssumption, Zenon DEF Root, Handles
      <3> QED  BY <3>1, <3>3, Zenon DEF SteadyInv, HasRoot
    <2> QED  BY <2>2, <2>3, Zenon
  <1> QED  BY <1>1, <1>2, <1>3, PTL DEF SweepSpec

-----------------------------------------------------------------------------
(* What is in use.                                                         *)

StampTypes ==
  /\ age \in [Handles -> Nat] /\ quiet \in [Handles -> Nat]
  /\ stamps \in [Actors -> Seq(Handles)]
  /\ \A a \in Actors : pc[a] = "touch" <=> stamps[a] # << >>

\* The stamps a Touch of h refreshes: its own, and that of its connection.
Stamped(h) == {x \in resources : x = h \/ (h \in DCs /\ parent[h] = x)}

\* A Touch of h under way has still to refresh the stamp of x.
WillStamp(h, x) ==
  \E a \in Actors :
    /\ pc[a] = "touch" /\ arg[a] = h
    /\ \E k \in DOMAIN stamps[a] : stamps[a][k] = x

(***************************************************************************)
(* Since the last Touch of a handle began, each stamp it is to refresh     *)
(* has been refreshed, or left alone because it was fresh enough, or will  *)
(* be by a Touch that is still under way.  A channel that was never        *)
(* registered has never been touched.                                      *)
(***************************************************************************)
TouchInv ==
  /\ \A h \in resources : quiet[h] + Coalesce <= MaxAge =>
       \A x \in Stamped(h) : age[x] <= quiet[h] + Coalesce \/ WillStamp(h, x)
  /\ \A h \in Handles : ~Announced(h) => quiet[h] > MaxAge

(***************************************************************************)
(* So at the scan a handle in use is not expired, nor is its connection:   *)
(* neither becomes a victim of the sweep.                                  *)
(***************************************************************************)
ActiveInv ==
  /\ active \subseteq Handles
  /\ pc[Sweeper] \notin {"check", "reap"} => active = {}
  /\ \A h \in active :
       /\ Announced(h) /\ h \notin expired \cup reap
       /\ HasRoot(h) => Root(h) \notin expired \cup reap

\* Nobody is touching at the start.
LEMMA ActiveInit == SweepInit => StampTypes /\ TouchInv /\ ActiveInv
  <1> SUFFICES ASSUME SweepInit PROVE StampTypes /\ TouchInv /\ ActiveInv
    BY Zenon
  <1> USE RegistryAssumption DEF SweepInit, Init
  <1>1. StampTypes
    BY DEF StampTypes
  <1>2. TouchInv
    BY DEF TouchInv
  <1>3. ActiveInv
    BY Zenon DEF ActiveInv
  <1> QED  BY <1>1, <1>2, <1>3, Zenon

\* What is registered was announced, and has a root.
LEMMA RegisteredIsAnnounced ==
  ASSUME RegInv, NEW h \in resources
  PROVE  Announced(h)
  BY Zenon DEF Announced, RegInv, FreshInv

\* Stamps are refreshed one by one, a Touch begins, or no Touch moves.
LEMMA TouchSteps ==
  ASSUME RegInv, [Next]_vars
  PROVE  \/ \E a \in Actors : Stamp(a)
         \/ \E a \in Actors, h \in Handles \cup {None} : \E r : Touch(a, h, r) /\ pc[a] # "touch"
         \/ /\ UNCHANGED stamps
            /\ \A a \in Actors : pc[a] = "touch" <=> pc'[a] = "touch"
            /\ \A a \in Actors : pc[a] = "touch" => arg'[a] = arg[a]
  <1> USE DEF mapVars, pionVars, closeVars, sweepVars, timeVars
  <1> DEFINE Begins == \E a \in Actors, h \in Handles \cup {None} : \E r : Touch(a, h, r) /\ pc[a] # "touch"
             Rests == /\ UNCHANGED stamps
                      /\ \A a \in Actors : pc[a] = "touch" <=> pc'[a] = "touch"
                      /\ \A a \in Actors : pc[a] = "touch" => arg'[a] = arg[a]
  <1>0. ProcTypes
    BY Zenon DEF RegInv
  <1>m. ASSUME NEW a \in Actors, NEW l, NEW h, NEW r, Begin(a, l, h, r), stamps' = stamps,
               pc[a] # "touch", l # "touch"
        PROVE  Rests
    BY <1>0, <1>m DEF Begin, ProcTypes
  <1>1. ASSUME NEW a \in Actors, Finish(a) PROVE Stamp(a) \/ Begins \/ Rests
    <2>1. CASE CloseState(a)
      BY <2>1, Zenon DEF CloseState, procVars
    <2>2. CASE CloseResource(a) \/ RegisterChild(a)
      BY <1>m, <2>2 DEF CloseResource, RegisterChild, Goto, AfterClose
    <2>3. CASE StartSend(a)
      <3>1. arg[a] \in Handles \cup {None}
        BY <1>0, Zenon DEF ProcTypes
      <3> QED  BY <1>m, <2>3, <3>1 DEF StartSend, Goto
    <2> QED  BY <1>1, <2>1, <2>2, <2>3, Zenon DEF Finish
  <1>2. ASSUME NEW s \in Sessions, ReadLoop(s) PROVE Begins \/ Rests
    <2>0. s \in Actors
      BY Zenon DEF Actors
    <2>1. CASE CreatePC(s)
      BY <2>1, Zenon DEF CreatePC, procVars
    <2>2. CASE Receive(s)
      BY <2>0, <2>2, KnownAreHandles DEF Receive
    <2>3. CASE Lookup(s)
      BY <1>m, <2>0, <2>3 DEF Lookup, Accepted, Goto
    <2>4. CASE CreateDc(s) \/ PCClose(s) \/ DCClose(s) \/ DeleteResource(s)
      BY <1>m, <2>0, <2>4 DEF CreateDc, PCClose, DCClose, DeleteResource, Goto
    <2> QED  BY <1>2, <2>1, <2>2, <2>3, <2>4, Zenon DEF ReadLoop
  <1>3. ASSUME NEW c \in Callbacks, Callback(c) PROVE Begins \/ Rests
    <2>0. c \in Actors
      BY Zenon DEF Actors
    <2> QED  BY <1>m, <1>3, <2>0, KnownAreHandles DEF Callback, OnDataChannel, OnEvent
  <1>4. CASE Sweep
    <2>0. Sweeper \in Actors /\ spared \subseteq Handles
      BY <1>0, Zenon DEF Actors, ProcTypes
    <2>1. CASE Scan \/ CheckLive \/ Reap
      BY <1>m, <2>0, <2>1 DEF Scan, CheckLive, Reap, Goto
    <2>2. CASE Refresh
      BY <1>m, <2>0, <2>2 DEF Refresh, TouchSpared, Goto
    <2> QED  BY <1>4, <2>1, <2>2, Zenon DEF Sweep
  <1>5. CASE Transport \/ Tick \/ UNCHANGED vars
    BY <1>5, Zenon DEF Transport, Connect, Disconnect, Tick, vars, procVars
  <1> QED  BY <1>1, <1>2, <1>3, <1>4, <1>5, Zenon DEF Next, Step

\* No process makes a stamp older, and what is registered is new.
LEMMA AgeSteps ==
  ASSUME RegInv, StampTypes, Step \/ UNCHANGED vars
  PROVE  /\ age' \in [Handles -> Nat]
         /\ \A x \in Handles : age'[x] <= age[x]
         /\ \A x \in resources' \ resources : age'[x] = 0
         /\ \A a \in Actors : Stamp(a) => age'[Head(stamps[a])] <= Coalesce
  <1> USE RegistryAssumption DEF mapVars, pionVars, closeVars, sweepVars, timeVars
  <1>0. MapTypes /\ ProcTypes /\ FreshInv /\ age \in [Handles -> Nat]
    BY Zenon DEF RegInv, StampTypes
  <1>1. ASSUME NEW h \in Handles, age' = [age EXCEPT ![h] = 0]
        PROVE  age' \in [Handles -> Nat] /\ (\A x \in Handles : age'[x] <= age[x]) /\ age'[h] = 0
    BY <1>0, <1>1
  <1>2. ASSUME NEW h \in Handles, age' = [age EXCEPT ![h] = Refreshed(@)]
        PROVE  /\ age' \in [Handles -> Nat] /\ (\A x \in Handles : age'[x] <= age[x])
               /\ age'[h] <= Coalesce
    BY <1>0, <1>2 DEF Refreshed
  <1>3. ASSUME age' = age
        PROVE  age' \in [Handles -> Nat] /\ (\A x \in Handles : age'[x] <= age[x])
    BY <1>0, <1>3
  <1> DEFINE Goal == /\ age' \in [Handles -> Nat]
                     /\ \A x \in Handles : age'[x] <= age[x]
                     /\ \A x \in resources' \ resources : age'[x] = 0
  <1>4. ASSUME NEW a \in Actors, Stamp(a) PROVE Goal /\ age'[Head(stamps[a])] <= Coalesce
    <2>1. Head(stamps[a]) \in Handles
      BY <1>4 DEF Stamp, StampTypes
    <2> QED  BY <1>2, <1>4, <2>1, Zenon DEF Stamp
  <1>5. ASSUME NEW a \in Actors, RegisterChild(a) PROVE Goal
    <2>1. fresh[a] \in Handles
      BY <1>0, <1>5, Zenon DEF RegisterChild, FreshInv, ProcTypes, Handles
    <2> QED  BY <1>1, <1>5, <2>1, Zenon DEF RegisterChild
  <1>6. ASSUME NEW s \in Sessions, CreatePC(s) PROVE Goal
    BY <1>1, <1>6, Zenon DEF CreatePC, Handles
  <1>7. ASSUME NEW s \in Sessions, Lookup(s) PROVE Goal
    <2>1. CASE arg[s] \in resources
      BY <1>0, <1>2, <1>7, <2>1, Zenon DEF Lookup, MapTypes
    <2>2. CASE arg[s] \notin resources
      BY <1>3, <1>7, <2>2, Zenon DEF Lookup
    <2> QED  BY <2>1, <2>2, Zenon
  <1>8. \/ \E a \in Actors : Stamp(a) \/ RegisterChild(a)
        \/ \E s \in Sessions : CreatePC(s) \/ Lookup(s)
        \/ age' = age /\ resources' \subseteq resources
    BY Zenon DEF Step, Finish, CloseState, CloseResource, StartSend, ReadLoop, Receive,
       CreateDc, PCClose, DCClose, DeleteResource, Collect, Callback, OnDataChannel, OnEvent,
       Sweep, Scan, CheckLive, Reap, Refresh, Transport, Connect, Disconnect, vars
  <1>9. Goal
    BY <1>3, <1>4, <1>5, <1>6, <1>7, <1>8, Zenon
  <1> QED  BY <1>4, <1>9, Zenon

\* Time.
LEMMA TimePasses ==
  ASSUME Tick
  PROVE  /\ age' = [x \in Handles |-> Older(age[x])]
         /\ UNCHANGED <<resources, parent, stamps, pc, arg>>
  BY Zenon DEF Tick, mapVars, procVars

\* What a Touch of a registered handle is to refresh does not grow.
LEMMA StampedSteps ==
  ASSUME RegInv, [Next]_vars, NEW h \in resources'
  PROVE  \/ h \in resources /\ \A x \in Stamped(h)' : x \in Stamped(h) \/ x \notin resources
         \/ h \notin resources /\ h \in PCs /\ Stamped(h)' \subseteq {h}
         \/ ~Announced(h) /\ h \in Handles
  <1> USE DEF mapVars, pionVars, closeVars, sweepVars, timeVars
  <1>0. RegInv' /\ resources \subseteq Handles /\ resources' \subseteq Handles
    BY RegNext, Zenon DEF RegInv, MapTypes
  <1>1. CASE h \in resources
    <2>1. HasRoot(h)' /\ Announced(h)
      BY <1>1, RegisteredIsAnnounced, Zenon DEF HasRoot
    <2>2. Root(h)' = Root(h)
      BY <1>0, <2>1, RootStable, Zenon
    <2>3. h \in DCs => parent'[h] = parent[h]
      BY <1>0, <1>1, <2>2, Zenon DEF RegInv, TreeConsistent, Root
    <2> QED  BY <1>1, <2>3, Zenon DEF Stamped
  <1>2. CASE h \in PCs /\ h \notin resources
    BY <1>2, RegistryAssumption, Zenon DEF Stamped
  <1>3. CASE h \in DCs /\ h \notin resources
    <2>1. ASSUME NEW a \in Actors, RegisterChild(a) PROVE pc[a] = "registerChild" /\ fresh[a] = h
      BY <1>3, <2>1, Zenon DEF RegisterChild
    <2>2. ASSUME NEW s \in Sessions, CreatePC(s) PROVE FALSE
      BY <1>3, <2>2, RegistryAssumption, Zenon DEF CreatePC
    <2>3. (\E a \in Actors : RegisterChild(a)) \/ resources' \subseteq resources
      BY <2>2, Zenon DEF Next, Step, Finish, Stamp, CloseState, CloseResource, StartSend, ReadLoop,
         Receive, Lookup, CreateDc, PCClose, DCClose, DeleteResource, Collect, Callback,
         OnDataChannel, OnEvent, Sweep, Scan, CheckLive, Reap, Refresh, Transport, Connect,
         Disconnect, Tick, vars
    <2> QED  BY <1>0, <1>3, <2>1, <2>3, Zenon DEF Announced
  <1> QED  BY <1>0, <1>1, <1>2, <1>3, Zenon DEF Handles

\* The stamps keep their types.
LEMMA StampNext ==
  ASSUME RegInv, StampTypes, [SweepNext]_sweepHistory
  PROVE  StampTypes'
  <1>0. [Next]_vars /\ ProcTypes
    BY HistoryIsStep, Zenon DEF RegInv
  <1>1. age' \in [Handles -> Nat]
    <2>1. \A h \in Handles : Older(age[h]) \in Nat
      BY DEF StampTypes, Older
    <2>2. CASE Tick
      BY <2>1, <2>2, TimePasses, Zenon
    <2> QED  BY <1>0, <2>2, AgeSteps, Zenon DEF Next
  <1>2. quiet' \in [Handles -> Nat]
    <2>1. \A h \in Handles : Older(quiet[h]) \in Nat
      BY DEF StampTypes, Older
    <2>2. CASE History
      BY <2>2 DEF History, StampTypes
    <2>3. CASE quiet' = [h \in Handles |-> Older(quiet[h])]
      BY <2>1, <2>3, Zenon
    <2>4. CASE quiet' = quiet
      BY <2>4, Zenon DEF StampTypes
    <2> QED  BY <2>2, <2>3, <2>4, Zenon DEF SweepNext, sweepHistory
  <1> DEFINE Q == /\ stamps' \in [Actors -> Seq(Handles)]
                  /\ \A a \in Actors : pc'[a] = "touch" <=> stamps'[a] # << >>
  <1>3. ASSUME NEW a \in Actors, Stamp(a) PROVE Q
    <2>1. PICK q \in Seq(Handles) : q = stamps[a] /\ q # << >>
      BY <1>3 DEF Stamp, StampTypes
    <2>2. Tail(q) \in Seq(Handles) /\ (Tail(q) # << >> <=> Len(q) # 1)
      <3>1. Tail(q) \in Seq(Handles) /\ Len(Tail(q)) = Len(q) - 1 /\ Len(q) \in Nat
        BY <2>1
      <3>2. \A t \in Seq(Handles) : t = << >> <=> Len(t) = 0
        OBVIOUS
      <3> QED  BY <3>1, <3>2
    <2>3. /\ stamps' = [stamps EXCEPT ![a] = Tail(q)]
          /\ pc' = [pc EXCEPT ![a] = IF Len(q) = 1 THEN AfterTouch(a) ELSE "touch"]
      BY <1>3, <2>1, Zenon DEF Stamp, Goto, Begin
    <2>4. AfterTouch(a) # "touch"
      BY DEF AfterTouch
    <2> QED  BY <1>0, <2>2, <2>3, <2>4, Zenon DEF StampTypes, ProcTypes
  <1>4. ASSUME NEW a \in Actors, NEW h, NEW r, Touch(a, h, r) PROVE Q
    <2>1. Chain(h) \in Seq(Handles)
      BY DEF Chain, OwnStamp, RegInv, MapTypes
    <2>2. AfterTouch(a) # "touch"
      BY DEF AfterTouch
    <2> QED  BY <1>0, <1>4, <2>1, <2>2, Zenon DEF Touch, Begin, StampTypes, ProcTypes
  <1>5. Q
    BY <1>0, <1>3, <1>4, TouchSteps, Zenon DEF StampTypes
  <1> QED  BY <1>1, <1>2, <1>5, Zenon DEF StampTypes

\* When a Touch begins, it is one of a registered handle, and has all to do.
LEMMA TouchStarts ==
  ASSUME RegInv, StampTypes, [Next]_vars, NEW h \in Handles, TouchBegins(h)
  PROVE  h \in resources /\ \A x \in Stamped(h) : WillStamp(h, x)'
  <1>0. ProcTypes
    BY Zenon DEF RegInv
  <1>1. PICK a \in Actors : stamps[a] = << >> /\ stamps'[a] # << >> /\ Head(stamps'[a]) = h
    BY Zenon DEF TouchBegins
  <1>2. ASSUME NEW b \in Actors, Stamp(b) PROVE FALSE
    <2>1. stamps[b] # << >> /\ stamps' = [stamps EXCEPT ![b] = Tail(stamps[b])]
      BY <1>2, Zenon DEF Stamp, StampTypes
    <2> QED  BY <1>1, <2>1, Zenon DEF StampTypes
  <1>3. PICK b \in Actors, g \in Handles \cup {None} : \E r : Touch(b, g, r)
    BY <1>1, <1>2, TouchSteps, Zenon
  <1>4. stamps' = [stamps EXCEPT ![b] = Chain(g)]
    BY <1>3, Zenon DEF Touch
  <1>5. b = a /\ stamps'[a] = Chain(g)
    BY <1>1, <1>4, Zenon DEF StampTypes
  <1>6. g = h /\ h \in resources
    BY <1>1, <1>5 DEF Chain, OwnStamp
  <1>7. pc'[a] = "touch" /\ arg'[a] = h
    BY <1>0, <1>1, <1>3, <1>5, <1>6 DEF Touch, Begin, ProcTypes
  <1>8. ASSUME NEW x \in Stamped(h) PROVE \E k \in DOMAIN stamps'[a] : stamps'[a][k] = x
    <2>1. CASE x = h
      <3>1. 1 \in DOMAIN Chain(h) /\ Chain(h)[1] = h
        BY <1>6 DEF Chain, OwnStamp
      <3> QED  BY <1>5, <1>6, <2>1, <3>1, Zenon
    <2>2. CASE x # h
      <3>1. h \in DCs /\ parent[h] = x /\ x \in resources
        BY <1>8, <2>2, Zenon DEF Stamped
      <3>2. Chain(h) = <<h, x>>
        BY <1>6, <3>1, Zenon DEF Chain
      <3>3. 2 \in DOMAIN Chain(h) /\ Chain(h)[2] = x
        BY <3>2
      <3> QED  BY <1>5, <1>6, <3>3, Zenon
    <2> QED  BY <2>1, <2>2, Zenon
  <1> QED  BY <1>6, <1>7, <1>8, Zenon DEF WillStamp

\* A Touch under way refreshes the stamp, or still will.
LEMMA TouchGoesOn ==
  ASSUME RegInv, StampTypes, Step \/ UNCHANGED vars, NEW h \in Handles, NEW x \in Handles, WillStamp(h, x)
  PROVE  WillStamp(h, x)' \/ age'[x] <= Coalesce
  <1>0. ProcTypes /\ [Next]_vars
    BY Zenon DEF RegInv, Next
  <1>1. PICK a \in Actors : /\ pc[a] = "touch" /\ arg[a] = h
                            /\ \E k \in DOMAIN stamps[a] : stamps[a][k] = x
    BY Zenon DEF WillStamp
  <1>2. CASE Stamp(a)
    <2>1. PICK q \in Seq(Handles) : q = stamps[a] /\ q # << >>
      BY <1>1, Zenon DEF StampTypes
    <2>2. CASE Head(q) = x
      BY <1>2, <2>1, <2>2, AgeSteps
    <2>3. CASE Head(q) # x
      <3>1. \E k \in DOMAIN Tail(q) : Tail(q)[k] = x
        <4>1. PICK k \in DOMAIN q : q[k] = x
          BY <1>1, <2>1, Zenon
        <4>2. k - 1 \in DOMAIN Tail(q) /\ Tail(q)[k - 1] = x
          BY <2>1, <2>3, <4>1
        <4> QED  BY <4>2, Zenon
      <3>2. Len(q) # 1
        BY <2>1, <3>1
      <3>3. stamps'[a] = Tail(q) /\ pc'[a] = "touch" /\ arg'[a] = h
        BY <1>0, <1>1, <1>2, <2>1, <3>2 DEF Stamp, Goto, Begin, StampTypes, ProcTypes
      <3> QED  BY <3>1, <3>3, Zenon DEF WillStamp
    <2> QED  BY <2>2, <2>3, Zenon
  <1>3. ASSUME NEW b \in Actors, Stamp(b), b # a PROVE WillStamp(h, x)'
    <2>1. stamps'[a] = stamps[a] /\ pc'[a] = "touch" /\ arg'[a] = h
      BY <1>0, <1>1, <1>3, Zenon DEF Stamp, Goto, Begin, StampTypes, ProcTypes
    <2> QED  BY <1>1, <2>1, Zenon DEF WillStamp
  <1>4. ASSUME NEW b \in Actors, NEW g, NEW r, Touch(b, g, r), pc[b] # "touch" PROVE WillStamp(h, x)'
    <2>1. b # a
      BY <1>1, <1>4, Zenon
    <2>2. stamps'[a] = stamps[a] /\ pc'[a] = "touch" /\ arg'[a] = h
      BY <1>0, <1>1, <1>4, <2>1, Zenon DEF Touch, Begin, StampTypes, ProcTypes
    <2> QED  BY <1>1, <2>2, Zenon DEF WillStamp
  <1>5. CASE /\ UNCHANGED stamps
             /\ \A b \in Actors : pc[b] = "touch" <=> pc'[b] = "touch"
             /\ \A b \in Actors : pc[b] = "touch" => arg'[b] = arg[b]
    BY <1>1, <1>5, Zenon DEF WillStamp
  <1> QED  BY <1>0, <1>2, <1>3, <1>4, <1>5, TouchSteps, Zenon

\* Each step keeps what is known of the touched stamps.
LEMMA TouchNext ==
  ASSUME RegInv, StampTypes, TouchInv, [SweepNext]_sweepHistory
  PROVE  TouchInv'
  <1>0. /\ [Next]_vars /\ RegInv' /\ StampTypes' /\ Coalesce \in Nat /\ MaxAge \in Nat
        /\ resources \subseteq Handles /\ resources' \subseteq Handles
    BY HistoryIsStep, RegNext, StampNext, RegistryAssumption, Zenon DEF RegInv, MapTypes
  <1>1. \A h \in Handles : TouchBegins(h) => h \in resources /\ \A x \in Stamped(h) : WillStamp(h, x)'
    BY <1>0, TouchStarts, Zenon
  <1>2. \/ /\ Step \/ UNCHANGED vars
           /\ \A h \in Handles : quiet'[h] = quiet[h] \/ (quiet'[h] = 0 /\ TouchBegins(h))
        \/ Tick /\ \A h \in Handles : quiet'[h] = Older(quiet[h])
    BY Zenon DEF SweepNext, History, sweepHistory
  <1>3. \A h \in Handles : age[h] \in Nat /\ quiet[h] \in Nat /\ age'[h] \in Nat /\ quiet'[h] \in Nat
    BY <1>0 DEF StampTypes
  <1>4. ASSUME NEW h \in Handles, ~Announced(h)' PROVE quiet'[h] > MaxAge
    <2>1. ~Announced(h) /\ ~TouchBegins(h)
      BY <1>0, <1>1, <1>4, AnnouncedStable, RegisteredIsAnnounced, Zenon
    <2>2. quiet[h] > MaxAge
      BY <2>1, Zenon DEF TouchInv
    <2>3. quiet'[h] = quiet[h] \/ quiet'[h] = Older(quiet[h])
      BY <1>2, <2>1, Zenon
    <2> QED  BY <2>2, <2>3 DEF Older
  <1>5. ASSUME NEW h \in resources', quiet'[h] + Coalesce <= MaxAge, NEW x \in Stamped(h)'
        PROVE  age'[x] <= quiet'[h] + Coalesce \/ WillStamp(h, x)'
    <2>0. h \in Handles /\ x \in Handles /\ x \in resources'
      BY <1>0, Zenon DEF Stamped
    <2>1. CASE Tick /\ quiet'[h] = Older(quiet[h])
      <3>1. age'[x] = Older(age[x]) /\ h \in resources /\ x \in Stamped(h) /\ (WillStamp(h, x) => WillStamp(h, x)')
        BY <2>0, <2>1, TimePasses, Zenon DEF Stamped, WillStamp
      <3>2. quiet[h] <= MaxAge /\ quiet'[h] = quiet[h] + 1
        BY <1>0, <1>3, <1>5, <2>0, <2>1 DEF Older
      <3>3. quiet[h] + Coalesce <= MaxAge
        BY <1>0, <1>3, <1>5, <2>0, <3>2
      <3>4. age[x] <= quiet[h] + Coalesce \/ WillStamp(h, x)
        BY <3>1, <3>3, Zenon DEF TouchInv
      <3> QED  BY <1>0, <1>3, <2>0, <3>1, <3>2, <3>4 DEF Older
    <2>2. CASE /\ Step \/ UNCHANGED vars
               /\ quiet'[h] = quiet[h] \/ (quiet'[h] = 0 /\ TouchBegins(h))
      <3>1. CASE x \notin resources
        <4>1. age'[x] = 0
          BY <2>0, <2>2, <3>1, AgeSteps, Zenon
        <4> QED  BY <1>0, <1>3, <2>0, <4>1
      <3>2. CASE x \in resources
        <4>1. h \in resources /\ x \in Stamped(h)
          <5>1. CASE ~Announced(h)
            <6>1. quiet'[h] = quiet[h] /\ quiet[h] > MaxAge
              BY <1>1, <2>0, <2>2, <5>1, RegisteredIsAnnounced, Zenon DEF TouchInv
            <6> QED  BY <1>0, <1>3, <1>5, <2>0, <6>1
          <5> QED  BY <1>0, <3>2, <5>1, StampedSteps, Zenon
        <4>2. CASE TouchBegins(h)
          BY <1>1, <2>0, <4>1, <4>2, Zenon
        <4>3. CASE quiet'[h] = quiet[h]
          <5>1. age[x] <= quiet[h] + Coalesce \/ WillStamp(h, x)
            BY <1>5, <4>1, <4>3, Zenon DEF TouchInv
          <5>2. age'[x] <= age[x]
            BY <2>0, <2>2, AgeSteps, Zenon
          <5>3. CASE age[x] <= quiet[h] + Coalesce
            BY <1>0, <1>3, <2>0, <4>3, <5>2, <5>3
          <5>4. CASE WillStamp(h, x)
            <6>1. WillStamp(h, x)' \/ age'[x] <= Coalesce
              BY <2>0, <2>2, <5>4, TouchGoesOn, Zenon
            <6> QED  BY <1>0, <1>3, <2>0, <6>1
          <5> QED  BY <5>1, <5>3, <5>4, Zenon
        <4> QED  BY <2>2, <4>2, <4>3, Zenon
      <3> QED  BY <3>1, <3>2, Zenon
    <2> QED  BY <1>2, <2>0, <2>1, <2>2, Zenon
  <1> QED  BY <1>4, <1>5, Zenon DEF TouchInv

\* What is in use at the scan is no victim of the sweep.
LEMMA ActiveNext ==
  ASSUME RegInv, SteadyInv, StampTypes, TouchInv, ActiveInv, [SweepNext]_sweepHistory
  PROVE  ActiveInv'
  <1>0. /\ [Next]_vars /\ resources \subseteq Handles
        /\ pc \in [Actors -> Steps] /\ Sweeper \in Actors
    BY HistoryIsStep, Zenon DEF RegInv, MapTypes, ProcTypes, Actors
  <1> DEFINE InUse == {h \in resources : quiet[h] + Coalesce <= MaxAge /\ Settled(h)}
  <1>1. /\ SweepOver => active' = {}
        /\ active' \subseteq IF ScanNow THEN InUse ELSE active
    <2>1. CASE Step /\ History
      BY <2>1, Zenon DEF History
    <2>2. CASE Tick /\ active' = active
      BY <2>2, TimePasses, Zenon DEF SweepOver, ScanNow, ActiveInv
    <2>3. CASE UNCHANGED sweepHistory
      BY <2>3, Zenon DEF sweepHistory, vars, procVars, SweepOver, ScanNow, ActiveInv
    <2> QED  BY <2>1, <2>2, <2>3, Zenon DEF SweepNext
  <1>2. \A h \in Handles : Announced(h) => Announced(h)'
    BY <1>0, AnnouncedStable, Zenon
  <1>3. \A h \in Handles : Announced(h) /\ HasRoot(h)' => HasRoot(h) /\ Root(h)' = Root(h)
    BY <1>0, RootStable, Zenon
  <1>4. CASE Scan
    <2>1. expired' = Expired /\ reap' = {} /\ ScanNow
      BY <1>0, <1>4, Zenon DEF Scan, Goto, Begin, ScanNow, SteadyInv
    <2>2. ASSUME NEW h \in InUse, NEW x \in Stamped(h) PROVE x \notin Expired
      <3>1. ~WillStamp(h, x)
        BY <2>2, Zenon DEF WillStamp, Settled
      <3>2. age[x] <= quiet[h] + Coalesce
        BY <2>2, <3>1, Zenon DEF TouchInv
      <3>3. age[x] \in Nat /\ quiet[h] \in Nat
        BY <1>0, <2>2 DEF StampTypes, Stamped
      <3> QED  BY <2>2, <3>2, <3>3, RegistryAssumption DEF Expired
    <2>3. ASSUME NEW h \in InUse
          PROVE  Announced(h) /\ HasRoot(h) /\ h \notin Expired /\ Root(h) \notin Expired
      <3>1. Announced(h) /\ HasRoot(h)
        BY RegisteredIsAnnounced, Zenon DEF HasRoot
      <3>2. h \notin Expired
        BY <2>2, Zenon DEF Stamped
      <3>3. Root(h) = h \/ Root(h) \notin resources \/ Root(h) \in Stamped(h)
        BY Zenon DEF Root, Stamped
      <3> QED  BY <2>2, <3>1, <3>2, <3>3, Zenon DEF Expired
    <2>4. ASSUME NEW h \in active'
          PROVE  /\ h \in Handles /\ Announced(h)' /\ h \notin expired' \cup reap'
                 /\ HasRoot(h)' => Root(h)' \notin expired' \cup reap'
      BY <1>0, <1>1, <1>2, <1>3, <2>1, <2>3, Zenon
    <2> QED  BY <1>1, <2>4, Zenon DEF ActiveInv, SweepOver
  <1>5. CASE ~Scan
    <2>1. ~ScanNow /\ expired' \cup reap' \subseteq expired \cup reap
      <3>1. CASE CheckLive
        BY <1>0, <3>1, Zenon DEF CheckLive, ScanNow
      <3>2. CASE Reap
        BY <1>0, <3>2, Zenon DEF Reap, ScanNow
      <3>3. CASE /\ UNCHANGED <<expired, roots, reap>>
                 /\ pc[Sweeper] \in {"idle", "check", "reap"} => pc'[Sweeper] = pc[Sweeper]
        BY <3>3, Zenon DEF ScanNow
      <3> QED  BY <1>0, <1>5, <3>1, <3>2, <3>3, SweepSteps, Zenon
    <2>2. active' \subseteq active
      BY <1>1, <2>1, Zenon
    <2>3. ASSUME NEW h \in active'
          PROVE  /\ h \in Handles /\ Announced(h)' /\ h \notin expired' \cup reap'
                 /\ HasRoot(h)' => Root(h)' \notin expired' \cup reap'
      BY <1>2, <1>3, <2>1, <2>2, Zenon DEF ActiveInv
    <2> QED  BY <1>1, <2>3, Zenon DEF ActiveInv, SweepOver
  <1> QED  BY <1>4, <1>5, Zenon

(***************************************************************************)
(* Touch keeps what is in use alive: a handle touched less than the TTL    *)
(* before the scan (less the interval in which touchStamp leaves a stamp   *)
(* alone) is not deleted by that sweep, neither by itself nor by the       *)
(* cascade of its connection, for any TTL and coalescing interval, however *)
(* the lock-free stores to the stamps interleave with the sweep.           *)
(***************************************************************************)
THEOREM ActiveSpared == SweepSpec => []ActiveNotReaped
  <1> DEFINE I == RegInv /\ SteadyInv /\ StampTypes /\ TouchInv /\ ActiveInv
  <1>1. SweepInit => I
    BY RegInit, SteadyInit, ActiveInit, Zenon DEF SweepInit
  <1>2. I /\ [SweepNext]_sweepHistory => I'
    BY HistoryIsStep, RegNext, SteadyPreserved, StampNext, TouchNext, ActiveNext, Zenon
  <1>3. I => ActiveNotReaped
    <2> SUFFICES ASSUME I, NEW h \in Collected(reap), h \in active PROVE FALSE
      BY Zenon DEF ActiveNotReaped
    <2>1. h \in resources /\ h \notin reap
      BY Zenon DEF Collected, ActiveInv
    <2>2. PICK p \in reap \cap resources \cap PCs : h \in children[p]
      BY <2>1, Zenon DEF Collected
    <2>3. h \in DCs /\ parent[h] = p
      BY <2>2, Zenon DEF RegInv, MapTypes, TreeConsistent
    <2>4. Root(h) = p
      BY <2>2, <2>3, RegistryAssumption, Zenon DEF Root, Handles
    <2> QED  BY <2>1, <2>2, <2>4, Zenon DEF ActiveInv, HasRoot
  <1> QED  BY <1>1, <1>2, <1>3, PTL DEF SweepSpec
=============================================================================
