--------------------------- MODULE RegistrySweep ---------------------------
(***************************************************************************)
(* Registry with history variables, to say what a sweep may not delete.    *)
(***************************************************************************)
EXTENDS Registry

VARIABLES
  quiet,   \* the time since the last Touch of each handle began
  active,  \* the handles in use when the sweep scanned
  steady   \* the connections connected from the scan on

sweepHistory == <<vars, quiet, active, steady>>

SweepInit ==
  /\ Init
  /\ quiet = [h \in Handles |-> MaxAge + 1]
  /\ active = {} /\ steady = {}

\* A Touch of h begins in this step, and finds it registered.
TouchBegins(h) ==
  \E a \in Actors : stamps[a] = << >> /\ stamps'[a] # << >> /\ Head(stamps'[a]) = h

\* No Touch of h is still refreshing stamps.
Settled(h) == \A a \in Actors : pc[a] = "touch" => arg[a] # h

ScanNow == pc[Sweeper] = "idle" /\ pc'[Sweeper] = "check"
SweepOver == pc'[Sweeper] \notin {"check", "reap"}

History ==
  /\ quiet' = [h \in Handles |-> IF TouchBegins(h) THEN 0 ELSE quiet[h]]
  /\ active' =
       IF SweepOver THEN {}
       ELSE IF ScanNow THEN {h \in resources : quiet[h] + Coalesce <= MaxAge /\ Settled(h)}
       ELSE active
  /\ steady' =
       IF SweepOver THEN {}
       ELSE {p \in IF ScanNow THEN resources \cap PCs ELSE steady : transport'[p] = "connected"}

SweepNext ==
  \/ Step /\ History
  \/ /\ Tick
     /\ quiet' = [h \in Handles |-> Older(quiet[h])]
     /\ UNCHANGED <<active, steady>>

SweepSpec == SweepInit /\ [][SweepNext]_sweepHistory

(***************************************************************************)
(* Touch: "an active DataChannel must keep its owning PeerConnection       *)
(* alive".  A handle whose last Touch had ended, and had begun less than   *)
(* the TTL before the scan (less the second touchStamp may skip), is not   *)
(* deleted by that sweep, neither by itself nor by a cascade.              *)
(***************************************************************************)
ActiveNotReaped == Collected(reap) \cap active = {}

(***************************************************************************)
(* Cleanup: "A resource is spared (and its TTL refreshed) when its root    *)
(* PeerConnection is currently connected".  A connection that is connected *)
(* from the scan on is not deleted by the sweep, nor are its channels.     *)
(***************************************************************************)
SteadyNotReaped ==
  \A h \in Collected(reap) : Root(h) \notin steady
=============================================================================
