------------------------------ MODULE RtxTimer ------------------------------
(***************************************************************************)
(* The retransmission timer of an SCTP association                         *)
(* (go/pion-sctp-patched/rtx_timer.go): one Go timer, re-armed by every    *)
(* start and every expiry, whose function runs in a goroutine of its own   *)
(* and may therefore still be on its way when the timer is stopped.  The   *)
(* counter `pending' is how timeout() tells the expiry of the present arm  *)
(* from that of an earlier one.                                            *)
(***************************************************************************)
EXTENDS Integers

\* armed: the Go timer will still fire.  flying: goroutines that it started
\* and that have not yet entered timeout().
Timer == [state : {"stopped", "started", "closed"}, nRtos : Nat, pending : Int,
          armed : BOOLEAN, flying : Nat]

newRTXTimer ==
  [state |-> "stopped", nRtos |-> 0, pending |-> 0, armed |-> FALSE, flying |-> 0]

\* nRtos means nothing while the timer is stopped (start sets it), so it is 0
\* there.
\* start: no effect on a timer that is running or closed.
start(t) ==
  IF t.state # "stopped" THEN t
  ELSE [t EXCEPT !.state = "started", !.nRtos = 0, !.pending = @ + 1, !.armed = TRUE]

\* The pending count after timer.Stop(), which returns false when the timer
\* has already fired.
AlwaysDecrement(t) == t.pending - 1
AfterStop(t) == IF t.armed THEN t.pending - 1 ELSE t.pending

stop(t) ==
  IF t.state # "started" THEN t
  ELSE [t EXCEPT !.state = "stopped", !.nRtos = 0, !.pending = AfterStop(t), !.armed = FALSE]

\* close: as stop, and every later start fails.
close(t) ==
  [t EXCEPT !.state = "closed", !.nRtos = 0,
            !.pending = IF t.state = "started" THEN AfterStop(t) ELSE @,
            !.armed = FALSE]

\* The Go runtime fires the timer.
Expire(t) == [t EXCEPT !.armed = FALSE, !.flying = @ + 1]

\* timeout() counts as an expiry only when no other one is pending.
IsExpiry(t) == t.pending = 1 /\ t.state = "started"

\* timeout(): re-arm and call the observer, or give up after maxRetrans.
RetryForever(t, maxRetrans) == TRUE
MayRetry(t, maxRetrans) == maxRetrans = 0 \/ t.nRtos < maxRetrans
timeout(t, maxRetrans) ==
  LET u == [t EXCEPT !.flying = @ - 1, !.pending = @ - 1]
  IN  IF ~IsExpiry(t) THEN u
      ELSE IF MayRetry(t, maxRetrans)
           THEN [u EXCEPT !.nRtos = @ + 1, !.armed = TRUE, !.pending = @ + 1]
           ELSE [u EXCEPT !.nRtos = 0, !.state = "stopped"]

\* The observer's method that timeout() calls when it has released its mutex.
Callback(t, maxRetrans) ==
  IF MayRetry(t, maxRetrans) THEN "onRetransmissionTimeout" ELSE "onRetransmissionFailure"
=============================================================================
