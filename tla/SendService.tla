---------------------------- MODULE SendService ----------------------------
(***************************************************************************)
(* What dc:send promises its callers, without queue, goroutine or lock: a  *)
(* request is refused at once or accepted; an accepted request goes on the *)
(* wire at most once, after the earlier ones of its session; it is         *)
(* answered once, and the answer tells whether it went on the wire.        *)
(***************************************************************************)
EXTENDS Naturals, Sequences

CONSTANT Item  \* requests <<session, number>>

VARIABLES
  verdict,  \* what the caller of each request knows
  wire      \* the requests handed to the transport, in order

serviceVars == <<verdict, wire>>

OnWire(i) == \E k \in DOMAIN wire : wire[k] = i

Init ==
  /\ verdict = [i \in Item |-> "none"]
  /\ wire = << >>

\* Requests of a session are read one after the other.
Request(i) ==
  /\ verdict[i] = "none"
  /\ \A j \in Item : j[1] = i[1] /\ j[2] < i[2] => verdict[j] # "none"
  /\ verdict' \in {[verdict EXCEPT ![i] = v] : v \in {"waiting", "refused"}}
  /\ UNCHANGED wire

Transmit(i) ==
  /\ verdict[i] = "waiting"
  /\ ~OnWire(i)
  /\ \A k \in DOMAIN wire : wire[k][1] = i[1] => wire[k][2] < i[2]
  /\ wire' = Append(wire, i)
  /\ UNCHANGED verdict

Deliver(i) ==
  /\ verdict[i] = "waiting"
  /\ \/ OnWire(i) /\ verdict' \in {[verdict EXCEPT ![i] = v] : v \in {"ack", "cut"}}
     \/ ~OnWire(i) /\ verdict' = [verdict EXCEPT ![i] = "unsent"]
  /\ UNCHANGED wire

Next == \E i \in Item : Request(i) \/ Transmit(i) \/ Deliver(i)

Spec == Init /\ [][Next]_serviceVars
=============================================================================
