---------------------------- MODULE MCSctpAssoc ----------------------------
(* SctpAssoc for two endpoints, under scenarios that between them open and   *)
(* end the association in every way.                                         *)
EXTENDS SctpAssoc, TLC

CONSTANTS EndA, EndB

MCEndpoints == {EndA, EndB}
Pair(x, y) == (EndA :> x) @@ (EndB :> y)
Scenario(roles, inter, deeds, rtos, losses) ==
  [role |-> roles, interleaving |-> inter, deeds |-> deeds, maxRtos |-> rtos, maxLost |-> losses]

MCScenarios ==
  {\* An open by one side: lost packets, ABORT, T1 that runs out, Close, cancel.
   Scenario(Pair("client", "server"), Pair(TRUE, FALSE), Pair({"write"}, {}), 2, 1),
   Scenario(Pair("client", "server"), Pair(TRUE, FALSE), Pair({"abort"}, {}), 2, 0),
   Scenario(Pair("client", "server"), Pair(TRUE, TRUE), Pair({"close"}, {}), 2, 0),
   Scenario(Pair("client", "server"), Pair(TRUE, TRUE), Pair({"cancelOpen"}, {}), 1, 0),
   \* Both ends open at once.
   Scenario(Pair("client", "client"), Pair(TRUE, TRUE), Pair({}, {}), 1, 0),
   \* One end shuts down while the other has data in flight; both shut down;
   \* a shutdown that is given up for an ABORT while the peer closes.
   Scenario(Pair("snap", "snap"), Pair(TRUE, TRUE), Pair({"shutdown"}, {"write"}), 1, 1),
   Scenario(Pair("snap", "snap"), Pair(TRUE, TRUE), Pair({"shutdown", "write"}, {"shutdown"}), 0, 0),
   Scenario(Pair("snap", "snap"), Pair(TRUE, FALSE), Pair({"shutdown"}, {"shutdown"}), 0, 1),
   Scenario(Pair("snap", "snap"), Pair(TRUE, FALSE), Pair({"shutdown", "cancelShutdown", "abort"}, {"close"}), 0, 0)}
=============================================================================
