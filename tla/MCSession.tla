------------------------------ MODULE MCSession ------------------------------
(* Session for short scripts, channels with room for one frame and a socket    *)
(* that holds one.                                                             *)
EXTENDS Session

Quietly == [transport |-> "shared", script |-> << >>, events |-> 1, isolate |-> TRUE,
            closes |-> FALSE, stalls |-> FALSE, timeouts |-> FALSE, listens |-> FALSE]

MCScenarios ==
  {\* Every kind of frame, over both transports.
   [Quietly EXCEPT !.script = <<"sync", "async", "notify", "sync">>],
   [Quietly EXCEPT !.script = <<"panic", "sync", "malformed", "sync">>, !.timeouts = TRUE],
   [Quietly EXCEPT !.transport = "ws", !.script = <<"sync", "async", "panic">>],
   \* The client closes in the middle, from the same thread or another one.
   [Quietly EXCEPT !.script = <<"async", "sync", "sync">>, !.closes = TRUE],
   [Quietly EXCEPT !.script = <<"async", "sync", "sync">>, !.closes = TRUE, !.isolate = FALSE],
   [Quietly EXCEPT !.transport = "ws", !.script = <<"async", "sync", "sync">>, !.closes = TRUE],
   \* The client stands still.
   [Quietly EXCEPT !.transport = "ws", !.script = <<"sync", "sync", "sync", "sync">>, !.stalls = TRUE],
   \* Events, and a client that subscribes late.
   [Quietly EXCEPT !.script = <<"sync">>, !.events = 3, !.listens = TRUE]}
=============================================================================
