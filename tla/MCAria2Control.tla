--------------------------- MODULE MCAria2Control ---------------------------
(* Instances of Aria2Control: a user's pause against automation, deletion  *)
(* against a lagging daemon and a replaced link, two retries of one task.  *)
EXTENDS Aria2Control

CONSTANTS u1, u2

Pausing == [users |-> {u1}, gids |-> {1}, acts |-> {"pause", "resume"}, ends |-> {"complete"},
            lag |-> {"pause"}, max |-> 5,
            events |-> {"submit", "control", "automatic", "observe", "rpcFault", "crash"}]
Deleting == [users |-> {u1, u2}, gids |-> {1}, acts |-> {"delete", "pause"}, ends |-> {"complete", "error"},
             lag |-> {"pause", "remove"}, max |-> 5,
             events |-> {"submit", "control", "observe", "link", "expire", "sweep", "crash", "finishFault"}]
Retrying == [users |-> {u1, u2}, gids |-> {1, 2, 3}, acts |-> {"retry"}, ends |-> {"error"},
             lag |-> {}, max |-> 4,
             events |-> {"submit", "control", "observe", "rpcFault", "storeFault", "finishFault", "crash", "sweep"}]
\* A task that stopped short of its size is retried like a failed one.
Shortfall == [Retrying EXCEPT !.ends = {"short"}, !.max = 3]
Meetings == {Pausing, Deleting, Retrying, Shortfall}
=============================================================================
