--------------------------- MODULE MCAria2Events ---------------------------
(* Two tasks of the account and one that only looks like theirs; the      *)
(* outside events that can get in each other's way meet in a scenario.    *)
EXTENDS Aria2Automation

CONSTANTS a, b, x

Bytes == {<<a, 2>>, <<b, 1>>, <<x, 0>>}
Connecting == {[retry |-> 1, maximum |-> 2], [retry |-> 2, maximum |-> 4]}
Meetings == {{"start", "error", "user", "stop"}, {"start", "tick", "flow", "user"},
             {"start", "fault", "limit", "policy"}, {"start", "tick", "extern", "crash"},
             {"start", "tick", "fault", "stop"}, {"start", "error", "fault", "stop"},
             {"listen", "user", "stop", "finish"}, {"listen", "user", "fault", "progress"},
             {"listen", "start", "error", "disconnect"}, {"listen", "user", "mute", "progress"},
             {"mute", "notify", "listen", "stop"}}
=============================================================================
