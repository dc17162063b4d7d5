------------------------------ MODULE MCDelivery ------------------------------
(* Two requests for a file of two windows; every pair of outside events    *)
(* that can get in each other's way meets in one of the scenarios.         *)
EXTENDS Delivery

Span(first, last) == [first |-> first, last |-> last]
SomeAsks == {[specs |-> <<Span(0, 3)>>, etag |-> -1],
             [specs |-> <<Span(4, 9), Span(-1, 4)>>, etag |-> 5]}
Meetings == {{"get", "expire", "remove", "fault"}, {"get", "worker", "expire"}, {"get", "capacity", "pool"}, {"worker", "fault"},
             {"get", "stall", "stop"}, {"get", "tick", "relink"}, {"get", "worker", "leave"},
             {"get", "expire", "resize"}, {"get", "head", "file", "idle", "ttl"}}
=============================================================================
