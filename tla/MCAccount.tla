------------------------------ MODULE MCAccount ------------------------------
(* The watcher and one probe; every pair of outside events that can get in *)
(* each other's way meets in one of the scenarios.                         *)
EXTENDS Account

CONSTANTS w, p

Meetings == {{"web", "bot", "cancel"}, {"bot", "fault", "update"}, {"web", "delete", "switch"},
             {"web", "wrong", "store"}, {"probe", "fault", "cancel"}, {"bot", "probe", "stop"}}
=============================================================================
