------------------------------ MODULE MCDaemon ------------------------------
(* Two calls; the first file is absent, from before the clock was a        *)
(* component, or invalid.                                                  *)
EXTENDS DaemonProcess

Edit(id, field, value) == [id |-> id, field |-> field, value |-> value]
SomeEdits == {Edit("panel", "username", "y"), Edit("panel", "password", ""), Edit("panel", "username", "bad"), Edit("range", "port", "y")}
Old == [system |-> [namespace |-> "a", debug |-> FALSE],
        components |-> [account |-> [enabled |-> TRUE, values |-> [ntp |-> "y"]]]]
Broken == [Old EXCEPT !.components = [panel |-> [enabled |-> TRUE, values |-> [username |-> ""]]]]
Absent == [system |-> [namespace |-> "", debug |-> FALSE], components |-> <<>>]
Files == {Absent, Old, Broken}
Published == [old |-> [dated |-> TRUE, build |-> FALSE, date |-> 1, edition |-> 2],
              new |-> [dated |-> TRUE, build |-> FALSE, date |-> 1, edition |-> 10]]
Meetings == {{"form", "field", "fault"}, {"form", "toggle", "crash", "start"}, {"field", "system", "switch"}, {"system", "switch", "fault"}, {"switch", "reset", "signal"},
             {"reboot", "update", "fault"}, {"update", "crash", "start"}, {"reset", "reboot", "fail"},
             {"hang", "control"}, {"hang", "login", "signal"}, {"login", "fail", "signal"}}
=============================================================================
