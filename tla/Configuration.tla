--------------------------- MODULE Configuration ---------------------------
(***************************************************************************)
(* The configuration document (tdl_config.json) as its owner               *)
(* configuration.manager, the component catalog and the directory read,    *)
(* complete, change and compare it.                                        *)
(*                                                                         *)
(* A document has system settings and, per component, whether it is        *)
(* enabled and the values of its fields.  A file may leave out components  *)
(* and fields; reading completes it.  Values are abstract: "" is the empty *)
(* text and "bad" one the schema of its field refuses.                     *)
(***************************************************************************)

Text == {"", "x", "y", "bad"}

\* The declared fields of the components that the properties tell apart.
Schema ==
    [panel   |-> [username |-> [default |-> "x", secret |-> FALSE, nonempty |-> TRUE],
                  password |-> [default |-> "x", secret |-> TRUE,  nonempty |-> FALSE]],
     clock   |-> [server   |-> [default |-> "x", secret |-> FALSE, nonempty |-> FALSE]],
     forward |-> [listen   |-> [default |-> "",  secret |-> FALSE, nonempty |-> FALSE]],
     range   |-> [port     |-> [default |-> "x", secret |-> FALSE, nonempty |-> TRUE]],
     account |-> [proxy    |-> [default |-> "",  secret |-> FALSE, nonempty |-> FALSE]]]
Components == DOMAIN Schema

\* What a file can be read as: both parts are there, whatever components they name.
IsFile(doc) ==
    /\ doc = [system |-> doc.system, components |-> doc.components]
    /\ doc.system = [namespace |-> doc.system.namespace, debug |-> doc.system.debug]

NoDoc   == [system |-> [namespace |-> "", debug |-> FALSE], components |-> <<>>]
Refused == [system |-> [namespace |-> "", debug |-> TRUE], components |-> <<>>]
NoValues == <<>>
RefusedView == [refused |-> TRUE]

Validate(field, value) == value # "bad" /\ (field.nonempty => value # "")

Given(values, f, default) == IF f \in DOMAIN values THEN values[f] ELSE default

\* A view has every declared field, absent ones from the schema; undeclared
\* or invalid ones are refused.
View(id, values) ==
    LET fields == Schema[id]
        view == [f \in DOMAIN fields |-> Given(values, f, fields[f].default)]
    IN IF DOMAIN values \subseteq DOMAIN fields /\ \A f \in DOMAIN fields : Validate(fields[f], view[f])
       THEN view ELSE RefusedView

Without(values, f) == [g \in DOMAIN values \ {f} |-> values[g]]
With(f, key, value) == [k \in DOMAIN f \cup {key} |-> IF k = key THEN value ELSE f[k]]

\* Files from before time synchronisation was a component kept its server
\* with the account.
MigrateTime(components) ==
    IF "account" \notin DOMAIN components \/ "ntp" \notin DOMAIN components["account"].values THEN components
    ELSE LET account == components["account"]
             clock == IF "clock" \in DOMAIN components THEN components["clock"]
                      ELSE [enabled |-> TRUE, values |-> NoValues]
             server == Given(clock.values, "server", account.values["ntp"])
         IN With(With(components, "account", [account EXCEPT !.values = Without(@, "ntp")]),
                 "clock", [clock EXCEPT !.values = With(@, "server", server)])

\* Every component is present and complete; the listener of the links is
\* always enabled, forwarding only if asked for.
Complete(doc) ==
    LET given == MigrateTime(doc.components)
        view(id) == View(id, Given(given, id, [values |-> NoValues]).values)
        enabled(id) == IF id = "range" THEN TRUE ELSE IF id \in DOMAIN given THEN given[id].enabled ELSE id # "forward"
    IN IF doc.system.namespace # "" /\ DOMAIN given \subseteq Components /\ \A id \in Components : view(id) # RefusedView
       THEN [doc EXCEPT !.components = [id \in Components |-> [enabled |-> enabled(id), values |-> view(id)]]]
       ELSE Refused

Defaults == Complete([system |-> [namespace |-> "a", debug |-> FALSE], components |-> <<>>])

\* An empty secret in a patch keeps the saved one.  (EmptyPreserves asks the same for the API
\* id of the account's credentials, a field that Schema leaves out.)
Kept(id, patch, f) == f \in DOMAIN Schema[id] /\ Schema[id][f].secret /\ patch[f] = ""
Merge(id, values, patch) ==
    [f \in DOMAIN values \cup DOMAIN patch |->
        IF f \in DOMAIN patch /\ ~Kept(id, patch, f) THEN patch[f] ELSE values[f]]

\* What the panel shows has no secrets.
PublicValues(id, values) == [f \in {g \in DOMAIN values : ~Schema[id][g].secret} |-> values[f]]
=============================================================================
