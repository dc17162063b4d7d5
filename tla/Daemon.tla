------------------------------- MODULE Daemon -------------------------------
(***************************************************************************)
(* The life of the program (main, cmd, app/runtime.Manager, rte.Process,   *)
(* update.self) and of its configuration file under the calls of the panel *)
(* (app/webui, rte.Directory, configuration.manager).                      *)
(*                                                                         *)
(* A process boots, snapshots its configuration, starts the panel and in a *)
(* background transition the rest, runs until its context is cancelled,    *)
(* stops everything and decides what follows: nothing, a reset, an update  *)
(* helper or a successor.  The units are the transports whose goroutine a  *)
(* Process (the watcher: its Controller) supervises; how the reconciler    *)
(* orders units is the subject of Reconciler.                              *)
(***************************************************************************)
EXTENDS Configuration, Naturals, Sequences

CONSTANTS
    Calls,        \* calls of the panel, numbered as they arrive
    Edits,        \* what a call may change: a component, a field, a value
    OldFiles,     \* configuration files found at the first start
    Releases,     \* published versions: a dated one has a date and an edition
    Latest,       \* the latest of them; "old" runs first
    MaxRestarts,  \* Recovery.MaxRestarts of the bot (3)
    Scenarios,    \* sets of kinds of outside events; a behaviour meets those of one set
    MaxEvents     \* bound on outside events

Units == {"bot", "panel", "watch"}
Requesters == {"bot", "panel", "switch"}

DaemonAssumption ==
    /\ {"old", Latest} \subseteq DOMAIN Releases /\ "none" \notin DOMAIN Releases
    /\ \A doc \in OldFiles : IsFile(doc)
    /\ Calls \subseteq Nat \ {0} /\ {MaxRestarts, MaxEvents} \subseteq Nat
    /\ \A e \in Edits : e.id \in Components /\ e.field \in DOMAIN Schema[e.id] /\ e.value \in Text
    /\ \A S \in Scenarios : S \subseteq {"form", "field", "toggle", "system", "switch", "fault", "reboot", "update", "reset",
                                         "signal", "login", "fail", "hang", "control", "crash", "start"}

VARIABLES
    disk,      \* tdl_config.json
    wanted,    \* history: the document that the acknowledged changes make
    blind,     \* history: a versioned save replaced what its caller had not seen
    call,      \* the calls
    patchMu,   \* Directory.patchMu (and applyMu around it): its holder, or 0
    sysMu,     \* ConfigurationService.mu
    instance,  \* pkg/config: system settings of the process
    active,    \* the startup snapshot of the components
    d,         \* the process and its Manager
    transitions, turn,  \* goroutines of runTransition; the one that holds transitionMu
    proc,      \* rte.Process per unit
    hung,      \* units whose invocation ignores its context
    ask,       \* requests to reboot, update or reset
    flags,     \* processRebootRequested, processUpdatePlan, reset.pending
    owed,      \* history: what the last request asked for
    helper,    \* the update helper
    exe,       \* the executable: in place, its backup, the downloaded one
    kinds, events

vars == <<disk, wanted, blind, call, patchMu, sysMu, instance, active, d, transitions, turn, proc, hung, ask, flags, owed,
          helper, exe, kinds, events>>
fileVars == <<disk, wanted, blind>>
callVars == <<call, patchMu, sysMu>>
memory == <<instance, active>>
turnVars == <<transitions, turn>>
procVars == <<proc, hung>>
askVars == <<ask, flags, owed>>
updateVars == <<helper, exe>>

NoCall == [at |-> "idle", kind |-> "", edit |-> [id |-> "", field |-> "", value |-> ""], seen |-> <<>>, versioned |-> FALSE, doc |-> <<>>]
NoProc == [active |-> FALSE, live |-> 0, wait |-> FALSE, cancelled |-> FALSE, tries |-> 0, ready |-> FALSE]
NoTurn == [of |-> {}, todo |-> <<>>]
Off == [phase |-> "off", launch |-> FALSE, cancelled |-> FALSE, closing |-> FALSE, version |-> 0, failed |-> FALSE, todo |-> {}, busy |-> FALSE]
NoAsk == [at |-> "idle", kind |-> ""]
NoFlags == [reboot |-> FALSE, plan |-> FALSE, reset |-> FALSE]

Init ==
    /\ disk \in OldFiles /\ blind = FALSE /\ wanted = (IF disk = NoDoc THEN NoDoc ELSE Complete(disk))
    /\ call = [c \in Calls |-> NoCall] /\ patchMu = 0 /\ sysMu = 0
    /\ instance = NoDoc.system /\ active = NoDoc
    /\ d = [Off EXCEPT !.launch = TRUE] /\ transitions = {} /\ turn = NoTurn
    /\ proc = [u \in Units |-> NoProc] /\ hung = {}
    /\ ask = [r \in Requesters |-> NoAsk] /\ flags = NoFlags /\ owed = "nothing"
    /\ helper = "none" /\ exe = [target |-> "old", backup |-> "none", source |-> "none"]
    /\ kinds \in Scenarios /\ events = 0

Event(k) == k \in kinds /\ events < MaxEvents /\ events' = events + 1 /\ UNCHANGED kinds
Quiet == UNCHANGED <<kinds, events>>
Up == d.phase # "off"

-----------------------------------------------------------------------------
(* rte.Process *)

Cancelled(u) == proc[u].cancelled \/ d.cancelled

(* Start: nothing while an invocation is active or the parent has ended.   *)
Start(u) ==
    proc' = IF proc[u].active \/ d.cancelled THEN proc
            ELSE [proc EXCEPT ![u] = [NoProc EXCEPT !.active = TRUE, !.live = proc[u].live + 1]]

(* The invocation returns: after a cancellation it is simply over; after a *)
(* transient failure of the bot it is tried again; else the process ended. *)
(* The panel returns only when no request handler is left.  The bot waits  *)
(* five seconds for its handlers and may leave them behind (bot.go): they  *)
(* are not counted.                                                        *)
Handling == \/ \E c \in Calls : call[c].at \notin {"idle", "done"}
            \/ ask["panel"].at \notin {"idle", "done"} \/ ask["switch"].at \notin {"idle", "done"}
Ended(u) == [proc EXCEPT ![u].active = FALSE, ![u].live = @ - 1, ![u].wait = FALSE, ![u].ready = FALSE]
Return(u) ==
    /\ proc[u].active /\ ~proc[u].wait /\ Cancelled(u) /\ u \notin hung /\ (u = "panel" => ~Handling)
    /\ proc' = Ended(u)
    /\ UNCHANGED <<fileVars, callVars, memory, d, turnVars, hung, askVars, updateVars>> /\ Quiet
Fail(u) ==
    /\ proc[u].active /\ ~proc[u].wait /\ ~Cancelled(u) /\ (u = "panel" => ~Handling) /\ Event("fail")
    /\ \/ proc' = Ended(u)
       \/ u = "bot" /\ proc[u].tries < MaxRestarts /\ proc' = [proc EXCEPT ![u].wait = TRUE, ![u].tries = @ + 1]
    /\ hung' = hung \ {u}
    /\ UNCHANGED <<fileVars, callVars, memory, d, turnVars, askVars, updateVars>>

(* The delay before the next attempt: its timer, or the cancellation.      *)
Retry(u) ==
    /\ proc[u].wait
    /\ proc' = IF Cancelled(u) THEN Ended(u) ELSE [proc EXCEPT ![u].wait = FALSE]
    /\ UNCHANGED <<fileVars, callVars, memory, d, turnVars, hung, askVars, updateVars>> /\ Quiet

Hang(u) ==
    /\ proc[u].active /\ ~proc[u].wait /\ (u = "panel" => proc[u].ready) /\ u \notin hung /\ Event("hang") /\ hung' = hung \cup {u}
    /\ UNCHANGED <<fileVars, callVars, memory, d, turnVars, proc, askVars, updateVars>>

(* Stop: the context is cancelled, also that of an ended process; a caller *)
(* whose deadline passes changes nothing else.                             *)
StopForgetful(u) == proc' = [proc EXCEPT ![u].cancelled = TRUE, ![u].active = IF u \in hung THEN FALSE ELSE @]
Stop(u) == proc' = [proc EXCEPT ![u].cancelled = TRUE]

(* The exported controls of the bot (StartBot, StopBot), in any order.     *)
ControlStart ==
    /\ d.phase = "up" /\ Event("control") /\ Start("bot") /\ proc' # proc
    /\ UNCHANGED <<fileVars, callVars, memory, d, turnVars, hung, askVars, updateVars>>
ControlStop ==
    /\ d.phase = "up" /\ ~proc["bot"].cancelled /\ Event("control") /\ Stop("bot")
    /\ UNCHANGED <<fileVars, callVars, memory, d, turnVars, hung, askVars, updateVars>>

-----------------------------------------------------------------------------
(* Boot *)

(* PersistentPreRunE: Open reads the file or creates the defaults and      *)
(* refuses an invalid one; Install and the snapshot of NewManager keep     *)
(* what it says.                                                           *)
Opened == IF disk = NoDoc THEN Defaults ELSE Complete(disk)
Snapshot(doc) == [doc EXCEPT !.components = [id \in Components |-> doc.components[id]]]
Boot ==
    /\ d.phase = "off" /\ d.launch /\ exe.target # "none"
    /\ IF Opened = Refused
       THEN d' = Off /\ UNCHANGED <<disk, wanted, instance, active>>
       ELSE /\ IF disk = NoDoc THEN disk' = Opened /\ wanted' = Opened ELSE UNCHANGED <<disk, wanted>>
            /\ instance' = Opened.system /\ active' = Snapshot(Opened) /\ d' = [Off EXCEPT !.phase = "booted"]
    /\ UNCHANGED <<blind, callVars, turnVars, procVars, askVars, updateVars>> /\ Quiet

(* What Load makes of the snapshot for the adapters.                       *)
Enabled(id) == id = "range" \/ active.components[id].enabled
Setting(id, f) == active.components[id].values[f]

(* Run, StartWebUI: the panel starts unless it is disabled or has no       *)
(* credentials.                                                            *)
PanelEnabled == Enabled("panel") /\ Setting("panel", "username") # "" /\ Setting("panel", "password") # ""
StartWebUI ==
    /\ d.phase = "booted" /\ d' = [d EXCEPT !.phase = "web"]
    /\ IF PanelEnabled THEN Start("panel") ELSE UNCHANGED proc
    /\ UNCHANGED <<fileVars, callVars, memory, turnVars, hung, askVars, updateVars>> /\ Quiet
PanelReady ==
    /\ proc["panel"].active /\ ~proc["panel"].ready /\ "panel" \notin hung
    /\ proc' = [proc EXCEPT !["panel"].ready = TRUE]
    /\ UNCHANGED <<fileVars, callVars, memory, d, turnVars, hung, askVars, updateVars>> /\ Quiet
PanelDecided == proc["panel"].ready \/ ~proc["panel"].active \/ d.cancelled

(* ApplyConfig: version 1, reconciled by a background transition.  A       *)
(* process told to stop before goes straight to its shutdown.              *)
ApplyConfig ==
    /\ d.phase = "web" /\ PanelDecided
    /\ IF d.cancelled
       THEN d' = [d EXCEPT !.phase = "up"] /\ UNCHANGED transitions
       ELSE /\ d' = [d EXCEPT !.phase = "up", !.version = @ + 1]
            /\ transitions' = transitions \cup {[kind |-> "apply", ver |-> d.version + 1, n |-> 0]}
    /\ UNCHANGED <<fileVars, callVars, memory, turn, procVars, askVars, updateVars>> /\ Quiet

-----------------------------------------------------------------------------
(* Transitions *)

(* onLoginSuccess: a transition that restarts the watcher.                 *)
LoginSucceeds ==
    /\ proc["panel"].ready /\ Event("login")
    /\ transitions' = IF d.closing THEN transitions ELSE transitions \cup {[kind |-> "login", ver |-> d.version, n |-> events']}
    /\ UNCHANGED <<fileVars, callVars, memory, d, turn, procVars, askVars, updateVars>>

(* transition: one at a time, and not if the manager closes or a newer     *)
(* configuration was applied.                                              *)
Todo(t) == IF t.kind = "login" THEN <<"stop", "watch">> ELSE IF PanelEnabled THEN <<"bot", "panel", "watch">> ELSE <<"bot", "watch">>
TurnAllowed(t) == ~d.closing /\ d.version = t.ver
TurnBegins(t) ==
    /\ t \in transitions /\ turn = NoTurn
    /\ IF TurnAllowed(t)
       THEN turn' = [of |-> {t}, todo |-> Todo(t)] /\ UNCHANGED transitions
       ELSE transitions' = transitions \ {t} /\ UNCHANGED turn
    /\ UNCHANGED <<fileVars, callVars, memory, d, procVars, askVars, updateVars>> /\ Quiet

(* The next unit of the transition.  StopContext of the watcher waits for  *)
(* its end or that of the context; a stop that failed starts nothing; the  *)
(* start of the panel waits until it is decided.                           *)
Then == turn' = [turn EXCEPT !.todo = Tail(@)]
Starting(u) == Start(u) /\ Then
TurnStep ==
    /\ turn.todo # <<>>
    /\ LET u == Head(turn.todo) IN
       \/ u = "stop" /\ proc["watch"].active /\ ~proc["watch"].cancelled /\ Stop("watch") /\ UNCHANGED turn
       \/ u = "stop" /\ ~proc["watch"].active /\ UNCHANGED proc /\ Then
       \/ /\ u = "stop" /\ proc["watch"].active /\ d.cancelled
          /\ UNCHANGED proc /\ turn' = [turn EXCEPT !.todo = <<>>]
       \/ u = "panel" /\ Start(u) /\ turn' = [turn EXCEPT !.todo = (IF proc' = proc THEN <<>> ELSE <<"ready">>) \o Tail(@)]
       \/ u = "ready" /\ PanelDecided /\ UNCHANGED proc /\ Then
       \/ u \in {"bot", "watch"} /\ Starting(u)
    /\ UNCHANGED <<fileVars, callVars, memory, d, transitions, hung, askVars, updateVars>> /\ Quiet

TurnEnds ==
    /\ turn # NoTurn /\ turn.todo = <<>>
    /\ transitions' = transitions \ turn.of /\ turn' = NoTurn
    /\ UNCHANGED <<fileVars, callVars, memory, d, procVars, askVars, updateVars>> /\ Quiet

-----------------------------------------------------------------------------
(* Calls of the panel.  Each read and each write of the file is atomic     *)
(* (Service.mu, a rename); the locks around them are not those.            *)

Saved == Complete(disk)
Write(doc) == disk' = doc
At(c, pc) == call[c].at = pc
Next1(S) == CHOOSE c \in S : \A e \in S : c <= e
Idle == {c \in Calls : At(c, "idle")}
Kinds == {"form", "field", "toggle", "system", "switch"}
First(k) == CASE k \in {"form", "toggle"} -> "view" [] k = "field" -> "lock" [] k = "system" -> "system" [] OTHER -> "current"

(* A form is shown, edited and sent back whole with its revision; a field  *)
(* is sent alone and without one.  The listener cannot be switched off.    *)
Begin(k, e) ==
    /\ Idle # {} /\ proc["panel"].ready /\ ~Cancelled("panel") /\ Event(k)
    /\ k \in {"system", "switch"} => e = CHOOSE x \in Edits : TRUE
    /\ call' = [call EXCEPT ![Next1(Idle)] =
                   [NoCall EXCEPT !.at = IF k = "toggle" /\ e.id = "range" THEN "done" ELSE First(k),
                                  !.kind = k, !.edit = e, !.versioned = k \in {"form", "toggle"}]]
    /\ UNCHANGED <<fileVars, patchMu, sysMu, memory, d, turnVars, procVars, askVars, updateVars>>

File == <<fileVars, sysMu, memory, d, turnVars, procVars, askVars, updateVars>>
Step(c, pc) == call' = [call EXCEPT ![c].at = pc]

(* Configurations: for each component the revision, then the document.     *)
View1(c) ==
    /\ At(c, "view") /\ patchMu = 0 /\ patchMu' = c
    /\ call' = [call EXCEPT ![c].at = "read", ![c].seen = Saved.components[call[c].edit.id]]
    /\ UNCHANGED File /\ Quiet
View2(c) ==
    /\ At(c, "read") /\ patchMu' = 0
    /\ LET shown == Saved.components[call[c].edit.id] IN
       call' = [call EXCEPT ![c].at = "lock", ![c].doc = [shown EXCEPT !.values = PublicValues(call[c].edit.id, @)]]
    /\ UNCHANGED File /\ Quiet

(* PatchWithRevision, SetEnabledWithRevision: the revision is compared     *)
(* under patchMu, which is kept until the save.                            *)
Conflict(c) == call[c].versioned /\ Saved.components[call[c].edit.id] # call[c].seen
LockShared(c) ==
    /\ At(c, "lock")
    /\ Step(c, IF Conflict(c) THEN "done" ELSE "load")
    /\ patchMu' = IF Conflict(c) THEN 0 ELSE c
    /\ UNCHANGED File /\ Quiet
Lock(c) ==
    /\ At(c, "lock") /\ patchMu = 0
    /\ Step(c, IF Conflict(c) THEN "done" ELSE "load")
    /\ patchMu' = IF Conflict(c) THEN 0 ELSE c
    /\ UNCHANGED File /\ Quiet

Patch(c) ==
    LET e == call[c].edit IN
    IF call[c].kind = "field" THEN [f \in {e.field} |-> e.value]
    ELSE [f \in DOMAIN Schema[e.id] |-> IF f = e.field THEN e.value ELSE IF Schema[e.id][f].secret THEN "" ELSE call[c].doc.values[f]]
Changed(c, now) ==
    IF call[c].kind = "toggle" THEN [now EXCEPT !.enabled = ~call[c].doc.enabled]
    ELSE [now EXCEPT !.values = View(call[c].edit.id, Merge(call[c].edit.id, @, Patch(c)))]
LoadHolding(c) ==
    /\ At(c, "load")
    /\ LET new == Changed(c, Saved.components[call[c].edit.id]) IN
       IF new.values = RefusedView THEN Step(c, "done") /\ UNCHANGED patchMu
       ELSE call' = [call EXCEPT ![c].at = "save", ![c].doc = new] /\ UNCHANGED patchMu
    /\ UNCHANGED File /\ Quiet
Load(c) ==
    /\ At(c, "load")
    /\ LET new == Changed(c, Saved.components[call[c].edit.id]) IN
       IF new.values = RefusedView THEN Step(c, "done") /\ patchMu' = 0
       ELSE call' = [call EXCEPT ![c].at = "save", ![c].doc = new] /\ UNCHANGED patchMu
    /\ UNCHANGED File /\ Quiet

(* What the caller wants of a document.                                    *)
Intent(c, doc) ==
    LET e == call[c].edit IN
    CASE call[c].kind = "toggle" -> [doc EXCEPT !.components[e.id].enabled = ~@]
      [] call[c].kind = "system" -> [doc EXCEPT !.system.debug = TRUE]
      [] call[c].kind = "switch" -> [doc EXCEPT !.system.namespace = "b"]
      [] OTHER -> [doc EXCEPT !.components[e.id].values[e.field] = IF Schema[e.id][e.field].secret /\ e.value = "" THEN @ ELSE e.value]

(* Save: read, replace the component, write; a failed write changes        *)
(* nothing.                                                                *)
Save(c) ==
    /\ At(c, "save") /\ Step(c, "done") /\ patchMu' = 0
    /\ \/ /\ Quiet /\ Write([Saved EXCEPT !.components[call[c].edit.id] = call[c].doc])
          /\ wanted' = Intent(c, wanted)
          /\ blind' = (blind \/ Conflict(c))
       \/ Event("fault") /\ UNCHANGED fileVars
    /\ UNCHANGED <<sysMu, memory, d, turnVars, procVars, askVars, updateVars>>

(* ConfigurationService.Patch: under its own lock the settings are read    *)
(* and replaced, unless somebody else changed them (SetSystem).            *)
ReadSystem(c) ==
    /\ At(c, "system") /\ sysMu = 0 /\ sysMu' = c
    /\ call' = [call EXCEPT ![c].at = "set", ![c].seen = Saved.system]
    /\ UNCHANGED <<fileVars, patchMu, memory, d, turnVars, procVars, askVars, updateVars>> /\ Quiet
SetSystem(c) ==
    /\ At(c, "set") /\ Step(c, "done") /\ sysMu' = 0
    /\ \/ /\ Quiet
          /\ IF Saved.system = call[c].seen
             THEN Write([Saved EXCEPT !.system.debug = TRUE]) /\ wanted' = Intent(c, wanted) ELSE UNCHANGED <<disk, wanted>>
       \/ Event("fault") /\ UNCHANGED <<disk, wanted>>
    /\ UNCHANGED <<blind, patchMu, memory, d, turnVars, procVars, askVars, updateVars>>

(* Actions.Switch, one at a time, and SelectNamespace: the selection is    *)
(* compared with that of the process, the settings with those in the file; *)
(* then the panel asks for a restart.                                      *)
Current(c) ==
    /\ At(c, "current")
    /\ LET refused == (\E o \in Calls : At(o, "select")) \/ instance.namespace = "b" IN
       call' = [call EXCEPT ![c].at = IF refused THEN "done" ELSE "select", ![c].seen = instance]
    /\ UNCHANGED <<fileVars, patchMu, sysMu, memory, d, turnVars, procVars, askVars, updateVars>> /\ Quiet
Select(c) ==
    /\ At(c, "select") /\ Step(c, "done")
    /\ \/ /\ Quiet /\ instance.namespace = call[c].seen.namespace /\ Saved.system = instance
          /\ Write([Saved EXCEPT !.system.namespace = "b"]) /\ wanted' = Intent(c, wanted)
          /\ instance' = [instance EXCEPT !.namespace = "b"] /\ ask' = [ask EXCEPT !["switch"] = [at |-> "first", kind |-> "reboot"]]
       \/ /\ IF instance.namespace = call[c].seen.namespace /\ Saved.system = instance THEN Event("fault") ELSE Quiet
          /\ UNCHANGED <<disk, wanted, instance, ask>>
    /\ UNCHANGED <<blind, patchMu, sysMu, active, d, turnVars, procVars, flags, owed, updateVars>>

(* A cancelled request ends where it checks its context.                   *)
Abort(c) ==
    /\ d.cancelled /\ call[c].at \notin {"idle", "done"} /\ Step(c, "done")
    /\ patchMu' = (IF patchMu = c THEN 0 ELSE patchMu) /\ sysMu' = (IF sysMu = c THEN 0 ELSE sysMu)
    /\ UNCHANGED <<fileVars, memory, d, turnVars, procVars, askVars, updateVars>> /\ Quiet

-----------------------------------------------------------------------------
(* Requests to end the process *)

Signal ==
    /\ Up /\ ~d.cancelled /\ Event("signal") /\ d' = [d EXCEPT !.cancelled = TRUE]
    /\ UNCHANGED <<fileVars, callVars, memory, turnVars, procVars, askVars, updateVars>>

(* A command of the bot, or a request to the panel, of which only one at a *)
(* time is taken (shutdownRequested); an update is downloaded first.       *)
Asking(r, k) == ask' = [ask EXCEPT ![r] = [at |-> IF k = "update" THEN "download" ELSE "first", kind |-> k]]
AskBot ==
    /\ ask["bot"].at \in {"idle", "done"} /\ proc["bot"].active
    /\ \E k \in {"reboot", "update"} : Event(k) /\ Asking("bot", k)
    /\ UNCHANGED <<fileVars, callVars, memory, d, turnVars, procVars, flags, owed, updateVars>>
AskPanel ==
    /\ ask["panel"].at \in {"idle", "done"} /\ proc["panel"].active /\ proc["panel"].ready
    /\ ~d.busy /\ d' = [d EXCEPT !.busy = TRUE]
    /\ \E k \in {"reboot", "update", "reset"} : Event(k) /\ Asking("panel", k)
    /\ UNCHANGED <<fileVars, callVars, memory, turnVars, procVars, flags, owed, updateVars>>

(* The bot installs the latest release if it is newer than a dated version *)
(* or the program is a development build, the panel any other one.         *)
Older(a, b) == a.date < b.date \/ (a.date = b.date /\ a.edition < b.edition)
NeedsUpdate(current, latest) ==
    latest.dated /\ (current.build \/ (current.dated /\ Older(current, latest)))
Offered(r) ==
    IF r = "bot" THEN {v \in {Latest} : NeedsUpdate(Releases[exe.target], Releases[v])}
    ELSE DOMAIN Releases \ {exe.target}

(* downloadRelease: the new executable in a temporary directory; a failed  *)
(* or cancelled download frees the panel for another request.  Each plan   *)
(* has a directory of its own in the code; no property asks which of two   *)
(* overlapping downloads is installed, and the model keeps the last.       *)
Download(r) ==
    /\ ask[r].at = "download"
    /\ \/ /\ ~d.cancelled /\ UNCHANGED d /\ Quiet
          /\ \E v \in Offered(r) : exe' = [exe EXCEPT !.source = v]
          /\ ask' = [ask EXCEPT ![r].at = "first"]
       \/ /\ IF d.cancelled \/ Offered(r) = {} THEN Quiet ELSE Event("fault")
          /\ ask' = [ask EXCEPT ![r] = NoAsk] /\ UNCHANGED exe
          /\ d' = IF r = "panel" THEN [d EXCEPT !.busy = FALSE] ELSE d
    /\ UNCHANGED <<fileVars, callVars, memory, turnVars, procVars, flags, owed, helper>>

(* RequestReboot, RequestUpdate and reset.Request: two writes that are not *)
(* one, then the cancellation.                                             *)
Alone(r) == \A q \in Requesters \ {r} : ask[q].at # "second"
FirstWrite(r) ==
    /\ ask[r].at = "first" /\ ask' = [ask EXCEPT ![r].at = "second"]
    /\ flags' = CASE ask[r].kind = "reboot" -> [flags EXCEPT !.reboot = TRUE]
                  [] ask[r].kind = "update" -> [flags EXCEPT !.reboot = FALSE]
                  [] OTHER -> [flags EXCEPT !.reset = TRUE]
    /\ owed' = IF Alone(r) /\ owed # "either" THEN owed ELSE "either"
    /\ UNCHANGED <<fileVars, callVars, memory, d, turnVars, procVars, updateVars>> /\ Quiet
SecondWrite(r) ==
    /\ ask[r].at = "second" /\ ask' = [ask EXCEPT ![r].at = "done"]
    /\ flags' = CASE ask[r].kind = "reboot" -> [flags EXCEPT !.plan = FALSE]
                  [] ask[r].kind = "update" -> [flags EXCEPT !.plan = TRUE]
                  [] OTHER -> flags
    /\ owed' = IF owed = "either" THEN owed ELSE ask[r].kind
    /\ d' = [d EXCEPT !.cancelled = TRUE]
    /\ UNCHANGED <<fileVars, callVars, memory, turnVars, procVars, updateVars>> /\ Quiet

-----------------------------------------------------------------------------
(* Shutdown *)

(* closing is set and the version moved on under scheduleMu: no transition *)
(* is added any more.                                                      *)
Closing ==
    /\ d.phase = "up" /\ d.cancelled /\ d' = [d EXCEPT !.phase = "drain", !.closing = TRUE, !.version = @ + 1]
    /\ UNCHANGED <<fileVars, callVars, memory, turnVars, procVars, askVars, updateVars>> /\ Quiet

(* transitionWG.Wait, then everything is disabled.                         *)
Drained ==
    /\ d.phase = "drain" /\ transitions = {} /\ turn = NoTurn
    /\ d' = [d EXCEPT !.phase = "stopping", !.todo = Units]
    /\ UNCHANGED <<fileVars, callVars, memory, turnVars, procVars, askVars, updateVars>> /\ Quiet

(* stopResource: within ten seconds the unit has ended, or its stop failed *)
(* and the instance is kept.                                               *)
StopUnit(u) ==
    /\ d.phase = "stopping" /\ u \in d.todo
    /\ \/ ~proc[u].cancelled /\ Stop(u) /\ UNCHANGED d
       \/ proc[u].cancelled /\ ~proc[u].active /\ d' = [d EXCEPT !.todo = @ \ {u}] /\ UNCHANGED proc
       \/ proc[u].cancelled /\ proc[u].active /\ u \in hung /\ d' = [d EXCEPT !.todo = @ \ {u}, !.failed = TRUE] /\ UNCHANGED proc
    /\ UNCHANGED <<fileVars, callVars, memory, turnVars, hung, askVars, updateVars>> /\ Quiet

(* Run returns; the storage and the log are closed.                        *)
Left ==
    /\ d.phase = "stopping" /\ d.todo = {} /\ d' = [d EXCEPT !.phase = "left"]
    /\ UNCHANGED <<fileVars, callVars, memory, turnVars, procVars, askVars, updateVars>> /\ Quiet

(* The process is gone with all it had in memory.                          *)
Gone(launch) ==
    /\ d' = [Off EXCEPT !.launch = launch] /\ call' = [c \in Calls |-> IF call[c].at = "idle" THEN NoCall ELSE [NoCall EXCEPT !.at = "done"]]
    /\ patchMu' = 0 /\ sysMu' = 0 /\ instance' = NoDoc.system /\ active' = NoDoc /\ transitions' = {} /\ turn' = NoTurn
    /\ proc' = [u \in Units |-> NoProc] /\ hung' = {} /\ ask' = [r \in Requesters |-> NoAsk] /\ flags' = NoFlags

(* main: exit 1 after an error, else a reset, an update, a successor, or   *)
(* nothing; what fails now is not tried again.                             *)
Verdict == IF d.failed THEN "failed" ELSE IF flags.reset THEN "reset" ELSE IF flags.plan THEN "update" ELSE IF flags.reboot THEN "reboot" ELSE "nothing"
Decide ==
    /\ d.phase = "left"
    /\ \E done \in {Verdict, "failed"} :
          /\ IF done = Verdict THEN Quiet ELSE Verdict # "nothing" /\ Event("fault")
          /\ Gone(done = "reboot")
          /\ IF done = "reset" THEN disk' = NoDoc /\ wanted' = NoDoc ELSE UNCHANGED <<disk, wanted>>
          /\ helper' = IF done = "update" THEN "clear" ELSE helper
    /\ owed' = "nothing"
    /\ UNCHANGED <<blind, exe>>

Crash ==
    /\ Up /\ Event("crash") /\ Gone(FALSE) /\ owed' = "nothing" /\ UNCHANGED <<fileVars, updateVars>>
Launch ==
    /\ ~Up /\ ~d.launch /\ helper \in {"none", "dead"} /\ Event("start") /\ d' = [d EXCEPT !.launch = TRUE]
    /\ UNCHANGED <<fileVars, callVars, memory, turnVars, procVars, askVars, updateVars>>

(* The helper has waited for the exit of the process (RunApply): it clears *)
(* an old backup, renames the executable to it, installs the new one, or   *)
(* restores the old, and starts what it installed.                         *)
Restore == IF exe.backup # "none" THEN [exe EXCEPT !.target = exe.backup, !.backup = "none"] ELSE exe
HelperStep ==
    /\ \/ helper = "clear" /\ exe' = [exe EXCEPT !.backup = "none"] /\ helper' = "backup" /\ UNCHANGED d /\ Quiet
       \/ helper = "backup" /\ exe' = [exe EXCEPT !.backup = exe.target, !.target = "none"] /\ helper' = "install" /\ UNCHANGED d /\ Quiet
       \/ helper = "backup" /\ Event("fault") /\ helper' = "none" /\ UNCHANGED <<exe, d>>
       \/ /\ helper = "install" /\ exe' = [exe EXCEPT !.target = exe.source, !.source = "none"] /\ helper' = "tidy" /\ UNCHANGED d /\ Quiet
       \/ helper = "install" /\ Event("fault") /\ exe' = Restore /\ helper' = "none" /\ UNCHANGED d
       \/ helper = "tidy" /\ exe' = [exe EXCEPT !.backup = "none"] /\ helper' = "none" /\ d' = [d EXCEPT !.launch = TRUE] /\ Quiet
       \/ helper = "tidy" /\ Event("fault") /\ exe' = [exe EXCEPT !.backup = "none"] /\ helper' = "none" /\ UNCHANGED d
    /\ UNCHANGED <<fileVars, callVars, memory, turnVars, procVars, askVars>>
HelperCrash ==
    /\ helper \notin {"none", "dead"} /\ Event("crash") /\ helper' = "dead"
    /\ UNCHANGED <<fileVars, callVars, memory, d, turnVars, procVars, askVars, exe>>

-----------------------------------------------------------------------------
Outside ==
    \/ \E u \in Units : Fail(u) \/ Hang(u)
    \/ \E k \in Kinds, e \in Edits : Begin(k, e)
    \/ AskBot \/ AskPanel
    \/ ControlStart \/ ControlStop \/ LoginSucceeds \/ Signal \/ Crash \/ Launch \/ HelperCrash

Internal ==
    \/ \E u \in Units : Return(u) \/ Retry(u) \/ StopUnit(u)
    \/ Boot \/ StartWebUI \/ PanelReady \/ ApplyConfig
    \/ \E t \in transitions : TurnBegins(t)
    \/ TurnStep \/ TurnEnds
    \/ \E c \in Calls : \/ View1(c) \/ View2(c) \/ Lock(c) \/ Load(c) \/ Save(c)
                        \/ ReadSystem(c) \/ SetSystem(c) \/ Current(c) \/ Select(c) \/ Abort(c)
    \/ \E r \in Requesters : Download(r) \/ FirstWrite(r) \/ SecondWrite(r)
    \/ Closing \/ Drained \/ Left \/ Decide \/ HelperStep

Next == Outside \/ Internal

(* Goroutines keep running, invocations that are not hung heed their       *)
(* context, and the ten seconds of a stop pass.                            *)
Spec == Init /\ [][Next]_vars /\ WF_vars(Internal)

-----------------------------------------------------------------------------
(* The file says what the acknowledged changes make of it: none is lost or *)
(* undone by another, whatever their order, by failed writes, restarts or  *)
(* crashes; a form sent back whole changes only what was edited and keeps  *)
(* the secrets it never showed; and a save with a revision never replaces  *)
(* what its caller had not seen ("configuration changed; reload before     *)
(* saving", rte/directory.go).                                             *)
SavesExact == (disk # NoDoc => Saved = wanted) /\ ~blind

(* "a hung invocation is never duplicated or forcefully replaced"          *)
(* (rte/process.go): a process runs one invocation at a time and counts as *)
(* active exactly while it does, also when its stop ran out of time and it *)
(* is started again.                                                       *)
OneInvocation == \A u \in Units : proc[u].live = IF proc[u].active THEN 1 ELSE 0

(* When Run has returned without an error nothing of the process is left   *)
(* that could use the storage main then closes, or the files it resets or  *)
(* replaces: no invocation, transition or request of the panel.  Handlers  *)
(* of the bot may outlive its invocation and are not spoken of.            *)
CleanExit ==
    (d.phase = "left" /\ ~d.failed) =>
        /\ \A u \in Units : proc[u].live = 0
        /\ transitions = {} /\ turn = NoTurn /\ ~Handling

(* The process ends the way the last request asked for, a reset before     *)
(* all; a later request undoes an earlier one.  Requests whose two writes  *)
(* overlap may cancel each other out and are left open.                    *)
RestartHonoured ==
    (d.phase = "left" /\ ~d.failed /\ \A r \in Requesters : ask[r].at # "second") =>
        /\ (owed = "reset" \/ flags.reset) => Verdict = "reset"
        /\ (owed \in {"reboot", "update"} /\ ~flags.reset) => Verdict = owed

(* Whatever fails or dies during an update, a whole executable is kept: in *)
(* place unless the helper died between its two renames, and then beside   *)
(* it.                                                                     *)
ExecutableKept ==
    /\ helper \in {"none", "clear", "backup", "tidy"} => exe.target # "none"
    /\ exe.target # "none" \/ exe.backup # "none"

(* Every call is answered, every transition and request comes to its end,  *)
(* and the process runs or is gone; only a watcher that ignores its stop   *)
(* may hold up a transition.                                               *)
Settled ==
    /\ \/ d.phase = "up" /\ ~d.cancelled
       \/ d.phase = "off" /\ (d.launch => exe.target = "none")
    /\ \A c \in Calls : call[c].at \in {"idle", "done"}
    /\ \A r \in Requesters : ask[r].at \in {"idle", "done"}
    /\ "watch" \notin hung => transitions = {} /\ turn = NoTurn
    /\ patchMu = 0 /\ sysMu = 0 /\ helper \in {"none", "dead"} /\ \A u \in Units : ~proc[u].wait
=============================================================================
