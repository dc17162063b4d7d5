---------------------------- MODULE Aria2Events ----------------------------
(***************************************************************************)
(* The bot's aria2 event listener (app/bot/aria2_events.go) beside the     *)
(* governors: the daemon reports every start, pause and end over a         *)
(* websocket; each report has a handler of its own, and a started download *)
(* has a loop that keeps its progress message up to date.  Handlers of one *)
(* task run at the same time and in any order.  Messages go out through    *)
(* the notification component (application/notify.telegram), which may be  *)
(* switched off and on meanwhile.  The texts and the recipients of the     *)
(* messages are left out; whether a message could be sent is a choice.     *)
(***************************************************************************)
EXTENDS Aria2Governors

CONSTANTS
    Slots,      \* handlers that may run at once
    Loops,      \* identities of progress loops
    MaxInbox    \* reports on the way; further ones find the websocket closed

EventsAssumption ==
    Slots \subseteq Nat /\ Loops \subseteq Nat /\ None \notin Loops /\ MaxInbox \in Nat

VARIABLES
    lis,        \* the listener: connection, stop, whether its context ended
    inbox,      \* reports received and not yet read
    handlers,   \* the handler in each slot
    items,      \* aria2ProgressTracker.items: the loop of every task
    loops,      \* the progress loops
    notes       \* notify.telegram: open, queued texts, whether one is being delivered

evtVars == <<lis, inbox, handlers, items, loops, notes>>
vars == <<govVars, evtVars>>

Free == [pc |-> "free", kind |-> None, task |-> None]
NoLoop == [pc |-> "free", task |-> None, canceled |-> FALSE]

EvtInit ==
    /\ lis = [pc |-> "off", stop |-> FALSE, ended |-> FALSE, closed |-> FALSE]
    /\ inbox = <<>> /\ handlers = [s \in Slots |-> Free]
    /\ items = [t \in Tasks |-> None] /\ loops = [l \in Loops |-> NoLoop]
    /\ notes = [pc |-> "open", queue |-> 0, busy |-> FALSE]

Init == GovInit /\ EvtInit

\* What the daemon reports of a task whose status changes.
Reports(t) ==
    CASE remote[t] # "active" /\ remote'[t] = "active" -> <<[kind |-> "start", task |-> t]>>
      [] remote[t] # "paused" /\ remote'[t] = "paused" -> <<[kind |-> "pause", task |-> t]>>
      [] remote[t] # "done" /\ remote'[t] = "done" -> <<[kind |-> "end", task |-> t]>>
      [] OTHER -> <<>>

\* A step of the rest of the system changes at most one task; its report is delivered
\* to a connected listener.
Reported ==
    LET changed == {t \in Tasks : remote'[t] # remote[t]} IN
    /\ inbox' = IF changed = {} \/ lis.pc # "up" \/ Len(inbox) = MaxInbox THEN inbox
                ELSE inbox \o Reports(CHOOSE t \in changed : TRUE)
    /\ UNCHANGED <<lis, handlers, items, loops, notes>>

----------------------------------------------------------------------------
(* notify.telegram. *)

\* Service.begin: a call is counted under the lock that Stop closes the component with.
MayCall == notes.pc = "open"
Calling == \/ notes.busy \/ \E s \in Slots : handlers[s].pc = "sending"
           \/ \E l \in Loops : loops[l].pc = "edit"

\* Enqueue (botNotifier.Notify): a closed component refuses, else the bus delivers later.  One
\* text waits at a time here, 64 in the code; a text the full bus refuses is lost, which is
\* the step that is not taken.
Enqueue ==
    /\ notes.queue = 0 /\ Event("notify")
    /\ notes' = IF MayCall THEN [notes EXCEPT !.queue = 1] ELSE notes
    /\ UNCHANGED <<lis, inbox, handlers, items, loops>>

\* deliverEvent, one text at a time.
Deliver ==
    /\ \/ notes.queue > 0 /\ ~notes.busy /\ MayCall
          /\ notes' = [notes EXCEPT !.queue = @ - 1, !.busy = TRUE]
       \/ notes.busy /\ notes' = [notes EXCEPT !.busy = FALSE]
    /\ Quiet /\ UNCHANGED <<lis, inbox, handlers, items, loops>>

\* Service.Stop: when the component is switched off, and by the bot after its listener
\* has ended.  What is queued finds it closed; the calls under way are cancelled and
\* waited for.
StopNotes ==
    /\ notes.pc = "open"
    /\ IF lis.closed /\ lis.pc = "off" THEN Quiet ELSE Event("mute")
    /\ notes' = [notes EXCEPT !.pc = "closing", !.queue = 0]
    /\ UNCHANGED <<lis, inbox, handlers, items, loops>>
NotesStopped ==
    /\ notes.pc = "closing" /\ ~Calling
    /\ notes' = [notes EXCEPT !.pc = "closed"]
    /\ Quiet /\ UNCHANGED <<lis, inbox, handlers, items, loops>>

\* ReconcileBotHost builds a new component.
StartNotes ==
    /\ notes.pc = "closed" /\ ~lis.closed /\ Event("mute")
    /\ notes' = [pc |-> "open", queue |-> 0, busy |-> FALSE]
    /\ UNCHANGED <<lis, inbox, handlers, items, loops>>

----------------------------------------------------------------------------
(* aria2ProgressTracker. *)

Alive(l) == loops[l].pc # "free"
Canceled(S) == [l \in Loops |-> IF l \in S /\ Alive(l) THEN [loops[l] EXCEPT !.canceled = TRUE] ELSE loops[l]]

\* A new loop replaces the entry of an old one, which is cancelled; the loop's
\* context ends with the connection it was started under.
Track(t, l) ==
    /\ loops' = [Canceled({items[t]}) EXCEPT ![l] = [pc |-> "wait", task |-> t, canceled |-> lis.ended]]
    /\ items' = [items EXCEPT ![t] = l]

Untrack(t) == loops' = Canceled({items[t]}) /\ items' = [items EXCEPT ![t] = None]

\* The end of a loop: it may only remove its own entry.
LoopEnds(l) ==
    /\ loops' = [loops EXCEPT ![l] = NoLoop]
    /\ items' = [items EXCEPT ![loops[l].task] = IF @ = l THEN None ELSE @]

\* A tick of the loop asks for the status and edits the message, which a cancellation
\* does not interrupt; the loop ends with the download, an error or its context.
ProgressLoop(l) ==
    LET t == loops[l].task IN
    /\ \/ loops[l].pc = "wait" /\ loops[l].canceled /\ LoopEnds(l) /\ Quiet
       \/ /\ loops[l].pc = "wait" /\ ~loops[l].canceled /\ Registered(t) /\ remote[t] # "done"
          /\ loops' = IF MayCall THEN [loops EXCEPT ![l].pc = "edit"] ELSE loops
          /\ UNCHANGED items /\ Event("progress")
       \/ loops[l].pc = "wait" /\ (~Registered(t) \/ remote[t] = "done") /\ LoopEnds(l) /\ Quiet
       \/ loops[l].pc = "wait" /\ Event("fault") /\ LoopEnds(l)
       \/ loops[l].pc = "edit" /\ loops' = [loops EXCEPT ![l].pc = "wait"] /\ UNCHANGED items /\ Quiet
    /\ UNCHANGED <<lis, inbox, handlers, notes>>

----------------------------------------------------------------------------
(* The handlers. *)

Handler(s, next) == handlers' = [handlers EXCEPT ![s] = next]
Ask(s) == Handler(s, [handlers[s] EXCEPT !.pc = "tell"])

\* handleAria2Event: a pause or an end first stops the loop, then asks for the task.
Handle(s) ==
    /\ handlers[s].pc = "begin"
    /\ Ask(s)
    /\ IF handlers[s].kind = "start" THEN UNCHANGED <<items, loops>> ELSE Untrack(handlers[s].task)
    /\ Quiet /\ UNCHANGED <<lis, inbox, notes>>

\* TellStatus fails for a task of another account; a started download gets a message.  Which
\* kinds of events are told (OnDownloadStart and the others) is a setting that may change at
\* any time: the model tells all of them, or gives up as after a fault.
HandlerTells(s) ==
    /\ handlers[s].pc = "tell"
    /\ IF ~Registered(handlers[s].task) \/ lis.ended THEN Handler(s, Free) /\ Quiet
       ELSE \/ Handler(s, [handlers[s] EXCEPT !.pc = "send"]) /\ Quiet
            \/ Handler(s, Free) /\ Event("fault")
    /\ UNCHANGED <<lis, inbox, items, loops, notes>>

\* The message is sent, or edited for the last time, unless the notifications are closed;
\* a sent one is tracked, unless the tracker is closed.
HandlerCalls(s) ==
    /\ handlers[s].pc = "send"
    /\ Handler(s, IF MayCall THEN [handlers[s] EXCEPT !.pc = "sending"] ELSE Free)
    /\ Quiet /\ UNCHANGED <<lis, inbox, items, loops, notes>>
HandlerSends(s) ==
    /\ handlers[s].pc = "sending" /\ Handler(s, Free)
    /\ IF handlers[s].kind = "start" /\ ~lis.closed
       THEN \/ \E l \in Loops : /\ ~Alive(l) /\ \A k \in Loops : ~Alive(k) => l <= k
                                /\ Track(handlers[s].task, l) /\ Quiet
            \/ UNCHANGED <<items, loops>> /\ Event("fault")
       ELSE UNCHANGED <<items, loops>> /\ Quiet
    /\ UNCHANGED <<lis, inbox, notes>>

----------------------------------------------------------------------------
(* runAria2EventListener and listenAria2Events. *)

Listener(next) == lis' = next
Ended == [lis EXCEPT !.pc = "drain", !.ended = TRUE]

Listen ==
    /\ lis.pc = "off" /\ ~lis.closed /\ Event("listen") /\ Listener([lis EXCEPT !.pc = "dial"])
    /\ UNCHANGED <<inbox, handlers, items, loops, notes>>

Dial ==
    /\ lis.pc = "dial"
    /\ IF lis.stop THEN Listener(Ended) /\ Quiet
       ELSE \/ Listener([lis EXCEPT !.pc = "up"]) /\ Quiet
            \/ Listener(Ended) /\ Event("fault")
    /\ UNCHANGED <<inbox, handlers, items, loops, notes>>

\* One report is read; it waits for a slot.
Read(s) ==
    /\ lis.pc = "up" /\ ~lis.stop /\ inbox # <<>> /\ handlers[s].pc = "free"
    /\ \A r \in Slots : handlers[r].pc = "free" => s <= r
    /\ Handler(s, [pc |-> "begin", kind |-> Head(inbox).kind, task |-> Head(inbox).task])
    /\ inbox' = Tail(inbox)
    /\ Quiet /\ UNCHANGED <<lis, items, loops, notes>>

\* The connection fails, the configuration names another daemon, or the bot stops: the
\* context ends, for the handlers and for the loops they started.
Disconnect ==
    /\ lis.pc = "up"
    /\ IF lis.stop THEN Quiet ELSE Event("disconnect")
    /\ Listener(Ended) /\ inbox' = <<>> /\ loops' = Canceled(Loops)
    /\ UNCHANGED <<handlers, items, notes>>

\* handlers.Wait; then a new attempt, or the tracker is closed.
DrainHandlers ==
    /\ lis.pc = "drain" /\ \A s \in Slots : handlers[s].pc = "free"
    /\ IF lis.stop
       THEN /\ Listener([lis EXCEPT !.pc = "close", !.closed = TRUE])
            /\ loops' = Canceled({items[t] : t \in Tasks}) /\ items' = [t \in Tasks |-> None]
       ELSE Listener([lis EXCEPT !.pc = "dial", !.ended = FALSE]) /\ UNCHANGED <<items, loops>>
    /\ Quiet /\ UNCHANGED <<inbox, handlers, notes>>

Close ==
    /\ lis.pc = "close" /\ \A l \in Loops : ~Alive(l)
    /\ Listener([lis EXCEPT !.pc = "off"])
    /\ Quiet /\ UNCHANGED <<inbox, handlers, items, loops, notes>>

(* botNotifier.Close, when the bot has stopped.                            *)
CloseNotifier == lis.closed /\ lis.pc = "off" /\ StopNotes

StopListener ==
    /\ lis.pc \in {"dial", "up", "drain"} /\ ~lis.stop /\ Event("stop")
    /\ Listener([lis EXCEPT !.stop = TRUE])
    /\ UNCHANGED <<inbox, handlers, items, loops, notes>>

----------------------------------------------------------------------------

Listening ==
    \/ Dial \/ Disconnect \/ DrainHandlers \/ Close \/ Deliver \/ NotesStopped
    \/ CloseNotifier
    \/ \E s \in Slots : \/ Read(s) \/ Handle(s) \/ HandlerTells(s)
                         \/ HandlerCalls(s) \/ HandlerSends(s)
    \/ \E l \in Loops : ProgressLoop(l)

Internal ==
    \/ Governor /\ Reported
    \/ Listening /\ UNCHANGED <<remote, flowing, cap, rec, mgr, conf, limiter, reg, mon, excused, quiet>>

Outside ==
    \/ GovOutside /\ Reported
    \/ (Listen \/ StopListener \/ Enqueue \/ StopNotes \/ StartNotes)
       /\ UNCHANGED <<remote, flowing, cap, rec, mgr, conf, limiter, reg, mon, excused, quiet>>

Next == Internal \/ Outside
Spec == Init /\ [][Next]_vars /\ WF_vars(Internal)

----------------------------------------------------------------------------
(* Properties. *)

\* Whatever automation left paused, by a stop in the middle of a backoff, at the end of
\* an earlier process or by a crash, is running again before the governors start
\* (manager.go Run, reconnect.go ResumeStartupPausedTasks).
StartupResumes ==
    mgr.pc = "launch" /\ ~mgr.stop =>
        \A t \in Tasks : remote[t] = "paused" /\ rec[t].owner # None => t \in excused

\* A running progress loop is the entry of its task, so that a pause, an end, a newer
\* loop and the close of the tracker reach it; no handler or loop outlives the listener
\* (aria2_events.go aria2ProgressTracker), and no message is sent or edited after the
\* notification component has stopped (service.go begin, Stop).
ProgressOwned ==
    /\ \A l \in Loops : Alive(l) /\ ~loops[l].canceled => items[loops[l].task] = l
    /\ \A t \in Tasks : items[t] # None => Alive(items[t]) /\ loops[items[t]].task = t
    /\ lis.closed => \A s \in Slots : handlers[s].pc = "free"
    /\ lis.closed /\ lis.pc = "off" => \A l \in Loops : ~Alive(l)
    /\ notes.pc = "closed" => ~Calling

\* Settled: the daemon has the latest transfer limit, no governor keeps a task paused,
\* and a stop completes: of the manager with its governors, of the listener with its
\* handlers and loops, of the notifications with the calls under way; and what was queued
\* for delivery is delivered or refused.
Settled ==
    /\ mgr.pc = "govern" /\ ~mgr.stop =>
            /\ cap = conf.limit
            /\ \A t \in Tasks : remote[t] = "paused" /\ rec[t].owner \in {"telegram", "zero"} => t \in excused
    /\ mgr.stop => mgr.pc = "stopped"
    /\ lis.stop => lis.pc = "off" /\ notes.pc = "closed"
    /\ notes.pc # "closing" /\ notes.queue = 0

=============================================================================
