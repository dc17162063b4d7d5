------------------------------- MODULE Intake -------------------------------
(***************************************************************************)
(* How a download begins: reactions seen by the watcher (app/watch,        *)
(* trigger.reaction) and message links handed to it by the panel or the    *)
(* bot (watch.Controller, trigger.messagelink) become intents on the bus   *)
(* of the connection (trigger.download), and one consumer turns each into  *)
(* a batch of submissions (download.control): collect the media, prepare   *)
(* them, register each and offer it to the executors of the route.  The    *)
(* reactions also publish forward intents (trigger.forward).               *)
(*                                                                         *)
(* Executors are seen through their port: a call may be refused, accepted, *)
(* or end in an error that does not tell.                                  *)
(***************************************************************************)
EXTENDS Naming

CONSTANTS
    Messages,   \* messages of the account
    NoMsg,      \* no message
    MediaOf,    \* the media of a message and its album
    Albums,     \* what an album may hold when names are at stake
    Callers,    \* message link submissions, numbered as they arrive
    Capacity,   \* queue of the intents (100)
    LinkQueue,  \* the controller's submit channel (100)
    Limit,      \* submissions of a batch at a time
    Routes,     \* configured executor lists, as PrepareConfig reduces them
    Scenarios,  \* sets of kinds of outside events; a behaviour meets those of one set
    MaxEvents   \* bound on outside events

VARIABLES
    flags,      \* which of "download" and "forward" are enabled
    route,      \* Service.route
    skipSame,   \* Options.SkipSame
    react,      \* Telegram: whether the account's trigger reaction is on a message
    inbox,      \* updates on their way, in order, per message
    handler,    \* the update handler of a message: idle, publish, forward
    trigger,    \* trigger.reaction: up, stopped
    claims,     \* Trigger.claims
    ctrl,       \* watch.Controller: its run (0: not running), the last one, whether it was told to stop
    conn,       \* the connection: off, up, and while it ends closing, intents, updates
    links,      \* the submit channel of the run
    call,       \* callers of SubmitMessageLink
    disp,       \* the dispatcher
    pending,    \* trigger.download: pending calls
    bus, fbus,  \* queued download and forward intents
    fwd,        \* the forward intent being processed
    svc,        \* download.control: up, closed, stopped
    batch,      \* the running SubmitBatch
    added,      \* history: how often the account's reaction was added
    got,        \* history: intents published for it, in all and since it was last forgotten
    ran,        \* history: calls whose intent was taken for execution
    kinds, events

vars == <<flags, route, skipSame, react, inbox, handler, trigger, claims, ctrl, conn, links, call, disp, pending, bus, fbus,
          fwd, svc, batch, added, got, ran, kinds, events>>
config == <<flags, route, skipSame>>
reactionVars == <<react, inbox, handler, trigger, claims, fbus, added, got>>
linkVars == <<ctrl, links, call, disp, pending>>
batchVars == <<svc, batch, ran>>

Executors == {"local", "aria2", "http"}

ASSUME IntakeAssumption ==
    /\ NoMsg \notin Messages /\ DOMAIN MediaOf = Messages
    /\ Callers \subseteq Nat \ {0} /\ {Capacity, LinkQueue, Limit} \subseteq Nat \ {0} /\ MaxEvents \in Nat
    /\ \A r \in Routes : r \in {<<"local">>, <<"aria2">>, <<"http">>, <<"local", "http">>, <<"aria2", "http">>}
    /\ \A album \in Albums \cup {MediaOf[m] : m \in Messages} : album \in Seq(Media) /\ Len(album) < Len(Numeral)
    /\ \A S \in Scenarios : S \subseteq {"react", "again", "partial", "quit", "link", "leave", "drop", "stop", "start",
                                         "control", "route", "fault", "doubt", "message", "names"}

NoCall == [at |-> "idle", msg |-> NoMsg, run |-> 0, live |-> TRUE, ans |-> NoMsg, early |-> FALSE]
NoBatch == [at |-> "idle", msg |-> NoMsg, call |-> 0, route |-> <<>>, item |-> <<>>]
NoTarget == [dir |-> <<>>, out |-> <<>>]
NewItem(d) == [at |-> "new", k |-> 1, data |-> d, target |-> NoTarget, bad |-> {}, took |-> {}, entered |-> FALSE]

Init ==
    /\ flags \in SUBSET {"download", "forward"} \ {{}} /\ route \in Routes /\ skipSame \in BOOLEAN
    /\ react = [m \in Messages |-> FALSE] /\ inbox = [m \in Messages |-> <<>>]
    /\ handler = [m \in Messages |-> "idle"] /\ trigger = "up" /\ claims = {}
    /\ ctrl = [run |-> 1, last |-> 1, stop |-> FALSE] /\ conn = "off" /\ links = <<>>
    /\ call = [c \in Callers |-> NoCall] /\ disp = [at |-> "idle", call |-> 0] /\ pending = {}
    /\ bus = <<>> /\ fbus = <<>> /\ fwd = NoMsg /\ svc = "up" /\ batch = NoBatch
    /\ added = [m \in Messages |-> 0] /\ got = [m \in Messages |-> [total |-> 0, window |-> 0]] /\ ran = {}
    /\ kinds \in Scenarios /\ events = 0

Event(k) == k \in kinds /\ events < MaxEvents /\ events' = events + 1 /\ UNCHANGED kinds
Quiet == UNCHANGED <<kinds, events>>

Enabled(f) == f \in flags

-----------------------------------------------------------------------------
(* Reactions.  An update carries what the message then had: the account's  *)
(* trigger reaction, none, or only a part (Reactions.Min); it arrives as a *)
(* reaction update or as an edit, and remembers how often the reaction had *)
(* been added when it was sent (n, a history).                             *)

(* The user adds or takes back the reaction.                               *)
React(m) ==
    /\ Event("react")
    /\ react' = [react EXCEPT ![m] = ~@]
    /\ added' = [added EXCEPT ![m] = IF react[m] THEN @ ELSE @ + 1]
    /\ inbox' = [inbox EXCEPT ![m] =
                    Append(@, [mine |-> IF react[m] THEN "no" ELSE "yes", kind |-> "reaction", n |-> added'[m]])]
    /\ UNCHANGED <<config, handler, trigger, claims, fbus, got, conn, bus, fwd, linkVars, batchVars>>

(* Telegram tells it once more, as an edit or in part.                     *)
TellAgain(m) ==
    /\ \E part \in BOOLEAN :
          /\ Event(IF part THEN "partial" ELSE "again")
          /\ inbox' = [inbox EXCEPT ![m] =
                          Append(@, [mine |-> IF part THEN "part" ELSE IF react[m] THEN "yes" ELSE "no",
                                     kind |-> "edit", n |-> added[m]])]
    /\ UNCHANGED <<config, react, handler, trigger, claims, fbus, added, got, conn, bus, fwd, linkVars, batchVars>>

(* Trigger.Matches, Claim and Forget.                                      *)
Matches(u) == trigger = "up" /\ u.mine = "yes"
Claimable(m) == trigger = "up" /\ m \notin claims
Forget(m) == claims' = claims \ {m} /\ got' = [got EXCEPT ![m].window = 0]

(* onReaction, onEditMessageReaction up to the decision to submit.         *)
OnUpdate(m) ==
    /\ conn = "up" /\ handler[m] = "idle" /\ inbox[m] # <<>>
    /\ LET u == Head(inbox[m])
           unset == u.kind = "edit" /\ u.mine = "no"
           mine == Enabled("download") /\ Matches(u)
           claim == mine /\ Claimable(m) IN
       /\ inbox' = [inbox EXCEPT ![m] = Tail(@)]
       /\ IF claim THEN claims' = claims \cup {m} /\ UNCHANGED got
          ELSE IF unset \/ (Enabled("download") /\ ~mine /\ u.mine # "part") THEN Forget(m)
          ELSE UNCHANGED <<claims, got>>
       /\ handler' = [handler EXCEPT ![m] = IF unset THEN "idle" ELSE IF claim THEN "publish"
                                            ELSE IF Enabled("forward") /\ Matches(u) THEN "forward" ELSE "idle"]
    /\ UNCHANGED <<config, react, trigger, fbus, added, conn, bus, fwd, linkVars, batchVars>> /\ Quiet

(* enqueueDownload; a claim whose intent was not taken is given back.      *)
Published(m) ==
    /\ bus' = Append(bus, [msg |-> m, call |-> 0])
    /\ got' = [got EXCEPT ![m] = [total |-> @.total + 1, window |-> @.window + 1]]

EnqueueDownload(m) ==
    /\ handler[m] = "publish"
    /\ IF conn = "up" /\ Len(bus) < Capacity
       THEN Published(m) /\ UNCHANGED claims ELSE Forget(m) /\ UNCHANGED bus
    /\ handler' = [handler EXCEPT ![m] = IF Enabled("forward") THEN "forward" ELSE "idle"]
    /\ UNCHANGED <<config, react, inbox, trigger, fbus, added, conn, fwd, linkVars, batchVars>> /\ Quiet

(* publishForward: whether or not the download was a duplicate.            *)
PublishForward(m) ==
    /\ handler[m] = "forward"
    /\ fbus' = IF conn = "up" /\ trigger = "up" /\ Len(fbus) < Capacity THEN Append(fbus, m) ELSE fbus
    /\ handler' = [handler EXCEPT ![m] = "idle"]
    /\ UNCHANGED <<config, react, inbox, trigger, claims, added, got, conn, bus, fwd, linkVars, batchVars>> /\ Quiet

(* onNewMessageForward: a message of a listened source.                    *)
NewMessage(m) ==
    /\ conn = "up" /\ Enabled("forward") /\ Event("message")
    /\ fbus' = IF Len(fbus) < Capacity THEN Append(fbus, m) ELSE fbus
    /\ UNCHANGED <<config, react, inbox, handler, trigger, claims, added, got, conn, bus, fwd, linkVars, batchVars>>

(* Trigger.Stop; a new instance starts without claims.                     *)
StopTrigger ==
    /\ trigger = "up" /\ Event("quit")
    /\ trigger' = "stopped" /\ claims' = {} /\ got' = [m \in Messages |-> [got[m] EXCEPT !.window = 0]]
    /\ UNCHANGED <<config, react, inbox, handler, fbus, added, conn, bus, fwd, linkVars, batchVars>>

(* processForwardIntent: the message is read over the connection and given *)
(* to the forward router.                                                  *)
TakeForward ==
    /\ conn = "up" /\ fwd = NoMsg /\ fbus # <<>>
    /\ fwd' = Head(fbus) /\ fbus' = Tail(fbus)
    /\ UNCHANGED <<config, react, inbox, handler, trigger, claims, added, got, conn, bus, linkVars, batchVars>> /\ Quiet

ForwardProcessed ==
    /\ fwd # NoMsg /\ fwd' = NoMsg
    /\ UNCHANGED <<config, reactionVars, conn, bus, linkVars, batchVars>> /\ Quiet

-----------------------------------------------------------------------------
(* Message links *)

Idle == {c \in Callers : call[c].at = "idle"}

(* Controller.SubmitMessageLink up to its first select.                    *)
Submit(m) ==
    /\ Event("link")
    /\ LET refused == ~Enabled("download") \/ ctrl.run = 0 IN
       \E c \in Idle :
          /\ \A d \in Idle : c <= d
          /\ call' = [call EXCEPT ![c] = [NoCall EXCEPT !.at = IF refused THEN "returned" ELSE "sending",
                                                       !.msg = m, !.run = ctrl.run]]
    /\ UNCHANGED <<config, reactionVars, conn, bus, fwd, ctrl, links, disp, pending, batchVars>>

Send(c) ==
    /\ call[c].at = "sending" /\ call[c].run = ctrl.run /\ Len(links) < LinkQueue
    /\ links' = Append(links, c) /\ call' = [call EXCEPT ![c].at = "waiting"]
    /\ UNCHANGED <<config, reactionVars, conn, bus, fwd, ctrl, disp, pending, batchVars>> /\ Quiet

(* The caller's context ends. *)
Leave(c) ==
    /\ call[c].at \in {"sending", "waiting"} /\ call[c].live /\ Event("leave")
    /\ call' = [call EXCEPT ![c].live = FALSE]
    /\ UNCHANGED <<config, reactionVars, conn, bus, fwd, ctrl, links, disp, pending, batchVars>>

(* The call returns: its context ended, the run ended, or it was answered. *)
GiveUpDeaf(c) ==
    /\ call[c].at \in {"sending", "waiting"} /\ ~call[c].live
    /\ call' = [call EXCEPT ![c].at = "returned", ![c].early = c \notin ran]
    /\ UNCHANGED <<config, reactionVars, conn, bus, fwd, ctrl, links, disp, pending, batchVars>> /\ Quiet
GiveUp(c) ==
    /\ call[c].at \in {"sending", "waiting"} /\ (~call[c].live \/ call[c].run # ctrl.run)
    /\ call' = [call EXCEPT ![c].at = "returned", ![c].early = c \notin ran]
    /\ UNCHANGED <<config, reactionVars, conn, bus, fwd, ctrl, links, disp, pending, batchVars>> /\ Quiet

Answered(c) ==
    /\ call[c].at = "answered"
    /\ call' = [call EXCEPT ![c].at = "returned"]
    /\ UNCHANGED <<config, reactionVars, conn, bus, fwd, ctrl, links, disp, pending, batchVars>> /\ Quiet

(* The buffered reply; a caller that left never reads it.                  *)
Reply(c, msg) ==
    call' = IF call[c].at = "waiting" THEN [call EXCEPT ![c].at = "answered", ![c].ans = msg] ELSE call

(* Watcher.dispatcher, one link at a time.                                 *)
Dispatch ==
    /\ conn = "up" /\ Enabled("download") /\ disp.at = "idle" /\ links # <<>>
    /\ disp' = [at |-> "resolve", call |-> Head(links)] /\ links' = Tail(links)
    /\ UNCHANGED <<config, reactionVars, conn, bus, fwd, ctrl, call, pending, batchVars>> /\ Quiet

CallLive(c) == call[c].live /\ conn = "up"

(* Resolve the link, then service.Submit: a pending entry and an intent.   *)
ResolveLink ==
    /\ disp.at = "resolve"
    /\ LET c == disp.call
           ok == CallLive(c) /\ Cardinality(pending) < Capacity /\ Len(bus) < Capacity IN
       \/ /\ ok /\ Quiet
          /\ pending' = pending \cup {c} /\ bus' = Append(bus, [msg |-> call[c].msg, call |-> c])
          /\ disp' = [disp EXCEPT !.at = "await"] /\ UNCHANGED call
       \/ /\ IF ok THEN Event("fault") ELSE Quiet
          /\ Reply(c, NoMsg) /\ disp' = [at |-> "idle", call |-> 0] /\ UNCHANGED <<pending, bus>>
    /\ UNCHANGED <<config, reactionVars, conn, fwd, ctrl, links, batchVars>>

(* service.Submit ends without a reply: the caller or the connection left. *)
AbandonIntent ==
    /\ disp.at = "await" /\ ~CallLive(disp.call)
    /\ pending' = pending \ {disp.call} /\ Reply(disp.call, NoMsg) /\ disp' = [at |-> "idle", call |-> 0]
    /\ UNCHANGED <<config, reactionVars, conn, bus, fwd, ctrl, links, batchVars>> /\ Quiet

-----------------------------------------------------------------------------
(* One consumer runs one batch at a time (trigger.download, SubmitBatch).  *)

BatchLive == conn = "up" /\ svc = "up" /\ (batch.call # 0 => call[batch.call].live)

(* The subscriber: the intent of a call that is gone is skipped.           *)
TakeIntent ==
    /\ conn = "up" /\ batch.at = "idle" /\ bus # <<>>
    /\ LET e == Head(bus) IN
       IF e.call = 0 \/ (e.call \in pending /\ CallLive(e.call))
       THEN /\ batch' = [NoBatch EXCEPT !.at = "taken", !.msg = e.msg, !.call = e.call]
            /\ ran' = IF e.call = 0 THEN ran ELSE ran \cup {e.call}
       ELSE UNCHANGED <<batch, ran>>
    /\ bus' = Tail(bus)
    /\ UNCHANGED <<config, reactionVars, conn, fwd, linkVars, svc>> /\ Quiet

(* processDownloadIntent and begin: the batch keeps the route it finds.    *)
BeginBatch ==
    /\ batch.at = "taken"
    /\ batch' = IF BatchLive /\ Enabled("download") THEN [batch EXCEPT !.at = "begun", !.route = route]
                ELSE [batch EXCEPT !.at = "failed"]
    /\ UNCHANGED <<config, reactionVars, conn, bus, fwd, linkVars, svc, ran>> /\ Quiet

(* Collect: the message and its album, read over the connection.           *)
Collect ==
    /\ batch.at = "begun"
    /\ \/ \E album \in Albums \cup {MediaOf[batch.msg]} :
          /\ BatchLive /\ IF album = MediaOf[batch.msg] THEN Quiet ELSE Event("names")
          /\ batch' = [batch EXCEPT !.at = "prepare", !.item = [i \in DOMAIN album |-> NewItem(album[i])]]
       \/ /\ IF BatchLive THEN Event("fault") ELSE Quiet
          /\ batch' = [batch EXCEPT !.at = "failed"]
    /\ UNCHANGED <<config, reactionVars, conn, bus, fwd, linkVars, svc, ran>>

Uses(e) == e \in Range(batch.route)

(* The targets of all media and of all their batches, worked out once.     *)
Collected == Albums \cup {MediaOf[m] : m \in Messages}
Named == {<<d, Target(d)>> : d \in UNION {Range(album) : album \in Collected}}
TargetOf(d) == (CHOOSE p \in Named : p[1] = d)[2]
Batches == UNION {[1..n -> {p[2] : p \in Named}] : n \in UNION {0..Len(album) : album \in Collected}}
Numbers == {<<ts, Unique(ts)>> : ts \in Batches}
UniqueOf(ts) == (CHOOSE p \in Numbers : p[1] = ts)[2]

(* prepareBatch, one medium: filtered out, without a usable name, or       *)
(* planned with the targets that could be named.                           *)
Plan(i) == [batch EXCEPT !.item[i].at = "plan", !.item[i].target = IF Uses("local") THEN TargetOf(batch.item[i].data) ELSE NoTarget]
Prepare(i) ==
    /\ batch.at = "prepare" /\ batch.item[i].at = "new" /\ \A j \in 1..i-1 : batch.item[j].at # "new"
    /\ LET handled == ShouldHandle(batch.item[i].data) IN
       \/ /\ BatchLive /\ handled /\ Quiet /\ batch' = Plan(i)
       \/ /\ BatchLive /\ handled /\ Event("fault") /\ batch' = [batch EXCEPT !.item[i].at = "failed"]
       \/ /\ BatchLive /\ handled /\ Event("fault") /\ Uses("local") /\ Uses("http")
          /\ batch' = [batch EXCEPT !.item[i].at = "plan", !.item[i].bad = {"local"}]
       \/ /\ BatchLive /\ ~handled /\ Quiet /\ batch' = [batch EXCEPT !.item[i].at = "skipped"]
       \/ /\ ~BatchLive /\ Quiet /\ batch' = [batch EXCEPT !.item[i].at = "failed"]
    /\ UNCHANGED <<config, reactionVars, conn, bus, fwd, linkVars, svc, ran>>

Items == DOMAIN batch.item
At(S) == {i \in Items : batch.item[i].at \in S}

(* Its end: the local targets are made unique, or none can be used.        *)
MakeUnique ==
    /\ batch.at = "prepare" /\ At({"new"}) = {}
    /\ LET named == Ascending({i \in At({"plan"}) : Uses("local") /\ "local" \notin batch.item[i].bad})
           place(i) == CHOOSE k \in DOMAIN named : named[k] = i IN
       \E ok \in BOOLEAN, unique \in {UniqueOf([k \in DOMAIN named |-> batch.item[named[k]].target])} :
          /\ IF ok \/ unique = <<>> \/ ~BatchLive THEN Quiet ELSE Event("fault")
          /\ batch' = [batch EXCEPT !.at = "submit", !.item = [i \in Items |->
                IF i \notin Range(named) THEN batch.item[i]
                ELSE IF ok /\ unique # <<>> THEN [batch.item[i] EXCEPT !.target = unique[place(i)]]
                ELSE [batch.item[i] EXCEPT !.bad = {"local"}, !.target = NoTarget]]]
    /\ UNCHANGED <<config, reactionVars, conn, bus, fwd, linkVars, svc, ran>>

Working == {"route", "inside"}
Over == {"skipped", "queued", "failed", "uncertain"}
(* A worker takes the next plan and registers its source; the panics of    *)
(* the adapters up to here are rejections.                                 *)
Register(i) ==
    /\ batch.at = "submit" /\ batch.item[i].at = "plan"
    /\ Cardinality(At(Working)) < Limit /\ \A j \in 1..i-1 : batch.item[j].at # "plan"
    /\ \/ BatchLive /\ Quiet /\ batch' = [batch EXCEPT !.item[i].at = "route"]
       \/ /\ IF BatchLive THEN Event("fault") ELSE Quiet
          /\ batch' = [batch EXCEPT !.item[i].at = "failed"]
    /\ UNCHANGED <<config, reactionVars, conn, bus, fwd, linkVars, svc, ran>>

Executor(i) == batch.route[batch.item[i].k]

(* Router.Submit: after a definite rejection the next executor; past the   *)
(* last the item failed.                                                   *)
Rejected(i) ==
    LET it == batch.item[i] IN
    [batch EXCEPT !.item[i] = IF it.k = Len(batch.route) THEN [it EXCEPT !.at = "failed", !.entered = FALSE]
                              ELSE [it EXCEPT !.at = "route", !.k = it.k + 1, !.entered = FALSE]]

(* Given up without an answer of an executor: by a panic or the context.   *)
Stuck(i) == [batch EXCEPT !.item[i].at = IF batch.item[i].entered THEN "uncertain" ELSE "failed"]

(* The executor's turn: a target without a name or a URL, an unavailable   *)
(* executor and a failing directory are rejections; a file that is there   *)
(* is skipped; http accepts by itself.                                     *)
Offer(i) ==
    /\ batch.item[i].at = "route"
    /\ LET e == Executor(i) IN
       \/ /\ ~BatchLive /\ Quiet /\ batch' = Stuck(i)
       \/ /\ BatchLive /\ e \in batch.item[i].bad /\ Quiet /\ batch' = Rejected(i)
       \/ /\ BatchLive /\ Event("fault") /\ batch' \in {Rejected(i), Stuck(i)}
       \/ /\ BatchLive /\ e = "local" /\ e \notin batch.item[i].bad /\ skipSame /\ Event("fault")
          /\ batch' = [batch EXCEPT !.item[i].at = "skipped"]
       \/ /\ BatchLive /\ e = "http" /\ Quiet /\ batch' = [batch EXCEPT !.item[i].at = "queued", !.item[i].took = @ \cup {e}]
       \/ /\ BatchLive /\ e # "http" /\ e \notin batch.item[i].bad /\ Quiet
          /\ batch' = [batch EXCEPT !.item[i].at = "inside", !.item[i].entered = TRUE]
    /\ UNCHANGED <<config, reactionVars, conn, bus, fwd, linkVars, svc, ran>>

(* The executor returns.  It accepted the item, refused it with            *)
(* ErrDownloadNotAccepted, or ended in an error or a panic that does not   *)
(* tell whether it did; aria2 accepts with an error when the record of the *)
(* accepted download could not be stored, and then tries to remove it.     *)
Accepted(i) == [batch EXCEPT !.item[i].at = "queued", !.item[i].took = @ \cup {Executor(i)}]
UnclearRetry(i, did) ==
    LET it == [batch.item[i] EXCEPT !.took = @ \cup did] IN
    [batch EXCEPT !.item[i] = IF it.k = Len(batch.route) THEN [it EXCEPT !.at = "uncertain"]
                              ELSE [it EXCEPT !.at = "route", !.k = it.k + 1]]
Unclear(i, did) == [batch EXCEPT !.item[i].at = "uncertain", !.item[i].took = @ \cup did]
Unrecorded(i, did) == [batch EXCEPT !.item[i].at = "queued", !.item[i].took = @ \cup did, !.item[i].bad = @ \cup {"record"}]

ExecutorReturns(i) ==
    /\ batch.item[i].at = "inside"
    /\ \/ Quiet /\ batch' = Accepted(i)
       \/ Event("fault") /\ batch' = Rejected(i)
       \/ \E did \in SUBSET {Executor(i)} : (IF BatchLive THEN Event("doubt") ELSE Quiet) /\ batch' = Unclear(i, did)
       \/ \E did \in SUBSET {Executor(i)} : Executor(i) = "aria2" /\ Event("doubt") /\ batch' = Unrecorded(i, did)
    /\ UNCHANGED <<config, reactionVars, conn, bus, fwd, linkVars, svc, ran>>

(* The workers are joined: the summary is complete and the call answered.  *)
Ended == batch.at = "failed" \/ (batch.at = "submit" /\ \A i \in Items : batch.item[i].at \in Over)
FinishBatch ==
    /\ Ended /\ batch' = NoBatch
    /\ LET c == batch.call IN
       IF c # 0 /\ disp = [at |-> "await", call |-> c]
       THEN /\ pending' = pending \ {c} /\ disp' = [at |-> "idle", call |-> 0]
            /\ Reply(c, IF batch.at = "failed" THEN NoMsg ELSE batch.msg)
       ELSE UNCHANGED <<pending, disp, call>>
    /\ UNCHANGED <<config, reactionVars, conn, bus, fwd, ctrl, links, svc, ran>> /\ Quiet

-----------------------------------------------------------------------------
(* download.control stops, draining its calls, and starts anew.            *)

StopControl ==
    /\ svc = "up" /\ Event("control") /\ svc' = "closed"
    /\ UNCHANGED <<config, reactionVars, conn, bus, fwd, linkVars, batch, ran>>
Active == batch.at \in {"begun", "prepare", "submit"} \/ (batch.at = "failed" /\ batch.route # <<>>)
ControlStopped ==
    /\ svc = "closed" /\ ~Active /\ svc' = "stopped"
    /\ UNCHANGED <<config, reactionVars, conn, bus, fwd, linkVars, batch, ran>> /\ Quiet
StartControl ==
    /\ svc = "stopped" /\ Event("control") /\ svc' = "up"
    /\ UNCHANGED <<config, reactionVars, conn, bus, fwd, linkVars, batch, ran>>
Reroute ==
    /\ Event("route") /\ \E r \in Routes \ {route} : route' = r
    /\ UNCHANGED <<flags, skipSame, reactionVars, conn, bus, fwd, linkVars, batchVars>>

-----------------------------------------------------------------------------
(* The connection of the watcher (runOnce) *)

(* The intent host starts, then updates and links are accepted.            *)
Connect ==
    /\ ctrl.run # 0 /\ ~ctrl.stop /\ conn = "off" /\ conn' = "up"
    /\ UNCHANGED <<config, reactionVars, bus, fwd, linkVars, batchVars>> /\ Quiet

Drop ==
    /\ conn = "up" /\ Event("drop") /\ conn' = "closing"
    /\ UNCHANGED <<config, reactionVars, bus, fwd, linkVars, batchVars>>

(* Controller.StopContext: the run's context is cancelled.  A login that   *)
(* ends the account's connection has the same effect: runOnce returns nil  *)
(* and Run returns instead of connecting again.                            *)
StopWatch ==
    /\ ctrl.run # 0 /\ ~ctrl.stop /\ Event("stop") /\ ctrl' = [ctrl EXCEPT !.stop = TRUE]
    /\ conn' = IF conn = "up" THEN "closing" ELSE conn
    /\ UNCHANGED <<config, reactionVars, bus, fwd, links, call, disp, pending, batchVars>>

(* <-dispatchDone; intentHost.Stop joins the consumers and closes the bus; *)
(* <-updatesDone; and only then the pool is released.                      *)
DispatchDone ==
    /\ conn = "closing" /\ disp.at = "idle" /\ conn' = "intents"
    /\ UNCHANGED <<config, reactionVars, bus, fwd, linkVars, batchVars>> /\ Quiet
IntentsDrained ==
    /\ conn = "intents" /\ batch.at = "idle" /\ fwd = NoMsg
    /\ conn' = "updates" /\ bus' = <<>> /\ fbus' = <<>>
    /\ UNCHANGED <<config, react, inbox, handler, trigger, claims, added, got, fwd, linkVars, batchVars>> /\ Quiet
Release ==
    /\ conn = "updates" /\ \A m \in Messages : handler[m] = "idle"
    /\ conn' = "off"
    /\ UNCHANGED <<config, reactionVars, bus, fwd, linkVars, batchVars>> /\ Quiet

(* Run returns: the run's done channel is closed.                          *)
RunEnds ==
    /\ ctrl.stop /\ conn = "off" /\ ctrl' = [ctrl EXCEPT !.run = 0, !.stop = FALSE] /\ links' = <<>>
    /\ UNCHANGED <<config, reactionVars, conn, bus, fwd, call, disp, pending, batchVars>> /\ Quiet
StartWatch ==
    /\ ctrl.run = 0 /\ Event("start") /\ ctrl' = [ctrl EXCEPT !.run = ctrl.last + 1, !.last = @ + 1]
    /\ UNCHANGED <<config, reactionVars, conn, bus, fwd, links, call, disp, pending, batchVars>>

-----------------------------------------------------------------------------
Outside ==
    \/ \E m \in Messages : React(m) \/ TellAgain(m) \/ NewMessage(m) \/ Submit(m)
    \/ \E c \in Callers : Leave(c)
    \/ StopTrigger \/ StopControl \/ StartControl \/ Reroute \/ Drop \/ StopWatch \/ StartWatch

Internal ==
    \/ \E m \in Messages : OnUpdate(m) \/ EnqueueDownload(m) \/ PublishForward(m)
    \/ TakeForward \/ ForwardProcessed
    \/ \E c \in Callers : Send(c) \/ GiveUp(c) \/ Answered(c)
    \/ Dispatch \/ ResolveLink \/ AbandonIntent
    \/ TakeIntent \/ BeginBatch \/ Collect \/ MakeUnique \/ FinishBatch
    \/ \E i \in Items : Prepare(i) \/ Register(i) \/ Offer(i) \/ ExecutorReturns(i)
    \/ ControlStopped \/ Connect \/ DispatchDone \/ IntentsDrained \/ Release \/ RunEnds

Next == Outside \/ Internal

(* Every goroutine the code starts keeps running, calls over the network   *)
(* end, and a dropped connection is made anew after the reconnect delay.   *)
Spec == Init /\ [][Next]_vars /\ WF_vars(Internal)

-----------------------------------------------------------------------------
(* "Ambiguous transport errors must never create a second download"        *)
(* (router.go): whatever refusals, errors, panics and cancellations meet   *)
(* the executors of a route, at most one takes an item; what the summary   *)
(* counts as failed or skipped nobody took, and what it counts as accepted *)
(* somebody holds, unless aria2 could not keep the record of it.           *)
AdmittedOnce ==
    \A i \in Items :
        LET it == batch.item[i] IN
        /\ Cardinality(it.took) <= 1
        /\ it.at \in {"failed", "skipped"} => it.took = {}
        /\ it.at = "queued" /\ "record" \notin it.bad => it.took = {Executor(i)}

(* Two media of a batch never share a local path, not even on a file       *)
(* system that ignores case, and each target is sound: an album whose      *)
(* files are all named alike, long names of wide runes and limits with no  *)
(* room for a number included.                                             *)
TargetsDistinct ==
    batch.at = "submit" /\ Uses("local") =>
        LET local == {i \in Items : batch.item[i].target # NoTarget /\ "local" \notin batch.item[i].bad} IN
        /\ \A i, j \in local : i # j => Key(batch.item[i].target) # Key(batch.item[j].target)
        /\ \A i \in local : SoundTarget(batch.item[i].data, batch.item[i].target)

(* A reaction submits its message once, however often and in whatever part *)
(* Telegram tells it, and across reconnects; a claim is never held without *)
(* the intent it stands for, so a full queue does not lose the next try;   *)
(* a stopped trigger holds none.                                           *)
ReactionOnce ==
    /\ \A m \in Messages : got[m].total <= added[m]
    /\ \A m \in claims : got[m].window = IF handler[m] = "publish" THEN 0 ELSE 1
    /\ trigger = "stopped" => claims = {}

(* "A connection can safely drain this call before closing its pool"       *)
(* (pipeline.go): when the pool of a connection is released nothing that   *)
(* reads over it is left: no batch, forward intent, link or update.        *)
NothingAfterRelease ==
    conn = "off" => /\ batch.at = "idle" /\ fwd = NoMsg /\ disp.at = "idle" /\ bus = <<>> /\ fbus = <<>>
                    /\ \A m \in Messages : handler[m] = "idle"

(* A caller gets the summary of its own link or an error, and a link whose *)
(* caller left before its turn is not submitted after all.                 *)
CallsTrue ==
    \A c \in Callers : /\ call[c].ans \in {NoMsg, call[c].msg}
                       /\ call[c].early => c \notin ran

(* Every caller returns, every accepted intent is worked off or dropped    *)
(* with its connection, no pending entry is left behind, and a stop of     *)
(* download.control ends.                                                  *)
Settled ==
    /\ \A c \in Callers : call[c].at \in {"idle", "returned"}
    /\ batch.at = "idle" /\ disp.at = "idle" /\ fwd = NoMsg /\ pending = {} /\ bus = <<>>
    /\ svc # "closed" /\ (ctrl.run # 0 => conn = "up" /\ \A m \in Messages : inbox[m] = <<>>)
AllSettles == <>[]Settled

(* A message that asks for its download gets it once: once from its        *)
(* reactions, once from the executors of its route, and over a connection  *)
(* that is still open.                                                     *)
SubmittedOnce == AdmittedOnce /\ ReactionOnce /\ NothingAfterRelease

(* What a batch tells its callers and executors is right: the summary is   *)
(* of the caller's own link, and the targets do not collide.               *)
AnswersRight == TargetsDistinct /\ CallsTrue

=============================================================================
