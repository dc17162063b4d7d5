---------------------------- MODULE Aria2Control ----------------------------
(***************************************************************************)
(* The control plane of the aria2 downloader: the persisted association    *)
(* between a download link and the aria2 tasks (gids) started for it, the  *)
(* fenced controls of users and automatic governors                        *)
(* (application/downloader.aria2/control_operation.go, automatic_control.go*)
(* and bsw/cdd/taskhub/aria2_control.go), the optimistic observations of   *)
(* the remote daemon (observation.go, aria2_observation.go), submission    *)
(* and retry.                                                              *)
(*                                                                         *)
(* A control reads a record, reserves it (revision + 1 and a deadline of   *)
(* one minute), talks to aria2 for at most 30 s and finishes (5 s).  The   *)
(* deadline therefore only passes when the control has died or could not   *)
(* store its result; the model keeps the deadline as the Boolean "fence".  *)
(***************************************************************************)
EXTENDS Integers, FiniteSets

CONSTANTS
    Gids,       \* the identifiers aria2 may hand out, numbered as it does
    Users,      \* console and API handles: their pauses belong to the user
    Governors,  \* zero-speed monitor and telegram-error regulator
    Lifecycle,  \* the manager's own client, which may resume every owned pause
    None,
    Observers,  \* concurrent observation passes (manager and web panel)
    Scenarios   \* what a behaviour may meet, see IsScenario

(* users and gids that take part, the user controls of {"pause", "resume", *)
(* "delete", "retry"}, how aria2 may end a download, the remote operations *)
(* that keep reporting "active", the bounded kinds of event and their      *)
(* number.                                                                 *)
IsScenario(x) ==
    /\ x.users \subseteq Users /\ x.gids \subseteq Gids
    /\ x.acts \subseteq {"pause", "resume", "delete", "retry"}
    /\ x.ends \subseteq {"complete", "short", "error"} /\ x.lag \subseteq {"pause", "remove"}
    /\ x.max \in Nat

Autos == Governors \cup {Lifecycle}
Actors == Users \cup Autos

ASSUME Aria2Assumption ==
    /\ Users \cap Autos = {} /\ Lifecycle \notin Governors
    /\ None \notin Actors \cup Gids /\ Gids \subseteq Nat
    /\ \A x \in Scenarios : IsScenario(x)

VARIABLES
    rec,        \* watch.aria2.task.<gid>: the persisted association
    link,       \* watch.download.<id>: the link, its version and "downloaded"
    remote,     \* the aria2 daemon: what it does with every gid
    op,         \* the control each actor performs
    obs,        \* the observation each observer performs
    kinds,      \* the scenario of the behaviour
    events,     \* history: the events so far
    intent,     \* history: the gids whose deletion was stored
    replaced,   \* history: how often a replacement was registered for a gid, as long as
                \* the deletion that goes with it was or will be stored
    stale       \* history: the passes that began before a control of the gid was stored

vars == <<rec, link, remote, op, obs, kinds, events, intent, replaced, stale>>


\* The status aria2 reports: a pause or removal in progress still shows active, and
\* "short" is a stopped download reported complete with bytes remaining.
Report(s) == CASE s \in {"pausing", "removing"} -> "active" [] s = "short" -> "complete" [] OTHER -> s

Absent == [status |-> "absent", rev |-> 0, fence |-> FALSE, owner |-> None, deleted |-> FALSE]
Present(g) == rec[g].status # "absent"
Idle == [pc |-> "idle", act |-> None, gid |-> None, read |-> Absent, rev |-> 0,
         owner |-> None, force |-> FALSE, call |-> None, next |-> None, remove |-> FALSE, new |-> None]
NoReading == [g \in Gids |-> "none"]
Resting == [pc |-> "idle", recs |-> [g \in Gids |-> Absent], version |-> 0, seen |-> NoReading]

Leased == {"tell", "rpc", "add", "register", "undo", "result", "finish"}

Init ==
    /\ rec = [g \in Gids |-> Absent]
    /\ link = [version |-> 1, present |-> TRUE, downloaded |-> FALSE, by |-> 0]
    /\ remote = [g \in Gids |-> "unused"]
    /\ op = [a \in Actors |-> Idle] /\ obs = [o \in Observers |-> Resting]
    /\ kinds \in Scenarios /\ events = 0 /\ intent = [g \in Gids |-> "none"] /\ replaced = [g \in Gids |-> 0] /\ stale = {}

Event(kind) == kind \in kinds.events /\ events < kinds.max /\ events' = events + 1
Fault(kind) == Event(kind)

----------------------------------------------------------------------------
(* The repository. *)

\* A completed or removed execution never becomes live again.
DownloadTransition(from, to) ==
    \/ from = to
    \/ from \notin {"removed", "complete"}
    \/ from = "complete" /\ to = "removed"

ReserveFenced(r, read) == r.status # "absent" /\ ~r.deleted /\ r.rev = read.rev
Reservable(r, read) == r.status # "absent" /\ ~r.deleted /\ r.rev = read.rev /\ ~r.fence

\* The record after FinishControl of lease x.
NoTombstone(r, x) ==
    IF x.remove THEN Absent
    ELSE [r EXCEPT !.fence = FALSE, !.rev = @ + 1, !.status = IF x.next # None THEN x.next ELSE @,
                   !.owner = IF x.next = "paused" THEN x.owner ELSE None]
FinishControl(r, x) ==
    LET status == IF x.remove THEN "removed" ELSE x.next
        written == status # None /\ DownloadTransition(r.status, status)
    IN [r EXCEPT !.fence = FALSE, !.rev = @ + 1, !.deleted = @ \/ x.remove,
                 !.status = IF written THEN status ELSE @,
                 !.owner = IF ~written THEN @ ELSE IF status = "paused" THEN x.owner ELSE None]

\* The status Merge stores for a new gid: a submission carries none, a retry "waiting".
MergedStatus(r, act) ==
    IF act = "retry" THEN "waiting" ELSE IF r.status = "absent" THEN "waiting" ELSE r.status
MergeAllowed(r, status) == r.status = "absent" \/ DownloadTransition(r.status, status)
Merge(r, status) == [r EXCEPT !.status = status, !.rev = @ + 1]

ApplyAnyRevision(r, read, seen) == ~r.deleted /\ ~r.fence /\ DownloadTransition(r.status, Report(seen))
\* The transaction of an observation accepts the status only for the record it read.
Applicable(r, read, seen) ==
    ~r.deleted /\ r.rev = read.rev /\ ~r.fence /\ DownloadTransition(r.status, Report(seen))

----------------------------------------------------------------------------
(* Controls. *)

Step(a, changes) == op' = [op EXCEPT ![a] = changes]
Done(a) == Step(a, Idle)
ToFinish(a) == Step(a, [op[a] EXCEPT !.pc = "finish"])

Retryable(s) == s \in {"error", "removed", "short"}

\* Every control starts from a record read earlier: the records without tombstones.
Begin(a, g, act, force) ==
    /\ op[a].pc = "idle" /\ Present(g) /\ ~rec[g].deleted
    /\ Step(a, [Idle EXCEPT !.pc = "reserve", !.act = act, !.gid = g, !.read = rec[g], !.force = force])
    /\ UNCHANGED <<rec, link, remote, obs, intent, replaced, stale>>

UserControl(u, act) == u \in kinds.users /\ act \in kinds.acts /\ Event("control")

\* controlOne (PauseTask, UnpauseTask, RemoveTask) and the loop of ChangeTasks.
ChangeTask(u, g, act) ==
    UserControl(u, act) /\ act # "retry" /\ Begin(u, g, act, FALSE)

\* listOwnedTasks: registered tasks with the status their listing shows; every listed one
\* is a control of its own, with the record read before the listing.
Listed(g, statuses) == remote[g] \notin {"unused", "none"} /\ Report(remote[g]) \in statuses

PauseAll(u, g) ==
    UserControl(u, "pause") /\ Listed(g, {"active", "waiting"}) /\ Begin(u, g, "pause", TRUE)
StartAll(u, g) ==
    UserControl(u, "resume") /\ Listed(g, {"paused"}) /\ Begin(u, g, "resume", FALSE)
ClearStopped(u, g) ==
    /\ UserControl(u, "delete") /\ Listed(g, {"complete", "error", "removed"})
    /\ Begin(u, g, "delete", FALSE)

\* RetryStopped for one listed task; retryTask asks again whether it is retryable.
RetryStopped(u, g) ==
    UserControl(u, "retry") /\ Retryable(remote[g]) /\ Begin(u, g, "retry", FALSE)

\* A governor resumes what it paused itself, the manager whatever is owned.
MayResume(a, r) == r.owner # None /\ (a = Lifecycle \/ r.owner = a)

\* automaticClient.change.
Change(a, g, act) ==
    /\ Event("automatic")
    /\ act = "resume" => MayResume(a, rec[g])
    /\ Begin(a, g, act, TRUE)

OwnerAlways(a, r) == IF a \in Users THEN None ELSE a
\* An automatic control leaves the pause of a user without an owner.
LeaseOwner(a, r) ==
    IF a \in Users \/ (r.status = "paused" /\ r.owner = None) THEN None ELSE a

Reserve(a) ==
    LET x == op[a] IN
    /\ x.pc = "reserve"
    /\ IF Reservable(rec[x.gid], x.read)
       THEN /\ rec' = [rec EXCEPT ![x.gid].rev = @ + 1, ![x.gid].fence = TRUE]
            /\ Step(a, [x EXCEPT !.pc = "tell", !.rev = rec[x.gid].rev + 1,
                                 !.owner = IF x.act \in {"pause", "resume"} THEN LeaseOwner(a, x.read) ELSE None])
       ELSE Done(a) /\ UNCHANGED rec
    /\ UNCHANGED <<link, remote, obs, events, intent, replaced, stale>>

\* What the control does next, knowing the status s aria2 just reported.
Decide(a, s) ==
    LET x == op[a]
        status == Report(s)
        call(c) == [x EXCEPT !.pc = "rpc", !.call = c]
        keep == [x EXCEPT !.pc = "finish", !.next = status]
    IN CASE x.act = "pause" /\ status \in {"paused", "complete", "error"} ->
                [keep EXCEPT !.owner = IF a \in Users THEN None ELSE x.read.owner]
         [] x.act = "pause" /\ status \notin {"paused", "complete", "error"} ->
                call(IF x.force THEN "forcePause" ELSE "pause")
         [] x.act = "resume" -> IF status # "paused" THEN keep ELSE call("unpause")
         [] x.act = "delete" -> call(IF status \in {"complete", "error", "removed"}
                                     THEN "removeResult" ELSE "remove")
         [] x.act = "retry" -> [x EXCEPT !.pc = IF Retryable(s) THEN "add" ELSE "finish"]

Tell(a) ==
    LET s == remote[op[a].gid] IN
    /\ op[a].pc = "tell"
    /\ \/ s # "none" /\ Step(a, Decide(a, s)) /\ UNCHANGED events
       \/ s = "none" /\ ToFinish(a) /\ UNCHANGED events
       \/ Fault("rpcFault") /\ ToFinish(a)
    /\ UNCHANGED <<rec, link, remote, obs, intent, replaced, stale>>

\* The states a remote call may leave the daemon in; none of them: it answers an error.
Effect(call, s) ==
    CASE call = "pause" /\ s \in {"waiting", "active"} ->
            {"paused"} \cup (IF "pause" \in kinds.lag /\ s = "active" THEN {"pausing"} ELSE {})
      [] call = "forcePause" /\ s \in {"waiting", "active", "pausing"} ->
            {"paused"} \cup (IF "pause" \in kinds.lag /\ s # "waiting" THEN {"pausing"} ELSE {})
      [] call = "unpause" /\ s = "paused" -> {"waiting"}
      [] call = "remove" /\ s \in {"waiting", "active", "paused", "pausing"} ->
            {"removed"} \cup (IF "remove" \in kinds.lag THEN {"removing"} ELSE {})
      [] call = "removeResult" /\ s \in {"complete", "short", "error", "removed"} -> {"none"}
      [] OTHER -> {}

Answered(x) ==
    CASE x.call \in {"pause", "forcePause"} -> [x EXCEPT !.pc = "finish", !.next = "paused"]
      [] x.call = "unpause" -> [x EXCEPT !.pc = "finish", !.next = "waiting"]
      [] x.call \in {"remove", "removeResult"} -> [x EXCEPT !.pc = "finish", !.remove = TRUE]

Rpc(a) ==
    LET x == op[a] IN
    /\ x.pc = "rpc"
    /\ \/ \E s \in Effect(x.call, remote[x.gid]) :
            /\ remote' = [remote EXCEPT ![x.gid] = s]
            /\ \/ Step(a, Answered(x)) /\ UNCHANGED events
               \/ Fault("rpcFault") /\ ToFinish(a)            \* the answer is lost
       \/ /\ \/ Effect(x.call, remote[x.gid]) = {} /\ UNCHANGED events
             \/ Fault("rpcFault")                              \* the call is lost
          /\ ToFinish(a) /\ UNCHANGED remote
    /\ UNCHANGED <<rec, link, obs, intent, replaced, stale>>

\* History: the replacements of the controls A count no more, their deletion is not stored.
Uncounted(A) == [g \in Gids |-> replaced[g] - Cardinality({a \in A : op[a].act = "retry" /\ op[a].remove
                                                                         /\ op[a].gid = g})]

Passing == {o \in Observers : obs[o].pc # "idle"}

\* finishControl: the result is stored only under the lease that made the call.
Finish(a) ==
    LET x == op[a]
        r == rec[x.gid]
        mine == Present(x.gid) /\ r.rev = x.rev
    IN
    /\ x.pc = "finish"
    /\ rec' = IF mine THEN [rec EXCEPT ![x.gid] = FinishControl(r, x)] ELSE rec
    /\ intent' = IF mine /\ x.remove THEN [intent EXCEPT ![x.gid] = "delete"] ELSE intent
    /\ stale' = IF mine THEN stale \cup {<<o, x.gid>> : o \in Passing} ELSE stale
    /\ replaced' = IF mine THEN replaced ELSE Uncounted({a})
    /\ Done(a)
    /\ UNCHANGED <<link, remote, obs, events>>

\* The storage refuses the result; the fence stays until its deadline.
FinishFails(a) ==
    /\ op[a].pc = "finish" /\ Fault("finishFault") /\ Done(a)
    /\ replaced' = Uncounted({a})
    /\ UNCHANGED <<rec, link, remote, obs, intent, stale>>

----------------------------------------------------------------------------
(* Submission and retry: a new gid is added remotely, then registered. *)

Submit(a) ==
    /\ a \in kinds.users /\ op[a].pc = "idle" /\ link.present /\ Event("submit")
    /\ Step(a, [Idle EXCEPT !.pc = "add", !.act = "submit"])
    /\ UNCHANGED <<rec, link, remote, obs, intent, replaced, stale>>

GiveUp(a) == IF op[a].act = "retry" THEN ToFinish(a) ELSE Done(a)

AddURI(a) ==
    /\ op[a].pc = "add"
    /\ \/ \E n \in kinds.gids :
            /\ remote[n] = "unused" /\ \A m \in kinds.gids : m < n => remote[m] # "unused"
            /\ remote' = [remote EXCEPT ![n] = "waiting"]
            /\ \/ Step(a, [op[a] EXCEPT !.pc = "register", !.new = n]) /\ UNCHANGED events
               \/ Fault("rpcFault") /\ GiveUp(a)
       \/ (Fault("rpcFault") \/ (UNCHANGED events /\ \A n \in kinds.gids : remote[n] # "unused"))
          /\ GiveUp(a) /\ UNCHANGED remote
    /\ UNCHANGED <<rec, link, obs, intent, replaced, stale>>

Register(a) ==
    LET x == op[a]
        status == MergedStatus(rec[x.new], x.act)
    IN
    /\ x.pc = "register"
    /\ \/ /\ MergeAllowed(rec[x.new], status)
          /\ rec' = [rec EXCEPT ![x.new] = Merge(@, status)]
          /\ IF x.act = "retry"
             THEN /\ Step(a, [x EXCEPT !.pc = "result", !.remove = TRUE])
                  /\ replaced' = [replaced EXCEPT ![x.gid] = @ + 1]
             ELSE Done(a) /\ UNCHANGED replaced
          /\ UNCHANGED events
       \/ /\ \/ ~MergeAllowed(rec[x.new], status) /\ UNCHANGED events
             \/ Fault("storeFault")
          /\ Step(a, [x EXCEPT !.pc = "undo"]) /\ UNCHANGED <<rec, replaced>>
    /\ UNCHANGED <<link, remote, obs, intent, stale>>

\* The new gid could not be registered: remove it from aria2 again.
Undo(a) ==
    LET x == op[a] IN
    /\ x.pc = "undo" /\ GiveUp(a)
    /\ \/ \E s \in Effect("remove", remote[x.new]) :
            remote' = [remote EXCEPT ![x.new] = s] /\ UNCHANGED events
       \/ Effect("remove", remote[x.new]) = {} /\ UNCHANGED <<remote, events>>
       \/ Fault("rpcFault") /\ UNCHANGED remote
    /\ UNCHANGED <<rec, link, obs, intent, replaced, stale>>

\* The replacement is registered: drop the old result; the old record goes either way.
DropResult(a) ==
    LET x == op[a] IN
    /\ x.pc = "result" /\ ToFinish(a)
    /\ \/ /\ Effect("removeResult", remote[x.gid]) # {} /\ UNCHANGED events
          /\ remote' = [remote EXCEPT ![x.gid] = "none"]
       \/ /\ \/ Effect("removeResult", remote[x.gid]) = {} /\ UNCHANGED events
             \/ Fault("rpcFault")
          /\ UNCHANGED remote
    /\ UNCHANGED <<rec, link, obs, intent, replaced, stale>>

----------------------------------------------------------------------------
(* Observation: the repository snapshot precedes the three remote lists. *)

Snapshot(o) ==
    /\ obs[o].pc = "idle" /\ Event("observe")
    /\ obs' = [obs EXCEPT ![o] = [pc |-> "active", recs |-> rec, seen |-> NoReading,
                                  version |-> IF link.present THEN link.version ELSE 0]]
    /\ stale' = {p \in stale : p[1] # o}
    /\ UNCHANGED <<rec, link, remote, op, intent, replaced>>

Lists == [active |-> {"active"}, waiting |-> {"waiting", "paused"},
          stopped |-> {"complete", "error", "removed"}]
After == [active |-> "waiting", waiting |-> "stopped", stopped |-> "apply"]

\* TellActive, TellWaiting, TellStopped, one after the other: the last list wins.
List(o) ==
    LET pc == obs[o].pc
        listed(g) == remote[g] \notin {"unused", "none"} /\ Report(remote[g]) \in Lists[pc]
        shown(s) == IF s = "short" THEN s ELSE Report(s)
    IN
    /\ pc \in DOMAIN Lists
    /\ obs' = [obs EXCEPT ![o].pc = After[pc],
                          ![o].seen = [g \in Gids |-> IF listed(g) THEN shown(remote[g]) ELSE @[g]]]
    /\ UNCHANGED <<rec, link, remote, op, events, intent, replaced, stale>>

\* The link the snapshot showed must still be the stored one.
SameLink(o) == obs[o].version = 0 \/ (link.present /\ link.version = obs[o].version)

Created(g, seen) == [Absent EXCEPT !.status = Report(seen), !.rev = 1]

Apply(o, g) ==
    LET x == obs[o]
        seen == x.seen[g]
        create == x.recs[g].status = "absent"
        skip == x.recs[g].deleted \/ (create /\ (seen = "removed" \/ x.version = 0))
        applied == /\ ~skip /\ SameLink(o) /\ create = ~Present(g)
                   /\ create \/ Applicable(rec[g], x.recs[g], seen)
    IN
    /\ x.pc = "apply" /\ seen # "none"
    /\ obs' = [obs EXCEPT ![o].seen[g] = "none"]
    /\ IF applied
       THEN /\ rec' = [rec EXCEPT ![g] = IF create THEN Created(g, seen)
                                         ELSE [rec[g] EXCEPT !.status = Report(seen), !.rev = @ + 1]]
            /\ link' = IF seen = "complete" /\ x.version # 0
                       THEN [link EXCEPT !.downloaded = TRUE, !.by = x.version] ELSE link
       ELSE UNCHANGED <<rec, link>>
    /\ UNCHANGED <<remote, op, events, intent, replaced, stale>>

\* The end of a pass; the manager's pass also removes expired links and the
\* associations that have none, but neither fenced records nor tombstones.
EndObserve(o) ==
    /\ obs[o].pc = "apply" /\ obs[o].seen = NoReading
    /\ obs' = [obs EXCEPT ![o] = Resting]
    /\ \/ UNCHANGED <<rec, link, events>>
       \/ LET orphan(g) == Present(g) /\ ~rec[g].deleted /\ ~rec[g].fence IN
          /\ \/ link.present /\ Event("expire")
             \/ ~link.present /\ UNCHANGED events
          /\ link' = [link EXCEPT !.present = FALSE, !.downloaded = FALSE, !.by = 0]
          /\ rec' = [g \in Gids |-> IF orphan(g) THEN Absent ELSE rec[g]]
    /\ stale' = {p \in stale : p[1] # o}
    /\ UNCHANGED <<remote, op, intent, replaced>>

ListFails(o) ==
    /\ obs[o].pc \in DOMAIN Lists /\ Fault("rpcFault")
    /\ obs' = [obs EXCEPT ![o] = Resting] /\ stale' = {p \in stale : p[1] # o}
    /\ UNCHANGED <<rec, link, remote, op, intent, replaced>>

----------------------------------------------------------------------------
(* The environment: the daemon, the link's owner, time and the process. *)

Progress(g) ==
    /\ \/ remote[g] = "waiting" /\ remote' = [remote EXCEPT ![g] = "active"]
       \/ \E s \in kinds.ends : remote[g] = "active" /\ remote' = [remote EXCEPT ![g] = s]
       \/ remote[g] = "pausing" /\ remote' = [remote EXCEPT ![g] = "paused"]
       \/ remote[g] = "removing" /\ remote' = [remote EXCEPT ![g] = "removed"]
    /\ UNCHANGED <<rec, link, op, obs, events, intent, replaced, stale>>

\* LinkRepository.Remove erases the link with every association, fenced or not.
RemoveLink ==
    /\ link.present /\ Event("link")
    /\ link' = [link EXCEPT !.present = FALSE, !.downloaded = FALSE, !.by = 0]
    /\ rec' = [g \in Gids |-> Absent] /\ intent' = [g \in Gids |-> "none"]
    /\ UNCHANGED <<remote, op, obs, replaced, stale>>

CreateLink ==
    /\ ~link.present /\ Event("link")
    /\ link' = [version |-> link.version + 1, present |-> TRUE, downloaded |-> FALSE, by |-> 0]
    /\ UNCHANGED <<rec, remote, op, obs, intent, replaced, stale>>

Holds(a, g) == op[a].pc \in Leased /\ op[a].gid = g
\* The deadline passes; a living control has ended before (30 s + 5 s < 1 min).
FenceExpires(g) ==
    /\ rec[g].fence /\ \A a \in Actors : ~Holds(a, g)
    /\ rec' = [rec EXCEPT ![g].fence = FALSE]
    /\ UNCHANGED <<link, remote, op, obs, events, intent, replaced, stale>>

\* A day passes: nothing is under way and the record's time to live has run out.
Sweep(g) ==
    /\ Present(g) /\ ~rec[g].fence /\ Event("sweep")
    /\ \A a \in Actors : op[a].pc = "idle"
    /\ \A o \in Observers : obs[o].pc = "idle"
    /\ \A n \in Gids : remote[n] \notin {"pausing", "removing"}
    /\ rec' = [rec EXCEPT ![g] = Absent] /\ intent' = [intent EXCEPT ![g] = "none"]
    /\ replaced' = [replaced EXCEPT ![g] = 0]
    /\ UNCHANGED <<link, remote, op, obs, stale>>

Crash ==
    /\ Event("crash")
    /\ op' = [a \in Actors |-> Idle] /\ obs' = [o \in Observers |-> Resting] /\ stale' = {}
    /\ replaced' = Uncounted(Actors)
    /\ UNCHANGED <<rec, link, remote, intent>>

----------------------------------------------------------------------------
Operate(a) ==
    \/ Reserve(a) \/ Tell(a) \/ Rpc(a) \/ Finish(a) \/ FinishFails(a)
    \/ AddURI(a) \/ Register(a) \/ Undo(a) \/ DropResult(a)

Changes ==
    \/ \E a \in Actors : Submit(a) \/ Operate(a)
    \/ \E u \in Users, g \in Gids, act \in {"pause", "resume", "delete"} : ChangeTask(u, g, act)
    \/ \E u \in Users, g \in Gids : \/ PauseAll(u, g) \/ StartAll(u, g) \/ ClearStopped(u, g)
                                     \/ RetryStopped(u, g)
    \/ \E a \in Autos, g \in Gids, act \in {"pause", "resume"} : Change(a, g, act)
    \/ \E o \in Observers : Snapshot(o) \/ List(o) \/ EndObserve(o) \/ ListFails(o)
    \/ \E o \in Observers, g \in Gids : Apply(o, g)
    \/ \E g \in Gids : Progress(g) \/ FenceExpires(g) \/ Sweep(g)
    \/ RemoveLink \/ CreateLink \/ Crash
Next == Changes /\ UNCHANGED kinds

Spec == Init /\ [][Next]_vars

----------------------------------------------------------------------------
(* Properties. *)

\* automatic_control.go: "Manual pause clears ownership, so a delayed backoff/recovery
\* cannot undo the user's choice": as long as the stored record shows a pause that nobody
\* owns, no automatic control makes the pause its own, and what makes aria2 run the task
\* again is a user's resume.  (The record is what the code goes by: a reading of aria2
\* that begins after the pause was stored and still finds the task active takes it back.)
UserPaused(g) == rec[g].status = "paused" /\ rec[g].owner = None /\ ~rec[g].deleted
UserPauseKept ==
    [][\A g \in Gids : UserPaused(g) =>
        /\ rec'[g].owner = None
        /\ remote[g] \in {"paused", "pausing"} /\ remote'[g] = "waiting" =>
              \E u \in Users : op[u].gid = g /\ op[u].call = "unpause" /\ op'[u] # op[u]]_vars

\* ReserveControl's "bounded fence around network I/O": while the link stays, no two
\* controls of a gid talk to aria2 at once, whatever submission or crash interferes.
OneControl ==
    link.present /\ link.version = 1 => \A g \in Gids : Cardinality({a \in Actors : Holds(a, g)}) <= 1

\* FinishControl: "Both successful and failed calls advance the version so observations
\* started during I/O are rejected": a pass that began before the result of a control was
\* stored never overwrites it, whenever it read the daemon.
NoStaleObservation ==
    [][\A o \in Observers, g \in Gids :
        (<<o, g>> \in stale /\ obs[o].pc = "apply" /\ obs'[o].pc = "apply"
          /\ obs'[o].seen[g] # obs[o].seen[g]) => rec'[g] = rec[g]]_vars

\* FinishControl's tombstone and Apply's "A stale snapshot cannot recreate a deleted
\* record": until retention expires or its link is removed, no reading of a daemon that
\* still shows it, and no late registration, makes a deleted task a known one again.
DeletedStaysDeleted ==
    \A g \in Gids : intent[g] = "delete" /\ Present(g) => rec[g].deleted

\* Apply must not "mark a replacement link as downloaded": the mark of a link comes from
\* an observation that started from this very link.
DownloadedThisLink == link.downloaded => link.present /\ link.by = link.version

\* retryTask: "Once the replacement is registered the old execution must not be retried
\* again, even if removal of its remote result fails": while the link stays and the
\* tombstone of the old execution is kept, a second retry, an observation that still sees
\* its result or a lost answer registers no second replacement.  (After a crash before
\* the tombstone, or a storage that refuses it, the old record is all that is known.)
RetriedOnce == link.present /\ link.version = 1 => \A g \in Gids : replaced[g] <= 1

\* What the records say about tasks and links that are gone stays true: a late reading or
\* registration neither revives a deleted task nor completes another link.
GoneStaysGone == DeletedStaysDeleted /\ DownloadedThisLink

\* A user's control is not undone behind its back: neither by a governor nor by an older
\* reading, and what a retry replaced is not replaced again.
ControlsPrevail == UserPauseKept /\ NoStaleObservation /\ []RetriedOnce

=============================================================================
