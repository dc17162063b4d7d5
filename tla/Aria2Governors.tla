--------------------------- MODULE Aria2Governors ---------------------------
(***************************************************************************)
(* The aria2 manager (application/downloader.aria2/manager.go): it connects*)
(* to the daemon, resumes what automation left paused, runs the governors  *)
(* (telegram-error regulator, zero-speed monitor, transfer limits) and     *)
(* pauses the account's tasks when it stops.                               *)
(*                                                                         *)
(* One control of a task is one step here: Aria2Control models the fence,  *)
(* the two remote calls and the observations inside it.  What is kept is   *)
(* what a control leaves behind, the errors it may return and the retries  *)
(* of reconnect.go.  Times are ages in ticks, capped where the code stops  *)
(* telling them apart.                                                     *)
(***************************************************************************)
EXTENDS Integers, Sequences, FiniteSets

CONSTANTS
    Tasks,      \* the gids of the daemon
    Foreign,    \* those that look like ours but are not registered to the account
    Completed,  \* how much of every task is complete, a set of pairs <<task, length>>
    None,
    Policies,   \* connection policies, records [retry, maximum]
    Limits,     \* the values of the transfer limit
    Buffer,     \* errors the regulator queues
    Threshold,  \* errors within Window that start a regulation
    Window,     \* ticks an error counts
    Cooldown,   \* ticks between two regulations
    Stall,      \* ticks at zero speed after which a task is cycled
    Scenarios,  \* sets of kinds of outside events; a behaviour meets those of one set
    MaxEvents   \* how many of them happen

GovernorsAssumption ==
    /\ Foreign \subseteq Tasks /\ None \notin Tasks
    /\ \A p \in Policies : p.retry \in Nat \ {0} /\ p.retry <= p.maximum
    /\ {Buffer, Threshold, Window, Cooldown, Stall} \subseteq Nat \ {0} /\ MaxEvents \in Nat

VARIABLES
    remote,    \* the daemon: the status of every task
    flowing,   \* the tasks that receive bytes
    cap,       \* the daemon's max-concurrent-downloads
    rec,       \* the persisted record of every registered task: status and PauseOwner
    mgr,       \* Manager.Run
    conf,      \* what other components set: the policy and the transfer limit, with their wake-ups
    limiter,   \* applyTransferLimits
    reg,       \* TelegramErrorRegulator
    mon,       \* ZeroSpeedMonitor
    excused,   \* history: tasks an automatic resume was refused for, or paused in the daemon itself
    quiet,     \* history: ticks since a poll last saw the task moving or not active
    kinds, events

govVars == <<remote, flowing, cap, rec, mgr, conf, limiter, reg, mon, excused, quiet, kinds, events>>

Owners == {"telegram", "zero", "lifecycle"}
Remote == {"waiting", "active", "paused", "done"}

Capped(n, most) == IF n < most THEN n ELSE most

MgrOff == [pc |-> "off", stop |-> FALSE, delay |-> 0, todo |-> {}]
RegOff == [pc |-> "off", queue |-> 0, ages |-> <<>>, rest |-> Cooldown, todo |-> {}, paused |-> {}]
MonOff == [pc |-> "off", stall |-> [t \in Tasks |-> -1], todo |-> {}, cur |-> None]

GovInit ==
    /\ remote = [t \in Tasks |-> "active"] /\ flowing = {}
    /\ cap = CHOOSE n \in Limits : TRUE
    /\ rec = [t \in Tasks |-> [status |-> "active", owner |-> None]]
    /\ mgr = MgrOff /\ limiter = "off" /\ reg = RegOff /\ mon = MonOff
    /\ \E p \in Policies, n \in Limits : conf = [policy |-> p, wake |-> FALSE, limit |-> n, signal |-> FALSE]
    /\ excused = {} /\ quiet = [t \in Tasks |-> 0]
    /\ kinds \in Scenarios /\ events = 0

Event(k) == k \in kinds /\ events < MaxEvents /\ events' = events + 1 /\ UNCHANGED kinds
Quiet == UNCHANGED <<kinds, events>>

----------------------------------------------------------------------------
(* Controls: automaticClient.change and performOwnedControl. *)

Registered(t) == t \notin Foreign

OwnOnly(a, r) == r.owner # None /\ r.owner = a
\* Each governor resumes only its own pauses, the manager whatever automation paused.
MayResume(a, r) == r.owner # None /\ (a = "lifecycle" \/ r.owner = a)

\* A pause already made, by whom ever, keeps its owner; an explicit user pause has precedence.
PauseOwner(a, r) == IF r.status = "paused" /\ r.owner = None THEN None ELSE a

Recorded(t, status, owner) ==
    rec' = [rec EXCEPT ![t] = [status |-> status, owner |-> IF status = "paused" THEN owner ELSE None]]

ForcePause(a, t) ==
    IF remote[t] \in {"paused", "done"}
    THEN Recorded(t, remote[t], rec[t].owner) /\ UNCHANGED remote
    ELSE remote' = [remote EXCEPT ![t] = "paused"] /\ Recorded(t, "paused", PauseOwner(a, rec[t]))

Unpause(a, t) ==
    IF remote[t] # "paused"
    THEN Recorded(t, remote[t], None) /\ UNCHANGED remote
    ELSE remote' = [remote EXCEPT ![t] = "waiting"] /\ Recorded(t, "waiting", None)

\* Whether the control did something; otherwise errAutomaticControlSkipped.
Allowed(a, t, act) == Registered(t) /\ (act = "resume" => MayResume(a, rec[t]))
Changes(a, t, act) ==
    /\ Allowed(a, t, act)
    /\ IF act = "pause" THEN remote[t] \notin {"paused", "done"} ELSE remote[t] = "paused"

Change(a, t, act) ==
    IF ~Allowed(a, t, act) THEN UNCHANGED <<remote, rec>>
    ELSE IF act = "pause" THEN ForcePause(a, t) ELSE Unpause(a, t)

\* A call that fails: it was refused or never arrived, or its answer was lost.
Fails(a, t, act) ==
    /\ Event("fault")
    /\ \/ UNCHANGED <<remote, rec>>
       \/ /\ Changes(a, t, act) /\ UNCHANGED rec
          /\ remote' = [remote EXCEPT ![t] = IF act = "pause" THEN "paused" ELSE "waiting"]

\* isTDLAria2Task: registered, or downloading from a link of this base URL.
Owned(status) == {t \in Tasks : remote[t] \in status}

Excuse(t, act) == excused' = IF act = "resume" THEN excused \cup {t} ELSE excused

\* One task of a list.  RetryConnection repeats a call that met a connection error until
\* its context ends (the error is then a timeout); every other error skips the task.
OneControl(a, t, act, done, skipped) ==
    \/ Change(a, t, act) /\ Quiet /\ UNCHANGED excused
       /\ IF Changes(a, t, act) THEN done ELSE skipped
    \/ Fails(a, t, act)
       /\ \/ skipped /\ Excuse(t, act)
          \/ UNCHANGED <<mgr, reg, mon, excused>>

----------------------------------------------------------------------------
(* Manager.Run. *)

Rest == <<limiter, reg, mon>>

Run ==
    /\ mgr.pc = "off" /\ Event("start")
    /\ mgr' = [MgrOff EXCEPT !.pc = "connect", !.delay = Capped(conf.policy.retry, conf.policy.maximum)]
    /\ conf' = [conf EXCEPT !.wake = FALSE]
    /\ excused' = {}
    /\ UNCHANGED <<remote, flowing, cap, rec, quiet, Rest>>

Stopped == [mgr EXCEPT !.pc = "stopped", !.todo = {}, !.delay = 0]

\* waitUntilReady: every failure of SetMaxConcurrentDownloads is retried.
Connect ==
    /\ mgr.pc = "connect"
    /\ IF mgr.stop THEN mgr' = Stopped /\ UNCHANGED cap /\ Quiet
       ELSE \/ cap' = conf.limit /\ mgr' = [mgr EXCEPT !.pc = "recover", !.delay = 0] /\ Quiet
            \/ UNCHANGED cap /\ mgr' = [mgr EXCEPT !.pc = "backoff"] /\ Event("fault")
    /\ UNCHANGED <<remote, flowing, rec, conf, excused, quiet, Rest>>

Backoff ==
    /\ mgr.pc = "backoff"
    /\ \/ mgr.stop /\ mgr' = Stopped /\ UNCHANGED conf
       \/ /\ mgr' = [mgr EXCEPT !.pc = "connect", !.delay = Capped(2 * @, conf.policy.maximum)]
          /\ UNCHANGED conf
       \/ /\ conf.wake /\ conf' = [conf EXCEPT !.wake = FALSE]
          /\ mgr' = [mgr EXCEPT !.pc = "connect", !.delay = conf.policy.retry]
    /\ Quiet
    /\ UNCHANGED <<remote, flowing, cap, rec, excused, quiet, Rest>>

\* ResumeStartupPausedTasks: list the paused tasks that look like ours, resume one by one.
Recover ==
    /\ mgr.pc = "recover"
    /\ \/ /\ mgr' = [mgr EXCEPT !.pc = "resume", !.todo = Owned({"paused"})]
          /\ Quiet /\ UNCHANGED excused
       \/ mgr' = [mgr EXCEPT !.pc = "launch"] /\ Event("fault") /\ excused' = Tasks
       \/ mgr.stop /\ mgr' = [mgr EXCEPT !.pc = "launch"] /\ Quiet /\ UNCHANGED excused
    /\ UNCHANGED <<remote, flowing, cap, rec, conf, quiet, Rest>>

ResumeStartupPausedTasks ==
    LET next(t) == mgr' = [mgr EXCEPT !.todo = @ \ {t}] IN
    /\ mgr.pc = "resume"
    /\ IF mgr.todo = {} \/ mgr.stop
       THEN mgr' = [mgr EXCEPT !.pc = "launch", !.todo = {}] /\ Quiet /\ UNCHANGED <<remote, rec, excused>>
       ELSE \E t \in mgr.todo : OneControl("lifecycle", t, "resume", next(t), next(t))
    /\ UNCHANGED <<flowing, cap, conf, quiet, limiter, reg, mon>>

\* The governors start, unless the context ended meanwhile: then Run returns at once, past
\* the deferred Stop.  A governor started before the context ended finds it done and leaves
\* without a call, so that the model starts all of them or none.
Launch ==
    /\ mgr.pc = "launch"
    /\ IF mgr.stop THEN mgr' = Stopped /\ UNCHANGED Rest
       ELSE /\ mgr' = [mgr EXCEPT !.pc = "govern"] /\ limiter' = "wait"
            /\ reg' = [reg EXCEPT !.pc = "idle"] /\ mon' = [mon EXCEPT !.pc = "idle"]
    /\ Quiet
    /\ UNCHANGED <<remote, flowing, cap, rec, conf, excused, quiet>>

Governing == limiter # "off" \/ reg.pc # "off" \/ mon.pc # "off"

\* <-ctx.Done(): Stop waits for the governors, then the running tasks are listed.
Drain ==
    /\ mgr.pc = "govern" /\ mgr.stop /\ ~Governing
    /\ \/ mgr' = [mgr EXCEPT !.pc = "pause", !.todo = Owned({"active", "waiting"})] /\ Quiet
       \/ mgr' = Stopped /\ Event("fault")
    /\ UNCHANGED <<remote, flowing, cap, rec, conf, excused, quiet, Rest>>

\* Within five seconds; at the deadline the remaining tasks are left running.
PauseTDLTasksForShutdown ==
    LET next(t) == mgr' = [mgr EXCEPT !.todo = @ \ {t}] IN
    /\ mgr.pc = "pause"
    /\ \/ /\ mgr.todo = {} /\ mgr' = Stopped /\ Quiet /\ UNCHANGED <<remote, rec, excused>>
       \/ \E t \in mgr.todo : OneControl("lifecycle", t, "pause", next(t), next(t))
       \/ mgr' = Stopped /\ Event("fault") /\ UNCHANGED <<remote, rec, excused>>
    /\ UNCHANGED <<flowing, cap, conf, quiet, limiter, reg, mon>>

----------------------------------------------------------------------------
(* applyTransferLimits and UpdateTransferLimits. *)

LimitDropped(n) ==
    conf' = [conf EXCEPT !.limit = n, !.signal = @ \/ (n # conf.limit /\ limiter \in {"wait", "retry"})]
SetLimit(n) == conf' = [conf EXCEPT !.limit = n, !.signal = @ \/ n # conf.limit]

UpdateTransferLimits(n) ==
    /\ Event("limit") /\ SetLimit(n)
    /\ UNCHANGED <<remote, flowing, cap, rec, mgr, excused, quiet, Rest>>

Limiter ==
    /\ limiter # "off"
    /\ \/ mgr.stop /\ limiter' = "off" /\ UNCHANGED <<cap, conf>> /\ Quiet
       \/ /\ ~mgr.stop /\ limiter \in {"wait", "retry"} /\ conf.signal
          /\ conf' = [conf EXCEPT !.signal = FALSE] /\ limiter' = "apply" /\ UNCHANGED cap /\ Quiet
       \/ ~mgr.stop /\ limiter = "retry" /\ limiter' = "apply" /\ UNCHANGED <<cap, conf>> /\ Quiet
       \/ ~mgr.stop /\ limiter = "apply" /\ cap' = conf.limit /\ limiter' = "wait" /\ UNCHANGED conf /\ Quiet
       \/ /\ ~mgr.stop /\ limiter = "apply" /\ limiter' = "retry" /\ Event("fault")
          /\ UNCHANGED <<cap, conf>>
    /\ UNCHANGED <<remote, flowing, rec, mgr, reg, mon, excused, quiet>>

----------------------------------------------------------------------------
(* TelegramErrorRegulator. *)

\* A full buffer drops the error.
ReportTelegramFileError ==
    /\ Event("error")
    /\ reg' = [reg EXCEPT !.queue = Capped(@ + 1, Buffer)]
    /\ UNCHANGED <<remote, flowing, cap, rec, mgr, conf, limiter, mon, excused, quiet>>

RegStep(next) == reg' = next
RegRest == <<flowing, cap, mgr, conf, limiter, mon, quiet>>

Recent(ages) == SelectSeq(ages, LAMBDA n : n < Window)

\* recordError: this error may complete a burst.
RecordError ==
    LET ages == Append(Recent(reg.ages), 0)
        acts == Len(ages) >= Threshold /\ reg.rest >= Cooldown
    IN
    /\ reg.pc = "idle" /\ reg.queue > 0
    /\ RegStep(IF acts THEN [reg EXCEPT !.queue = @ - 1, !.ages = <<>>, !.pc = "list"]
               ELSE [reg EXCEPT !.queue = @ - 1, !.ages = ages])
    /\ Quiet /\ UNCHANGED <<remote, rec, excused, RegRest>>

\* sortRegulationTasks: the task that is most complete keeps running.
Before(t, u) == \E p, q \in Completed : p[1] = t /\ q[1] = u /\ p[2] > q[2]
Kept(S) == CHOOSE t \in S : \A u \in S : ~Before(u, t)

Finished == [reg EXCEPT !.pc = "idle", !.rest = 0, !.ages = <<>>, !.todo = {}, !.paused = {}]

\* regulate: pause all but one active task, or the only one.
Regulate ==
    LET active == Owned({"active"})
        extra == IF Cardinality(active) > 1 THEN active \ {Kept(active)} ELSE active
    IN
    /\ reg.pc = "list"
    /\ \/ RegStep(IF active = {} THEN Finished ELSE [reg EXCEPT !.pc = "pause", !.todo = extra]) /\ Quiet
       \/ RegStep(Finished) /\ Event("fault")
       \/ mgr.stop /\ RegStep(Finished) /\ Quiet
    /\ UNCHANGED <<remote, rec, excused, RegRest>>

ForcePauseTasks ==
    LET next(t, more) == RegStep([reg EXCEPT !.todo = @ \ {t}, !.paused = @ \cup more]) IN
    /\ reg.pc = "pause"
    /\ IF reg.todo = {} \/ mgr.stop
       THEN /\ RegStep(IF reg.paused = {} THEN Finished ELSE [reg EXCEPT !.pc = "wait", !.todo = {}])
            /\ Quiet /\ UNCHANGED <<remote, rec, excused>>
       ELSE \E t \in reg.todo : OneControl("telegram", t, "pause", next(t, {t}), next(t, {}))
    /\ UNCHANGED RegRest

\* resumeAfterPause: a cancelled wait leaves the tasks paused, for the next start.
ResumeAfterPause ==
    LET next(t) == RegStep([reg EXCEPT !.paused = @ \ {t}]) IN
    /\ reg.pc \in {"wait", "resume"}
    /\ CASE mgr.stop \/ reg.paused = {} -> RegStep(Finished) /\ Quiet /\ UNCHANGED <<remote, rec, excused>>
         [] ~mgr.stop /\ reg.pc = "wait" ->
                RegStep([reg EXCEPT !.pc = "resume"]) /\ Quiet /\ UNCHANGED <<remote, rec, excused>>
         [] OTHER -> \E t \in reg.paused : OneControl("telegram", t, "resume", next(t), next(t))
    /\ UNCHANGED RegRest

RegulatorEnds ==
    /\ reg.pc = "idle" /\ mgr.stop /\ RegStep([reg EXCEPT !.pc = "off"])
    /\ Quiet /\ UNCHANGED <<remote, rec, excused, RegRest>>

----------------------------------------------------------------------------
(* ZeroSpeedMonitor. *)

MonRest == <<flowing, cap, mgr, conf, limiter, reg>>

Zero(t) == remote[t] = "active" /\ t \notin flowing

ClocksKept ==
    [t \in Tasks |-> IF t \in flowing THEN -1
                    ELSE IF Zero(t) /\ mon.stall[t] = -1 THEN 0 ELSE mon.stall[t]]

\* The clocks after a poll: gone for a task that moves or is not active, started for the
\* others, and started anew for a task that is cycled now.
Clocks == [t \in Tasks |-> IF ~Zero(t) THEN -1 ELSE IF mon.stall[t] = -1 THEN 0 ELSE mon.stall[t]]

Poll ==
    LET clocks == Clocks
        stalled == {t \in Tasks : remote[t] = "active" /\ clocks[t] >= Stall}
    IN
    /\ mon.pc = "idle" /\ ~mgr.stop
    /\ mon' = [mon EXCEPT !.pc = IF stalled = {} THEN "idle" ELSE "pause", !.todo = stalled,
                          !.stall = [t \in Tasks |-> IF t \in stalled THEN 0 ELSE clocks[t]]]
    /\ quiet' = [t \in Tasks |-> IF Zero(t) THEN quiet[t] ELSE 0]
    /\ <<mon', quiet'>> # <<mon, quiet>>
    /\ Quiet /\ UNCHANGED <<remote, rec, excused, MonRest>>

\* pauseAndResume, one stalled task after the other.
CyclePause ==
    /\ mon.pc = "pause"
    /\ IF mon.todo = {}
       THEN mon' = [mon EXCEPT !.pc = "idle"] /\ Quiet /\ UNCHANGED <<remote, rec, excused>>
       ELSE \E t \in mon.todo :
            LET wait == mon' = [mon EXCEPT !.todo = @ \ {t}, !.cur = t, !.pc = "wait"]
                skip == mon' = [mon EXCEPT !.todo = @ \ {t}]
            IN IF mgr.stop THEN skip /\ Quiet /\ UNCHANGED <<remote, rec, excused>>
               ELSE OneControl("zero", t, "pause", wait, skip)
    /\ UNCHANGED <<MonRest, quiet>>

CycleResume ==
    LET next == mon' = [mon EXCEPT !.pc = "pause", !.cur = None] IN
    /\ mon.pc \in {"wait", "resume"}
    /\ CASE mgr.stop -> next /\ Quiet /\ UNCHANGED <<remote, rec, excused>>
         [] ~mgr.stop /\ mon.pc = "wait" ->
                mon' = [mon EXCEPT !.pc = "resume"] /\ Quiet /\ UNCHANGED <<remote, rec, excused>>
         [] OTHER -> OneControl("zero", mon.cur, "resume", next, next)
    /\ UNCHANGED <<MonRest, quiet>>

MonitorEnds ==
    /\ mon.pc = "idle" /\ mgr.stop /\ mon' = [mon EXCEPT !.pc = "off"]
    /\ Quiet /\ UNCHANGED <<remote, rec, excused, quiet, MonRest>>

----------------------------------------------------------------------------
(* The outside: users, the daemon, configuration, time and the process. *)

\* PrepareConfig's commit stores the policy, then wakes the waiting manager.
CommitPolicy(p) ==
    /\ Event("policy") /\ conf' = [conf EXCEPT !.policy = p, !.wake = TRUE]
    /\ UNCHANGED <<remote, flowing, cap, rec, mgr, excused, quiet, Rest>>

\* A user's control: performControl without an owner.
UserControl(t, act) ==
    /\ Registered(t) /\ Event("user")
    /\ IF act = "pause"
       THEN /\ Recorded(t, IF remote[t] = "done" THEN "done" ELSE "paused", None)
            /\ remote' = [remote EXCEPT ![t] = IF @ = "done" THEN @ ELSE "paused"]
       ELSE Unpause(None, t)
    /\ UNCHANGED <<flowing, cap, mgr, conf, excused, quiet, Rest>>

\* A task paused or resumed in the daemon itself, and the status the next observation stores.
DaemonControl(t) ==
    /\ Event("extern") /\ remote[t] # "done"
    /\ remote' = [remote EXCEPT ![t] = IF @ = "paused" THEN "waiting" ELSE "paused"]
    /\ excused' = IF remote[t] = "paused" THEN excused ELSE excused \cup {t}
    /\ UNCHANGED <<flowing, cap, rec, mgr, conf, quiet, Rest>>

SyncStates(t) ==
    /\ Registered(t) /\ mgr.pc \notin {"off", "stopped"} /\ rec[t].status # remote[t] /\ Quiet
    /\ rec' = [rec EXCEPT ![t].status = remote[t]]
    /\ UNCHANGED <<remote, flowing, cap, mgr, conf, excused, quiet, Rest>>

Progress(t) ==
    /\ \/ remote[t] = "waiting" /\ remote' = [remote EXCEPT ![t] = "active"] /\ UNCHANGED flowing /\ Quiet
       \/ /\ remote[t] = "active" /\ Event("finish")
          /\ remote' = [remote EXCEPT ![t] = "done"] /\ flowing' = flowing \ {t}
       \/ /\ remote[t] = "active" /\ Event("flow")
          /\ flowing' = (flowing \ {t}) \cup ({t} \ flowing) /\ UNCHANGED remote
    /\ UNCHANGED <<cap, rec, mgr, conf, excused, quiet, Rest>>

Tick ==
    /\ Event("tick")
    /\ reg' = [reg EXCEPT !.ages = [i \in DOMAIN @ |-> Capped(@[i] + 1, Window)], !.rest = Capped(@ + 1, Cooldown)]
    /\ mon' = [mon EXCEPT !.stall = [t \in Tasks |-> IF @[t] = -1 THEN -1 ELSE Capped(@[t] + 1, Stall)]]
    /\ quiet' = [t \in Tasks |-> Capped(quiet[t] + 1, Stall)]
    /\ UNCHANGED <<remote, flowing, cap, rec, mgr, conf, limiter, excused>>

StopManager ==
    /\ mgr.pc \notin {"off", "stopped"} /\ ~mgr.stop /\ Event("stop") /\ mgr' = [mgr EXCEPT !.stop = TRUE]
    /\ UNCHANGED <<remote, flowing, cap, rec, conf, excused, quiet, Rest>>

\* The process ended, in order or not; a later start finds the records and the daemon.
ProcessEnds ==
    /\ IF mgr.pc = "stopped" THEN Quiet ELSE mgr.pc # "off" /\ Event("crash")
    /\ mgr' = MgrOff /\ limiter' = "off" /\ reg' = RegOff /\ mon' = MonOff
    /\ conf' = [conf EXCEPT !.wake = FALSE, !.signal = FALSE]
    /\ quiet' = [t \in Tasks |-> 0]
    /\ UNCHANGED <<remote, flowing, cap, rec, excused>>

----------------------------------------------------------------------------

Governor ==
    \/ Connect \/ Backoff \/ Recover \/ ResumeStartupPausedTasks \/ Launch \/ Drain
    \/ PauseTDLTasksForShutdown \/ Limiter
    \/ RecordError \/ Regulate \/ ForcePauseTasks \/ ResumeAfterPause \/ RegulatorEnds
    \/ Poll \/ CyclePause \/ CycleResume \/ MonitorEnds

GovOutside ==
    \/ Run \/ ReportTelegramFileError \/ Tick \/ StopManager \/ ProcessEnds
    \/ \E n \in Limits : UpdateTransferLimits(n)
    \/ \E p \in Policies : CommitPolicy(p)
    \/ \E t \in Tasks : DaemonControl(t) \/ SyncStates(t) \/ Progress(t)
    \/ \E t \in Tasks, act \in {"pause", "resume"} : UserControl(t, act)
=============================================================================
