-------------------------- MODULE ComponentRuntime --------------------------
(***************************************************************************)
(* One component host of the RTE: rte/rte.go, reconcile_components.go,     *)
(* reconfigure.go, with the event bus (eventbus/bus.go) and the runnable   *)
(* groups (schedule/group.go) its components work on.  Every lifecycle     *)
(* call holds Runtime.mu from its first step to its last; what interleaves *)
(* with it are the runnables, the event handlers, the publishers and the   *)
(* cancellation of the host's context.  Build sorts the components by name *)
(* inside a depth-first search; the model allows every order in which      *)
(* providers come first.  A component provides one port, named after it.   *)
(***************************************************************************)
EXTENDS Naturals, FiniteSets, TLC

CONSTANTS
    Comps,       \* registered components
    Required,    \* [Comps -> SUBSET Comps]: providers of its required ports
    Optional,    \* [Comps -> SUBSET Comps]: providers of its optional ports
    Work,        \* [Comps -> SUBSET {"runnable", "handler"}]: what Init registers
    Capacity,    \* capacity of an event queue
    MaxOps,      \* bound on lifecycle and configuration calls
    MaxFaults    \* bound on failing hooks, saves, time-outs and cancellations

VARIABLES
    order,       \* Runtime.order: the components that have an instance
    inst,        \* Runtime.instances: state, initialized, canceled, inc, cfg, snap
    ports,       \* Runtime.ports: the incarnation bound to a port, 0 for none
    flags,       \* started, stopping, stopped
    parentDone,  \* Runtime.context is cancelled
    tasks,       \* goroutines of the bus and of the groups, of any incarnation
    phase,       \* what the holder of Runtime.mu does; "idle" when mu is free
    todo,        \* components the current loop has still to look at
    call,        \* the argument of the current call
    objects,     \* history: <<c, inc>> whose factory ran and whose Stop did not succeed
    policy,      \* history: the configuration of the last call that was let through
    ops, faults  \* calls and faults so far

vars == <<order, inst, ports, flags, parentDone, tasks, phase, todo, call, objects, policy,
          ops, faults>>

States == {"Stopped", "Starting", "Running", "Stopping", "Blocked", "Failed"}
Providers(c) == Required[c] \cup Optional[c]
Configs == 0..MaxOps

RuntimeAssumption ==
    /\ IsFiniteSet(Comps)
    /\ {Required, Optional} \subseteq [Comps -> SUBSET Comps]
    /\ Work \in [Comps -> SUBSET {"runnable", "handler"}]
    /\ \A S \in (SUBSET Comps) \ {{}} : \E c \in S : Providers(c) \cap S = {}
    /\ {Capacity, MaxOps, MaxFaults} \subseteq Nat /\ Capacity > 0

(* What Build accepts: every required port has an enabled provider.        *)
Buildable == {E \in SUBSET Comps : \A c \in E : Required[c] \subseteq E}

Fresh(v) == [state |-> "Stopped", initialized |-> FALSE, canceled |-> FALSE, inc |-> 0,
             cfg |-> v, snap |-> [p \in Comps |-> 0]]
NoCall == [kind |-> "none", who |-> {}, v |-> 0]

TypeOK ==
    /\ order \subseteq Comps /\ todo \subseteq Comps
    /\ inst \in [Comps -> [state : States, initialized : BOOLEAN, canceled : BOOLEAN,
                           inc : 0..MaxOps + 1, cfg : Configs, snap : [Comps -> 0..MaxOps + 1]]]
    /\ ports \in [Comps -> 0..MaxOps + 1]
    /\ phase \in {"idle", "start", "hook", "undo", "drain", "close", "join", "release",
                  "prepare", "persist", "commit"}
    /\ \A t \in tasks : t.kind \in Work[t.comp] /\ t.queue \in 0..Capacity

Init ==
    /\ order \in Buildable
    /\ inst = [c \in Comps |-> Fresh(0)]
    /\ ports = [c \in Comps |-> 0]
    /\ flags = [started |-> FALSE, stopping |-> FALSE, stopped |-> FALSE]
    /\ parentDone = FALSE /\ tasks = {} /\ phase = "idle" /\ todo = {} /\ call = NoCall
    /\ objects = {} /\ policy = [c \in Comps |-> 0]
    /\ ops = 0 /\ faults = 0

Fault == faults < MaxFaults /\ faults' = faults + 1
Calls == phase = "idle" /\ ops < MaxOps /\ ops' = ops + 1
Return == phase' = "idle" /\ todo' = {} /\ call' = NoCall

SetState(S, st) == [c \in Comps |-> IF c \in S THEN [inst[c] EXCEPT !.state = st] ELSE inst[c]]
Of(c) == {t \in tasks : t.comp = c /\ t.inc = inst[c].inc}
Last(c) == \A d \in todo \ {c} : c \notin Providers(d)     \* next in reverse order
First(c) == Providers(c) \cap todo = {}                    \* next in order
Canceled(t) == parentDone \/ t.canceled
Cancel(S) == {IF t.comp \in S /\ t.inc = inst[t.comp].inc THEN [t EXCEPT !.canceled = TRUE] ELSE t :
                 t \in tasks}

(* The ports Resolve hands out, read from the published status alone.      *)
Resolvable == {c \in order : inst[c].state = "Running"}

-----------------------------------------------------------------------------
(* startLocked *)

Start ==
    /\ Calls /\ ~flags.started /\ ~flags.stopping /\ ~flags.stopped
    /\ flags' = [flags EXCEPT !.started = TRUE]
    /\ phase' = "start" /\ todo' = order
    /\ UNCHANGED <<order, inst, ports, parentDone, tasks, call, objects, policy, faults>>

(* A running instance is skipped; one whose required provider does not run *)
(* is blocked.                                                             *)
StartSkip(c) ==
    /\ phase = "start" /\ c \in todo /\ First(c)
    /\ \/ inst[c].state = "Running" /\ inst' = inst
       \/ /\ inst[c].state # "Running"
          /\ \E p \in Required[c] : inst[p].state # "Running"
          /\ inst' = SetState({c}, "Blocked")
    /\ todo' = todo \ {c}
    /\ UNCHANGED <<order, ports, flags, parentDone, tasks, phase, call, objects, policy, ops, faults>>

(* The factory runs, Init registers runnables and handlers and binds the   *)
(* port; the required ports are a private snapshot of Runtime.ports.  A    *)
(* failing Init may have registered some of its work.                      *)
InitHook(c) ==
    LET n == inst[c].inc + 1
        item == [inst[c] EXCEPT !.state = "Starting", !.initialized = TRUE, !.canceled = FALSE,
                                !.inc = n,
                                !.snap = [p \in Comps |-> IF p \in Providers(c) THEN ports[p] ELSE 0]]
        uses == {<<p, ports[p]>> : p \in {q \in Providers(c) : ports[q] # 0}}
        New(K) == {[comp |-> c, inc |-> n, kind |-> k, uses |-> uses, queue |-> 0,
                    busy |-> FALSE, canceled |-> FALSE] : k \in K}
    IN /\ phase = "start" /\ c \in todo /\ First(c)
       /\ inst[c].state \notin {"Running", "Blocked"}
       /\ \A p \in Required[c] : inst[p].state = "Running"
       /\ inst' = [inst EXCEPT ![c] = item]
       /\ objects' = objects \cup {<<c, n>>}
       /\ call' = [call EXCEPT !.who = {c}]
       /\ \/ /\ phase' = "hook" /\ ports' = [ports EXCEPT ![c] = n]
             /\ tasks' = tasks \cup New(IF parentDone THEN {} ELSE Work[c])
             /\ UNCHANGED faults
          \/ /\ Fault /\ phase' = "undo" /\ ports' = ports
             /\ \E K \in SUBSET Work[c] : tasks' = tasks \cup New(IF parentDone THEN {} ELSE K)
       /\ UNCHANGED <<order, flags, parentDone, todo, policy, ops>>

StartHook ==
    /\ phase = "hook"
    /\ \A c \in call.who :
          \/ /\ inst' = SetState({c}, "Running") /\ phase' = "start" /\ todo' = todo \ {c}
             /\ policy' = [policy EXCEPT ![c] = inst[c].cfg]
             /\ UNCHANGED faults
          \/ Fault /\ phase' = "undo" /\ UNCHANGED <<inst, todo, policy>>
    /\ UNCHANGED <<order, ports, flags, parentDone, tasks, call, objects, ops>>

(* Slip: the drain waits for work nobody has cancelled.                    *)
UndoWithoutCancel ==
    /\ phase = "undo"
    /\ \E c \in call.who : ~inst[c].canceled /\ inst' = [inst EXCEPT ![c].canceled = TRUE]
    /\ UNCHANGED <<order, ports, flags, parentDone, tasks, phase, todo, call, objects, policy, ops,
                   faults>>

(* After a failed Init or Start the context is cancelled; the component is *)
(* stopped only when its handlers and runnables have drained.  The drain   *)
(* waits on the host's context, which has no deadline.                     *)
UndoCancel ==
    /\ phase = "undo"
    /\ \E c \in call.who :
          /\ ~inst[c].canceled
          /\ inst' = [inst EXCEPT ![c].canceled = TRUE] /\ tasks' = Cancel({c})
    /\ UNCHANGED <<order, ports, flags, parentDone, phase, todo, call, objects, policy, ops, faults>>

UndoStart ==
    /\ phase = "undo"
    /\ \E c \in call.who :
          /\ inst[c].canceled
          /\ \/ /\ Of(c) = {}
                /\ \/ /\ inst' = [inst EXCEPT ![c].initialized = FALSE, ![c].state = "Failed"]
                      /\ objects' = objects \ {<<c, inst[c].inc>>} /\ UNCHANGED faults
                   \/ Fault /\ inst' = SetState({c}, "Failed") /\ UNCHANGED objects
             \/ parentDone /\ inst' = SetState({c}, "Failed") /\ UNCHANGED <<objects, faults>>
          /\ ports' = [ports EXCEPT ![c] = 0]
          /\ todo' = todo \ {c}
    /\ phase' = "start"
    /\ UNCHANGED <<order, flags, parentDone, tasks, call, policy, ops>>

StartDone ==
    /\ phase = "start" /\ todo = {}
    /\ Return
    /\ UNCHANGED <<order, inst, ports, flags, parentDone, tasks, objects, policy, ops, faults>>

-----------------------------------------------------------------------------
(* ReconcileComponents *)

(* Slip: optional consumers of a changed provider are left alone.          *)
AffectedByRequired(E) ==
    LET direct == {c \in order : c \notin E \/ inst[c].state # "Running"}
        Closed == {S \in SUBSET order :
                      /\ direct \subseteq S
                      /\ \A c \in order \ S : \A p \in Required[c] : p \notin S}
    IN {c \in order : \A S \in Closed : c \in S}

(* Not wanted or not running, and whoever holds a port of such a provider  *)
(* or of one that appears or disappears: the least such set.               *)
Affected(E) ==
    LET direct == {c \in order : c \notin E \/ inst[c].state # "Running"}
        Closed == {S \in SUBSET order :
                      /\ direct \subseteq S
                      /\ \A c \in order \ S : \A p \in Providers(c) :
                            (p \in order <=> p \in E) /\ p \notin S}
    IN {c \in order : \A S \in Closed : c \in S}

Reconcile(E) ==
    /\ Calls /\ ~flags.stopping /\ ~flags.stopped
    /\ LET hit == Affected(E)
       IN /\ inst' = [c \in Comps |-> IF c \in hit
                         THEN [inst[c] EXCEPT !.canceled = TRUE, !.state = "Stopping"] ELSE inst[c]]
          /\ tasks' = Cancel(hit) /\ todo' = hit
          /\ call' = [kind |-> "reconcile", who |-> E, v |-> ops]
    /\ phase' = "drain"
    /\ UNCHANGED <<order, ports, flags, parentDone, objects, policy, faults>>

(* One affected component, consumers first: its handlers and runnables     *)
(* have ended, then it is stopped and its port deleted.                    *)
DrainOne(c) ==
    /\ phase = "drain" /\ c \in todo /\ Last(c) /\ Of(c) = {}
    /\ inst' = [inst EXCEPT ![c].initialized = FALSE, ![c].state = "Stopped"]
    /\ objects' = objects \ {<<c, inst[c].inc>>}
    /\ ports' = [ports EXCEPT ![c] = 0]
    /\ todo' = todo \ {c}
    /\ UNCHANGED <<order, flags, parentDone, tasks, phase, call, policy, ops, faults>>

(* The ten seconds are over before the drain, or Stop fails: the call      *)
(* returns and the rest of the affected components stays as it is.         *)
DrainFails(c) ==
    /\ phase = "drain" /\ c \in todo /\ Last(c)
    /\ Of(c) # {} \/ inst[c].initialized
    /\ Fault /\ Return
    /\ UNCHANGED <<order, inst, ports, flags, parentDone, tasks, objects, policy, ops>>

(* The desired build takes over; the unaffected instances are kept, every  *)
(* other one is new.                                                       *)
Adopt ==
    /\ phase = "drain" /\ todo = {}
    /\ LET kept == {c \in call.who \cap order : inst[c].state = "Running"}
       IN inst' = [c \in Comps |-> IF c \in kept THEN inst[c]
                                    ELSE [Fresh(call.v) EXCEPT !.inc = inst[c].inc]]
    /\ order' = call.who /\ phase' = "start" /\ todo' = call.who
    /\ flags' = [flags EXCEPT !.started = TRUE]
    /\ UNCHANGED <<ports, parentDone, tasks, call, objects, policy, ops, faults>>

-----------------------------------------------------------------------------
(* Stop *)

Stop ==
    /\ phase = "idle" /\ ~flags.stopped
    /\ flags.stopping \/ ops < MaxOps
    /\ ops' = IF flags.stopping THEN ops ELSE ops + 1
    /\ flags' = [flags EXCEPT !.stopping = TRUE]
    /\ inst' = [c \in Comps |-> IF c \notin order THEN inst[c]
                   ELSE [inst[c] EXCEPT !.canceled = TRUE,
                             !.state = IF inst[c].initialized THEN "Stopping" ELSE @]]
    /\ tasks' = {IF t.kind = "handler" \/ t.comp \in order THEN [t EXCEPT !.canceled = TRUE] ELSE t :
                    t \in tasks}
    /\ phase' = "close"
    /\ UNCHANGED <<order, ports, parentDone, todo, call, objects, policy, faults>>

(* Bus.Close: every handler of the host has ended.                         *)
CloseBus ==
    /\ phase = "close" /\ \A t \in tasks : t.kind # "handler"
    /\ phase' = "join" /\ todo' = order
    /\ UNCHANGED <<order, inst, ports, flags, parentDone, tasks, call, objects, policy, ops, faults>>

CloseFails ==
    /\ phase = "close" /\ \E t \in tasks : t.kind = "handler"
    /\ Fault /\ Return
    /\ inst' = SetState({c \in order : inst[c].initialized}, "Failed")
    /\ UNCHANGED <<order, ports, flags, parentDone, tasks, objects, policy, ops>>

(* Every runnable group of the host is drained before anything is released.*)
JoinOne(c) ==
    /\ phase = "join" /\ c \in todo /\ Of(c) = {}
    /\ todo' = todo \ {c}
    /\ UNCHANGED <<order, inst, ports, flags, parentDone, tasks, phase, call, objects, policy, ops, faults>>

JoinFails(c) ==
    /\ phase = "join" /\ c \in todo /\ Of(c) # {}
    /\ Fault /\ Return
    /\ inst' = SetState({c}, "Failed")
    /\ UNCHANGED <<order, ports, flags, parentDone, tasks, objects, policy, ops>>

Joined ==
    /\ phase = "join" /\ todo = {}
    /\ phase' = "release" /\ todo' = order
    /\ UNCHANGED <<order, inst, ports, flags, parentDone, tasks, call, objects, policy, ops, faults>>

ReleaseOne(c) ==
    /\ phase = "release" /\ c \in todo /\ Last(c)
    /\ inst' = [inst EXCEPT ![c].initialized = FALSE, ![c].state = "Stopped"]
    /\ objects' = objects \ {<<c, inst[c].inc>>}
    /\ ports' = [ports EXCEPT ![c] = 0]
    /\ todo' = todo \ {c}
    /\ UNCHANGED <<order, flags, parentDone, tasks, phase, call, policy, ops, faults>>

ReleaseFails(c) ==
    /\ phase = "release" /\ c \in todo /\ Last(c) /\ inst[c].initialized
    /\ Fault /\ Return
    /\ inst' = SetState({c}, "Failed")
    /\ UNCHANGED <<order, ports, flags, parentDone, tasks, objects, policy, ops>>

Released ==
    /\ phase = "release" /\ todo = {}
    /\ Return
    /\ flags' = [flags EXCEPT !.stopped = TRUE]
    /\ ports' = [c \in Comps |-> 0]
    /\ UNCHANGED <<order, inst, parentDone, tasks, objects, policy, ops, faults>>

-----------------------------------------------------------------------------
(* Reconfigure, ReconfigureBatch and the saved forms *)

Batch(S) ==
    /\ Calls /\ S \subseteq order
    /\ phase' = "prepare" /\ todo' = S
    /\ call' = [kind |-> "batch", who |-> S, v |-> ops]
    /\ UNCHANGED <<order, inst, ports, flags, parentDone, tasks, objects, policy, faults>>

(* Reconfigure: a single component whose own hook applies the new view.    *)
ReconfigureOne(c) ==
    /\ Calls /\ c \in order /\ inst[c].state = "Running" /\ inst[c].cfg # ops
    /\ \/ /\ inst' = [inst EXCEPT ![c].cfg = ops] /\ policy' = [policy EXCEPT ![c] = ops]
          /\ UNCHANGED faults
       \/ Fault /\ UNCHANGED <<inst, policy>>
    /\ UNCHANGED <<order, ports, flags, parentDone, tasks, phase, todo, call, objects>>

(* Slip: every component publishes its new view as soon as it is prepared. *)
PrepareAndPublish(c) ==
    /\ phase = "prepare" /\ c \in todo /\ inst[c].state = "Running"
    /\ inst' = [inst EXCEPT ![c].cfg = call.v]
    /\ todo' = todo \ {c}
    /\ UNCHANGED <<order, ports, flags, parentDone, tasks, phase, call, objects, policy, ops, faults>>

PrepareOne(c) ==
    /\ phase = "prepare" /\ c \in todo /\ inst[c].state = "Running"
    /\ todo' = todo \ {c}
    /\ UNCHANGED <<order, inst, ports, flags, parentDone, tasks, phase, call, objects, policy, ops, faults>>

(* The component does not run, or PrepareConfig fails, or the context is   *)
(* cancelled: nothing has been published yet.                              *)
PrepareRefused(c) ==
    /\ phase = "prepare" /\ c \in todo /\ inst[c].state # "Running"
    /\ Return
    /\ UNCHANGED <<order, inst, ports, flags, parentDone, tasks, objects, policy, ops, faults>>

PrepareFails(c) ==
    /\ phase = "prepare" /\ c \in todo /\ inst[c].state = "Running"
    /\ Fault /\ Return
    /\ UNCHANGED <<order, inst, ports, flags, parentDone, tasks, objects, policy, ops>>

Persist ==
    /\ phase = "prepare" /\ todo = {}
    /\ \/ /\ phase' = "commit" /\ todo' = call.who
          /\ policy' = [c \in Comps |-> IF c \in call.who THEN call.v ELSE policy[c]]
          /\ UNCHANGED <<call, faults>>
       \/ Fault /\ Return /\ UNCHANGED policy
    /\ UNCHANGED <<order, inst, ports, flags, parentDone, tasks, objects, ops>>

CommitOne(c) ==
    /\ phase = "commit" /\ c \in todo
    /\ inst' = [inst EXCEPT ![c].cfg = call.v]
    /\ todo' = todo \ {c}
    /\ UNCHANGED <<order, ports, flags, parentDone, tasks, phase, call, objects, policy, ops, faults>>

Committed ==
    /\ phase = "commit" /\ todo = {}
    /\ Return
    /\ UNCHANGED <<order, inst, ports, flags, parentDone, tasks, objects, policy, ops, faults>>

-----------------------------------------------------------------------------
(* Runnables, handlers, publishers, the host's context *)

(* A timer fires or an event is taken from the queue; both loops look at   *)
(* their context once more before they call the component.                 *)
TaskBegin(t) ==
    /\ ~t.busy /\ ~Canceled(t)
    /\ t.kind = "handler" => t.queue > 0
    /\ tasks' = (tasks \ {t}) \cup
                {[t EXCEPT !.busy = TRUE, !.queue = IF t.kind = "handler" THEN @ - 1 ELSE @]}
    /\ UNCHANGED <<order, inst, ports, flags, parentDone, phase, todo, call, objects, policy, ops, faults>>

TaskEnd(t) ==
    /\ t.busy
    /\ tasks' = (tasks \ {t}) \cup {[t EXCEPT !.busy = FALSE]}
    /\ UNCHANGED <<order, inst, ports, flags, parentDone, phase, todo, call, objects, policy, ops, faults>>

TaskExit(t) ==
    /\ ~t.busy /\ Canceled(t)
    /\ tasks' = tasks \ {t}
    /\ UNCHANGED <<order, inst, ports, flags, parentDone, phase, todo, call, objects, policy, ops, faults>>

(* Bus.Publish: to every active subscriber, or to none when a queue is     *)
(* full.  A component publishes from its own work.                         *)
Publish(t) ==
    /\ t.busy /\ t.kind = "runnable" /\ ~Canceled(t) /\ ~flags.stopping
    /\ LET active == {s \in tasks : s.kind = "handler" /\ ~Canceled(s)}
       IN /\ active # {} /\ \A s \in active : s.queue < Capacity
          /\ tasks' = (tasks \ active) \cup {[s EXCEPT !.queue = @ + 1] : s \in active}
    /\ UNCHANGED <<order, inst, ports, flags, parentDone, phase, todo, call, objects, policy, ops, faults>>

CancelHost ==
    /\ ~parentDone /\ flags.started /\ Fault
    /\ parentDone' = TRUE
    /\ UNCHANGED <<order, inst, ports, flags, tasks, phase, todo, call, objects, policy, ops>>

-----------------------------------------------------------------------------
Lifecycle ==
    \/ StartHook \/ UndoCancel \/ UndoStart \/ StartDone \/ Adopt
    \/ CloseBus \/ Joined \/ Released \/ Persist \/ Committed
    \/ \E c \in Comps : \/ StartSkip(c) \/ InitHook(c) \/ DrainOne(c) \/ JoinOne(c)
                        \/ ReleaseOne(c) \/ PrepareOne(c) \/ PrepareRefused(c) \/ CommitOne(c)
Failing ==
    \/ CloseFails
    \/ \E c \in Comps : DrainFails(c) \/ JoinFails(c) \/ ReleaseFails(c) \/ PrepareFails(c)
WorkEnds(c) == \E t \in tasks : t.comp = c /\ (TaskEnd(t) \/ TaskExit(t))
TaskStep == \E t \in tasks : TaskBegin(t) \/ TaskEnd(t) \/ TaskExit(t) \/ Publish(t)

Next ==
    \/ Start \/ Stop \/ CancelHost \/ Lifecycle \/ Failing \/ TaskStep
    \/ \E E \in Buildable : Reconcile(E)
    \/ \E S \in (SUBSET Comps) \ {{}} : Batch(S)
    \/ \E c \in Comps : ReconfigureOne(c)

Spec == Init /\ [][Next]_vars

(* The holder of mu goes on, work that was begun ends ("handlers must obey *)
(* their context"), and the owner of the host repeats a Stop that failed.  *)
FairSpec == /\ Spec
            /\ WF_vars(Lifecycle) /\ WF_vars(Stop /\ flags.stopping)
            /\ \A c \in Comps : WF_vars(WorkEnds(c))

-----------------------------------------------------------------------------
(* Work that runs never holds a port of a component that was stopped: its  *)
(* providers are released only after every consumer has drained, on a      *)
(* reconciliation that fails half way and is repeated, on a failed start   *)
(* and on Stop (rte.go:487-520, reconcile_components.go:58-80).            *)
NoDanglingPort == \A t \in tasks : t.busy => t.uses \subseteq objects

(* A component that runs was bound to the incarnation of each provider     *)
(* that is bound now, optional ones included: the closure over dependants  *)
(* in ReconcileComponents leaves nobody on a replaced port, and what       *)
(* Resolve returns without a lock has not been stopped.                    *)
BoundToCurrent ==
    \A c \in Resolvable :
        /\ <<c, inst[c].inc>> \in objects
        /\ \A p \in Providers(c) : inst[c].snap[p] = ports[p]

(* A component object is created only after the Stop of the one before it  *)
(* succeeded, whatever failed in between, and a host that says it is       *)
(* stopped has released every object and has no work left.                 *)
OneObject ==
    /\ \A x, y \in objects : x[1] = y[1] => x = y
    /\ flags.stopped => objects = {} /\ \A t \in tasks : t.comp \notin order

(* A host that is asked to stop is stopped in the end, although drains     *)
(* time out and hooks fail: a failed Stop leaves a state from which it can *)
(* be repeated.                                                            *)
StopCompletes == flags.stopping ~> flags.stopped

(* Runtime.mu is never held for ever: every call returns.                  *)
CallsReturn == phase # "idle" ~> phase = "idle"

=============================================================================
