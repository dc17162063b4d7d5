----------------------------- MODULE Reconciler -----------------------------
(***************************************************************************)
(* The production lifecycle graph, rte/reconciler.go.  Reconcile runs      *)
(* under a mutex: it validates and observes (one step), stops what has to  *)
(* change, consumers first, then starts what is wanted, providers first.   *)
(* Between its calls a resource may end by itself and the context may be   *)
(* cancelled.  The code sorts the units by name inside a depth-first       *)
(* search; the model allows every order the dependencies allow.            *)
(***************************************************************************)
EXTENDS Naturals, FiniteSets

CONSTANTS
    Units,       \* ManagedUnit.ID
    Plans,       \* desired unit lists: [Units -> [want, rev, req]], want "none" when not listed
    Observable,  \* units with a Running function
    MaxEvents    \* bound on new plans, failures, exits and cancellations

VARIABLES
    inst,        \* Reconciler.instances: known, active, pendingStop, rev, req
    status,      \* Reconciler.snapshot: the published state of a unit
    phase,       \* where Reconcile is: idle, enter, stop, start
    plan,        \* the units of the last call, removed ones included
    wanted,      \* the plan of the last call
    todo,        \* units the current loop has still to look at
    restart,     \* restart
    stopFailed,  \* stopFailed
    err,         \* combined # nil
    canceled,    \* the call's context is cancelled
    result,      \* what the last call returned
    held,        \* history: what a unit holds (ResourceOwnership)
    bound,       \* history: the providers a unit was started on
    built,       \* history: the revision a unit was started in
    met,         \* history: the call met a failure, a cancellation or was refused
    events       \* number of environment events so far

call == <<plan, wanted, restart, canceled>>
history == <<held, bound, built>>
vars == <<inst, status, phase, call, todo, stopFailed, err, result, history, met, events>>

States == {"Absent", "Stopped", "Starting", "Running", "Stopping", "Blocked", "Failed"}

Nobody == [u \in Units |-> [want |-> "none", rev |-> 0, req |-> {}]]

(* orderUnits succeeds: no cycle and no unknown dependency.                *)
Ordered(dom, req) ==
    /\ \A u \in dom : req[u] \subseteq dom
    /\ \A S \in (SUBSET dom) \ {{}} : \E u \in S : req[u] \cap S = {}

Listed(p) == {u \in Units : p[u].want # "none"}
Requires(p) == [u \in Units |-> p[u].req]

ASSUME ReconcilerAssumption ==
    /\ IsFiniteSet(Units) /\ Observable \subseteq Units /\ MaxEvents \in Nat
    /\ Plans \subseteq [Units -> [want : {"none", "on", "off"}, rev : Nat, req : SUBSET Units]]

TypeOK ==
    /\ inst \in [Units -> [known : BOOLEAN, active : BOOLEAN, pendingStop : BOOLEAN,
                           rev : Nat, req : SUBSET Units]]
    /\ status \in [Units -> States]
    /\ phase \in {"idle", "enter", "stop", "start"}
    /\ plan \in [Units -> [want : {"none", "on", "off"}, rev : Nat, req : SUBSET Units]]
    /\ wanted \in Plans \cup {Nobody}
    /\ {todo, restart, stopFailed} \subseteq SUBSET Units
    /\ {err, canceled, met} \subseteq BOOLEAN
    /\ result \in {"none", "nil", "error"}
    /\ held \in [Units -> {"none", "up", "exited"}]
    /\ bound \in [Units -> SUBSET Units] /\ built \in [Units -> Nat]
    /\ events \in 0..MaxEvents

Init ==
    /\ inst = [u \in Units |-> [known |-> FALSE, active |-> FALSE, pendingStop |-> FALSE,
                                rev |-> 0, req |-> {}]]
    /\ status = [u \in Units |-> "Absent"]
    /\ phase = "idle" /\ plan = Nobody /\ wanted = Nobody
    /\ todo = {} /\ restart = {} /\ stopFailed = {}
    /\ err = FALSE /\ canceled = FALSE /\ result = "none"
    /\ held = [u \in Units |-> "none"] /\ bound = [u \in Units |-> {}]
    /\ built = [u \in Units |-> 0]
    /\ met = FALSE /\ events = 0

Event == events < MaxEvents /\ events' = events + 1

-----------------------------------------------------------------------------
(* Begin: validate, observe, decide what restarts *)

(* The desired units and, disabled, every instance the list has dropped.   *)
WithRemoved(p) ==
    [u \in Units |->
        IF p[u].want = "none" /\ inst[u].known
        THEN [want |-> "off", rev |-> inst[u].rev, req |-> inst[u].req] ELSE p[u]]

(* stopUnits: an active unit stops in the graph it was started in.         *)
StopRequires(p) == [u \in Units |-> IF inst[u].active THEN inst[u].req ELSE p[u].req]

(* An active process that has ended still owns resources: it is stopped    *)
(* before it is replaced.                                                  *)
Observed(p) ==
    [u \in Units |->
        IF p[u].want = "none" THEN inst[u]
        ELSE LET old == IF inst[u].known THEN inst[u]
                        ELSE [inst[u] EXCEPT !.known = TRUE, !.rev = p[u].rev, !.req = p[u].req]
                 running == held[u] = "up"
             IN IF old.pendingStop \/ u \notin Observable THEN old
                ELSE IF old.active /\ ~running THEN [old EXCEPT !.pendingStop = TRUE]
                ELSE [old EXCEPT !.active = running]]

(* S and everything that requires a member of it, directly or not: the     *)
(* least superset of S that holds the consumers of its members.            *)
Upward(req, S) ==
    LET Closed == {T \in SUBSET Units :
                      S \subseteq T /\ \A u \in Units \ T : req[u] \cap T = {}}
    IN {u \in Units : \A T \in Closed : u \in T}

SameGraph(p, now) ==
    {u \in Listed(p) : \/ p[u].want = "off" \/ now[u].pendingStop
                       \/ now[u].active /\ now[u].req # p[u].req}
(* Units that have to stop for a reason of their own.                      *)
Direct(p, now) ==
    {u \in Listed(p) :
        \/ p[u].want = "off"
        \/ now[u].pendingStop
        \/ now[u].active /\ (now[u].rev # p[u].rev \/ now[u].req # p[u].req)}

RestartAlone(p, now) == Direct(p, now)
(* The consumers of a restarted unit restart with it, in the new graph and *)
(* in the one they run in (S names the set reached in the new graph).      *)
Restart(p, now) ==
    UNION {Upward(StopRequires(p), S) : S \in {Upward(Requires(p), D) : D \in {Direct(p, now)}}}

Valid(desired) ==
    /\ Ordered(Listed(desired), Requires(desired))
    /\ LET units == WithRemoved(desired)
       IN Ordered(Listed(units), Requires(units)) /\ Ordered(Listed(units), StopRequires(units))

(* A caller brings a plan: a new one, or again the one that failed.        *)
Reconcile(desired) ==
    /\ phase = "idle" /\ Event
    /\ phase' = "enter" /\ wanted' = desired /\ canceled' = FALSE /\ result' = "none"
    /\ met' = FALSE
    /\ UNCHANGED <<inst, status, plan, restart, todo, stopFailed, err, history>>

(* The early returns: a cancelled context, an invalid graph.               *)
Refuse ==
    /\ phase = "enter" /\ (canceled \/ ~Valid(wanted))
    /\ phase' = "idle" /\ result' = "error" /\ met' = TRUE
    /\ UNCHANGED <<inst, status, call, todo, stopFailed, err, history, events>>

BeginKeepsError ==
    LET units == WithRemoved(wanted)
    IN /\ phase = "enter" /\ ~canceled /\ Valid(wanted)
       /\ inst' = Observed(units)
       /\ status' = [u \in Units |->
             IF units[u].want = "none" THEN "Absent"
             ELSE IF inst'[u].active THEN "Running" ELSE "Stopped"]
       /\ restart' = Restart(units, inst')
       /\ todo' = {u \in restart' : inst'[u].active}
       /\ phase' = "stop" /\ plan' = units
       /\ stopFailed' = {} /\ UNCHANGED err
       /\ UNCHANGED <<wanted, canceled, result, history, met, events>>

Begin ==
    LET units == WithRemoved(wanted)
    IN /\ phase = "enter" /\ ~canceled /\ Valid(wanted)
       /\ inst' = Observed(units)
       /\ status' = [u \in Units |->
             IF units[u].want = "none" THEN "Absent"
             ELSE IF inst'[u].active THEN "Running" ELSE "Stopped"]
       /\ restart' = Restart(units, inst')
       /\ todo' = {u \in restart' : inst'[u].active}
       /\ phase' = "stop" /\ plan' = units
       /\ stopFailed' = {} /\ err' = FALSE
       /\ UNCHANGED <<wanted, canceled, result, history, met, events>>

-----------------------------------------------------------------------------
(* The stop loop *)

(* A call may fail, by itself or because its context is cancelled.         *)
Fault == IF canceled THEN UNCHANGED events ELSE Event

(* A consumer of u has not stopped.                                        *)
StopBlocked(u) == \E c \in stopFailed : u \in inst[c].req

StopNext(u) ==
    /\ phase = "stop" /\ u \in todo
    /\ \A c \in todo \ {u} : u \notin inst[c].req
    /\ todo' = todo \ {u}
    /\ UNCHANGED <<phase, call, result, bound, built>>

Publish(u, state) == status' = [status EXCEPT ![u] = state]

StopHeldBack(u) ==
    /\ StopNext(u) /\ StopBlocked(u)
    /\ stopFailed' = stopFailed \cup {u}
    /\ Publish(u, "Blocked")
    /\ UNCHANGED <<inst, err, held, met, events>>

Stopped(u) ==
    /\ StopNext(u) /\ ~StopBlocked(u)
    /\ inst' = [inst EXCEPT ![u].active = FALSE, ![u].pendingStop = FALSE]
    /\ held' = [held EXCEPT ![u] = "none"]
    /\ Publish(u, "Stopped")
    /\ UNCHANGED <<stopFailed, err, met, events>>

(* A failed stop preserves the owner.                                      *)
OwnerKept(u) == [inst EXCEPT ![u].pendingStop = TRUE]

StopFails(u) ==
    /\ StopNext(u) /\ ~StopBlocked(u) /\ Fault
    /\ inst' = OwnerKept(u)
    /\ \/ UNCHANGED held
       \/ held[u] = "up" /\ held' = [held EXCEPT ![u] = "exited"]
    /\ stopFailed' = stopFailed \cup {u} /\ err' = TRUE /\ met' = TRUE
    /\ Publish(u, "Stopping")

StopsDone ==
    /\ phase = "stop" /\ todo = {}
    /\ phase' = "start" /\ todo' = Listed(plan)
    /\ UNCHANGED <<inst, status, call, stopFailed, err, result, history, met, events>>

-----------------------------------------------------------------------------
(* The start loop *)

StartNext(u) ==
    /\ phase = "start" /\ u \in todo
    /\ plan[u].req \cap todo = {}
    /\ todo' = todo \ {u}
    /\ UNCHANGED <<phase, call, stopFailed, result>>

(* The stop of u failed, or u is disabled.                                 *)
LeaveStopped(u) ==
    /\ StartNext(u)
    /\ \/ u \in stopFailed /\ UNCHANGED <<inst, status>>
       \/ /\ u \notin stopFailed /\ plan[u].want = "off"
          /\ Publish(u, "Stopped")
          /\ inst' = [inst EXCEPT ![u].req = plan[u].req]
    /\ UNCHANGED <<err, history, met, events>>

Startable(u) == u \notin stopFailed /\ plan[u].want = "on"
ProvidersRun(u) == \A p \in plan[u].req : status[p] = "Running"

StartBlocked(u) ==
    /\ StartNext(u) /\ Startable(u)
    /\ \/ ~ProvidersRun(u) /\ UNCHANGED err
       \/ ProvidersRun(u) /\ canceled /\ err' = TRUE
    /\ Publish(u, "Blocked")
    /\ UNCHANGED <<inst, history, met, events>>

Admitted(u) == StartNext(u) /\ Startable(u) /\ ProvidersRun(u) /\ ~canceled

UpdateFails(u) ==
    /\ Admitted(u) /\ Event
    /\ err' = TRUE /\ met' = TRUE /\ Publish(u, "Failed")
    /\ UNCHANGED <<inst, history>>

Owned(u, pending) ==
    [inst EXCEPT ![u] = [known |-> TRUE, active |-> TRUE, pendingStop |-> pending,
                         rev |-> IF pending THEN @.rev ELSE plan[u].rev, req |-> plan[u].req]]

KeepRunning(u) ==
    /\ Admitted(u) /\ inst[u].active
    /\ inst' = [inst EXCEPT ![u].rev = plan[u].rev, ![u].req = plan[u].req]
    /\ Publish(u, "Running")
    /\ UNCHANGED <<err, history, met, events>>

Started(u) ==
    /\ Admitted(u) /\ ~inst[u].active
    /\ inst' = Owned(u, FALSE)
    /\ held' = [held EXCEPT ![u] = "up"] /\ bound' = [bound EXCEPT ![u] = plan[u].req]
    /\ built' = [built EXCEPT ![u] = plan[u].rev]
    /\ Publish(u, "Running")
    /\ UNCHANGED <<err, met, events>>

(* The start failed and what it had taken is given back.                   *)
StartUndone(u) ==
    /\ Admitted(u) /\ ~inst[u].active /\ Event
    /\ inst' = [inst EXCEPT ![u].req = plan[u].req]
    /\ err' = TRUE /\ met' = TRUE /\ Publish(u, "Failed")
    /\ UNCHANGED history

(* The start failed and so did the stop that cleans up after it.           *)
StartStuck(u) ==
    /\ Admitted(u) /\ ~inst[u].active /\ Event
    /\ inst' = Owned(u, TRUE)
    /\ \/ UNCHANGED history
       \/ /\ \E h \in {"up", "exited"} : held' = [held EXCEPT ![u] = h]
          /\ bound' = [bound EXCEPT ![u] = plan[u].req]
          /\ built' = [built EXCEPT ![u] = plan[u].rev]
    /\ err' = TRUE /\ met' = TRUE /\ Publish(u, "Stopping")

Return ==
    /\ phase = "start" /\ todo = {}
    /\ phase' = "idle" /\ result' = IF err THEN "error" ELSE "nil"
    /\ UNCHANGED <<inst, status, call, todo, stopFailed, err, history, met, events>>

-----------------------------------------------------------------------------
(* The environment *)

Exit(u) ==
    /\ held[u] = "up" /\ Event
    /\ held' = [held EXCEPT ![u] = "exited"]
    /\ UNCHANGED <<inst, status, phase, call, todo, stopFailed, err, result, bound, built,
                   met>>

Cancel ==
    /\ phase # "idle" /\ ~canceled /\ Event
    /\ canceled' = TRUE /\ met' = TRUE
    /\ UNCHANGED <<inst, status, phase, plan, wanted, restart, todo, stopFailed, err, result,
                   history>>

StopStep(u) == StopHeldBack(u) \/ Stopped(u) \/ StopFails(u)
StartStep(u) ==
    \/ LeaveStopped(u) \/ StartBlocked(u) \/ UpdateFails(u) \/ KeepRunning(u)
    \/ Started(u) \/ StartUndone(u) \/ StartStuck(u)
Step == Refuse \/ Begin \/ StopsDone \/ Return \/ \E u \in Units : StopStep(u) \/ StartStep(u)

Next ==
    \/ \E desired \in Plans : Reconcile(desired)
    \/ Step \/ Cancel
    \/ \E u \in Units : Exit(u)

Spec == Init /\ [][Next]_vars

(* A call that has begun runs to its end (stops are bounded by             *)
(* moduleStopTimeout).                                                     *)
FairSpec == Spec /\ WF_vars(Step)

-----------------------------------------------------------------------------
(* Properties *)

(* Start and Stop are called on the resources as ResourceOwnership allows: *)
(* no second instance over one whose stop failed, no provider stopped      *)
(* under a consumer started on it, no consumer started on a stopped one.   *)
Ownership == INSTANCE ResourceOwnership WITH Units <- Units, held <- held, bound <- bound
OwnershipKept == Ownership!Spec

(* The graph a unit will be stopped in is the one it was started in,       *)
(* however many calls failed or were cancelled since.                      *)
StopGraphIsStartGraph == \A u \in Units : held[u] # "none" => inst[u].active /\ inst[u].req = bound[u]

(* The requirements of u, of these, and so on.                             *)
AllOn(u) == \A v \in Units : u \in Upward(Requires(plan), {v}) => plan[v].want = "on"

(* A call that returned no error has reached the plan: what is off, or     *)
(* removed, holds nothing; what is on, with everything it needs, is owned  *)
(* in the desired revision and graph.                                      *)
NilMeansReached ==
    phase = "idle" /\ result = "nil" =>
        \A u \in Units :
            /\ plan[u].want # "on" => held[u] = "none"
            /\ AllOn(u) => /\ held[u] # "none" /\ built[u] = plan[u].rev
                           /\ bound[u] = plan[u].req /\ ~inst[u].pendingStop

(* A call fails only for what happens to itself: whatever failed stops and *)
(* half-started units ("instances retained for retry", manager.go) earlier *)
(* calls left behind, a call that meets no failure, no cancellation and no *)
(* refusal of its plan returns nil, and has then reached the plan.         *)
FailureIsItsOwn == result = "error" => met

(* A failed call does not wedge the graph: every call returns, and one     *)
(* that meets no failure of its own succeeds.                              *)
CallsRecover == (phase # "idle") ~> (phase = "idle" /\ (met \/ result = "nil"))

(* The reconciler's own books agree with the resources: after any sequence *)
(* of failed, cancelled and successful calls it knows the graph it has to  *)
(* stop in, a nil result means that the plan was reached, and an error is  *)
(* never one of an earlier call.                                           *)
BooksAgree == StopGraphIsStartGraph /\ NilMeansReached /\ FailureIsItsOwn

=============================================================================
