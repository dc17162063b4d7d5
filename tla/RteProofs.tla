----------------------------- MODULE RteProofs -----------------------------
(***************************************************************************)
(* Proofs about the lifecycle core, in three parts.  The reconciler, for   *)
(* any set of units, any plans and any number of failures: it calls Start  *)
(* and Stop as ResourceOwnership allows, its books agree with the          *)
(* resources, and a call that returns nil has reached the plan.  The       *)
(* component runtime (Host, of module RuntimeHost): its ports and its policy.  The   *)
(* process (Proc, of DaemonProcess): files, updates and requests across         *)
(* restarts.                                                               *)
(***************************************************************************)
EXTENDS Reconciler, RuntimeHost, DaemonProcess, TLAPS

InstType == [known : BOOLEAN, active : BOOLEAN, pendingStop : BOOLEAN, rev : Nat,
             req : SUBSET Units]
PlanType == [Units -> [want : {"none", "on", "off"}, rev : Nat, req : SUBSET Units]]

Types ==
    /\ inst \in [Units -> InstType] /\ status \in [Units -> States]
    /\ phase \in {"idle", "enter", "stop", "start"}
    /\ plan \in PlanType /\ wanted \in PlanType
    /\ todo \in SUBSET Units /\ restart \in SUBSET Units /\ stopFailed \in SUBSET Units
    /\ err \in BOOLEAN /\ canceled \in BOOLEAN /\ result \in {"none", "nil", "error"}
    /\ held \in [Units -> {"none", "up", "exited"}]
    /\ bound \in [Units -> SUBSET Units] /\ built \in [Units -> Nat]

(* The reconciler's books and what the units hold.  An owner whose stop is *)
(* pending may hold nothing: the start that made it one failed.            *)
Books ==
    \A u \in Units :
       /\ held[u] # "none" => inst[u].active /\ inst[u].req = bound[u]
       /\ inst[u].active => inst[u].known /\ u \notin inst[u].req
       /\ inst[u].active /\ ~inst[u].pendingStop => held[u] # "none" /\ built[u] = inst[u].rev

(* u runs as the plan wants it.                                            *)
Matches(u) == /\ plan[u].want = "on" /\ ~inst[u].pendingStop
              /\ inst[u].rev = plan[u].rev /\ inst[u].req = plan[u].req

(* While a call is under way its plan can be ordered and lists every       *)
(* instance, and a failed stop is an error.                                *)
PlanSound ==
    phase \in {"stop", "start"} =>
       /\ Ordered(Listed(plan), Requires(plan))
       /\ \A u \in Units : inst[u].known => u \in Listed(plan)
       /\ stopFailed # {} => err

(* The stop loop: the consumers of what restarts restart too, and an owner *)
(* that is not to restart, or is through with it, runs as planned.         *)
StopInv ==
    phase = "stop" =>
       /\ todo \subseteq restart
       /\ \A u \in Units : inst[u].active =>
             u \in todo \cup stopFailed \/ (u \notin restart /\ Matches(u))
       /\ \A u \in restart : \A k \in Units :
             inst[k].active /\ u \in inst[k].req => k \in restart
       /\ \A u \in Units : status[u] = "Running" => inst[u].active /\ u \notin stopFailed

(* The start loop: what is published as running runs as planned; without   *)
(* an error everything passed is stopped, running, or waits for a provider *)
(* that was passed and does not run.                                       *)
StartInv ==
    phase = "start" =>
       /\ todo \subseteq Listed(plan)
       /\ \A u \in todo : inst[u].active => u \in stopFailed \/ Matches(u)
       /\ \A u \in Units : status[u] = "Running" => inst[u].active /\ Matches(u)
       /\ ~err => \A u \in Listed(plan) \ todo :
             /\ plan[u].want = "off" => ~inst[u].active
             /\ plan[u].want = "on" =>
                   \/ status[u] = "Running"
                   \/ \E p \in plan[u].req : p \notin todo /\ status[p] # "Running"

(* The inductive invariant.                                                *)
Inv == /\ Types /\ Books /\ PlanSound /\ StopInv /\ StartInv
       /\ (phase # "idle" => result = "none") /\ NilMeansReached

-----------------------------------------------------------------------------
(* Graphs *)

(* Upward holds the units it is built from and the consumers of whatever   *)
(* it holds, whichever graph it follows.                                   *)
LEMMA UpwardClosed ==
    ASSUME NEW req \in [Units -> SUBSET Units], NEW S \in SUBSET Units
    PROVE  /\ S \subseteq Upward(req, S) /\ Upward(req, S) \subseteq Units
           /\ \A u \in Upward(req, S) : \A k \in Units :
                 u \in req[k] => k \in Upward(req, S)
<1> DEFINE Closed == {T \in SUBSET Units :
                         S \subseteq T /\ \A u \in Units \ T : req[u] \cap T = {}}
<1>1. Upward(req, S) = {u \in Units : \A T \in Closed : u \in T}
  BY DEF Upward
<1>2. ASSUME NEW u \in Upward(req, S), NEW k \in Units, u \in req[k]
      PROVE  k \in Upward(req, S)
  <2>1. ASSUME NEW T \in Closed, k \notin T PROVE FALSE
    <3>1. u \in T /\ req[k] \cap T = {}
      BY <1>1, <2>1
    <3> QED
      BY <1>2, <3>1
  <2> QED
    BY <1>1, <2>1
<1> HIDE DEF Closed
<1>3. S \subseteq Upward(req, S)
  BY <1>1 DEF Closed
<1> QED
  BY <1>1, <1>2, <1>3

(* A graph that can be ordered requires nobody for itself, and only units  *)
(* of the list.                                                            *)
LEMMA OrderedIrreflexive ==
    ASSUME NEW dom \in SUBSET Units, NEW req \in [Units -> SUBSET Units], Ordered(dom, req)
    PROVE  \A u \in dom : u \notin req[u] /\ req[u] \subseteq dom
<1>1. ASSUME NEW u \in dom PROVE u \notin req[u] /\ req[u] \subseteq dom
  <2>1. {u} \in (SUBSET dom) \ {{}}
    OBVIOUS
  <2>2. PICK v \in {u} : req[v] \cap {u} = {}
    BY <2>1 DEF Ordered
  <2> QED
    BY <2>2 DEF Ordered
<1> QED
  BY <1>1

(* What restarts holds what has to stop for a reason of its own and the    *)
(* consumers, in the graph they run in, of whatever restarts.              *)
LEMMA RestartClosed ==
    ASSUME Types, NEW p \in PlanType, NEW now
    PROVE  /\ Direct(p, now) \subseteq Restart(p, now) /\ Restart(p, now) \subseteq Units
           /\ \A u \in Restart(p, now) : \A k \in Units :
                 inst[k].active /\ u \in inst[k].req => k \in Restart(p, now)
<1>1. /\ Requires(p) \in [Units -> SUBSET Units] /\ StopRequires(p) \in [Units -> SUBSET Units]
      /\ \A k \in Units : inst[k].active => StopRequires(p)[k] = inst[k].req
  BY DEF Requires, StopRequires, Types, PlanType, InstType
<1>2. PICK D \in SUBSET Units : D = Direct(p, now)
  BY DEF Direct, Listed
<1>3. PICK M \in SUBSET Units : M = Upward(Requires(p), D) /\ D \subseteq M
  BY <1>1, UpwardClosed
<1>4. Restart(p, now) = Upward(StopRequires(p), M)
  BY <1>2, <1>3 DEF Restart
<1>5. PICK Q \in [Units -> SUBSET Units] : Q = StopRequires(p)
  BY <1>1
<1>6. /\ M \subseteq Upward(Q, M) /\ Upward(Q, M) \subseteq Units
      /\ \A u \in Upward(Q, M) : \A k \in Units : u \in Q[k] => k \in Upward(Q, M)
  BY UpwardClosed
<1> QED
  BY <1>1, <1>2, <1>3, <1>4, <1>5, <1>6

-----------------------------------------------------------------------------
(* Begin *)

(* The list of a call and the instances it has dropped.                    *)
LEMMA RemovedListed ==
    ASSUME Types, NEW p \in PlanType
    PROVE  /\ WithRemoved(p) \in PlanType
           /\ \A u \in Units : inst[u].known => u \in Listed(WithRemoved(p))
BY DEF Types, PlanType, InstType, WithRemoved, Listed

(* Observing the resources registers what is listed and finds the owners   *)
(* whose resource has ended; an owner stays one, in its graph.             *)
Seen(u, y, want) ==
    /\ y \in InstType /\ y.active = inst[u].active
    /\ inst[u].known => y.known /\ y.rev = inst[u].rev /\ y.req = inst[u].req
    /\ y.active /\ ~y.pendingStop => ~inst[u].pendingStop
    /\ y.known => inst[u].known \/ want # "none"

(* What Observed does to a unit.                                           *)
LEMMA ObservedSees ==
    ASSUME Types, Books, NEW p \in PlanType, NEW u \in Units
    PROVE  Seen(u, Observed(p)[u], p[u].want)
<1> DEFINE old == IF inst[u].known THEN inst[u]
                  ELSE [inst[u] EXCEPT !.known = TRUE, !.rev = p[u].rev, !.req = p[u].req]
           running == held[u] = "up"
<1>1. /\ inst[u] \in InstType /\ p[u].rev \in Nat /\ p[u].req \in SUBSET Units
      /\ (inst[u].active => inst[u].known) /\ (running => inst[u].active)
  BY DEF Types, Books, PlanType
<1>2. Observed(p)[u] = IF p[u].want = "none" THEN inst[u]
                       ELSE IF old.pendingStop \/ u \notin Observable THEN old
                       ELSE IF old.active /\ ~running THEN [old EXCEPT !.pendingStop = TRUE]
                       ELSE [old EXCEPT !.active = running]
  BY DEF Observed
<1>3. CASE p[u].want = "none"
  BY <1>1, <1>2, <1>3 DEF Seen
<1>4. CASE p[u].want # "none"
  <2>1. /\ old \in InstType /\ old.active = inst[u].active /\ old.known
        /\ old.pendingStop = inst[u].pendingStop
        /\ inst[u].known => old.rev = inst[u].rev /\ old.req = inst[u].req
    BY <1>1 DEF InstType
  <2> HIDE DEF old
  <2>2. running \in BOOLEAN
    OBVIOUS
  <2>3. CASE Observed(p)[u] = old
    BY <1>4, <2>1, <2>3 DEF Seen
  <2>4. CASE Observed(p)[u] = [old EXCEPT !.pendingStop = TRUE]
    <3>1. PICK y : y = Observed(p)[u]
      OBVIOUS
    <3>2. /\ y \in InstType /\ y.active = old.active /\ y.known = old.known /\ y.rev = old.rev
          /\ y.req = old.req /\ y.pendingStop = TRUE
      BY <2>1, <2>4, <3>1 DEF InstType
    <3> QED
      BY <1>4, <2>1, <3>1, <3>2 DEF Seen
  <2>5. CASE ~(old.active /\ ~running) /\ Observed(p)[u] = [old EXCEPT !.active = running]
    <3>1. PICK y : y = Observed(p)[u]
      OBVIOUS
    <3>r. PICK r \in BOOLEAN : r = running
      BY <2>2
    <3>2. /\ y \in InstType /\ y.active = r /\ y.known = old.known /\ y.rev = old.rev
          /\ y.req = old.req /\ y.pendingStop = old.pendingStop
      BY <2>1, <2>5, <3>1, <3>r DEF InstType
    <3>3. r = old.active
      BY <1>1, <2>1, <2>5, <3>r DEF InstType
    <3> QED
      BY <1>4, <2>1, <3>1, <3>2, <3>3 DEF Seen
  <2> QED
    BY <1>2, <1>4, <2>3, <2>4, <2>5
<1> QED
  BY <1>3, <1>4

-----------------------------------------------------------------------------
(* The calls and the environment *)

(* What the plan wants of a unit and of all it requires.                   *)
LEMMA AllOnSame == ASSUME plan' = plan, NEW u \in Units PROVE AllOn(u)' <=> AllOn(u)
BY DEF AllOn, Requires, Upward

(* What a call that returned nil has reached is reached while nothing but  *)
(* resources that end changes.                                             *)
LEMMA ReachedKept ==
    ASSUME Inv, UNCHANGED <<phase, result, plan, inst, bound, built>>,
           \A v \in Units : held'[v] # "none" <=> held[v] # "none"
    PROVE  NilMeansReached'
<1>1. \A u \in Units : AllOn(u)' <=> AllOn(u)
  BY AllOnSame
<1> HIDE DEF AllOn
<1> QED
  BY <1>1 DEF Inv, NilMeansReached

(* A step between two calls, or into one.                                  *)
LEMMA OutsideKeeps ==
    ASSUME Inv, UNCHANGED <<inst, status, plan, restart, todo, stopFailed, err, history>>,
           wanted' \in PlanType, canceled' \in BOOLEAN, result' \in {"none", "error"},
           phase' = "idle" \/ (phase' = "enter" /\ result' = "none")
    PROVE  Inv'
<1>1. held' = held /\ bound' = bound /\ built' = built
  BY DEF history
<1>2. Types'
  BY <1>1 DEF Inv, Types
<1>3. Books'
  BY <1>1 DEF Inv, Books
<1>4. PlanSound' /\ StopInv' /\ StartInv' /\ NilMeansReached'
  BY DEF PlanSound, StopInv, StartInv, NilMeansReached
<1> QED
  BY <1>2, <1>3, <1>4 DEF Inv

(* A caller brings a plan.                                                 *)
LEMMA CallKeeps == ASSUME Inv, NEW desired \in PlanType, Reconcile(desired) PROVE Inv'
BY OutsideKeeps DEF Reconcile

(* The early returns.                                                      *)
LEMMA RefuseKeeps == ASSUME Inv, Refuse PROVE Inv'
BY OutsideKeeps DEF Refuse, call, Inv, Types

(* The context of the call is cancelled.                                   *)
LEMMA CancelKeeps == ASSUME Inv, Cancel PROVE Inv'
<1>1. /\ UNCHANGED <<inst, status, phase, plan, wanted, restart, todo, stopFailed, err, result>>
      /\ canceled' = TRUE /\ held' = held /\ bound' = bound /\ built' = built
  BY DEF Cancel, history
<1>2. Types'
  BY <1>1 DEF Inv, Types
<1>3. Books' /\ StopInv' /\ StartInv' /\ NilMeansReached'
  BY <1>1, ReachedKept DEF Inv, Books, StopInv, StartInv, Matches, Listed
<1>4. PlanSound'
  BY <1>1 DEF Inv, PlanSound, Ordered, Listed, Requires
<1> QED
  BY <1>1, <1>2, <1>3, <1>4 DEF Inv

(* A resource that ends is held until its owner is stopped.                *)
LEMMA ExitKeeps == ASSUME Inv, NEW u \in Units, Exit(u) PROVE Inv' /\ Ownership!End(u)
<1>1. /\ UNCHANGED <<inst, status, phase, call, todo, stopFailed, err, result, bound, built>>
      /\ held[u] = "up" /\ held' = [held EXCEPT ![u] = "exited"]
      /\ held \in [Units -> {"none", "up", "exited"}]
  BY DEF Exit, Inv, Types
<1>2. \A v \in Units : held'[v] # "none" <=> held[v] # "none"
  BY <1>1
<1>3. Types'
  BY <1>1 DEF Inv, Types, call
<1>4. Books'
  BY <1>1, <1>2 DEF Inv, Books
<1>5. PlanSound' /\ StopInv' /\ StartInv'
  BY <1>1 DEF Inv, PlanSound, StopInv, StartInv, Matches, call
<1>6. NilMeansReached'
  BY <1>1, <1>2, ReachedKept DEF call
<1>7. Ownership!End(u)
  BY <1>1 DEF Ownership!End
<1> QED
  BY <1>1, <1>3, <1>4, <1>5, <1>6, <1>7 DEF Inv

(* A call begins to work: every owner is listed; the ones that do not      *)
(* restart run as planned.                                                 *)
LEMMA BeginKeeps == ASSUME Inv, Begin PROVE Inv'
<1>u. PICK units \in PlanType : /\ units = WithRemoved(wanted)
                                /\ \A u \in Units : inst[u].known => u \in Listed(units)
  BY RemovedListed DEF Inv, Types
<1>n. PICK now : now = Observed(units)
  OBVIOUS
<1>1. /\ phase = "enter" /\ Valid(wanted) /\ inst' = now
      /\ restart' = Restart(units, now)
      /\ todo' = {u \in restart' : now[u].active}
      /\ phase' = "stop" /\ plan' = units /\ stopFailed' = {} /\ err' = FALSE
      /\ UNCHANGED <<wanted, canceled, result>> /\ UNCHANGED <<held, bound, built>>
  BY <1>u, <1>n DEF Begin, history
<1>2. /\ status' \in [Units -> States]
      /\ \A u \in Units : status'[u] = "Running" => now[u].active
  <2>1. status' = [u \in Units |-> IF units[u].want = "none" THEN "Absent"
                                   ELSE IF now[u].active THEN "Running" ELSE "Stopped"]
    BY <1>u, <1>n DEF Begin
  <2> QED
    BY <2>1 DEF States
<1>3. \A u \in Units : Seen(u, now[u], units[u].want)
  BY <1>n, ObservedSees DEF Inv
<1>4. now \in [Units -> InstType]
  <2>1. now = [u \in Units |-> now[u]]
    BY <1>n DEF Observed
  <2> QED
    BY <1>3, <2>1 DEF Seen
<1>5. /\ Direct(units, now) \subseteq restart' /\ restart' \subseteq Units
      /\ \A u \in restart' : \A k \in Units :
            inst[k].active /\ u \in inst[k].req => k \in restart'
  BY <1>1, RestartClosed DEF Inv
<1>6. Types'
  BY <1>1, <1>2, <1>4, <1>5 DEF Inv, Types
<1>7. Books'
  <2>1. ASSUME NEW u \in Units
        PROVE  /\ held'[u] # "none" => inst'[u].active /\ inst'[u].req = bound'[u]
               /\ inst'[u].active => inst'[u].known /\ u \notin inst'[u].req
               /\ inst'[u].active /\ ~inst'[u].pendingStop =>
                     held'[u] # "none" /\ built'[u] = inst'[u].rev
    <3>1. /\ held[u] # "none" => inst[u].active /\ inst[u].req = bound[u]
          /\ inst[u].active => inst[u].known /\ u \notin inst[u].req
          /\ inst[u].active /\ ~inst[u].pendingStop =>
                held[u] # "none" /\ built[u] = inst[u].rev
      BY DEF Inv, Books
    <3>2. Seen(u, now[u], units[u].want)
      BY <1>3
    <3> QED
      BY <1>1, <3>1, <3>2 DEF Seen
  <2> QED
    BY <2>1 DEF Books
<1>8. \A u \in Units : now[u].known => u \in Listed(units)
  BY <1>u, <1>3 DEF Seen, Listed
<1>9. PlanSound'
  <2>1. Ordered(Listed(units), Requires(units))
    BY <1>u, <1>1 DEF Valid
  <2> QED
    BY <1>1, <1>8, <2>1 DEF PlanSound
<1>10. StopInv'
  <2>1. \A u \in Units : now[u].active =>
           u \in todo' \/ (u \notin restart' /\ Matches(u)')
    <3> SUFFICES ASSUME NEW u \in Units, now[u].active, u \notin restart'
                 PROVE  Matches(u)'
      BY <1>1
    <3>1. u \in Listed(units) /\ u \notin Direct(units, now)
      <4>1. now[u].known
        BY <1>7, <1>1 DEF Books
      <4> QED
        BY <1>5, <1>8, <4>1
    <3> QED
      BY <1>u, <1>1, <3>1 DEF Direct, Matches, Listed, PlanType
  <2>2. ASSUME NEW u \in restart', NEW k \in Units, now[k].active, u \in now[k].req
        PROVE  k \in restart'
    <3>1. Seen(k, now[k], units[k].want)
      BY <1>3
    <3>2. inst[k].active /\ inst[k].known
      BY <2>2, <3>1 DEF Seen, Inv, Books
    <3>3. inst[k].req = now[k].req
      BY <3>1, <3>2 DEF Seen
    <3> QED
      BY <1>5, <2>2, <3>2, <3>3
  <2> QED
    BY <1>1, <1>2, <2>1, <2>2 DEF StopInv
<1>11. StartInv' /\ NilMeansReached' /\ result' = "none"
  BY <1>1 DEF Inv, StartInv, NilMeansReached
<1> QED
  BY <1>6, <1>7, <1>9, <1>10, <1>11 DEF Inv

-----------------------------------------------------------------------------
(* The stop loop *)

(* One unit changes, nothing else of the books does.                       *)
OnlyAt(u) == \A v \in Units : v # u => /\ inst'[v] = inst[v] /\ status'[v] = status[v]
                                       /\ held'[v] = held[v] /\ bound'[v] = bound[v]
                                       /\ built'[v] = built[v]

(* One unit of the stop loop is dealt with: it stops, or it stays an owner *)
(* whose stop failed.                                                      *)
LEMMA StopSide ==
    ASSUME Inv, NEW u \in Units, StopNext(u), OnlyAt(u),
           inst' \in [Units -> InstType], status' \in [Units -> States],
           held' \in [Units -> {"none", "up", "exited"}],
           stopFailed' \in {stopFailed, stopFailed \cup {u}}, err' \in BOOLEAN,
           inst'[u].active => inst[u].active /\ u \in stopFailed',
           inst'[u].known = inst[u].known, inst'[u].rev = inst[u].rev,
           inst'[u].req = inst[u].req, status'[u] # "Running",
           inst'[u].active => (~inst'[u].pendingStop => ~inst[u].pendingStop),
           held'[u] # "none" <=> held[u] # "none" /\ inst'[u].active,
           err => err', stopFailed' # {} => err'
    PROVE  Inv'
<1>1. /\ phase = "stop" /\ phase' = "stop" /\ u \in todo /\ todo' = todo \ {u}
      /\ plan' = plan /\ wanted' = wanted /\ restart' = restart /\ canceled' = canceled
      /\ result' = result /\ bound' = bound /\ built' = built
  BY DEF StopNext, call
<1>2. Types'
  BY <1>1 DEF Inv, Types
<1>3. Books'
  <2>1. ASSUME NEW v \in Units
        PROVE  /\ held'[v] # "none" => inst'[v].active /\ inst'[v].req = bound'[v]
               /\ inst'[v].active => inst'[v].known /\ v \notin inst'[v].req
               /\ inst'[v].active /\ ~inst'[v].pendingStop =>
                     held'[v] # "none" /\ built'[v] = inst'[v].rev
    <3>1. CASE v = u
      BY <1>1, <3>1 DEF Inv, Books
    <3>2. CASE v # u
      BY <1>1, <3>2 DEF Inv, Books, OnlyAt
    <3> QED
      BY <3>1, <3>2
  <2> QED
    BY <2>1 DEF Books
<1>4. PlanSound'
  <2>1. \A v \in Units : inst'[v].known = inst[v].known
    BY DEF OnlyAt
  <2>2. Listed(plan)' = Listed(plan) /\ Ordered(Listed(plan), Requires(plan))'
    BY <1>1 DEF Inv, PlanSound, Listed, Ordered, Requires
  <2> QED
    BY <1>1, <2>1, <2>2 DEF Inv, PlanSound
<1>5. StopInv'
  <2>1. ASSUME NEW v \in Units, inst'[v].active
        PROVE  v \in todo' \cup stopFailed' \/ (v \notin restart' /\ Matches(v)')
    <3>1. CASE v = u
      BY <2>1, <3>1
    <3>2. CASE v # u
      <4>1. inst'[v] = inst[v]
        BY <3>2 DEF OnlyAt
      <4>2. v \in todo \cup stopFailed \/ (v \notin restart /\ Matches(v))
        BY <1>1, <2>1, <4>1 DEF Inv, StopInv
      <4>3. Matches(v)' <=> Matches(v)
        BY <1>1, <4>1 DEF Matches
      <4> QED
        BY <1>1, <3>2, <4>2, <4>3
    <3> QED
      BY <3>1, <3>2
  <2>2. ASSUME NEW v \in restart', NEW k \in Units, inst'[k].active, v \in inst'[k].req
        PROVE  k \in restart'
    <3>1. inst[k].active /\ v \in inst[k].req
      BY <2>2 DEF OnlyAt
    <3> QED
      BY <1>1, <3>1 DEF Inv, StopInv
  <2>3. ASSUME NEW v \in Units, status'[v] = "Running"
        PROVE  inst'[v].active /\ v \notin stopFailed'
    <3>1. v # u
      BY <2>3
    <3>2. inst'[v] = inst[v] /\ status[v] = "Running"
      BY <2>3, <3>1 DEF OnlyAt
    <3> QED
      BY <1>1, <3>1, <3>2 DEF Inv, StopInv
  <2>4. todo' \subseteq restart'
    BY <1>1 DEF Inv, StopInv
  <2> QED
    BY <2>1, <2>2, <2>3, <2>4 DEF StopInv
<1>6. StartInv' /\ NilMeansReached' /\ (phase' # "idle" => result' = "none")
  BY <1>1 DEF Inv, StartInv, NilMeansReached
<1> QED
  BY <1>2, <1>3, <1>4, <1>5, <1>6 DEF Inv

(* The unit keeps everything because a consumer of it could not stop.      *)
LEMMA StopHeldBackKeeps == ASSUME Inv, NEW u \in Units, StopHeldBack(u) PROVE Inv'
<1>1. /\ StopNext(u) /\ inst' = inst /\ err' = err /\ held' = held /\ bound' = bound
      /\ built' = built /\ stopFailed' = stopFailed \cup {u} /\ stopFailed # {}
      /\ status' = [status EXCEPT ![u] = "Blocked"] /\ status \in [Units -> States]
      /\ phase = "stop"
  BY DEF StopHeldBack, StopNext, StopBlocked, Publish, Inv, Types
<1>2. status' \in [Units -> States] /\ status'[u] = "Blocked"
      /\ \A v \in Units : v # u => status'[v] = status[v]
  BY <1>1 DEF States
<1>3. OnlyAt(u)
  BY <1>1, <1>2 DEF OnlyAt
<1>4. err
  BY <1>1 DEF Inv, PlanSound
<1> QED
  BY <1>1, <1>2, <1>3, <1>4, StopSide DEF Inv, Types, Books

(* Nobody who was started on u holds anything when u stops: a consumer     *)
(* restarts with u, so it was stopped before, or it is one that could not  *)
(* stop and u is held back.                                                *)
LEMMA StopsAlone ==
    ASSUME Inv, NEW u \in Units, StopNext(u), ~StopBlocked(u)
    PROVE  Ownership!Consumers(u) = {}
<1> SUFFICES ASSUME NEW k \in Units, held[k] # "none", u \in bound[k] PROVE FALSE
  BY DEF Ownership!Consumers
<1>1. inst[k].active /\ u \in inst[k].req /\ u \in restart /\ phase = "stop"
      /\ u \in todo /\ \A c \in todo \ {u} : u \notin inst[c].req
  BY DEF Inv, Books, StopNext, StopInv
<1>2. k \in restart
  BY <1>1 DEF Inv, StopInv
<1>3. k \in todo \cup stopFailed
  BY <1>1, <1>2 DEF Inv, StopInv
<1>4. k \notin stopFailed
  BY <1>1 DEF StopBlocked
<1>5. k = u
  BY <1>1, <1>3, <1>4
<1> QED
  BY <1>1, <1>5 DEF Inv, Books

(* A stop that succeeds gives back what the unit holds.                    *)
LEMMA StoppedKeeps ==
    ASSUME Inv, NEW u \in Units, Stopped(u)
    PROVE  Inv' /\ (Ownership!GiveBack(u) \/ UNCHANGED <<held, bound>>)
<1> DEFINE y == [inst[u] EXCEPT !.active = FALSE, !.pendingStop = FALSE]
<1>1. /\ StopNext(u) /\ ~StopBlocked(u) /\ err' = err /\ bound' = bound /\ built' = built
      /\ stopFailed' = stopFailed /\ status' = [status EXCEPT ![u] = "Stopped"]
      /\ held' = [held EXCEPT ![u] = "none"] /\ phase = "stop"
      /\ status \in [Units -> States] /\ inst \in [Units -> InstType]
      /\ held \in [Units -> {"none", "up", "exited"}] /\ err \in BOOLEAN
      /\ stopFailed # {} => err
  BY DEF Stopped, StopNext, Publish, Inv, Types, PlanSound
<1>2. status' \in [Units -> States] /\ status'[u] = "Stopped"
      /\ \A v \in Units : v # u => status'[v] = status[v]
  BY <1>1 DEF States
<1>3. /\ held' \in [Units -> {"none", "up", "exited"}] /\ held'[u] = "none"
      /\ \A v \in Units : v # u => held'[v] = held[v]
  BY <1>1
<1>4. /\ y \in InstType /\ y.active = FALSE /\ y.pendingStop = FALSE /\ y.known = inst[u].known
      /\ y.rev = inst[u].rev /\ y.req = inst[u].req
  <2>1. inst[u] \in InstType
    BY <1>1
  <2> QED
    BY <2>1 DEF InstType
<1>5. inst' = [inst EXCEPT ![u] = y]
  BY <1>1 DEF Stopped
<1> HIDE DEF y
<1>6. inst' \in [Units -> InstType] /\ inst'[u] = y /\ \A v \in Units : v # u => inst'[v] = inst[v]
  BY <1>1, <1>4, <1>5
<1>7. OnlyAt(u)
  BY <1>1, <1>2, <1>3, <1>6 DEF OnlyAt
<1>8. Inv'
  BY <1>1, <1>2, <1>3, <1>4, <1>6, <1>7, StopSide
<1>9. CASE held[u] = "none"
  <2>1. held' = held
    BY <1>1, <1>9
  <2> QED
    BY <1>1, <1>8, <2>1
<1>10. CASE held[u] # "none"
  BY <1>1, <1>8, <1>10, StopsAlone DEF Ownership!GiveBack
<1> QED
  BY <1>9, <1>10

(* A stop that fails keeps the owner.                                      *)
LEMMA StopFailsKeeps ==
    ASSUME Inv, NEW u \in Units, StopFails(u)
    PROVE  Inv' /\ (Ownership!End(u) \/ UNCHANGED <<held, bound>>)
<1> DEFINE y == [inst[u] EXCEPT !.pendingStop = TRUE]
<1>1. /\ StopNext(u) /\ err' = TRUE /\ bound' = bound /\ built' = built
      /\ stopFailed' = stopFailed \cup {u} /\ status' = [status EXCEPT ![u] = "Stopping"]
      /\ held' = held \/ (held[u] = "up" /\ held' = [held EXCEPT ![u] = "exited"])
      /\ status \in [Units -> States] /\ inst \in [Units -> InstType]
      /\ held \in [Units -> {"none", "up", "exited"}]
  BY DEF StopFails, StopNext, Publish, Inv, Types
<1>2. status' \in [Units -> States] /\ status'[u] = "Stopping"
      /\ \A v \in Units : v # u => status'[v] = status[v]
  BY <1>1 DEF States
<1>3. /\ held' \in [Units -> {"none", "up", "exited"}] /\ (held'[u] # "none" <=> held[u] # "none")
      /\ \A v \in Units : v # u => held'[v] = held[v]
  BY <1>1
<1>4. /\ y \in InstType /\ y.active = inst[u].active /\ y.pendingStop = TRUE
      /\ y.known = inst[u].known /\ y.rev = inst[u].rev /\ y.req = inst[u].req
  <2>1. inst[u] \in InstType
    BY <1>1
  <2> QED
    BY <2>1 DEF InstType
<1>5. inst' = [inst EXCEPT ![u] = y]
  BY <1>1 DEF StopFails, OwnerKept
<1> HIDE DEF y
<1>6. inst' \in [Units -> InstType] /\ inst'[u] = y /\ \A v \in Units : v # u => inst'[v] = inst[v]
  BY <1>1, <1>4, <1>5
<1>7. OnlyAt(u)
  BY <1>1, <1>2, <1>3, <1>6 DEF OnlyAt
<1>8. held[u] # "none" => inst[u].active
  BY DEF Inv, Books
<1>9. Inv'
  BY <1>1, <1>2, <1>3, <1>4, <1>6, <1>7, <1>8, StopSide
<1> QED
  BY <1>1, <1>9 DEF Ownership!End

(* The stop loop ends: what is still published as running runs as planned. *)
LEMMA StopsDoneKeeps == ASSUME Inv, StopsDone PROVE Inv'
<1>1. /\ phase = "stop" /\ phase' = "start" /\ todo = {} /\ todo' = Listed(plan)
      /\ UNCHANGED <<inst, status, stopFailed, err, result, held, bound, built>>
      /\ UNCHANGED <<plan, wanted, restart, canceled>>
  BY DEF StopsDone, call, history
<1>2. Types'
  BY <1>1 DEF Inv, Types, Listed
<1>3. Books'
  BY <1>1 DEF Inv, Books
<1>4. PlanSound'
  BY <1>1 DEF Inv, PlanSound, Ordered, Listed, Requires
<1>5. \A u \in Units : /\ Matches(u)' <=> Matches(u)
                       /\ inst[u].active => u \in stopFailed \/ Matches(u)
                       /\ status[u] = "Running" => inst[u].active /\ u \notin stopFailed
  BY <1>1 DEF Matches, Inv, StopInv
<1>6. Listed(plan)' = Listed(plan) /\ Listed(plan) \subseteq Units
  BY <1>1 DEF Listed
<1>7. StartInv'
  BY <1>1, <1>5, <1>6 DEF StartInv
<1>8. StopInv' /\ NilMeansReached' /\ (phase' # "idle" => result' = "none")
  BY <1>1 DEF Inv, StopInv, NilMeansReached
<1> QED
  BY <1>2, <1>3, <1>4, <1>7, <1>8 DEF Inv

-----------------------------------------------------------------------------
(* The start loop *)

(* One unit is dealt with: what is left to show is about that unit.        *)
LEMMA StartSide ==
    ASSUME Inv, NEW u \in Units, StartNext(u), OnlyAt(u),
           inst' \in [Units -> InstType], status' \in [Units -> States],
           held' \in [Units -> {"none", "up", "exited"}],
           bound' \in [Units -> SUBSET Units], built' \in [Units -> Nat], err' \in BOOLEAN,
           held'[u] # "none" => inst'[u].active /\ inst'[u].req = bound'[u],
           inst'[u].active => inst'[u].known /\ u \notin inst'[u].req,
           inst'[u].active /\ ~inst'[u].pendingStop =>
              held'[u] # "none" /\ built'[u] = inst'[u].rev,
           status'[u] = "Running" => inst'[u].active /\ Matches(u)',
           err => err',
           ~err' => /\ plan[u].want = "off" => ~inst'[u].active
                    /\ plan[u].want = "on" =>
                          \/ status'[u] = "Running"
                          \/ \E p \in plan[u].req : p \in Units /\ p \notin todo /\ status[p] # "Running"
    PROVE  Inv'
<1>1. /\ phase = "start" /\ phase' = "start" /\ u \in todo /\ todo' = todo \ {u}
      /\ plan' = plan /\ wanted' = wanted /\ restart' = restart /\ canceled' = canceled
      /\ result' = result /\ stopFailed' = stopFailed /\ u \in Listed(plan)
  BY DEF StartNext, call, Inv, StartInv
<1>2. Types'
  BY <1>1 DEF Inv, Types
<1>3. Books'
  <2>1. ASSUME NEW v \in Units
        PROVE  /\ held'[v] # "none" => inst'[v].active /\ inst'[v].req = bound'[v]
               /\ inst'[v].active => inst'[v].known /\ v \notin inst'[v].req
               /\ inst'[v].active /\ ~inst'[v].pendingStop =>
                     held'[v] # "none" /\ built'[v] = inst'[v].rev
    <3>1. CASE v = u
      BY <3>1
    <3>2. CASE v # u
      BY <3>2 DEF Inv, Books, OnlyAt
    <3> QED
      BY <3>1, <3>2
  <2> QED
    BY <2>1 DEF Books
<1>4. Listed(plan)' = Listed(plan)
  BY <1>1 DEF Listed
<1>5. PlanSound'
  <2>1. \A v \in Units : inst'[v].known => v \in Listed(plan)
    BY <1>1 DEF OnlyAt, Inv, PlanSound
  <2>2. Ordered(Listed(plan), Requires(plan))'
    BY <1>1 DEF Inv, PlanSound, Listed, Ordered, Requires
  <2> QED
    BY <1>1, <1>4, <2>1, <2>2 DEF Inv, PlanSound
<1>6. \A v \in Units : v # u => inst'[v] = inst[v] /\ status'[v] = status[v]
                                /\ (Matches(v)' <=> Matches(v))
  BY <1>1 DEF OnlyAt, Matches
<1>7. StartInv'
  <2>1. todo' \subseteq Listed(plan)' /\ todo' \subseteq Units
    BY <1>1, <1>4 DEF Inv, StartInv, Types
  <2>2. \A v \in todo' : inst'[v].active => v \in stopFailed' \/ Matches(v)'
    BY <1>1, <1>6, <2>1 DEF Inv, StartInv
  <2>3. \A v \in Units : status'[v] = "Running" => inst'[v].active /\ Matches(v)'
    BY <1>1, <1>6 DEF Inv, StartInv
  <2>4. ASSUME ~err', NEW v \in Listed(plan) \ todo'
        PROVE  /\ plan[v].want = "off" => ~inst'[v].active
               /\ plan[v].want = "on" =>
                     \/ status'[v] = "Running"
                     \/ \E p \in plan[v].req : p \notin todo' /\ status'[p] # "Running"
    <3>1. CASE v = u
      BY <1>1, <1>6, <2>4, <3>1
    <3>2. CASE v # u
      <4>1. v \in Units /\ v \in Listed(plan) \ todo /\ ~err /\ plan[v].req \subseteq Units
        BY <1>1, <2>4, <3>2 DEF Listed, Inv, Types, PlanType
      <4>2. /\ plan[v].want = "off" => ~inst[v].active
            /\ plan[v].want = "on" =>
                  \/ status[v] = "Running"
                  \/ \E p \in plan[v].req : p \notin todo /\ status[p] # "Running"
        BY <1>1, <4>1 DEF Inv, StartInv
      <4> QED
        BY <1>1, <1>6, <3>2, <4>1, <4>2
    <3> QED
      BY <3>1, <3>2
  <2> QED
    BY <1>1, <1>4, <2>1, <2>2, <2>3, <2>4 DEF StartInv
<1>8. StopInv' /\ NilMeansReached' /\ (phase' # "idle" => result' = "none")
  BY <1>1 DEF Inv, StopInv, NilMeansReached
<1> QED
  BY <1>2, <1>3, <1>5, <1>7, <1>8 DEF Inv

(* The unit that is looked at, and the plan's wish for it.                 *)
LEMMA StartFacts ==
    ASSUME Inv, NEW u \in Units, StartNext(u)
    PROVE  /\ phase = "start" /\ u \in todo /\ u \in Listed(plan)
           /\ inst[u] \in InstType /\ inst \in [Units -> InstType]
           /\ status \in [Units -> States] /\ held \in [Units -> {"none", "up", "exited"}]
           /\ bound \in [Units -> SUBSET Units] /\ built \in [Units -> Nat] /\ err \in BOOLEAN
           /\ plan' = plan /\ plan[u].rev \in Nat /\ plan[u].req \in SUBSET Units
           /\ plan[u].want \in {"on", "off"} /\ u \notin plan[u].req
           /\ plan[u].req \cap todo = {} /\ (stopFailed # {} => err)
           /\ inst[u].active => u \in stopFailed \/ Matches(u)
           /\ held[u] # "none" => inst[u].active /\ inst[u].req = bound[u]
           /\ inst[u].active => inst[u].known /\ u \notin inst[u].req
           /\ inst[u].active /\ ~inst[u].pendingStop => held[u] # "none" /\ built[u] = inst[u].rev
<1>1. /\ phase = "start" /\ u \in todo /\ plan' = plan /\ plan[u].req \cap todo = {}
  BY DEF StartNext, call
<1>2. /\ inst[u] \in InstType /\ inst \in [Units -> InstType]
      /\ status \in [Units -> States] /\ held \in [Units -> {"none", "up", "exited"}]
      /\ bound \in [Units -> SUBSET Units] /\ built \in [Units -> Nat] /\ err \in BOOLEAN
      /\ plan[u].rev \in Nat /\ plan[u].req \in SUBSET Units
  BY DEF Inv, Types, PlanType
<1>3. u \in Listed(plan) /\ (inst[u].active => u \in stopFailed \/ Matches(u))
  BY <1>1 DEF Inv, StartInv
<1>4. plan[u].want \in {"on", "off"}
  BY <1>3 DEF Listed, Inv, Types, PlanType
<1>5. u \notin plan[u].req
  <2>1. Listed(plan) \in SUBSET Units /\ Requires(plan) \in [Units -> SUBSET Units]
        /\ Requires(plan)[u] = plan[u].req
    BY DEF Listed, Requires, Inv, Types, PlanType
  <2>2. Ordered(Listed(plan), Requires(plan))
    BY <1>1 DEF Inv, PlanSound
  <2> QED
    BY <1>3, <2>1, <2>2, OrderedIrreflexive
<1>6. stopFailed # {} => err
  BY <1>1 DEF Inv, PlanSound
<1>7. /\ held[u] # "none" => inst[u].active /\ inst[u].req = bound[u]
      /\ inst[u].active => inst[u].known /\ u \notin inst[u].req
      /\ inst[u].active /\ ~inst[u].pendingStop => held[u] # "none" /\ built[u] = inst[u].rev
  BY DEF Inv, Books
<1> QED
  BY <1>1, <1>2, <1>3, <1>4, <1>5, <1>6, <1>7

(* The unit is left as it is: its stop failed, or it is disabled.          *)
LEMMA LeaveStoppedKeeps == ASSUME Inv, NEW u \in Units, LeaveStopped(u) PROVE Inv'
<1>1. StartNext(u) /\ err' = err /\ held' = held /\ bound' = bound /\ built' = built
  BY DEF LeaveStopped, history
<1>2. CASE u \in stopFailed /\ UNCHANGED <<inst, status>>
  <2>1. OnlyAt(u)
    BY <1>1, <1>2 DEF OnlyAt
  <2>2. err
    BY <1>1, <1>2, StartFacts
  <2>3. status'[u] = "Running" => inst'[u].active /\ Matches(u)'
    BY <1>1, <1>2, StartFacts DEF Inv, StartInv, Matches
  <2> QED
    BY <1>1, <1>2, <2>1, <2>2, <2>3, StartFacts, StartSide
<1>3. CASE /\ u \notin stopFailed /\ plan[u].want = "off"
           /\ status' = [status EXCEPT ![u] = "Stopped"]
           /\ inst' = [inst EXCEPT ![u].req = plan[u].req]
  <2> DEFINE y == [inst[u] EXCEPT !.req = plan[u].req]
  <2>1. ~inst[u].active /\ held[u] = "none"
    BY <1>1, <1>3, StartFacts DEF Matches
  <2>2. y \in InstType /\ y.active = inst[u].active
    <3>1. inst[u] \in InstType /\ plan[u].req \in SUBSET Units
      BY <1>1, StartFacts
    <3> QED
      BY <3>1 DEF InstType
  <2>3. inst' = [inst EXCEPT ![u] = y] /\ inst \in [Units -> InstType]
    BY <1>1, <1>3, StartFacts
  <2> HIDE DEF y
  <2>4. inst' \in [Units -> InstType] /\ inst'[u] = y /\ \A v \in Units : v # u => inst'[v] = inst[v]
    BY <2>2, <2>3
  <2>5. status' \in [Units -> States] /\ status'[u] = "Stopped"
        /\ \A v \in Units : v # u => status'[v] = status[v]
    BY <1>1, <1>3, StartFacts DEF States
  <2>6. OnlyAt(u)
    BY <1>1, <2>4, <2>5 DEF OnlyAt
  <2> QED
    BY <1>1, <1>3, <2>1, <2>2, <2>4, <2>5, <2>6, StartFacts, StartSide
<1> QED
  BY <1>2, <1>3 DEF LeaveStopped, Publish

(* Nothing happens to the unit but that the reason is published.           *)
LEMMA OnlyPublished ==
    ASSUME Inv, NEW u \in Units, StartNext(u), NEW s \in States \ {"Running"}, Publish(u, s),
           UNCHANGED <<inst, history>>, err' \in BOOLEAN, err => err',
           plan[u].want = "on",
           ~err' => \E p \in plan[u].req : p \in Units /\ p \notin todo /\ status[p] # "Running"
    PROVE  Inv'
<1>1. held' = held /\ bound' = bound /\ built' = built /\ inst' = inst
      /\ status' = [status EXCEPT ![u] = s]
  BY DEF history, Publish
<1>2. status' \in [Units -> States] /\ status'[u] = s
      /\ \A v \in Units : v # u => status'[v] = status[v]
  BY <1>1, StartFacts
<1>3. OnlyAt(u)
  BY <1>1, <1>2 DEF OnlyAt
<1>4. s # "Running" /\ plan[u].want # "off"
  OBVIOUS
<1> QED
  BY <1>1, <1>2, <1>3, <1>4, StartFacts, StartSide

(* A provider does not run, or the call was cancelled.                     *)
LEMMA StartBlockedKeeps == ASSUME Inv, NEW u \in Units, StartBlocked(u) PROVE Inv'
<1>1. /\ StartNext(u) /\ plan[u].want = "on" /\ Publish(u, "Blocked") /\ UNCHANGED <<inst, history>>
      /\ \/ ~ProvidersRun(u) /\ err' = err
         \/ err' = TRUE
  BY DEF StartBlocked, Startable
<1>2. ~err' => \E p \in plan[u].req : p \in Units /\ p \notin todo /\ status[p] # "Running"
  BY <1>1, StartFacts DEF ProvidersRun
<1>3. "Blocked" \in States \ {"Running"}
  BY DEF States
<1>4. err \in BOOLEAN
  BY DEF Inv, Types
<1>5. err' \in BOOLEAN /\ (err => err')
  <2>1. CASE err' = err
    BY <1>4, <2>1
  <2>2. CASE err' = TRUE
    BY <2>2
  <2> QED
    BY <1>1, <2>1, <2>2
<1> QED
  BY <1>1, <1>2, <1>3, <1>5, OnlyPublished

(* The update hook failed.                                                 *)
LEMMA UpdateFailsKeeps == ASSUME Inv, NEW u \in Units, UpdateFails(u) PROVE Inv'
<1>1. /\ StartNext(u) /\ plan[u].want = "on" /\ Publish(u, "Failed") /\ UNCHANGED <<inst, history>>
      /\ err' = TRUE
  BY DEF UpdateFails, Admitted, Startable
<1>2. "Failed" \in States \ {"Running"}
  BY DEF States
<1> QED
  BY <1>1, <1>2, OnlyPublished

(* A unit that runs as planned is left running.                            *)
LEMMA KeepRunningKeeps == ASSUME Inv, NEW u \in Units, KeepRunning(u) PROVE Inv'
<1>1. /\ StartNext(u) /\ u \notin stopFailed /\ inst[u].active
      /\ err' = err /\ held' = held /\ bound' = bound /\ built' = built
      /\ inst' = [inst EXCEPT ![u].rev = plan[u].rev, ![u].req = plan[u].req]
      /\ status' = [status EXCEPT ![u] = "Running"]
  BY DEF KeepRunning, Admitted, Startable, history, Publish
<1>2. Matches(u)
  BY <1>1, StartFacts
<1>3. inst' = inst
  <2>1. inst[u].rev = plan[u].rev /\ inst[u].req = plan[u].req /\ inst[u] \in InstType
        /\ inst \in [Units -> InstType]
    BY <1>1, <1>2, StartFacts DEF Matches
  <2> DEFINE y == [inst[u] EXCEPT !.rev = plan[u].rev, !.req = plan[u].req]
  <2>2. y = inst[u]
    BY <2>1 DEF InstType
  <2>3. inst' = [inst EXCEPT ![u] = y]
    BY <1>1, <2>1
  <2> HIDE DEF y
  <2> QED
    BY <2>1, <2>2, <2>3
<1>4. Matches(u)'
  BY <1>1, <1>2, <1>3, StartFacts DEF Matches
<1>5. status' \in [Units -> States] /\ status'[u] = "Running"
      /\ \A v \in Units : v # u => status'[v] = status[v]
  BY <1>1, StartFacts DEF States
<1>6. OnlyAt(u)
  BY <1>1, <1>3, <1>5 DEF OnlyAt
<1>7. plan[u].want # "off"
  BY <1>2 DEF Matches
<1>8. /\ inst' \in [Units -> InstType] /\ held' \in [Units -> {"none", "up", "exited"}]
      /\ bound' \in [Units -> SUBSET Units] /\ built' \in [Units -> Nat]
      /\ held'[u] # "none" => inst'[u].active /\ inst'[u].req = bound'[u]
      /\ inst'[u].active => inst'[u].known /\ u \notin inst'[u].req
      /\ inst'[u].active /\ ~inst'[u].pendingStop => held'[u] # "none" /\ built'[u] = inst'[u].rev
      /\ inst'[u].active
  BY <1>1, <1>3, StartFacts
<1>9. err' \in BOOLEAN /\ (err => err')
  BY <1>1 DEF Inv, Types
<1> QED
  BY <1>1, <1>4, <1>5, <1>6, <1>7, <1>8, <1>9, StartSide

(* A unit is started on providers that hold something.                     *)
LEMMA StartsOnHeld ==
    ASSUME Inv, NEW u \in Units, Admitted(u), ~inst[u].active, NEW h \in {"up", "exited"},
           held' = [held EXCEPT ![u] = h], bound' = [bound EXCEPT ![u] = plan[u].req]
    PROVE  Ownership!Take(u)
<1>1. /\ StartNext(u) /\ ProvidersRun(u)
  BY DEF Admitted
<1>2. /\ phase = "start" /\ held[u] = "none" /\ u \notin plan[u].req
      /\ plan[u].req \in SUBSET Units
  BY <1>1, StartFacts
<1>3. ASSUME NEW p \in plan[u].req PROVE held[p] # "none"
  <2>1. p \in Units /\ status[p] = "Running"
    BY <1>1, <1>2, <1>3 DEF ProvidersRun
  <2>2. inst[p].active /\ ~inst[p].pendingStop
    BY <1>2, <2>1 DEF Inv, StartInv, Matches
  <2> QED
    BY <2>1, <2>2 DEF Inv, Books
<1>4. plan[u].req \in SUBSET {p \in Units \ {u} : held[p] # "none"}
  BY <1>2, <1>3
<1> QED
  BY <1>2, <1>4 DEF Ownership!Take

(* A start that succeeds.                                                  *)
LEMMA StartedKeeps ==
    ASSUME Inv, NEW u \in Units, Started(u) PROVE Inv' /\ Ownership!Take(u)
<1> DEFINE y == [known |-> TRUE, active |-> TRUE, pendingStop |-> FALSE,
                 rev |-> plan[u].rev, req |-> plan[u].req]
<1>1. /\ Admitted(u) /\ StartNext(u) /\ plan[u].want = "on" /\ ~inst[u].active
      /\ err' = err /\ held' = [held EXCEPT ![u] = "up"]
      /\ bound' = [bound EXCEPT ![u] = plan[u].req] /\ built' = [built EXCEPT ![u] = plan[u].rev]
      /\ status' = [status EXCEPT ![u] = "Running"]
  BY DEF Started, Admitted, Startable, Publish
<1>2. inst' = [inst EXCEPT ![u] = y]
  BY DEF Started, Owned
<1>3. y \in InstType
  BY <1>1, StartFacts DEF InstType
<1>4. /\ y.known /\ y.active /\ y.pendingStop = FALSE /\ y.rev = plan[u].rev
      /\ y.req = plan[u].req
  OBVIOUS
<1> HIDE DEF y
<1>5. inst' \in [Units -> InstType] /\ inst'[u] = y /\ \A v \in Units : v # u => inst'[v] = inst[v]
  BY <1>1, <1>2, <1>3, StartFacts
<1>6. status' \in [Units -> States] /\ status'[u] = "Running"
      /\ \A v \in Units : v # u => status'[v] = status[v]
  BY <1>1, StartFacts DEF States
<1>7. /\ held' \in [Units -> {"none", "up", "exited"}] /\ held'[u] = "up"
      /\ bound' \in [Units -> SUBSET Units] /\ bound'[u] = plan[u].req
      /\ built' \in [Units -> Nat] /\ built'[u] = plan[u].rev
      /\ \A v \in Units : v # u => /\ held'[v] = held[v] /\ bound'[v] = bound[v]
                                   /\ built'[v] = built[v]
  BY <1>1, StartFacts
<1>8. OnlyAt(u)
  BY <1>5, <1>6, <1>7 DEF OnlyAt
<1>9. Matches(u)'
  BY <1>1, <1>4, <1>5, StartFacts DEF Matches
<1>10. Inv'
  BY <1>1, <1>4, <1>5, <1>6, <1>7, <1>8, <1>9, StartFacts, StartSide
<1>11. Ownership!Take(u)
  BY <1>1, StartsOnHeld
<1> QED
  BY <1>10, <1>11

(* The start failed and left nothing.                                      *)
LEMMA StartUndoneKeeps == ASSUME Inv, NEW u \in Units, StartUndone(u) PROVE Inv'
<1> DEFINE y == [inst[u] EXCEPT !.req = plan[u].req]
<1>1. /\ StartNext(u) /\ ~inst[u].active /\ err' = TRUE
      /\ held' = held /\ bound' = bound /\ built' = built
      /\ inst' = [inst EXCEPT ![u].req = plan[u].req]
      /\ status' = [status EXCEPT ![u] = "Failed"]
  BY DEF StartUndone, Admitted, Publish, history
<1>2. y \in InstType /\ y.active = inst[u].active
  <2>1. inst[u] \in InstType /\ plan[u].req \in SUBSET Units
    BY <1>1, StartFacts
  <2> QED
    BY <2>1 DEF InstType
<1>3. inst' = [inst EXCEPT ![u] = y] /\ inst \in [Units -> InstType]
  BY <1>1, StartFacts
<1> HIDE DEF y
<1>4. inst' \in [Units -> InstType] /\ inst'[u] = y /\ \A v \in Units : v # u => inst'[v] = inst[v]
  BY <1>2, <1>3
<1>5. status' \in [Units -> States] /\ status'[u] = "Failed"
      /\ \A v \in Units : v # u => status'[v] = status[v]
  BY <1>1, StartFacts DEF States
<1>6. OnlyAt(u)
  BY <1>1, <1>4, <1>5 DEF OnlyAt
<1> QED
  BY <1>1, <1>2, <1>4, <1>5, <1>6, StartFacts, StartSide

(* The start failed and could not be undone: an owner that is to stop.     *)
LEMMA StartStuckKeeps ==
    ASSUME Inv, NEW u \in Units, StartStuck(u)
    PROVE  Inv' /\ (Ownership!Take(u) \/ UNCHANGED <<held, bound>>)
<1> DEFINE y == [known |-> TRUE, active |-> TRUE, pendingStop |-> TRUE,
                 rev |-> inst[u].rev, req |-> plan[u].req]
<1>1. /\ Admitted(u) /\ StartNext(u) /\ ~inst[u].active /\ err' = TRUE
      /\ status' = [status EXCEPT ![u] = "Stopping"]
  BY DEF StartStuck, Admitted, Publish
<1>2. inst' = [inst EXCEPT ![u] = y]
  BY <1>1, StartFacts DEF StartStuck, Owned
<1>3. y \in InstType
  <2>1. inst[u].rev \in Nat /\ plan[u].req \in SUBSET Units
    BY <1>1, StartFacts DEF InstType
  <2> QED
    BY <2>1 DEF InstType
<1>4. /\ y.known /\ y.active /\ y.pendingStop = TRUE /\ y.req = plan[u].req
  OBVIOUS
<1> HIDE DEF y
<1>5. inst' \in [Units -> InstType] /\ inst'[u] = y /\ \A v \in Units : v # u => inst'[v] = inst[v]
  BY <1>1, <1>2, <1>3, StartFacts
<1>6. status' \in [Units -> States] /\ status'[u] = "Stopping"
      /\ \A v \in Units : v # u => status'[v] = status[v]
  BY <1>1, StartFacts DEF States
<1>7. CASE UNCHANGED history
  <2>1. held' = held /\ bound' = bound /\ built' = built
    BY <1>7 DEF history
  <2>2. OnlyAt(u)
    BY <1>5, <1>6, <2>1 DEF OnlyAt
  <2>3. held[u] = "none"
    BY <1>1, StartFacts
  <2>4. Inv'
    BY <1>1, <1>4, <1>5, <1>6, <2>1, <2>2, <2>3, StartFacts, StartSide
  <2> QED
    BY <2>1, <2>4
<1>8. CASE /\ \E h \in {"up", "exited"} : held' = [held EXCEPT ![u] = h]
           /\ bound' = [bound EXCEPT ![u] = plan[u].req]
           /\ built' = [built EXCEPT ![u] = plan[u].rev]
  <2>1. PICK h \in {"up", "exited"} : held' = [held EXCEPT ![u] = h]
    BY <1>8
  <2>2. /\ held' \in [Units -> {"none", "up", "exited"}]
        /\ bound' \in [Units -> SUBSET Units] /\ bound'[u] = plan[u].req
        /\ built' \in [Units -> Nat]
        /\ \A v \in Units : v # u => /\ held'[v] = held[v] /\ bound'[v] = bound[v]
                                     /\ built'[v] = built[v]
    BY <1>1, <1>8, <2>1, StartFacts
  <2>3. OnlyAt(u)
    BY <1>5, <1>6, <2>2 DEF OnlyAt
  <2>4. Inv'
    BY <1>1, <1>4, <1>5, <1>6, <2>2, <2>3, StartFacts, StartSide
  <2> QED
    BY <1>1, <1>8, <2>1, <2>4, StartsOnHeld
<1> QED
  BY <1>7, <1>8 DEF StartStuck

-----------------------------------------------------------------------------
(* The end of a call *)

(* What is wanted with all it requires is running: of the units for which  *)
(* that is not so, one requires none of the others, and it would have been *)
(* started.                                                                *)
LEMMA WantedRun ==
    ASSUME Inv, phase = "start", todo = {}, ~err, NEW u \in Units, AllOn(u)
    PROVE  status[u] = "Running"
<1>1. /\ plan \in PlanType /\ Requires(plan) \in [Units -> SUBSET Units]
      /\ Listed(plan) \subseteq Units /\ \A v \in Units : Requires(plan)[v] = plan[v].req
      /\ Ordered(Listed(plan), Requires(plan))
  BY DEF Inv, Types, PlanSound, Requires, Listed, PlanType
<1>R. PICK R \in [Units -> SUBSET Units] : R = Requires(plan)
  BY <1>1
<1>2. ASSUME NEW v \in Units, AllOn(v)
      PROVE  plan[v].want = "on" /\ v \in Listed(plan)
  <2>1. v \in Upward(R, {v})
    BY UpwardClosed
  <2> QED
    BY <1>R, <1>2, <2>1 DEF AllOn, Listed
<1>3. ASSUME NEW v \in Units, AllOn(v), NEW p \in plan[v].req
      PROVE  p \in Units /\ AllOn(p)
  <2>1. p \in Units /\ p \in R[v]
    BY <1>1, <1>3, <1>R
  <2>2. ASSUME NEW w \in Units, p \in Upward(R, {w})
        PROVE  v \in Upward(R, {w})
    BY <2>1, <2>2, UpwardClosed
  <2> QED
    BY <1>3, <1>R, <2>1, <2>2 DEF AllOn
<1> DEFINE S == {v \in Units : AllOn(v) /\ status[v] # "Running"}
<1>4. S = {}
  <2> SUFFICES ASSUME S # {} PROVE FALSE
    OBVIOUS
  <2>1. S \in (SUBSET Listed(plan)) \ {{}}
    BY <1>2
  <2> HIDE DEF S
  <2>2. PICK v \in S : Requires(plan)[v] \cap S = {}
    BY <1>1, <2>1 DEF Ordered
  <2> USE DEF S
  <2>3. v \in Units /\ AllOn(v) /\ status[v] # "Running" /\ plan[v].req \cap S = {}
    BY <1>1, <2>2
  <2>4. plan[v].want = "on" /\ v \in Listed(plan)
    BY <1>2, <2>3
  <2>5. \A p \in plan[v].req : status[p] = "Running"
    BY <1>3, <2>3
  <2>6. \E p \in plan[v].req : status[p] # "Running"
    BY <2>3, <2>4 DEF Inv, StartInv
  <2> QED
    BY <2>5, <2>6
<1> QED
  BY <1>4

(* A call returns nil only when the plan is reached.                       *)
LEMMA ReturnKeeps == ASSUME Inv, Return PROVE Inv'
<1>1. /\ phase = "start" /\ phase' = "idle" /\ todo = {}
      /\ result' = IF err THEN "error" ELSE "nil"
      /\ UNCHANGED <<inst, status, todo, stopFailed, err, held, bound, built>>
      /\ UNCHANGED <<plan, wanted, restart, canceled>>
  BY DEF Return, call, history
<1>2. Types'
  BY <1>1 DEF Inv, Types
<1>3. Books'
  BY <1>1 DEF Inv, Books
<1>4. PlanSound' /\ StopInv' /\ StartInv'
  BY <1>1 DEF PlanSound, StopInv, StartInv
<1>5. ASSUME ~err, NEW u \in Units
      PROVE  /\ plan[u].want # "on" => held[u] = "none"
             /\ AllOn(u) => /\ held[u] # "none" /\ built[u] = plan[u].rev
                            /\ bound[u] = plan[u].req /\ ~inst[u].pendingStop
  <2>1. plan[u].want # "on" => ~inst[u].active
    <3>1. CASE u \in Listed(plan)
      <4>1. plan[u].want # "on" => plan[u].want = "off"
        BY <3>1 DEF Listed, Inv, Types, PlanType
      <4> QED
        BY <1>1, <1>5, <3>1, <4>1 DEF Inv, StartInv
    <3>2. CASE u \notin Listed(plan)
      BY <1>1, <3>2 DEF Inv, PlanSound, Books
    <3> QED
      BY <3>1, <3>2
  <2>2. plan[u].want # "on" => held[u] = "none"
    BY <2>1 DEF Inv, Books
  <2>3. ASSUME AllOn(u)
        PROVE  /\ held[u] # "none" /\ built[u] = plan[u].rev
               /\ bound[u] = plan[u].req /\ ~inst[u].pendingStop
    <3>1. inst[u].active /\ Matches(u)
      BY <1>1, <1>5, <2>3, WantedRun DEF Inv, StartInv
    <3> QED
      BY <3>1 DEF Inv, Books, Matches
  <2> QED
    BY <2>2, <2>3
<1>6. NilMeansReached'
  <2>1. \A u \in Units : AllOn(u)' <=> AllOn(u)
    BY <1>1, AllOnSame
  <2> QED
    BY <1>1, <1>5, <2>1 DEF NilMeansReached
<1> QED
  BY <1>1, <1>2, <1>3, <1>4, <1>6 DEF Inv

-----------------------------------------------------------------------------
(* The inductive invariant and the refinement *)

(* At the start nothing is held and nothing is known.                      *)
LEMMA InvInit == ASSUME Init PROVE Inv /\ Ownership!Init
<1>1. Types
  BY DEF Init, Types, InstType, PlanType, Nobody, States
<1>2. Books /\ PlanSound /\ StopInv /\ StartInv /\ NilMeansReached
  BY DEF Init, Books, PlanSound, StopInv, StartInv, NilMeansReached
<1>3. Ownership!Init
  BY DEF Init, Ownership!Init
<1> QED
  BY <1>1, <1>2, <1>3 DEF Inv, Init

(* A step keeps the invariant and is one that ResourceOwnership allows.    *)
Allowed == Ownership!Next \/ UNCHANGED <<held, bound>>

(* Every step keeps the invariant.                                         *)
LEMMA InvStep == ASSUME Inv, [Next]_vars PROVE Inv' /\ Allowed
<1>1. CASE \E desired \in Plans : Reconcile(desired)
  <2>1. PICK desired \in Plans : Reconcile(desired)
    BY <1>1
  <2>2. desired \in PlanType
    BY ReconcilerAssumption DEF PlanType
  <2>3. UNCHANGED <<held, bound>>
    BY <2>1 DEF Reconcile, history
  <2> QED
    BY <2>1, <2>2, <2>3, CallKeeps DEF Allowed
<1>2. CASE Refuse \/ Begin \/ StopsDone \/ Return \/ Cancel
  <2>1. UNCHANGED <<held, bound>>
    BY <1>2 DEF Refuse, Begin, StopsDone, Return, Cancel, history
  <2> QED
    BY <1>2, <2>1, RefuseKeeps, BeginKeeps, StopsDoneKeeps, ReturnKeeps, CancelKeeps DEF Allowed
<1>3. ASSUME NEW u \in Units, StopStep(u) PROVE Inv' /\ Allowed
  <2>1. CASE StopHeldBack(u)
    <3>1. UNCHANGED <<held, bound>>
      BY <2>1 DEF StopHeldBack, StopNext
    <3> QED
      BY <2>1, <3>1, StopHeldBackKeeps DEF Allowed
  <2>2. CASE Stopped(u)
    BY <2>2, StoppedKeeps DEF Allowed, Ownership!Next
  <2>3. CASE StopFails(u)
    BY <2>3, StopFailsKeeps DEF Allowed, Ownership!Next
  <2> QED
    BY <1>3, <2>1, <2>2, <2>3 DEF StopStep
<1>4. ASSUME NEW u \in Units, StartStep(u) PROVE Inv' /\ Allowed
  <2>1. CASE LeaveStopped(u) \/ StartBlocked(u) \/ UpdateFails(u) \/ KeepRunning(u) \/ StartUndone(u)
    <3>1. UNCHANGED <<held, bound>>
      BY <2>1 DEF LeaveStopped, StartBlocked, UpdateFails, KeepRunning, StartUndone, history
    <3> QED
      BY <2>1, <3>1, LeaveStoppedKeeps, StartBlockedKeeps, UpdateFailsKeeps, KeepRunningKeeps,
         StartUndoneKeeps DEF Allowed
  <2>2. CASE Started(u)
    BY <2>2, StartedKeeps DEF Allowed, Ownership!Next
  <2>3. CASE StartStuck(u)
    BY <2>3, StartStuckKeeps DEF Allowed, Ownership!Next
  <2> QED
    BY <1>4, <2>1, <2>2, <2>3 DEF StartStep
<1>5. ASSUME NEW u \in Units, Exit(u) PROVE Inv' /\ Allowed
  BY <1>5, ExitKeeps DEF Allowed, Ownership!Next
<1>6. CASE UNCHANGED vars
  <2>1. UNCHANGED <<inst, status, phase, plan, wanted, restart, canceled, todo, stopFailed, err,
                    result, held, bound, built>>
    BY <1>6 DEF vars, call, history
  <2>2. Types' /\ Books' /\ StopInv' /\ StartInv'
    BY <2>1 DEF Inv, Types, Books, StopInv, StartInv, Matches, Listed
  <2>3. PlanSound'
    BY <2>1 DEF Inv, PlanSound, Ordered, Listed, Requires
  <2>4. NilMeansReached'
    BY <2>1, ReachedKept
  <2> QED
    BY <2>1, <2>2, <2>3, <2>4 DEF Inv, Allowed
<1> QED
  BY <1>1, <1>2, <1>3, <1>4, <1>5, <1>6 DEF Next, Step

(* The invariant holds in every behaviour.                                 *)
LEMMA SpecInv == Spec => []Inv
<1>1. Init => Inv
  BY InvInit
<1>2. Inv /\ [Next]_vars => Inv'
  BY InvStep
<1> QED
  BY <1>1, <1>2, PTL DEF Spec

-----------------------------------------------------------------------------
(* Reconcile implements ResourceOwnership: whatever fails, is cancelled or *)
(* ends by itself, a resource is taken once, on providers that are held,   *)
(* and given back only when nobody who was started on it holds anything.   *)
THEOREM ReconcilerImplementsOwnership == Spec => OwnershipKept
<1>1. Init => Ownership!Init
  BY InvInit
<1>2. Inv /\ [Next]_vars => [Ownership!Next]_(Ownership!vars)
  BY InvStep DEF Allowed, Ownership!vars
<1> QED
  BY <1>1, <1>2, SpecInv, PTL DEF Spec, OwnershipKept, Ownership!Spec

(* Who has an error to report has met a failure of its own.                *)
MetInv ==
    /\ phase \in {"stop", "start"} /\ (err \/ canceled) => met
    /\ phase = "enter" /\ canceled => met
    /\ result = "error" => met

(* Begin forgets the errors of earlier calls and every failure of this one *)
(* is recorded.                                                            *)
LEMMA MetStep == ASSUME MetInv, [Next]_vars PROVE MetInv'
<1>1. CASE \E desired \in Plans : Reconcile(desired)
  BY <1>1 DEF Reconcile, MetInv
<1>2. CASE Refuse \/ Begin \/ StopsDone \/ Return \/ Cancel
  BY <1>2 DEF Refuse, Begin, StopsDone, Return, Cancel, call, MetInv
<1>3. ASSUME NEW u \in Units, StopStep(u) PROVE MetInv'
  <2>1. StopNext(u) /\ (UNCHANGED <<err, met>> \/ met' = TRUE)
    BY <1>3 DEF StopStep, StopHeldBack, Stopped, StopFails
  <2>2. phase = "stop" /\ phase' = "stop" /\ canceled' = canceled /\ result' = result
    BY <2>1 DEF StopNext, call
  <2> QED
    BY <2>1, <2>2 DEF MetInv
<1>4. ASSUME NEW u \in Units, StartStep(u) PROVE MetInv'
  <2>1. StartNext(u) /\ (UNCHANGED <<err, met>> \/ met' = TRUE \/ (canceled /\ met' = met))
    <3>1. CASE LeaveStopped(u) \/ StartBlocked(u)
      BY <3>1 DEF LeaveStopped, StartBlocked
    <3>2. CASE UpdateFails(u) \/ KeepRunning(u) \/ Started(u) \/ StartUndone(u) \/ StartStuck(u)
      BY <3>2 DEF UpdateFails, KeepRunning, Started, StartUndone, StartStuck, Admitted
    <3> QED
      BY <1>4, <3>1, <3>2 DEF StartStep
  <2>2. phase = "start" /\ phase' = "start" /\ canceled' = canceled /\ result' = result
    BY <2>1 DEF StartNext, call
  <2> QED
    BY <2>1, <2>2 DEF MetInv
<1>5. ASSUME NEW u \in Units, Exit(u) PROVE MetInv'
  BY <1>5 DEF Exit, call, MetInv
<1>6. CASE UNCHANGED vars
  BY <1>6 DEF vars, call, MetInv
<1> QED
  BY <1>1, <1>2, <1>3, <1>4, <1>5, <1>6 DEF Next, Step

(* The books of Reconcile agree with the resources: every unit that holds  *)
(* something is an owner, to be stopped in the graph it was started in,    *)
(* a call that returned nil has reached its plan, and one that returned an *)
(* error has met a failure itself, whatever earlier calls left behind.     *)
THEOREM ReconcilerBooksAgree == Spec => []BooksAgree
<1>1. Inv /\ MetInv => BooksAgree
  BY DEF Inv, Books, MetInv, BooksAgree, StopGraphIsStartGraph, FailureIsItsOwn
<1>2. Init => MetInv
  BY DEF Init, MetInv
<1>3. MetInv /\ [Next]_vars => MetInv'
  BY MetStep
<1> QED
  BY <1>1, <1>2, <1>3, SpecInv, PTL DEF Spec

-----------------------------------------------------------------------------
(* What the abstract specification promises *)

(* The inductive invariant of ResourceOwnership.                           *)
OInv == Ownership!TypeOK /\ Ownership!ProvidersOutlive

(* A start binds a unit only to providers that are held, and takes nothing *)
(* from others.                                                            *)
LEMMA TakeKeeps == ASSUME OInv, NEW u \in Units, Ownership!Take(u) PROVE OInv'
<1>1. PICK req \in SUBSET {p \in Units \ {u} : held[p] # "none"}, h \in {"up", "exited"} :
         /\ held' = [held EXCEPT ![u] = h]
         /\ bound' = [bound EXCEPT ![u] = req]
  BY DEF Ownership!Take
<1>2. Ownership!TypeOK'
  BY <1>1 DEF OInv, Ownership!TypeOK, Ownership!Holdings
<1>3. ASSUME NEW c \in Units, held'[c] # "none", NEW p \in bound'[c]
      PROVE  held'[p] # "none"
  <2>1. CASE c = u
    <3>1. p \in req
      BY <1>1, <1>3, <2>1 DEF OInv, Ownership!TypeOK
    <3> QED
      BY <1>1, <3>1 DEF OInv, Ownership!TypeOK
  <2>2. CASE c # u
    <3>1. held[c] # "none" /\ p \in bound[c] /\ p \in Units
      BY <1>1, <1>3, <2>2 DEF OInv, Ownership!TypeOK
    <3>2. held[p] # "none"
      BY <3>1 DEF OInv, Ownership!ProvidersOutlive
    <3> QED
      BY <1>1, <3>1, <3>2 DEF OInv, Ownership!TypeOK
  <2> QED
    BY <2>1, <2>2
<1> QED
  BY <1>2, <1>3 DEF OInv, Ownership!ProvidersOutlive

(* A stop releases a unit only when nobody who still holds anything is     *)
(* bound to it.                                                            *)
LEMMA GiveBackKeeps == ASSUME OInv, NEW u \in Units, Ownership!GiveBack(u) PROVE OInv'
<1>1. Ownership!TypeOK'
  BY DEF OInv, Ownership!TypeOK, Ownership!Holdings, Ownership!GiveBack
<1>2. ASSUME NEW c \in Units, held'[c] # "none", NEW p \in bound'[c]
      PROVE  held'[p] # "none"
  <2>1. c # u /\ held[c] # "none" /\ p \in bound[c] /\ p \in Units
    BY <1>2 DEF OInv, Ownership!TypeOK, Ownership!GiveBack
  <2>2. p # u
    BY <2>1 DEF Ownership!GiveBack, Ownership!Consumers
  <2>3. held[p] # "none"
    BY <2>1 DEF OInv, Ownership!ProvidersOutlive
  <2> QED
    BY <2>1, <2>2, <2>3 DEF OInv, Ownership!TypeOK, Ownership!GiveBack
<1> QED
  BY <1>1, <1>2 DEF OInv, Ownership!ProvidersOutlive

(* A resource that ends is still held until it is stopped.                 *)
LEMMA EndKeeps == ASSUME OInv, NEW u \in Units, Ownership!End(u) PROVE OInv'
<1>1. Ownership!TypeOK'
  BY DEF OInv, Ownership!TypeOK, Ownership!Holdings, Ownership!End
<1>2. ASSUME NEW c \in Units PROVE held'[c] # "none" <=> held[c] # "none"
  BY <1>2 DEF OInv, Ownership!TypeOK, Ownership!End
<1>3. ASSUME NEW c \in Units, held'[c] # "none", NEW p \in bound'[c]
      PROVE  held'[p] # "none"
  <2>1. held[c] # "none" /\ p \in bound[c] /\ p \in Units
    BY <1>2, <1>3 DEF OInv, Ownership!TypeOK, Ownership!End
  <2> QED
    BY <1>2, <2>1 DEF OInv, Ownership!ProvidersOutlive
<1> QED
  BY <1>1, <1>3 DEF OInv, Ownership!ProvidersOutlive

(* Whoever keeps to ResourceOwnership protects providers: while a unit     *)
(* holds anything, every provider it was started on is held.  This is what *)
(* the consumers-first stop order of Reconcile is for.                     *)
THEOREM ProvidersProtected == Ownership!Spec => []Ownership!ProvidersOutlive
<1>1. Ownership!Init => OInv
  BY DEF Ownership!Init, OInv, Ownership!TypeOK, Ownership!Holdings, Ownership!ProvidersOutlive
<1>2. OInv /\ [Ownership!Next]_(Ownership!vars) => OInv'
  <2> SUFFICES ASSUME OInv, [Ownership!Next]_(Ownership!vars) PROVE OInv'
    OBVIOUS
  <2>1. CASE UNCHANGED Ownership!vars
    BY <2>1 DEF Ownership!vars, OInv, Ownership!TypeOK, Ownership!ProvidersOutlive
  <2>2. CASE Ownership!Next
    BY <2>2, TakeKeeps, GiveBackKeeps, EndKeeps DEF Ownership!Next
  <2> QED
    BY <2>1, <2>2
<1>3. OInv => Ownership!ProvidersOutlive
  BY DEF OInv
<1> QED
  BY <1>1, <1>2, <1>3, PTL DEF Ownership!Spec

(* So Reconcile does: no unit holds anything after a provider it was       *)
(* started on was stopped, in any sequence of plans and failures.          *)
THEOREM ReconcilerProtectsProviders == Spec => []Ownership!ProvidersOutlive
BY ReconcilerImplementsOwnership, ProvidersProtected, PTL DEF OwnershipKept

-----------------------------------------------------------------------------
(***************************************************************************)
(* One component host: ComponentRuntime, for any set of components, any    *)
(* wiring that Build accepts and any number of calls and faults.           *)
(***************************************************************************)


HostInstType == [state : Host!States, initialized : BOOLEAN, canceled : BOOLEAN, inc : Nat, cfg : Nat,
             snap : [Comps -> Nat]]
TaskType == [comp : Comps, inc : Nat, kind : {"runnable", "handler"},
             uses : SUBSET (Comps \X Nat), queue : 0..Capacity, busy : BOOLEAN,
             canceled : BOOLEAN]
HostPhases == {"idle", "start", "hook", "undo", "drain", "close", "join", "release",
               "prepare", "persist", "commit"}
HostTypes ==
    /\ order \in SUBSET Comps /\ pending \in SUBSET Comps
    /\ instances \in [Comps -> HostInstType] /\ ports \in [Comps -> Nat]
    /\ flags \in [started : BOOLEAN, stopping : BOOLEAN, stopped : BOOLEAN]
    /\ parentDone \in BOOLEAN
    /\ tasks \in SUBSET TaskType /\ objects \in SUBSET (Comps \X Nat)
    /\ \A t \in tasks : t.kind \in Work[t.comp]
    /\ stage \in HostPhases
    /\ request \in [kind : {"none", "reconcile", "batch"}, who : SUBSET Comps, v : Nat]
    /\ policy \in [Comps -> Nat]
    /\ ops \in Nat /\ ops <= MaxOps /\ faults \in Nat

(* Who owns what: an instance that is initialized, its one object, the     *)
(* port that is bound to it and the work that runs for it.                 *)
HostOwned ==
    /\ \A c \in Comps : /\ instances[c].state = "Running" => instances[c].initialized
                        /\ instances[c].initialized => c \in order
                        /\ ports[c] # 0 => instances[c].initialized /\ ports[c] = instances[c].inc
    /\ \A c \in Comps, n \in Nat :
          <<c, n>> \in objects <=> instances[c].initialized /\ n = instances[c].inc
    /\ \A t \in tasks :
          /\ instances[t.comp].initialized /\ t.inc = instances[t.comp].inc
          /\ t.uses \subseteq objects
          /\ \A p \in Comps, n \in Nat : <<p, n>> \in t.uses => p \in Host!Providers(t.comp)

(* Whoever runs holds the ports that are bound now.                        *)
Current == \A c \in Comps : instances[c].state = "Running" =>
              \A p \in Host!Providers(c) : instances[c].snap[p] = ports[p]

InHook(c) == stage \in {"hook", "undo"} /\ c \in request.who

(* The start loop goes through the components in order; what it has still  *)
(* to look at runs on providers that run, or holds nothing.                *)
Booting ==
    stage \in {"start", "hook", "undo"} =>
       /\ pending \subseteq order /\ flags.started
       /\ \A d \in order \ pending : Host!Providers(d) \cap pending = {}
       /\ \A d \in pending : instances[d].state = "Running" =>
             \A p \in Host!Providers(d) \cap order : instances[p].state = "Running"
       /\ \A c \in pending : instances[c].state # "Running" /\ ~InHook(c) => ~instances[c].initialized
       /\ stage \in {"hook", "undo"} =>
             \E c \in pending : /\ request.who = {c} /\ instances[c].state = "Starting"
                             /\ instances[c].initialized /\ Host!Providers(c) \cap pending = {}
       /\ stage = "hook" => \A c \in request.who : \A p \in Host!Providers(c) : instances[c].snap[p] = ports[p]

(* Nothing exists before the first start.                                  *)
Unstarted == ~flags.started => \A c \in Comps : ~instances[c].initialized

(* The drain: whoever still runs is wanted, and so are its providers, which*)
(* run; whoever is through holds nothing.                                  *)
Draining ==
    stage = "drain" =>
       /\ pending \subseteq order
       /\ \A c \in pending : instances[c].state # "Running"
       /\ \A c \in order \ pending : instances[c].state # "Running" => ~instances[c].initialized
       /\ \A c \in order : instances[c].state = "Running" =>
             /\ c \in request.who
             /\ \A p \in Host!Providers(c) : (p \in order <=> p \in request.who)
                                        /\ (p \in order => instances[p].state = "Running")

(* Stopping: nobody runs; groups are joined, then objects released.        *)
Halting ==
    /\ flags.stopping => /\ \A c \in Comps : instances[c].state # "Running"
                         /\ stage \notin {"start", "hook", "undo", "drain"}
    /\ stage \in {"close", "join", "release"} => flags.stopping /\ ~flags.stopped
    /\ stage = "join" => \A t \in tasks : t.comp \in pending
    /\ stage = "release" => /\ tasks = {}
                            /\ \A c \in Comps : instances[c].initialized => c \in pending
    /\ flags.stopped => /\ flags.stopping /\ tasks = {}
                        /\ \A c \in Comps : ~instances[c].initialized

(* Every component that runs has the configuration of the last call that   *)
(* was let through, but for those a commit has not reached yet.            *)
Configured ==
    /\ \A c \in Comps : instances[c].state = "Running" =>
          instances[c].cfg = policy[c] \/ (stage = "commit" /\ c \in pending)
    /\ stage = "commit" => pending \subseteq request.who /\ \A c \in request.who : policy[c] = request.v

(* At most one incarnation per call.                                       *)
Bounded ==
    /\ request.v <= ops
    /\ \A c \in Comps :
          /\ instances[c].inc <= ops /\ instances[c].cfg <= ops
          /\ \A p \in Comps : instances[c].snap[p] <= ops
          /\ stage = "drain" => instances[c].inc < ops
          /\ stage \in {"start", "hook", "undo"} /\ c \in pending /\ ~InHook(c) => instances[c].inc < ops

HostInv == HostTypes /\ HostOwned /\ Current /\ Booting /\ Unstarted /\ Draining /\ Halting
           /\ Configured /\ Bounded

-----------------------------------------------------------------------------
(* What the wiring of the components guarantees.                           *)
LEMMA Wiring ==
    ASSUME Host!RuntimeAssumption
    PROVE  /\ \A c \in Comps : /\ Required[c] \subseteq Host!Providers(c)
                               /\ Host!Providers(c) \subseteq Comps /\ c \notin Host!Providers(c)
                               /\ Work[c] \subseteq {"runnable", "handler"}
           /\ Capacity \in Nat /\ Capacity > 0 /\ MaxOps \in Nat /\ MaxFaults \in Nat
<1>1. Required \in [Comps -> SUBSET Comps] /\ Optional \in [Comps -> SUBSET Comps]
  BY DEF Host!RuntimeAssumption
<1>2. ASSUME NEW c \in Comps PROVE c \notin Host!Providers(c)
  <2>1. {c} \in (SUBSET Comps) \ {{}}
    OBVIOUS
  <2>2. \E d \in {c} : Host!Providers(d) \cap {c} = {}
    BY <2>1 DEF Host!RuntimeAssumption
  <2> QED
    BY <2>2
<1>3. ASSUME NEW c \in Comps PROVE Required[c] \subseteq Host!Providers(c) /\ Host!Providers(c) \subseteq Comps
  BY <1>1 DEF Host!Providers
<1>4. \A c \in Comps : Work[c] \subseteq {"runnable", "handler"}
  BY DEF Host!RuntimeAssumption
<1> QED
  BY <1>2, <1>3, <1>4 DEF Host!RuntimeAssumption

(* Every task of the next state goes on with one of this state.            *)
Shadow == \A t \in tasks' : \E s \in tasks :
             s.comp = t.comp /\ s.inc = t.inc /\ s.uses = t.uses /\ s.kind = t.kind

(* A step that creates and releases nothing keeps the ownership.           *)
LEMMA OwnedKept ==
    ASSUME HostTypes, HostTypes', HostOwned, Shadow, UNCHANGED <<order, objects>>,
           \A c \in Comps : /\ ports'[c] \in {ports[c], 0}
                            /\ instances'[c].initialized = instances[c].initialized
                            /\ instances'[c].inc = instances[c].inc
                            /\ instances'[c].state = "Running" => instances[c].initialized
    PROVE  HostOwned'
<1>1. \A c \in Comps : /\ instances'[c].state = "Running" => instances'[c].initialized
                       /\ instances'[c].initialized => c \in order'
                       /\ ports'[c] # 0 => instances'[c].initialized /\ ports'[c] = instances'[c].inc
  BY DEF HostOwned
<1>2. \A c \in Comps, n \in Nat :
         <<c, n>> \in objects' <=> instances'[c].initialized /\ n = instances'[c].inc
  BY DEF HostOwned
<1>3. ASSUME NEW t \in tasks'
      PROVE  /\ instances'[t.comp].initialized /\ t.inc = instances'[t.comp].inc
             /\ t.uses \subseteq objects'
             /\ \A p \in Comps, n \in Nat : <<p, n>> \in t.uses => p \in Host!Providers(t.comp)
  <2>1. PICK s \in tasks : s.comp = t.comp /\ s.inc = t.inc /\ s.uses = t.uses /\ s.kind = t.kind
    BY DEF Shadow
  <2>2. t.comp \in Comps
    BY DEF HostTypes, TaskType
  <2> QED
    BY <2>1, <2>2 DEF HostOwned
<1> QED
  BY <1>1, <1>2, <1>3 DEF HostOwned

(* The release of one instance.                                            *)
Retires(c, st) ==
    /\ instances' = [instances EXCEPT ![c].initialized = FALSE, ![c].state = st]
    /\ objects' = objects \ {<<c, instances[c].inc>>}
    /\ ports' = [ports EXCEPT ![c] = 0]

(* What retiring an instance changes.                                      *)
LEMMA RetiresFields ==
    ASSUME HostTypes, NEW c \in Comps, NEW st \in Host!States, Retires(c, st)
    PROVE  /\ instances' \in [Comps -> HostInstType]
           /\ \A d \in Comps \ {c} : instances'[d] = instances[d]
           /\ instances'[c].initialized = FALSE /\ instances'[c].state = st
           /\ instances'[c].inc = instances[c].inc /\ instances'[c].cfg = instances[c].cfg
           /\ instances'[c].snap = instances[c].snap
           /\ ports' \in [Comps -> Nat]
           /\ \A d \in Comps : ports'[d] = IF d = c THEN 0 ELSE ports[d]
           /\ objects' \in SUBSET (Comps \X Nat)
<1> DEFINE y == [instances[c] EXCEPT !.initialized = FALSE, !.state = st]
<1>1. instances[c] \in HostInstType /\ instances \in [Comps -> HostInstType]
  BY DEF HostTypes
<1>2. y \in HostInstType /\ y.initialized = FALSE /\ y.state = st /\ y.inc = instances[c].inc
      /\ y.cfg = instances[c].cfg /\ y.snap = instances[c].snap
  BY <1>1 DEF HostInstType
<1>3. instances' = [instances EXCEPT ![c] = y]
  BY <1>1 DEF Retires, HostInstType
<1> HIDE DEF y
<1>4. instances' \in [Comps -> HostInstType] /\ instances'[c] = y /\ \A d \in Comps \ {c} : instances'[d] = instances[d]
  BY <1>1, <1>2, <1>3
<1>5. ports' \in [Comps -> Nat] /\ \A d \in Comps : ports'[d] = IF d = c THEN 0 ELSE ports[d]
  BY DEF Retires, HostTypes
<1> QED
  BY <1>2, <1>4, <1>5 DEF Retires, HostTypes

(* It is safe when nobody works for the instance or on it.                 *)
LEMMA OwnedRetires ==
    ASSUME HostTypes, HostOwned, NEW c \in Comps, NEW st \in Host!States \ {"Running"}, Retires(c, st),
           UNCHANGED <<order, tasks>>,
           \A t \in tasks : t.comp # c /\ c \notin Host!Providers(t.comp)
    PROVE  HostOwned'
<1>0. c \in Comps /\ st \in Host!States /\ st # "Running"
  OBVIOUS
<1>1. /\ \A d \in Comps \ {c} : instances'[d] = instances[d]
      /\ instances'[c].initialized = FALSE /\ instances'[c].state = st /\ instances'[c].inc = instances[c].inc
      /\ \A d \in Comps : ports'[d] = IF d = c THEN 0 ELSE ports[d]
  BY <1>0, RetiresFields
<1>2. \A d \in Comps : /\ instances'[d].state = "Running" => instances'[d].initialized
                       /\ instances'[d].initialized => d \in order'
                       /\ ports'[d] # 0 => instances'[d].initialized /\ ports'[d] = instances'[d].inc
  BY <1>0, <1>1 DEF HostOwned
<1>3. ASSUME NEW d \in Comps, NEW n \in Nat
      PROVE  <<d, n>> \in objects' <=> instances'[d].initialized /\ n = instances'[d].inc
  <2>1. <<d, n>> \in objects <=> instances[d].initialized /\ n = instances[d].inc
    BY DEF HostOwned
  <2>2. <<d, n>> \in objects' <=> <<d, n>> \in objects /\ ~(d = c /\ n = instances[c].inc)
    BY DEF Retires
  <2> QED
    BY <2>1, <2>2, <1>1
<1>4. ASSUME NEW t \in tasks'
      PROVE  /\ instances'[t.comp].initialized /\ t.inc = instances'[t.comp].inc
             /\ t.uses \subseteq objects'
             /\ \A p \in Comps, n \in Nat : <<p, n>> \in t.uses => p \in Host!Providers(t.comp)
  <2>1. t \in tasks /\ t.comp \in Comps /\ t.comp # c /\ c \notin Host!Providers(t.comp)
        /\ t.uses \in SUBSET (Comps \X Nat)
    BY DEF HostTypes, TaskType
  <2>2. instances'[t.comp] = instances[t.comp]
    BY <2>1, <1>1
  <2>3. /\ instances[t.comp].initialized /\ t.inc = instances[t.comp].inc
        /\ t.uses \subseteq objects
        /\ \A p \in Comps, n \in Nat : <<p, n>> \in t.uses => p \in Host!Providers(t.comp)
    BY <2>1 DEF HostOwned
  <2>4. instances[c].inc \in Nat
    BY DEF HostTypes, HostInstType
  <2>5. <<c, instances[c].inc>> \notin t.uses
    BY <2>1, <2>3, <2>4
  <2> QED
    BY <2>2, <2>3, <2>5 DEF Retires
<1> QED
  BY <1>2, <1>3, <1>4 DEF HostOwned

-----------------------------------------------------------------------------
(* What a step does to the instances when it only makes some of them fail. *)
OnlyFails ==
    /\ instances' \in [Comps -> HostInstType]
    /\ \A c \in Comps : /\ instances'[c].state \in {instances[c].state, "Failed"}
                        /\ instances'[c].initialized = instances[c].initialized
                        /\ instances'[c].inc = instances[c].inc /\ instances'[c].cfg = instances[c].cfg
                        /\ instances'[c].snap = instances[c].snap

(* Leaving the instances alone is a special case of failing some.          *)
LEMMA UnchangedFails ==
    ASSUME HostTypes, instances' = instances PROVE OnlyFails
  BY DEF OnlyFails, HostTypes

(* SetState touches the states alone.                                      *)
LEMMA SetStateFields ==
    ASSUME HostTypes, NEW S, NEW st \in Host!States, instances' = Host!SetState(S, st)
    PROVE  /\ instances' \in [Comps -> HostInstType]
           /\ \A c \in Comps : /\ instances'[c].state = IF c \in S THEN st ELSE instances[c].state
                               /\ instances'[c].initialized = instances[c].initialized
                               /\ instances'[c].inc = instances[c].inc /\ instances'[c].cfg = instances[c].cfg
                               /\ instances'[c].snap = instances[c].snap
<1>1. ASSUME NEW c \in Comps
      PROVE  /\ instances'[c] \in HostInstType
             /\ instances'[c].state = IF c \in S THEN st ELSE instances[c].state
             /\ instances'[c].initialized = instances[c].initialized
             /\ instances'[c].inc = instances[c].inc /\ instances'[c].cfg = instances[c].cfg
             /\ instances'[c].snap = instances[c].snap
  <2>1. instances[c] \in HostInstType
    BY DEF HostTypes
  <2>2. instances'[c] = IF c \in S THEN [instances[c] EXCEPT !.state = st] ELSE instances[c]
    BY DEF Host!SetState
  <2>3. CASE c \in S
    BY <2>1, <2>2, <2>3 DEF HostInstType
  <2>4. CASE c \notin S
    BY <2>1, <2>2, <2>4
  <2> QED
    BY <2>3, <2>4
<1>2. instances' \in [Comps -> HostInstType]
  <2>1. instances' = [c \in Comps |-> instances'[c]]
    BY DEF Host!SetState
  <2> QED
    BY <1>1, <2>1
<1> QED
  BY <1>1, <1>2

(* Marking instances failed changes nothing but their state.               *)
LEMMA SetFailed ==
    ASSUME HostTypes, NEW S, instances' = Host!SetState(S, "Failed") PROVE OnlyFails
<1>1. "Failed" \in Host!States
  BY DEF Host!States
<1> QED
  BY <1>1, SetStateFields DEF OnlyFails

(* The end of a call releases Runtime.mu and nothing else.                 *)
LEMMA Returns ==
    ASSUME HostInv, Host!Return, OnlyFails, faults' \in Nat,
           UNCHANGED <<order, ports, flags, parentDone, tasks, objects, policy, ops>>,
           stage = "commit" => pending = {}
    PROVE  HostInv'
<1> USE DEF HostInv
<1>0. stage' = "idle" /\ pending' = {} /\ request' = Host!NoCall
  BY DEF Host!Return
<1>1. HostTypes'
  BY <1>0 DEF HostTypes, OnlyFails, Host!NoCall, HostPhases
<1>2. Shadow
  BY DEF Shadow
<1>3. \A c \in Comps : instances'[c].state = "Running" => instances[c].state = "Running"
  BY DEF OnlyFails
<1>4. HostOwned'
  BY <1>1, <1>2, <1>3, OwnedKept DEF OnlyFails, HostOwned
<1>5. Current'
  BY <1>3 DEF Current, OnlyFails
<1>6. Booting' /\ Draining'
  BY <1>0 DEF Booting, Draining
<1>7. Unstarted'
  BY DEF Unstarted, OnlyFails
<1>8. Halting'
  BY <1>0, <1>3 DEF Halting, OnlyFails
<1>9. Configured'
  BY <1>0, <1>3 DEF Configured, OnlyFails
<1>10. Bounded'
  BY <1>0, <1>1 DEF Bounded, OnlyFails, Host!NoCall, HostTypes
<1> QED
  BY <1>1, <1>4, <1>5, <1>6, <1>7, <1>8, <1>9, <1>10

(* A step of the work alone.                                               *)
LEMMA WorkMoves ==
    ASSUME HostInv, Shadow, tasks' \in SUBSET TaskType,
           UNCHANGED <<order, instances, ports, flags, stage, pending, request, objects, policy, ops>>,
           parentDone' \in BOOLEAN, faults' \in Nat
    PROVE  HostInv'
<1> USE DEF HostInv
<1>1. HostTypes'
  <2>1. \A t \in tasks' : t.kind \in Work[t.comp]
    BY DEF HostTypes, Shadow
  <2> QED
    BY <2>1 DEF HostTypes
<1>2. HostOwned'
  BY <1>1, OwnedKept DEF HostOwned
<1>3. Current' /\ Booting' /\ Unstarted' /\ Draining' /\ Configured' /\ Bounded'
  BY DEF Current, Booting, Unstarted, Draining, Configured, Bounded, InHook
<1>4. Halting'
  BY DEF Halting, Shadow
<1> QED
  BY <1>1, <1>2, <1>3, <1>4

-----------------------------------------------------------------------------
(* Runnables, handlers and publishers *)

(* A task replaced by one that goes on with it.                            *)
LEMMA ReplaceTask ==
    ASSUME HostTypes, NEW t \in tasks, NEW u \in TaskType,
           u.comp = t.comp, u.inc = t.inc, u.uses = t.uses, u.kind = t.kind,
           tasks' = (tasks \ {t}) \cup {u}
    PROVE  Shadow /\ tasks' \in SUBSET TaskType
  BY DEF Shadow, HostTypes

(* TaskBegin keeps HostInv.                                                *)
LEMMA TaskBeginKeeps ==
    ASSUME Host!RuntimeAssumption, HostInv, NEW t \in tasks, Host!TaskBegin(t) PROVE HostInv'
<1> DEFINE u == [t EXCEPT !.busy = TRUE, !.queue = IF t.kind = "handler" THEN @ - 1 ELSE @]
<1>1. t \in TaskType /\ Capacity \in Nat
  BY Wiring DEF HostInv, HostTypes
<1>2. u \in TaskType /\ u.comp = t.comp /\ u.inc = t.inc /\ u.uses = t.uses /\ u.kind = t.kind
  <2>1. CASE t.kind = "handler"
    <3>1. t.queue \in 0..Capacity /\ t.queue > 0
      BY <1>1, <2>1 DEF Host!TaskBegin, TaskType
    <3> DEFINE q == t.queue - 1
    <3>2. q \in 0..Capacity
      BY <1>1, <3>1
    <3> DEFINE w == [t EXCEPT !.busy = TRUE, !.queue = q]
    <3>3. u = w
      BY <1>1, <2>1 DEF TaskType
    <3> HIDE DEF q
    <3>4. w \in TaskType /\ w.comp = t.comp /\ w.inc = t.inc /\ w.uses = t.uses /\ w.kind = t.kind
      BY <1>1, <3>2 DEF TaskType
    <3> HIDE DEF u, w
    <3> QED
      BY <3>3, <3>4
  <2>2. CASE t.kind # "handler"
    <3> DEFINE w == [t EXCEPT !.busy = TRUE]
    <3>1. u = w
      BY <1>1, <2>2 DEF TaskType
    <3>2. w \in TaskType /\ w.comp = t.comp /\ w.inc = t.inc /\ w.uses = t.uses /\ w.kind = t.kind
      BY <1>1 DEF TaskType
    <3> QED
      BY <3>1, <3>2
  <2> QED
    BY <2>1, <2>2
<1>3. tasks' = (tasks \ {t}) \cup {u}
  BY DEF Host!TaskBegin
<1> HIDE DEF u
<1>4. Shadow /\ tasks' \in SUBSET TaskType
  BY <1>2, <1>3, ReplaceTask DEF HostInv
<1>5. parentDone' \in BOOLEAN /\ faults' \in Nat
  BY DEF Host!TaskBegin, HostInv, HostTypes
<1> QED
  BY <1>4, <1>5, WorkMoves DEF Host!TaskBegin

(* TaskEnd keeps HostInv.                                                  *)
LEMMA TaskEndKeeps ==
    ASSUME Host!RuntimeAssumption, HostInv, NEW t \in tasks, Host!TaskEnd(t) PROVE HostInv'
<1> DEFINE u == [t EXCEPT !.busy = FALSE]
<1>1. t \in TaskType
  BY DEF HostInv, HostTypes
<1>2. u \in TaskType /\ u.comp = t.comp /\ u.inc = t.inc /\ u.uses = t.uses /\ u.kind = t.kind
  BY <1>1 DEF TaskType
<1>3. tasks' = (tasks \ {t}) \cup {u}
  BY DEF Host!TaskEnd
<1> HIDE DEF u
<1>4. Shadow /\ tasks' \in SUBSET TaskType
  BY <1>2, <1>3, ReplaceTask DEF HostInv
<1>5. parentDone' \in BOOLEAN /\ faults' \in Nat
  BY DEF Host!TaskEnd, HostInv, HostTypes
<1> QED
  BY <1>4, <1>5, WorkMoves DEF Host!TaskEnd

(* TaskExit keeps HostInv.                                                 *)
LEMMA TaskExitKeeps ==
    ASSUME HostInv, NEW t \in tasks, Host!TaskExit(t) PROVE HostInv'
<1>1. Shadow /\ tasks' \in SUBSET TaskType
  BY DEF Host!TaskExit, Shadow, HostInv, HostTypes
<1>2. parentDone' \in BOOLEAN /\ faults' \in Nat
  BY DEF Host!TaskExit, HostInv, HostTypes
<1> QED
  BY <1>1, <1>2, WorkMoves DEF Host!TaskExit

(* Nobody is handed an event his queue has no room for.                    *)
LEMMA PublishKeeps ==
    ASSUME Host!RuntimeAssumption, HostInv, NEW t \in tasks, Host!Publish(t) PROVE HostInv'
<1> DEFINE alive == {s \in tasks : s.kind = "handler" /\ ~Host!Canceled(s)}
           Next1(s) == [s EXCEPT !.queue = @ + 1]
<1>1. /\ \A s \in alive : s.queue < Capacity
      /\ tasks' = (tasks \ alive) \cup {Next1(s) : s \in alive}
      /\ UNCHANGED <<order, instances, ports, flags, parentDone, stage, pending, request, objects, policy, ops,
                     faults>>
  BY DEF Host!Publish
<1>2. ASSUME NEW s \in alive
      PROVE  /\ Next1(s) \in TaskType
             /\ s.comp = Next1(s).comp /\ s.inc = Next1(s).inc
             /\ s.uses = Next1(s).uses /\ s.kind = Next1(s).kind
  <2>1. s \in TaskType /\ Capacity \in Nat
    BY Wiring DEF HostInv, HostTypes
  <2> DEFINE q == s.queue + 1
  <2>2. q \in 0..Capacity
    BY <1>1, <2>1 DEF TaskType
  <2>3. Next1(s) = [s EXCEPT !.queue = q]
    OBVIOUS
  <2> HIDE DEF q
  <2> QED
    BY <2>1, <2>2, <2>3 DEF TaskType
<1>3. alive \subseteq tasks /\ tasks \subseteq TaskType
  BY DEF HostInv, HostTypes
<1> HIDE DEF alive, Next1
<1>4. Shadow
  <2> SUFFICES ASSUME NEW u \in tasks'
               PROVE  \E s \in tasks : s.comp = u.comp /\ s.inc = u.inc /\ s.uses = u.uses
                                       /\ s.kind = u.kind
    BY DEF Shadow
  <2>1. CASE u \in tasks
    BY <2>1
  <2>2. CASE u \notin tasks
    BY <1>1, <1>2, <1>3, <2>2
  <2> QED
    BY <2>1, <2>2
<1>5. tasks' \in SUBSET TaskType
  BY <1>1, <1>2, <1>3
<1>6. parentDone' \in BOOLEAN /\ faults' \in Nat
  BY <1>1 DEF HostInv, HostTypes
<1> QED
  BY <1>1, <1>4, <1>5, <1>6, WorkMoves

(* CancelHost keeps HostInv.                                               *)
LEMMA CancelHostKeeps ==
    ASSUME HostInv, Host!CancelHost PROVE HostInv'
<1>1. Shadow /\ tasks' \in SUBSET TaskType
  BY DEF Host!CancelHost, Shadow, HostInv, HostTypes
<1>2. parentDone' \in BOOLEAN
  <2>1. parentDone' = TRUE
    BY DEF Host!CancelHost
  <2> QED
    BY <2>1, Zenon
<1>3. faults' \in Nat
  BY DEF Host!CancelHost, Host!Fault, HostInv, HostTypes
<1> QED
  BY <1>1, <1>2, <1>3, WorkMoves DEF Host!CancelHost

(* Cancelling marks tasks; it ends none.                                   *)
LEMMA CancelMarks ==
    ASSUME HostTypes, NEW S, tasks' = Host!Cancel(S)
    PROVE  Shadow /\ tasks' \in SUBSET TaskType
<1> DEFINE Mark(t) == IF t.comp \in S /\ t.inc = instances[t.comp].inc
                      THEN [t EXCEPT !.canceled = TRUE] ELSE t
<1>1. tasks' = {Mark(t) : t \in tasks}
  BY DEF Host!Cancel
<1>2. ASSUME NEW t \in tasks
      PROVE  /\ Mark(t) \in TaskType
             /\ t.comp = Mark(t).comp /\ t.inc = Mark(t).inc
             /\ t.uses = Mark(t).uses /\ t.kind = Mark(t).kind
  <2>1. t \in TaskType
    BY DEF HostTypes
  <2>2. CASE t.comp \in S /\ t.inc = instances[t.comp].inc
    BY <2>1, <2>2 DEF TaskType
  <2>3. CASE ~(t.comp \in S /\ t.inc = instances[t.comp].inc)
    BY <2>1, <2>3
  <2> QED
    BY <2>2, <2>3
<1> HIDE DEF Mark
<1> QED
  BY <1>1, <1>2 DEF Shadow

-----------------------------------------------------------------------------
(* startLocked *)

(* Nobody holds a port of what the start loop has still to start.          *)
LEMMA NoConsumers ==
    ASSUME Host!RuntimeAssumption, HostInv, stage \in {"start", "hook", "undo"},
           NEW c \in pending, instances[c].state # "Running",
           NEW d \in Comps, c \in Host!Providers(d)
    PROVE  ~instances[d].initialized /\ instances[d].state # "Running"
<1> SUFFICES ASSUME instances[d].initialized PROVE FALSE
  BY DEF HostInv, HostOwned
<1>1. d \in order
  BY DEF HostInv, HostOwned
<1>2. d \in pending
  BY <1>1 DEF HostInv, Booting
<1>3. c \in order
  BY DEF HostInv, Booting
<1>4. instances[d].state # "Running"
  BY <1>2, <1>3 DEF HostInv, Booting
<1>5. InHook(d)
  BY <1>2, <1>4 DEF HostInv, Booting
<1> QED
  BY <1>5 DEF HostInv, Booting, InHook

(* Start keeps HostInv.                                                    *)
LEMMA StartKeeps ==
    ASSUME Host!RuntimeAssumption, HostInv, Host!Start PROVE HostInv'
<1> USE DEF HostInv
<1>1. /\ stage = "idle" /\ ops < MaxOps /\ ops' = ops + 1 /\ stage' = "start" /\ pending' = order
      /\ ~flags.started /\ ~flags.stopping /\ ~flags.stopped
      /\ UNCHANGED <<order, instances, ports, parentDone, tasks, request, objects, policy, faults>>
  BY DEF Host!Start, Host!Calls
<1>2. /\ flags' \in [started : BOOLEAN, stopping : BOOLEAN, stopped : BOOLEAN]
      /\ flags'.started = TRUE /\ flags'.stopping = flags.stopping
      /\ flags'.stopped = flags.stopped
  BY DEF Host!Start, HostTypes
<1>3. HostTypes'
  BY <1>1, <1>2, Wiring DEF HostTypes, HostPhases
<1>4. \A c \in Comps : ~instances[c].initialized /\ instances[c].state # "Running"
  BY <1>1 DEF Unstarted, HostOwned
<1>5. HostOwned'
  BY <1>1, <1>3, OwnedKept DEF Shadow, HostOwned
<1>6. Current' /\ Unstarted' /\ Draining' /\ Halting'
  BY <1>1, <1>2, <1>4 DEF Current, Unstarted, Draining, Halting
<1>7. Booting'
  BY <1>1, <1>2, <1>4 DEF Booting, HostTypes, InHook
<1>8. Configured'
  BY <1>1 DEF Configured
<1>9. Bounded'
  <2>1. request.v \in Nat /\ ops \in Nat /\ \A c \in Comps : instances[c] \in HostInstType
    BY DEF HostTypes
  <2> QED
    BY <1>1, <2>1 DEF Bounded, HostInstType
<1> QED
  BY <1>3, <1>5, <1>6, <1>7, <1>8, <1>9

(* The start loop passes one component, whose state it may change, but     *)
(* neither from nor to Running.                                            *)
LEMMA StartPasses ==
    ASSUME Host!RuntimeAssumption, HostInv, stage = "start", NEW c \in pending,
           Host!Providers(c) \cap pending = {}, pending' = pending \ {c},
           instances' \in [Comps -> HostInstType],
           \A d \in Comps : /\ instances'[d].state = "Running" <=> instances[d].state = "Running"
                            /\ instances'[d].initialized = instances[d].initialized
                            /\ instances'[d].inc = instances[d].inc /\ instances'[d].cfg = instances[d].cfg
                            /\ instances'[d].snap = instances[d].snap,
           UNCHANGED <<order, ports, flags, parentDone, tasks, stage, request, objects, policy, ops,
                       faults>>
    PROVE  HostInv'
<1> USE DEF HostInv
<1>1. HostTypes'
  BY DEF HostTypes
<1>2. Shadow
  BY DEF Shadow
<1>3. HostOwned'
  BY <1>1, <1>2, OwnedKept DEF HostOwned
<1>4. Current' /\ Unstarted' /\ Draining' /\ Halting' /\ Configured'
  BY DEF Current, Unstarted, Draining, Halting, Configured
<1>5. Booting'
  <2>1. pending \subseteq Comps /\ order \subseteq Comps
    BY DEF HostTypes
  <2>2. \A d \in order' \ pending' : Host!Providers(d) \cap pending' = {}
    BY DEF Booting
  <2>3. \A d \in pending' : instances'[d].state = "Running" =>
           \A p \in Host!Providers(d) \cap order' : instances'[p].state = "Running"
    BY <2>1 DEF Booting
  <2>4. \A d \in pending' : instances'[d].state # "Running" => ~instances'[d].initialized
    BY <2>1 DEF Booting, InHook
  <2> QED
    BY <2>1, <2>2, <2>3, <2>4 DEF Booting
<1>6. Bounded'
  BY DEF Bounded, InHook
<1> QED
  BY <1>1, <1>3, <1>4, <1>5, <1>6

(* StartSkip keeps HostInv.                                                *)
LEMMA StartSkipKeeps ==
    ASSUME Host!RuntimeAssumption, HostInv, NEW c \in Comps, Host!StartSkip(c) PROVE HostInv'
<1>1. /\ stage = "start" /\ c \in pending /\ Host!Providers(c) \cap pending = {} /\ pending' = pending \ {c}
      /\ UNCHANGED <<order, ports, flags, parentDone, tasks, stage, request, objects, policy, ops,
                     faults>>
  BY DEF Host!StartSkip, Host!First
<1>2. HostTypes
  BY DEF HostInv
<1>3. CASE instances' = instances
  BY <1>1, <1>2, <1>3, StartPasses DEF HostTypes
<1>4. CASE instances[c].state # "Running" /\ instances' = Host!SetState({c}, "Blocked")
  <2>1. "Blocked" \in Host!States
    BY DEF Host!States
  <2>2. /\ instances' \in [Comps -> HostInstType]
        /\ \A d \in Comps : /\ instances'[d].state = IF d \in {c} THEN "Blocked" ELSE instances[d].state
                            /\ instances'[d].initialized = instances[d].initialized
                            /\ instances'[d].inc = instances[d].inc /\ instances'[d].cfg = instances[d].cfg
                            /\ instances'[d].snap = instances[d].snap
    BY <1>2, <1>4, <2>1, SetStateFields
  <2>3. \A d \in Comps : instances'[d].state = "Running" <=> instances[d].state = "Running"
    BY <1>4, <2>2
  <2> QED
    BY <1>1, <2>2, <2>3, StartPasses
<1> QED
  BY <1>3, <1>4 DEF Host!StartSkip

(* StartDone keeps HostInv.                                                *)
LEMMA StartDoneKeeps ==
    ASSUME HostInv, Host!StartDone PROVE HostInv'
<1>1. OnlyFails /\ faults' \in Nat
  BY UnchangedFails DEF Host!StartDone, HostInv, HostTypes
<1> QED
  BY <1>1, Returns DEF Host!StartDone

(* What Init leaves behind: a new incarnation bound to the ports that are  *)
(* bound now, and the work it registered.                                  *)
LEMMA InitHookFields ==
    ASSUME Host!RuntimeAssumption, HostInv, NEW c \in Comps, Host!InitHook(c)
    PROVE  /\ stage = "start" /\ c \in pending /\ Host!Providers(c) \cap pending = {}
           /\ instances[c].state # "Running" /\ ~instances[c].initialized
           /\ instances' \in [Comps -> HostInstType]
           /\ \A d \in Comps \ {c} : instances'[d] = instances[d]
           /\ instances'[c].state = "Starting" /\ instances'[c].initialized = TRUE
           /\ instances'[c].inc = instances[c].inc + 1 /\ instances'[c].cfg = instances[c].cfg
           /\ \A p \in Comps : instances'[c].snap[p] = IF p \in Host!Providers(c) THEN ports[p] ELSE 0
           /\ objects' = objects \cup {<<c, instances[c].inc + 1>>}
           /\ request'.who = {c} /\ request'.v = request.v
           /\ request' \in [kind : {"none", "reconcile", "batch"}, who : SUBSET Comps, v : Nat]
           /\ \/ stage' = "hook" /\ ports' = [ports EXCEPT ![c] = instances[c].inc + 1]
              \/ stage' = "undo" /\ ports' = ports
           /\ faults' \in Nat
           /\ UNCHANGED <<order, flags, parentDone, pending, policy, ops>>
<1> DEFINE n == instances[c].inc + 1
           s == [p \in Comps |-> IF p \in Host!Providers(c) THEN ports[p] ELSE 0]
           y == [instances[c] EXCEPT !.state = "Starting", !.initialized = TRUE, !.canceled = FALSE,
                                !.inc = n, !.snap = s]
<1>0. HostTypes /\ Booting
  BY DEF HostInv
<1>1. instances[c] \in HostInstType /\ instances \in [Comps -> HostInstType] /\ n \in Nat /\ s \in [Comps -> Nat]
      /\ "Starting" \in Host!States
  BY <1>0 DEF HostTypes, HostInstType, Host!States
<1>2. /\ stage = "start" /\ c \in pending /\ Host!Providers(c) \cap pending = {}
      /\ instances[c].state # "Running"
      /\ instances' = [instances EXCEPT ![c] = y]
      /\ objects' = objects \cup {<<c, n>>}
      /\ request' = [request EXCEPT !.who = {c}]
      /\ \/ stage' = "hook" /\ ports' = [ports EXCEPT ![c] = n]
         \/ stage' = "undo" /\ ports' = ports
      /\ UNCHANGED <<order, flags, parentDone, pending, policy, ops>>
  BY DEF Host!InitHook, Host!First
<1>3. ~instances[c].initialized
  BY <1>0, <1>2 DEF Booting, InHook
<1>4. faults' \in Nat
  BY <1>0 DEF Host!InitHook, Host!Fault, HostTypes
<1>5. /\ request'.who = {c} /\ request'.v = request.v
      /\ request' \in [kind : {"none", "reconcile", "batch"}, who : SUBSET Comps, v : Nat]
  BY <1>0, <1>2 DEF HostTypes
<1>6. s \in [Comps -> Nat] /\ \A p \in Comps : s[p] = IF p \in Host!Providers(c) THEN ports[p] ELSE 0
  BY <1>1
<1>7. n = instances[c].inc + 1
  OBVIOUS
<1> HIDE DEF n, s
<1>8. /\ y \in HostInstType /\ y.state = "Starting" /\ y.initialized = TRUE /\ y.inc = n
      /\ y.cfg = instances[c].cfg /\ y.snap = s
  BY <1>1 DEF HostInstType
<1> HIDE DEF y
<1>9. instances' \in [Comps -> HostInstType] /\ instances'[c] = y /\ \A d \in Comps \ {c} : instances'[d] = instances[d]
  BY <1>1, <1>2, <1>8
<1> QED
  BY <1>2, <1>3, <1>4, <1>5, <1>6, <1>7, <1>8, <1>9

(* The tasks an Init hook starts belong to the new incarnation.            *)
LEMMA InitHookTasks ==
    ASSUME Host!RuntimeAssumption, HostInv, NEW c \in Comps, Host!InitHook(c), NEW t \in tasks', t \notin tasks
    PROVE  /\ t \in TaskType /\ t.comp = c /\ t.inc = instances[c].inc + 1 /\ t.kind \in Work[c]
           /\ \A x \in t.uses : \E p \in Host!Providers(c) : x = <<p, ports[p]>> /\ ports[p] # 0
<1> DEFINE n == instances[c].inc + 1
           uses == {<<p, ports[p]>> : p \in {q \in Host!Providers(c) : ports[q] # 0}}
           New(K) == {[comp |-> c, inc |-> n, kind |-> k, uses |-> uses, queue |-> 0,
                       busy |-> FALSE, canceled |-> FALSE] : k \in K}
<1>1. \E K \in SUBSET Work[c] : tasks' = tasks \cup New(K)
  <2>1. \/ tasks' = tasks \cup New(IF parentDone THEN {} ELSE Work[c])
        \/ \E K \in SUBSET Work[c] : tasks' = tasks \cup New(IF parentDone THEN {} ELSE K)
    BY DEF Host!InitHook
  <2> HIDE DEF New
  <2>2. CASE tasks' = tasks \cup New(IF parentDone THEN {} ELSE Work[c])
    BY <2>2
  <2>3. CASE \E K \in SUBSET Work[c] : tasks' = tasks \cup New(IF parentDone THEN {} ELSE K)
    BY <2>3
  <2> QED
    BY <2>1, <2>2, <2>3
<1>2. PICK K \in SUBSET Work[c] : tasks' = tasks \cup New(K)
  BY <1>1
<1>3. PICK k \in K : t = [comp |-> c, inc |-> n, kind |-> k, uses |-> uses, queue |-> 0,
                          busy |-> FALSE, canceled |-> FALSE]
  BY <1>2
<1>4. uses \in SUBSET (Comps \X Nat)
  BY Wiring DEF HostInv, HostTypes
<1>5. n \in Nat /\ 0 \in 0..Capacity /\ k \in Work[c] /\ k \in {"runnable", "handler"}
  <2>1. instances[c] \in HostInstType
    BY DEF HostInv, HostTypes
  <2>2. Capacity \in Nat /\ Work[c] \subseteq {"runnable", "handler"}
    BY Wiring
  <2>3. k \in Work[c]
    OBVIOUS
  <2> QED
    BY <2>1, <2>2, <2>3 DEF HostInstType
<1>6. \A x \in uses : \E p \in Host!Providers(c) : x = <<p, ports[p]>> /\ ports[p] # 0
  OBVIOUS
<1> HIDE DEF uses, n
<1>7. t \in TaskType /\ t.comp = c /\ t.inc = n /\ t.kind = k /\ t.uses = uses
  BY <1>3, <1>4, <1>5 DEF TaskType
<1> QED
  BY <1>5, <1>6, <1>7 DEF n

(* InitHook keeps HostInv.                                                 *)
LEMMA InitHookKeeps ==
    ASSUME Host!RuntimeAssumption, HostInv, NEW c \in Comps, Host!InitHook(c) PROVE HostInv'
<1> USE DEF HostInv
<1> DEFINE n == instances[c].inc + 1
<1>1. /\ stage = "start" /\ c \in pending /\ Host!Providers(c) \cap pending = {}
      /\ instances[c].state # "Running" /\ ~instances[c].initialized
      /\ instances' \in [Comps -> HostInstType]
      /\ \A d \in Comps \ {c} : instances'[d] = instances[d]
      /\ instances'[c].state = "Starting" /\ instances'[c].initialized = TRUE
      /\ instances'[c].inc = n /\ instances'[c].cfg = instances[c].cfg
      /\ \A p \in Comps : instances'[c].snap[p] = IF p \in Host!Providers(c) THEN ports[p] ELSE 0
      /\ objects' = objects \cup {<<c, n>>}
      /\ request'.who = {c} /\ request'.v = request.v
      /\ request' \in [kind : {"none", "reconcile", "batch"}, who : SUBSET Comps, v : Nat]
      /\ \/ stage' = "hook" /\ ports' = [ports EXCEPT ![c] = n]
         \/ stage' = "undo" /\ ports' = ports
      /\ faults' \in Nat
      /\ UNCHANGED <<order, flags, parentDone, pending, policy, ops>>
  BY InitHookFields
<1>2. \A t \in tasks' \ tasks :
         /\ t \in TaskType /\ t.comp = c /\ t.inc = n /\ t.kind \in Work[c]
         /\ \A x \in t.uses : \E p \in Host!Providers(c) : x = <<p, ports[p]>> /\ ports[p] # 0
  BY InitHookTasks
<1>3. n \in Nat /\ n # 0 /\ instances[c].inc \in Nat /\ n = instances[c].inc + 1
  BY DEF HostTypes, HostInstType
<1> HIDE DEF n
<1>4. \A d \in Comps : c \in Host!Providers(d) => ~instances[d].initialized /\ instances[d].state # "Running"
  BY <1>1, NoConsumers
<1>5. \A p \in Comps : ports'[p] = ports[p] \/ (p = c /\ ports'[p] = n /\ stage' = "hook")
  BY <1>1 DEF HostTypes
<1>6. /\ ports' \in [Comps -> Nat] /\ objects' \in SUBSET (Comps \X Nat)
      /\ tasks' \in SUBSET TaskType
  BY <1>1, <1>2, <1>3 DEF HostTypes
<1>7. HostTypes'
  BY <1>1, <1>2, <1>6 DEF HostTypes, HostPhases
<1>8. ports[c] = 0 /\ (\A t \in tasks : t.comp # c) /\ \A k \in Nat : <<c, k>> \notin objects
  BY <1>1 DEF HostOwned
<1>9. HostOwned'
  <2>1. \A d \in Comps : /\ instances'[d].state = "Running" => instances'[d].initialized
                         /\ instances'[d].initialized => d \in order'
                         /\ ports'[d] # 0 => instances'[d].initialized /\ ports'[d] = instances'[d].inc
    <3>1. c \in order
      BY <1>1 DEF Booting
    <3> QED
      BY <3>1, <1>1, <1>5, <1>8 DEF HostOwned
  <2>2. ASSUME NEW d \in Comps, NEW k \in Nat
        PROVE  <<d, k>> \in objects' <=> instances'[d].initialized /\ k = instances'[d].inc
    <3>1. <<d, k>> \in objects' <=> <<d, k>> \in objects \/ (d = c /\ k = n)
      BY <1>1
    <3>2. <<d, k>> \in objects <=> instances[d].initialized /\ k = instances[d].inc
      BY DEF HostOwned
    <3> QED
      BY <3>1, <3>2, <1>1
  <2>3. ASSUME NEW t \in tasks'
        PROVE  /\ instances'[t.comp].initialized /\ t.inc = instances'[t.comp].inc
               /\ t.uses \subseteq objects'
               /\ \A p \in Comps, k \in Nat : <<p, k>> \in t.uses => p \in Host!Providers(t.comp)
    <3>1. CASE t \in tasks
      <4>1. t.comp \in Comps \ {c}
        BY <3>1, <1>8 DEF HostTypes, TaskType
      <4>2. instances'[t.comp] = instances[t.comp]
        BY <4>1, <1>1
      <4> QED
        BY <3>1, <4>2, <1>1 DEF HostOwned
    <3>2. CASE t \notin tasks
      <4>1. /\ t \in TaskType /\ t.comp = c /\ t.inc = n
            /\ \A x \in t.uses : \E p \in Host!Providers(c) : x = <<p, ports[p]>> /\ ports[p] # 0
        BY <3>2, <1>2
      <4>2. ASSUME NEW x \in t.uses PROVE x \in objects'
        <5>1. PICK p \in Host!Providers(c) : x = <<p, ports[p]>> /\ ports[p] # 0
          BY <4>1
        <5>2. p \in Comps /\ ports[p] \in Nat
          BY Wiring DEF HostTypes
        <5>3. <<p, ports[p]>> \in objects
          BY <5>1, <5>2 DEF HostOwned
        <5> QED
          BY <5>1, <5>3, <1>1
      <4>3. \A p \in Comps, k \in Nat : <<p, k>> \in t.uses => p \in Host!Providers(c)
        BY <4>1
      <4> QED
        BY <4>1, <4>2, <4>3, <1>1
    <3> QED
      BY <3>1, <3>2
  <2> QED
    BY <2>1, <2>2, <2>3 DEF HostOwned
<1>10. Current'
  <2> SUFFICES ASSUME NEW d \in Comps, instances'[d].state = "Running", NEW p \in Host!Providers(d)
               PROVE  instances'[d].snap[p] = ports'[p]
    BY DEF Current
  <2>1. d # c /\ instances'[d] = instances[d] /\ p \in Comps
    BY <1>1, Wiring
  <2>2. p # c
    BY <2>1, <1>4
  <2> QED
    BY <2>1, <2>2, <1>5 DEF Current
<1>11. Booting'
  <2>1. pending \subseteq order /\ pending \subseteq Comps /\ order \subseteq Comps /\ flags.started
    BY <1>1 DEF Booting, HostTypes
  <2>2. \A d \in order' \ pending' : Host!Providers(d) \cap pending' = {}
    BY <1>1 DEF Booting
  <2>3. ASSUME NEW d \in pending', instances'[d].state = "Running", NEW p \in Host!Providers(d) \cap order'
        PROVE  instances'[p].state = "Running"
    <3>1. d \in Comps /\ d # c /\ instances[d].state = "Running"
      BY <2>1, <2>3, <1>1
    <3>2. p # c /\ p \in Comps
      BY <3>1, <1>4, Wiring
    <3> QED
      BY <2>3, <3>1, <3>2, <1>1 DEF Booting
  <2>4. ASSUME NEW d \in pending', instances'[d].state # "Running", ~InHook(d)'
        PROVE  ~instances'[d].initialized
    BY <2>1, <2>4, <1>1 DEF Booting, InHook
  <2>5. \A p \in Host!Providers(c) : stage' = "hook" => instances'[c].snap[p] = ports'[p]
    BY <1>1, <1>5, Wiring
  <2> QED
    BY <2>1, <2>2, <2>3, <2>4, <2>5, <1>1 DEF Booting
<1>12. Unstarted'
  BY <1>1 DEF Unstarted, Booting
<1>13. Draining'
  BY <1>1 DEF Draining
<1>14. Halting'
  BY <1>1 DEF Halting
<1>15. Configured'
  BY <1>1 DEF Configured
<1>16. Bounded'
  <2>1. instances[c].inc < ops /\ ops \in Nat
    BY <1>1 DEF Bounded, InHook, HostTypes
  <2>2. instances'[c].inc <= ops' /\ instances'[c].cfg <= ops' /\ request'.v <= ops'
    BY <2>1, <1>1, <1>3 DEF Bounded
  <2>3. \A p \in Comps : instances'[c].snap[p] <= ops'
    <3>1. ASSUME NEW p \in Comps PROVE ports[p] <= ops
      <4>1. ports[p] = 0 \/ ports[p] = instances[p].inc
        BY DEF HostOwned
      <4> QED
        BY <4>1, <2>1 DEF Bounded
    <3> QED
      BY <3>1, <2>1, <1>1
  <2>4. InHook(c)'
    BY <1>1 DEF InHook
  <2>5. \A d \in Comps \ {c} : ~InHook(d)
    BY <1>1 DEF InHook
  <2> QED
    BY <2>2, <2>3, <2>4, <2>5, <1>1 DEF Bounded
<1> QED
  BY <1>7, <1>9, <1>10, <1>11, <1>12, <1>13, <1>14, <1>15, <1>16

(* StartHook keeps HostInv.                                                *)
LEMMA StartHookKeeps ==
    ASSUME Host!RuntimeAssumption, HostInv, Host!StartHook PROVE HostInv'
<1> USE DEF HostInv
<1>1. stage = "hook" /\ UNCHANGED <<order, ports, flags, parentDone, tasks, request, objects, ops>>
  BY DEF Host!StartHook
<1>2. PICK c \in pending : /\ request.who = {c} /\ instances[c].state = "Starting"
                       /\ instances[c].initialized /\ Host!Providers(c) \cap pending = {}
  BY <1>1 DEF Booting
<1>3. c \in Comps /\ c \in order /\ pending \subseteq Comps /\ order \subseteq Comps
  BY <1>1 DEF HostTypes, Booting
<1>4. \/ /\ instances' = Host!SetState({c}, "Running") /\ stage' = "start" /\ pending' = pending \ {c}
         /\ policy' = [policy EXCEPT ![c] = instances[c].cfg] /\ faults' = faults
      \/ Host!Fault /\ stage' = "undo" /\ UNCHANGED <<instances, pending, policy>>
  BY <1>2 DEF Host!StartHook
<1>5. CASE Host!Fault /\ stage' = "undo" /\ UNCHANGED <<instances, pending, policy>>
  <2>1. faults' \in Nat
    BY <1>5 DEF Host!Fault, HostTypes
  <2>2. HostTypes'
    BY <2>1, <1>1, <1>5 DEF HostTypes, HostPhases
  <2>3. HostOwned'
    BY <2>2, <1>1, <1>5, OwnedKept DEF Shadow, HostOwned
  <2>4. \A d : InHook(d)' <=> InHook(d)
    BY <1>1, <1>5 DEF InHook
  <2>5. Booting'
    BY <2>4, <1>1, <1>5 DEF Booting
  <2>6. Current' /\ Unstarted' /\ Draining' /\ Halting' /\ Configured'
    BY <1>1, <1>5 DEF Current, Unstarted, Draining, Halting, Configured
  <2>7. Bounded'
    BY <2>4, <1>1, <1>5 DEF Bounded
  <2> QED
    BY <2>2, <2>3, <2>5, <2>6, <2>7
<1>6. CASE /\ instances' = Host!SetState({c}, "Running") /\ stage' = "start" /\ pending' = pending \ {c}
           /\ policy' = [policy EXCEPT ![c] = instances[c].cfg] /\ faults' = faults
  <2>0. "Running" \in Host!States
    BY DEF Host!States
  <2>1. /\ instances' \in [Comps -> HostInstType]
        /\ \A d \in Comps : /\ instances'[d].state = IF d \in {c} THEN "Running" ELSE instances[d].state
                            /\ instances'[d].initialized = instances[d].initialized
                            /\ instances'[d].inc = instances[d].inc /\ instances'[d].cfg = instances[d].cfg
                            /\ instances'[d].snap = instances[d].snap
    BY <1>6, <2>0, SetStateFields
  <2>2. instances'[c].state = "Running" /\ \A d \in Comps \ {c} : instances'[d].state = instances[d].state
    BY <2>1, <1>3
  <2>3. policy' \in [Comps -> Nat] /\ policy'[c] = instances[c].cfg
        /\ \A d \in Comps \ {c} : policy'[d] = policy[d]
    BY <1>3, <1>6 DEF HostTypes, HostInstType
  <2>4. HostTypes'
    BY <2>1, <2>3, <1>1, <1>6 DEF HostTypes, HostPhases
  <2>5. HostOwned'
    <3>1. Shadow
      BY <1>1 DEF Shadow
    <3>2. \A d \in Comps : instances'[d].state = "Running" => instances[d].initialized
      BY <2>2, <1>2 DEF HostOwned
    <3> QED
      BY <2>1, <2>4, <3>1, <3>2, <1>1, OwnedKept
  <2>6. Current'
    <3>1. \A p \in Host!Providers(c) : instances[c].snap[p] = ports[p]
      BY <1>1, <1>2 DEF Booting
    <3> QED
      BY <3>1, <2>1, <2>2, <1>1 DEF Current
  <2>7. Booting'
    <3>1. \A d \in order' \ pending' : Host!Providers(d) \cap pending' = {}
      BY <1>1, <1>2, <1>6 DEF Booting
    <3>2. ASSUME NEW d \in pending', instances'[d].state = "Running", NEW p \in Host!Providers(d) \cap order'
          PROVE  instances'[p].state = "Running"
      <4>1. d \in pending /\ d # c /\ d \in Comps /\ p \in order /\ p \in Comps
        BY <1>1, <1>3, <1>6
      <4>2. instances[d].state = "Running"
        BY <3>2, <4>1, <2>2
      <4>3. instances[p].state = "Running"
        BY <4>1, <4>2, <1>1 DEF Booting
      <4> QED
        BY <4>1, <4>3, <2>2
    <3>3. \A d \in pending' : instances'[d].state # "Running" => ~instances'[d].initialized
      <4> SUFFICES ASSUME NEW d \in pending', instances'[d].state # "Running"
                   PROVE  ~instances'[d].initialized
        OBVIOUS
      <4>1. d \in pending /\ d # c /\ ~InHook(d) /\ d \in Comps
        BY <1>2, <1>3, <1>6 DEF InHook
      <4> QED
        BY <4>1, <2>1, <2>2, <1>1 DEF Booting
    <3> QED
      BY <3>1, <3>2, <3>3, <1>1, <1>6 DEF Booting
  <2>8. Unstarted' /\ Draining' /\ Halting'
    BY <2>1, <2>2, <1>1, <1>6 DEF Unstarted, Draining, Halting, Booting
  <2>9. Configured'
    <3>1. ASSUME NEW d \in Comps, instances'[d].state = "Running" PROVE instances'[d].cfg = policy'[d]
      <4>1. CASE d = c
        BY <4>1, <2>1, <2>3
      <4>2. CASE d # c
        BY <3>1, <4>2, <2>1, <2>2, <2>3, <1>1 DEF Configured
      <4> QED
        BY <4>1, <4>2
    <3> QED
      BY <3>1, <1>6 DEF Configured
  <2>10. Bounded'
    <3>1. \A d \in pending' : ~InHook(d)
      BY <1>2, <1>6 DEF InHook
    <3> QED
      BY <3>1, <2>1, <1>1, <1>6 DEF Bounded
  <2> QED
    BY <2>4, <2>5, <2>6, <2>7, <2>8, <2>9, <2>10
<1> QED
  BY <1>4, <1>5, <1>6

(* UndoCancel keeps HostInv.                                               *)
LEMMA UndoCancelKeeps ==
    ASSUME Host!RuntimeAssumption, HostInv, Host!UndoCancel PROVE HostInv'
<1> USE DEF HostInv
<1>1. /\ stage = "undo"
      /\ UNCHANGED <<order, ports, flags, parentDone, stage, pending, request, objects, policy, ops, faults>>
  BY DEF Host!UndoCancel
<1>2. PICK c \in request.who : instances' = [instances EXCEPT ![c].canceled = TRUE] /\ tasks' = Host!Cancel({c})
  BY DEF Host!UndoCancel
<1> DEFINE y == [instances[c] EXCEPT !.canceled = TRUE]
<1>3. c \in Comps /\ instances[c] \in HostInstType /\ instances \in [Comps -> HostInstType]
  BY DEF HostTypes
<1>4. /\ y \in HostInstType /\ y.state = instances[c].state /\ y.initialized = instances[c].initialized
      /\ y.inc = instances[c].inc /\ y.cfg = instances[c].cfg /\ y.snap = instances[c].snap
  BY <1>3 DEF HostInstType
<1>5. instances' = [instances EXCEPT ![c] = y]
  BY <1>2, <1>3 DEF HostInstType
<1> HIDE DEF y
<1>6. /\ instances' \in [Comps -> HostInstType]
      /\ \A d \in Comps : /\ instances'[d].state = instances[d].state
                          /\ instances'[d].initialized = instances[d].initialized
                          /\ instances'[d].inc = instances[d].inc /\ instances'[d].cfg = instances[d].cfg
                          /\ instances'[d].snap = instances[d].snap
  BY <1>3, <1>4, <1>5
<1>7. Shadow /\ tasks' \in SUBSET TaskType
  BY <1>2, CancelMarks
<1>8. HostTypes'
  <2>1. \A t \in tasks' : t.kind \in Work[t.comp]
    BY <1>7 DEF Shadow, HostTypes
  <2> QED
    BY <2>1, <1>1, <1>6, <1>7 DEF HostTypes
<1>9. HostOwned'
  BY <1>1, <1>6, <1>7, <1>8, OwnedKept DEF HostOwned
<1>10. Current' /\ Unstarted' /\ Draining' /\ Configured'
  BY <1>1, <1>6 DEF Current, Unstarted, Draining, Configured
<1>11. Halting'
  BY <1>1, <1>6 DEF Halting
<1>12. Booting'
  <2>1. \A d : InHook(d)' <=> InHook(d)
    BY <1>1 DEF InHook
  <2>2. pending \subseteq Comps /\ order \subseteq Comps
    BY DEF HostTypes
  <2>3. \A d \in pending : ~InHook(d) /\ instances'[d].state # "Running" => ~instances'[d].initialized
    BY <2>2, <1>1, <1>6 DEF Booting
  <2>4. \A d \in pending : instances'[d].state = "Running" =>
           \A p \in Host!Providers(d) \cap order : instances'[p].state = "Running"
    BY <2>2, <1>1, <1>6 DEF Booting
  <2>5. \E d \in pending : /\ request.who = {d} /\ instances'[d].state = "Starting"
                        /\ instances'[d].initialized /\ Host!Providers(d) \cap pending = {}
    BY <2>2, <1>1, <1>6 DEF Booting
  <2>6. pending \subseteq order /\ flags.started /\ \A d \in order \ pending : Host!Providers(d) \cap pending = {}
    BY <1>1 DEF Booting
  <2> QED
    BY <2>1, <2>3, <2>4, <2>5, <2>6, <1>1 DEF Booting
<1>13. Bounded'
  BY <1>1, <1>6 DEF Bounded, InHook
<1> QED
  BY <1>8, <1>9, <1>10, <1>11, <1>12, <1>13

(* A failed start: the component is released, or stays what it is with its *)
(* port unbound.                                                           *)
LEMMA UndoStartKeeps ==
    ASSUME Host!RuntimeAssumption, HostInv, Host!UndoStart PROVE HostInv'
<1> USE DEF HostInv
<1>1. /\ stage = "undo" /\ stage' = "start"
      /\ UNCHANGED <<order, flags, parentDone, tasks, request, policy, ops>>
  BY DEF Host!UndoStart
<1>2. PICK c \in request.who :
         /\ \/ /\ Host!Of(c) = {}
               /\ \/ /\ instances' = [instances EXCEPT ![c].initialized = FALSE, ![c].state = "Failed"]
                     /\ objects' = objects \ {<<c, instances[c].inc>>} /\ faults' = faults
                  \/ Host!Fault /\ instances' = Host!SetState({c}, "Failed") /\ objects' = objects
            \/ instances' = Host!SetState({c}, "Failed") /\ UNCHANGED <<objects, faults>>
         /\ ports' = [ports EXCEPT ![c] = 0] /\ pending' = pending \ {c}
  BY DEF Host!UndoStart
<1>3. /\ c \in Comps /\ c \in pending /\ c \in order /\ request.who = {c}
      /\ instances[c].state = "Starting" /\ Host!Providers(c) \cap pending = {}
  BY <1>1 DEF HostTypes, Booting
<1>4. \A d \in Comps : c \in Host!Providers(d) => ~instances[d].initialized /\ instances[d].state # "Running"
  BY <1>1, <1>3, NoConsumers
<1>5. faults' \in Nat
  BY <1>2 DEF Host!Fault, HostTypes
<1>6. \A t \in tasks : c \notin Host!Providers(t.comp)
  BY <1>4 DEF HostTypes, TaskType, HostOwned
<1>7. /\ ports' \in [Comps -> Nat]
      /\ \A d \in Comps : ports'[d] = IF d = c THEN 0 ELSE ports[d]
  BY <1>2, <1>3 DEF HostTypes
<1>8. /\ instances' \in [Comps -> HostInstType]
      /\ \A d \in Comps \ {c} : /\ instances'[d].state = instances[d].state
                                /\ instances'[d].initialized = instances[d].initialized
      /\ \A d \in Comps : /\ instances'[d].inc = instances[d].inc /\ instances'[d].cfg = instances[d].cfg
                          /\ instances'[d].snap = instances[d].snap
      /\ instances'[c].state = "Failed"
      /\ instances'[c].initialized => instances[c].initialized
      /\ HostOwned' /\ objects' \in SUBSET (Comps \X Nat)
  <2>0. "Failed" \in Host!States /\ "Failed" # "Running"
    BY DEF Host!States
  <2>1. CASE /\ Host!Of(c) = {}
             /\ instances' = [instances EXCEPT ![c].initialized = FALSE, ![c].state = "Failed"]
             /\ objects' = objects \ {<<c, instances[c].inc>>}
    <3>1. Retires(c, "Failed")
      BY <2>1, <1>2 DEF Retires
    <3>2. \A t \in tasks : t.comp # c
      BY <2>1 DEF Host!Of, HostOwned
    <3>3. HostOwned'
      BY <3>1, <3>2, <2>0, <1>1, <1>3, <1>6, OwnedRetires
    <3> QED
      BY <3>1, <3>3, <2>0, <1>3, RetiresFields
  <2>2. CASE instances' = Host!SetState({c}, "Failed") /\ objects' = objects
    <3>1. /\ instances' \in [Comps -> HostInstType]
          /\ \A d \in Comps : /\ instances'[d].state = IF d \in {c} THEN "Failed" ELSE instances[d].state
                              /\ instances'[d].initialized = instances[d].initialized
                              /\ instances'[d].inc = instances[d].inc /\ instances'[d].cfg = instances[d].cfg
                              /\ instances'[d].snap = instances[d].snap
      BY <2>2, <2>0, SetStateFields
    <3>2. instances'[c].state = "Failed" /\ \A d \in Comps \ {c} : instances'[d].state = instances[d].state
      BY <3>1, <1>3
    <3>3. HostTypes'
      BY <3>1, <2>2, <1>1, <1>2, <1>5, <1>7 DEF HostTypes, HostPhases
    <3>4. Shadow
      BY <1>1 DEF Shadow
    <3>5. \A d \in Comps : instances'[d].state = "Running" => instances[d].initialized
      BY <3>1, <3>2 DEF HostOwned
    <3>6. HostOwned'
      BY <3>1, <3>3, <3>4, <3>5, <2>2, <1>1, <1>7, OwnedKept
    <3> QED
      BY <3>1, <3>2, <3>6, <2>2 DEF HostTypes
  <2> QED
    BY <2>1, <2>2, <1>2
<1>9. HostTypes'
  BY <1>1, <1>2, <1>5, <1>7, <1>8 DEF HostTypes, HostPhases
<1>10. Current'
  <2> SUFFICES ASSUME NEW d \in Comps, instances'[d].state = "Running", NEW p \in Host!Providers(d)
               PROVE  instances'[d].snap[p] = ports'[p]
    BY DEF Current
  <2>1. d # c /\ instances[d].state = "Running" /\ p \in Comps
    BY <1>8, Wiring
  <2>2. p # c
    BY <2>1, <1>4
  <2> QED
    BY <2>1, <2>2, <1>7, <1>8 DEF Current
<1>11. Booting'
  <2>1. pending \subseteq order /\ pending \subseteq Comps /\ order \subseteq Comps /\ flags.started
    BY <1>1 DEF Booting, HostTypes
  <2>2. \A d \in order' \ pending' : Host!Providers(d) \cap pending' = {}
    BY <1>1, <1>2, <1>3 DEF Booting
  <2>3. ASSUME NEW d \in pending', instances'[d].state = "Running", NEW p \in Host!Providers(d) \cap order'
        PROVE  instances'[p].state = "Running"
    <3>1. d \in Comps /\ d \in pending /\ d # c /\ instances[d].state = "Running"
      BY <2>1, <2>3, <1>2, <1>8
    <3>2. p # c /\ p \in Comps
      BY <3>1, <1>4, Wiring
    <3> QED
      BY <2>3, <3>1, <3>2, <1>1, <1>8 DEF Booting
  <2>4. ASSUME NEW d \in pending', instances'[d].state # "Running" PROVE ~instances'[d].initialized
    <3>1. d \in pending /\ d # c /\ d \in Comps /\ ~InHook(d)
      BY <2>1, <1>2, <1>3 DEF InHook
    <3> QED
      BY <3>1, <2>4, <1>1, <1>8 DEF Booting
  <2> QED
    BY <2>1, <2>2, <2>3, <2>4, <1>1, <1>2 DEF Booting
<1>12. Unstarted'
  BY <1>1, <1>8 DEF Unstarted, Booting
<1>13. Draining' /\ Halting'
  BY <1>1, <1>8 DEF Draining, Halting
<1>14. Configured'
  BY <1>1, <1>8 DEF Configured
<1>15. Bounded'
  <2>1. \A d \in pending' : ~InHook(d) /\ d \in pending
    BY <1>2, <1>3 DEF InHook
  <2> QED
    BY <2>1, <1>1, <1>8 DEF Bounded
<1> QED
  BY <1>8, <1>9, <1>10, <1>11, <1>12, <1>13, <1>14, <1>15

-----------------------------------------------------------------------------
(* ReconcileComponents *)

(* Whoever is not affected runs, is wanted, and all of that is true of the *)
(* providers it has.                                                       *)
LEMMA AffectedClosed ==
    ASSUME NEW E
    PROVE  /\ Host!Affected(E) \subseteq order
           /\ \A c \in order \ Host!Affected(E) :
                 /\ c \in E /\ instances[c].state = "Running"
                 /\ \A p \in Host!Providers(c) : (p \in order <=> p \in E) /\ p \notin Host!Affected(E)
<1> DEFINE direct == {c \in order : c \notin E \/ instances[c].state # "Running"}
           Closed == {S \in SUBSET order :
                         /\ direct \subseteq S
                         /\ \A c \in order \ S : \A p \in Host!Providers(c) :
                               (p \in order <=> p \in E) /\ p \notin S}
<1>1. Host!Affected(E) = {c \in order : \A S \in Closed : c \in S}
  BY DEF Host!Affected
<1> SUFFICES ASSUME NEW c \in order \ Host!Affected(E)
             PROVE  /\ c \in E /\ instances[c].state = "Running"
                    /\ \A p \in Host!Providers(c) : (p \in order <=> p \in E) /\ p \notin Host!Affected(E)
  BY <1>1
<1>2. PICK S \in Closed : c \notin S
  BY <1>1
<1>3. direct \subseteq S
  OBVIOUS
<1>4. \A p \in Host!Providers(c) : (p \in order <=> p \in E) /\ p \notin S
  BY <1>2
<1>5. \A p \in Host!Affected(E) : p \in S
  BY <1>1, <1>2
<1> QED
  BY <1>2, <1>3, <1>4, <1>5

(* Reconcile keeps HostInv.                                                *)
LEMMA ReconcileKeeps ==
    ASSUME Host!RuntimeAssumption, HostInv, NEW E \in Host!Buildable, Host!Reconcile(E) PROVE HostInv'
<1> USE DEF HostInv
<1> DEFINE hit == Host!Affected(E)
           Item(c) == IF c \in hit THEN [instances[c] EXCEPT !.canceled = TRUE, !.state = "Stopping"]
                      ELSE instances[c]
<1>1. /\ stage = "idle" /\ ops < MaxOps /\ ops' = ops + 1 /\ stage' = "drain" /\ pending' = hit
      /\ ~flags.stopping /\ ~flags.stopped
      /\ instances' = [c \in Comps |-> Item(c)]
      /\ tasks' = Host!Cancel(hit) /\ request' = [kind |-> "reconcile", who |-> E, v |-> ops]
      /\ UNCHANGED <<order, ports, flags, parentDone, objects, policy, faults>>
  BY DEF Host!Reconcile, Host!Calls
<1>2. /\ hit \subseteq order
      /\ \A c \in order \ hit :
            /\ c \in E /\ instances[c].state = "Running"
            /\ \A p \in Host!Providers(c) : (p \in order <=> p \in E) /\ p \notin hit
  BY AffectedClosed
<1>3. E \in SUBSET Comps
  BY DEF Host!Buildable
<1> HIDE DEF hit
<1>4. ASSUME NEW c \in Comps
      PROVE  /\ Item(c) \in HostInstType
             /\ Item(c).state = IF c \in hit THEN "Stopping" ELSE instances[c].state
             /\ Item(c).initialized = instances[c].initialized /\ Item(c).inc = instances[c].inc
             /\ Item(c).cfg = instances[c].cfg /\ Item(c).snap = instances[c].snap
  <2>1. instances[c] \in HostInstType /\ "Stopping" \in Host!States
    BY DEF HostTypes, Host!States
  <2>2. CASE c \in hit
    BY <2>1, <2>2 DEF HostInstType
  <2>3. CASE c \notin hit
    BY <2>1, <2>3
  <2> QED
    BY <2>2, <2>3
<1> HIDE DEF Item
<1>5. /\ instances' \in [Comps -> HostInstType]
      /\ \A c \in Comps : /\ instances'[c].state = IF c \in hit THEN "Stopping" ELSE instances[c].state
                          /\ instances'[c].initialized = instances[c].initialized
                          /\ instances'[c].inc = instances[c].inc
                          /\ instances'[c].cfg = instances[c].cfg /\ instances'[c].snap = instances[c].snap
  BY <1>1, <1>4
<1>6. Shadow /\ tasks' \in SUBSET TaskType
  BY <1>1, CancelMarks
<1>7. HostTypes'
  <2>1. \A t \in tasks' : t.kind \in Work[t.comp]
    BY <1>6 DEF Shadow, HostTypes
  <2>2. ops' \in Nat /\ ops' <= MaxOps
    BY <1>1, Wiring DEF HostTypes
  <2>3. request' \in [kind : {"none", "reconcile", "batch"}, who : SUBSET Comps, v : Nat]
    BY <1>1, <1>3 DEF HostTypes
  <2> QED
    BY <2>1, <2>2, <2>3, <1>1, <1>2, <1>5, <1>6 DEF HostTypes, HostPhases
<1>8. \A c \in Comps : instances'[c].state = "Running" => c \notin hit /\ instances[c].state = "Running"
  BY <1>5
<1>9. HostOwned'
  BY <1>1, <1>5, <1>6, <1>7, <1>8, OwnedKept DEF HostOwned
<1>10. Current' /\ Unstarted' /\ Booting' /\ Halting' /\ Configured'
  BY <1>1, <1>5, <1>8 DEF Current, Unstarted, Booting, Halting, Configured
<1>11. Draining'
  <2>1. order \subseteq Comps
    BY DEF HostTypes
  <2>2. \A c \in pending' : instances'[c].state # "Running"
    BY <2>1, <1>1, <1>2, <1>8
  <2>3. \A c \in order \ hit : instances'[c].state = "Running"
    BY <2>1, <1>2, <1>5
  <2>4. request'.who = E
    BY <1>1
  <2>5. ASSUME NEW c \in order', instances'[c].state = "Running"
        PROVE  /\ c \in request'.who
               /\ \A p \in Host!Providers(c) : (p \in order' <=> p \in request'.who)
                                          /\ (p \in order' => instances'[p].state = "Running")
    <3>1. c \in order \ hit
      BY <2>1, <2>5, <1>1, <1>8
    <3> QED
      BY <3>1, <2>3, <2>4, <1>1, <1>2
  <2> QED
    BY <2>2, <2>3, <2>5, <1>1, <1>2 DEF Draining
<1>12. Bounded'
  <2>1. ops \in Nat /\ \A c \in Comps : instances[c] \in HostInstType
    BY DEF HostTypes
  <2> QED
    BY <2>1, <1>1, <1>5 DEF Bounded, HostInstType
<1> QED
  BY <1>7, <1>9, <1>10, <1>11, <1>12

(* DrainOne keeps HostInv.                                                 *)
LEMMA DrainOneKeeps ==
    ASSUME Host!RuntimeAssumption, HostInv, NEW c \in Comps, Host!DrainOne(c) PROVE HostInv'
<1> USE DEF HostInv
<1>1. /\ stage = "drain" /\ c \in pending /\ (\A d \in pending \ {c} : c \notin Host!Providers(d))
      /\ Host!Of(c) = {} /\ Retires(c, "Stopped") /\ pending' = pending \ {c}
      /\ UNCHANGED <<order, flags, parentDone, tasks, stage, request, policy, ops, faults>>
  BY DEF Host!DrainOne, Host!Last, Retires
<1>2. "Stopped" \in Host!States \ {"Running"} /\ "Stopped" \in Host!States
  BY DEF Host!States
<1>3. /\ instances' \in [Comps -> HostInstType]
      /\ \A d \in Comps \ {c} : instances'[d] = instances[d]
      /\ instances'[c].initialized = FALSE /\ instances'[c].state = "Stopped"
      /\ instances'[c].inc = instances[c].inc /\ instances'[c].cfg = instances[c].cfg
      /\ instances'[c].snap = instances[c].snap
      /\ ports' \in [Comps -> Nat]
      /\ \A d \in Comps : ports'[d] = IF d = c THEN 0 ELSE ports[d]
      /\ objects' \in SUBSET (Comps \X Nat)
  BY <1>1, <1>2, RetiresFields
<1>4. c \in order /\ instances[c].state # "Running" /\ order \subseteq Comps /\ pending \subseteq order
  BY <1>1 DEF Draining, HostTypes
<1>5. ASSUME NEW d \in Comps, c \in Host!Providers(d)
      PROVE  ~instances[d].initialized /\ instances[d].state # "Running"
  <2>1. instances[d].state # "Running"
    BY <1>1, <1>4, <1>5 DEF Draining, HostOwned
  <2>2. d # c
    BY <1>5, Wiring
  <2>3. d \notin pending
    BY <1>1, <1>5, <2>2
  <2> QED
    BY <2>1, <2>3, <1>1 DEF Draining, HostOwned
<1>6. \A t \in tasks : t.comp # c /\ c \notin Host!Providers(t.comp)
  BY <1>1, <1>5 DEF Host!Of, HostOwned, HostTypes, TaskType
<1>7. HostOwned'
  BY <1>1, <1>2, <1>6, OwnedRetires
<1>8. HostTypes'
  BY <1>1, <1>3 DEF HostTypes
<1>9. Current'
  <2> SUFFICES ASSUME NEW d \in Comps, instances'[d].state = "Running", NEW p \in Host!Providers(d)
               PROVE  instances'[d].snap[p] = ports'[p]
    BY DEF Current
  <2>1. d # c /\ instances[d].state = "Running" /\ p \in Comps
    BY <1>3, Wiring
  <2>2. p # c
    BY <2>1, <1>5
  <2> QED
    BY <2>1, <2>2, <1>3 DEF Current
<1>10. Unstarted'
  BY <1>1, <1>3 DEF Unstarted
<1>11. Booting' /\ Halting'
  BY <1>1, <1>3 DEF Booting, Halting
<1>12. Draining'
  <2>1. \A d \in pending' : instances'[d].state # "Running"
    BY <1>1, <1>3, <1>4 DEF Draining
  <2>2. \A d \in order' \ pending' : instances'[d].state # "Running" => ~instances'[d].initialized
    BY <1>1, <1>3, <1>4 DEF Draining
  <2>3. ASSUME NEW d \in order', instances'[d].state = "Running"
        PROVE  /\ d \in request'.who
               /\ \A p \in Host!Providers(d) : (p \in order' <=> p \in request'.who)
                                          /\ (p \in order' => instances'[p].state = "Running")
    <3>1. d # c /\ instances[d].state = "Running" /\ d \in Comps /\ d \in order
      BY <2>3, <1>1, <1>3, <1>4
    <3>2. \A p \in Host!Providers(d) : p \in Comps /\ p # c
      BY <3>1, <1>5, Wiring
    <3> QED
      BY <3>1, <3>2, <1>1, <1>3 DEF Draining
  <2> QED
    BY <2>1, <2>2, <2>3, <1>1, <1>4 DEF Draining
<1>13. Configured'
  BY <1>1, <1>3 DEF Configured
<1>14. Bounded'
  BY <1>1, <1>3 DEF Bounded
<1> QED
  BY <1>7, <1>8, <1>9, <1>10, <1>11, <1>12, <1>13, <1>14

(* DrainFails keeps HostInv.                                               *)
LEMMA DrainFailsKeeps ==
    ASSUME HostInv, NEW c \in Comps, Host!DrainFails(c) PROVE HostInv'
<1>1. OnlyFails /\ faults' \in Nat
  BY UnchangedFails DEF Host!DrainFails, Host!Fault, HostInv, HostTypes
<1> QED
  BY <1>1, Returns DEF Host!DrainFails

(* The desired build takes over: whoever is not kept holds nothing.        *)
LEMMA AdoptKeeps ==
    ASSUME Host!RuntimeAssumption, HostInv, Host!Adopt PROVE HostInv'
<1> USE DEF HostInv
<1> DEFINE kept == {c \in request.who \cap order : instances[c].state = "Running"}
           Item(c) == IF c \in kept THEN instances[c] ELSE [Host!Fresh(request.v) EXCEPT !.inc = instances[c].inc]
<1>1. /\ stage = "drain" /\ pending = {} /\ instances' = [c \in Comps |-> Item(c)]
      /\ order' = request.who /\ stage' = "start" /\ pending' = request.who
      /\ flags' = [flags EXCEPT !.started = TRUE]
      /\ UNCHANGED <<ports, parentDone, tasks, request, objects, policy, ops, faults>>
  BY DEF Host!Adopt
<1>2. request.who \in SUBSET Comps /\ request.v \in Nat /\ order \subseteq Comps
  BY DEF HostTypes
<1>3. /\ flags' \in [started : BOOLEAN, stopping : BOOLEAN, stopped : BOOLEAN]
      /\ flags'.started = TRUE /\ flags'.stopping = flags.stopping
      /\ flags'.stopped = flags.stopped
  BY <1>1 DEF HostTypes
<1>4. \A c \in Comps : c \in kept <=> c \in request.who /\ c \in order /\ instances[c].state = "Running"
  BY <1>2
<1> HIDE DEF kept
<1>5. ASSUME NEW c \in Comps
      PROVE  /\ Item(c) \in HostInstType /\ Item(c).inc = instances[c].inc
             /\ c \in kept => Item(c) = instances[c]
             /\ c \notin kept => /\ Item(c).state = "Stopped" /\ Item(c).initialized = FALSE
                                 /\ Item(c).cfg = request.v /\ Item(c).snap = [p \in Comps |-> 0]
  <2>1. instances[c] \in HostInstType /\ "Stopped" \in Host!States /\ [p \in Comps |-> 0] \in [Comps -> Nat]
    BY DEF HostTypes, Host!States
  <2>2. CASE c \in kept
    BY <2>1, <2>2 DEF HostInstType
  <2>3. CASE c \notin kept
    <3> DEFINE z == [p \in Comps |-> 0]
               y == [state |-> "Stopped", initialized |-> FALSE, canceled |-> FALSE,
                     inc |-> instances[c].inc, cfg |-> request.v, snap |-> z]
    <3>1. Item(c) = y
      BY <2>3 DEF Host!Fresh
    <3> HIDE DEF z
    <3>2. y \in HostInstType
      BY <2>1, <1>2 DEF HostInstType, z
    <3> HIDE DEF Item
    <3> QED
      BY <2>3, <3>1, <3>2 DEF z
  <2> QED
    BY <2>2, <2>3
<1> HIDE DEF Item
<1>6. /\ instances' \in [Comps -> HostInstType]
      /\ \A c \in Comps :
            /\ instances'[c].inc = instances[c].inc
            /\ c \in kept => instances'[c] = instances[c]
            /\ c \notin kept => /\ instances'[c].state = "Stopped" /\ instances'[c].initialized = FALSE
                                /\ instances'[c].cfg = request.v /\ instances'[c].snap = [p \in Comps |-> 0]
  BY <1>1, <1>5
<1>7. HostTypes'
  BY <1>1, <1>2, <1>3, <1>6 DEF HostTypes, HostPhases
<1>8. \A c \in Comps : c \notin kept => ~instances[c].initialized
  BY <1>1, <1>4 DEF Draining, HostOwned
<1>9. \A c \in Comps : /\ instances'[c].initialized = instances[c].initialized
                       /\ instances'[c].state = "Running" => c \in kept /\ instances[c].state = "Running"
  <2> SUFFICES ASSUME NEW c \in Comps
               PROVE  /\ instances'[c].initialized = instances[c].initialized
                      /\ instances'[c].state = "Running" => c \in kept /\ instances[c].state = "Running"
    OBVIOUS
  <2>1. CASE c \in kept
    BY <2>1, <1>4, <1>6
  <2>2. CASE c \notin kept
    <3>1. instances[c].initialized \in BOOLEAN
      BY DEF HostTypes, HostInstType
    <3>2. instances[c].initialized = FALSE
      BY <2>2, <3>1, <1>8
    <3> QED
      BY <2>2, <3>2, <1>6
  <2> QED
    BY <2>1, <2>2
<1>10. HostOwned'
  <2>1. \A c \in Comps : /\ instances'[c].state = "Running" => instances'[c].initialized
                         /\ instances'[c].initialized => c \in order'
                         /\ ports'[c] # 0 => instances'[c].initialized /\ ports'[c] = instances'[c].inc
    BY <1>1, <1>4, <1>6, <1>8, <1>9 DEF HostOwned
  <2>2. ASSUME NEW c \in Comps, NEW n \in Nat
        PROVE  <<c, n>> \in objects' <=> instances'[c].initialized /\ n = instances'[c].inc
    BY <1>1, <1>6, <1>9 DEF HostOwned
  <2>3. ASSUME NEW t \in tasks'
        PROVE  /\ instances'[t.comp].initialized /\ t.inc = instances'[t.comp].inc
               /\ t.uses \subseteq objects'
               /\ \A p \in Comps, n \in Nat : <<p, n>> \in t.uses => p \in Host!Providers(t.comp)
    <3>1. t \in tasks /\ t.comp \in Comps
      BY <1>1 DEF HostTypes, TaskType
    <3> QED
      BY <3>1, <1>1, <1>6, <1>9 DEF HostOwned
  <2> QED
    BY <2>1, <2>2, <2>3 DEF HostOwned
<1>11. Current'
  BY <1>1, <1>6, <1>9 DEF Current
<1>12. Booting'
  <2>1. ASSUME NEW d \in pending', instances'[d].state = "Running", NEW p \in Host!Providers(d) \cap order'
        PROVE  instances'[p].state = "Running"
    <3>1. d \in Comps
      BY <1>1, <1>2
    <3>2. d \in order /\ instances[d].state = "Running"
      BY <2>1, <3>1, <1>4, <1>9
    <3>3. p \in request.who /\ p \in Comps
      BY <1>1, <1>2
    <3>4. p \in order /\ instances[p].state = "Running"
      BY <3>2, <3>3, <1>1 DEF Draining
    <3> QED
      BY <3>3, <3>4, <1>4, <1>6
  <2>2. \A c \in pending' : instances'[c].state # "Running" => ~instances'[c].initialized
    <3> SUFFICES ASSUME NEW c \in pending', instances'[c].state # "Running" PROVE ~instances'[c].initialized
      OBVIOUS
    <3>1. c \in Comps
      BY <1>1, <1>2
    <3>2. c \notin kept
      BY <3>1, <1>4, <1>6
    <3> QED
      BY <3>1, <3>2, <1>6
  <2> QED
    BY <2>1, <2>2, <1>1, <1>3 DEF Booting
<1>13. Unstarted' /\ Draining'
  BY <1>1, <1>3 DEF Unstarted, Draining
<1>14. Halting'
  BY <1>1, <1>3 DEF Halting
<1>15. Configured'
  BY <1>1, <1>6, <1>9 DEF Configured
<1>16. Bounded'
  <2> SUFFICES ASSUME NEW c \in Comps
               PROVE  /\ instances'[c].inc <= ops /\ instances'[c].cfg <= ops /\ instances'[c].inc < ops
                      /\ \A p \in Comps : instances'[c].snap[p] <= ops
    BY <1>1 DEF Bounded
  <2>1. ops \in Nat /\ instances[c].inc \in Nat
    BY DEF HostTypes, HostInstType
  <2>2. CASE c \in kept
    BY <2>1, <2>2, <1>1, <1>6 DEF Bounded
  <2>3. CASE c \notin kept
    BY <2>1, <2>3, <1>1, <1>6 DEF Bounded
  <2> QED
    BY <2>2, <2>3
<1> QED
  BY <1>7, <1>10, <1>11, <1>12, <1>13, <1>14, <1>15, <1>16

-----------------------------------------------------------------------------
(* Stop *)

(* Stop keeps HostInv.                                                     *)
LEMMA StopKeeps ==
    ASSUME Host!RuntimeAssumption, HostInv, Host!Stop PROVE HostInv'
<1> USE DEF HostInv
<1> DEFINE st(c) == IF instances[c].initialized THEN "Stopping" ELSE instances[c].state
           Item(c) == IF c \notin order THEN instances[c]
                      ELSE [instances[c] EXCEPT !.canceled = TRUE, !.state = st(c)]
           Mark(t) == IF t.kind = "handler" \/ t.comp \in order
                      THEN [t EXCEPT !.canceled = TRUE] ELSE t
<1>1. /\ stage = "idle" /\ ~flags.stopped /\ stage' = "close"
      /\ flags' = [flags EXCEPT !.stopping = TRUE]
      /\ UNCHANGED <<order, ports, parentDone, pending, request, objects, policy, faults>>
  BY DEF Host!Stop
<1>2. ops' \in Nat /\ ops' <= MaxOps /\ ops <= ops'
  <2>1. ops \in Nat /\ ops <= MaxOps /\ MaxOps \in Nat
    BY Wiring DEF HostTypes
  <2>2. (flags.stopping /\ ops' = ops) \/ (~flags.stopping /\ ops < MaxOps /\ ops' = ops + 1)
    BY DEF Host!Stop
  <2> QED
    BY <2>1, <2>2
<1>3. /\ flags' \in [started : BOOLEAN, stopping : BOOLEAN, stopped : BOOLEAN]
      /\ flags'.started = flags.started /\ flags'.stopping = TRUE
      /\ flags'.stopped = flags.stopped
  BY <1>1 DEF HostTypes
<1>4. instances' = [c \in Comps |-> Item(c)]
  BY DEF Host!Stop, HostTypes, HostInstType
<1>5. tasks' = {Mark(t) : t \in tasks}
  BY DEF Host!Stop
<1>6. ASSUME NEW c \in Comps
      PROVE  /\ Item(c) \in HostInstType /\ Item(c).state # "Running"
             /\ Item(c).initialized = instances[c].initialized /\ Item(c).inc = instances[c].inc
             /\ Item(c).cfg = instances[c].cfg /\ Item(c).snap = instances[c].snap
  <2>1. instances[c] \in HostInstType /\ st(c) \in Host!States /\ st(c) # "Running"
    BY DEF HostTypes, HostInstType, Host!States, HostOwned
  <2>2. CASE c \notin order
    BY <2>1, <2>2 DEF HostOwned
  <2>3. CASE c \in order
    <3> HIDE DEF st
    <3> DEFINE y == [instances[c] EXCEPT !.canceled = TRUE, !.state = st(c)]
    <3>1. Item(c) = y
      BY <2>3
    <3>2. /\ y \in HostInstType /\ y.state = st(c) /\ y.initialized = instances[c].initialized
          /\ y.inc = instances[c].inc /\ y.cfg = instances[c].cfg /\ y.snap = instances[c].snap
      BY <2>1 DEF HostInstType
    <3> HIDE DEF y, Item
    <3> QED
      BY <2>1, <3>1, <3>2
  <2> QED
    BY <2>2, <2>3
<1> HIDE DEF Item
<1>7. /\ instances' \in [Comps -> HostInstType]
      /\ \A c \in Comps : /\ instances'[c].state # "Running"
                          /\ instances'[c].initialized = instances[c].initialized
                          /\ instances'[c].inc = instances[c].inc
                          /\ instances'[c].cfg = instances[c].cfg /\ instances'[c].snap = instances[c].snap
  BY <1>4, <1>6
<1>8. ASSUME NEW t \in tasks
      PROVE  /\ Mark(t) \in TaskType
             /\ t.comp = Mark(t).comp /\ t.inc = Mark(t).inc
             /\ t.uses = Mark(t).uses /\ t.kind = Mark(t).kind
  <2>1. t \in TaskType
    BY DEF HostTypes
  <2>2. CASE t.kind = "handler" \/ t.comp \in order
    BY <2>1, <2>2 DEF TaskType
  <2>3. CASE ~(t.kind = "handler" \/ t.comp \in order)
    BY <2>1, <2>3
  <2> QED
    BY <2>2, <2>3
<1> HIDE DEF Mark
<1>9. Shadow /\ tasks' \in SUBSET TaskType
  BY <1>5, <1>8 DEF Shadow
<1>10. HostTypes'
  <2>1. \A t \in tasks' : t.kind \in Work[t.comp]
    BY <1>9 DEF Shadow, HostTypes
  <2> QED
    BY <2>1, <1>1, <1>2, <1>3, <1>7, <1>9 DEF HostTypes, HostPhases
<1>11. HostOwned'
  BY <1>1, <1>7, <1>9, <1>10, OwnedKept
<1>12. Current' /\ Unstarted' /\ Booting' /\ Draining' /\ Configured'
  BY <1>1, <1>3, <1>7 DEF Current, Unstarted, Booting, Draining, Configured
<1>13. Halting'
  BY <1>1, <1>3, <1>7 DEF Halting
<1>14. Bounded'
  <2>1. ops \in Nat /\ request.v \in Nat /\ \A c \in Comps : instances[c] \in HostInstType
    BY DEF HostTypes
  <2> QED
    BY <2>1, <1>1, <1>2, <1>7 DEF Bounded, HostInstType
<1> QED
  BY <1>10, <1>11, <1>12, <1>13, <1>14

(* A step between two loops, of Stop or of a configuration call, that      *)
(* leaves the components as they are.                                      *)
LEMMA LoopMoves ==
    ASSUME HostInv, UNCHANGED <<order, instances, ports, flags, parentDone, tasks, objects>>,
           stage' \in {"join", "release", "prepare", "commit"}, pending' \in SUBSET Comps,
           request' \in [kind : {"none", "reconcile", "batch"}, who : SUBSET Comps, v : Nat],
           request'.v <= ops', ops' \in Nat, ops' <= MaxOps, ops <= ops',
           policy' \in [Comps -> Nat], faults' \in Nat, Halting', Configured'
    PROVE  HostInv'
<1> USE DEF HostInv
<1>1. HostTypes'
  BY DEF HostTypes, HostPhases
<1>2. HostOwned'
  BY <1>1, OwnedKept DEF Shadow, HostOwned
<1>3. Current' /\ Unstarted' /\ Booting' /\ Draining'
  BY DEF Current, Unstarted, Booting, Draining
<1>4. Bounded'
  <2>1. ops \in Nat /\ \A c \in Comps : instances[c] \in HostInstType
    BY DEF HostTypes
  <2> QED
    BY <2>1 DEF Bounded, HostInstType
<1> QED
  BY <1>1, <1>2, <1>3, <1>4

(* CloseBus keeps HostInv.                                                 *)
LEMMA CloseBusKeeps ==
    ASSUME HostInv, Host!CloseBus PROVE HostInv'
<1> USE DEF HostInv
<1>1. /\ stage = "close" /\ stage' = "join" /\ pending' = order
      /\ UNCHANGED <<order, instances, ports, flags, parentDone, tasks, request, objects, policy, ops, faults>>
  BY DEF Host!CloseBus
<1>2. \A t \in tasks : t.comp \in order
  BY DEF HostOwned, HostTypes, TaskType
<1>3. Halting' /\ Configured'
  BY <1>1, <1>2 DEF Halting, Configured
<1> QED
  BY <1>1, <1>3, LoopMoves DEF HostTypes, Bounded

(* JoinOne keeps HostInv.                                                  *)
LEMMA JoinOneKeeps ==
    ASSUME HostInv, NEW c \in Comps, Host!JoinOne(c) PROVE HostInv'
<1> USE DEF HostInv
<1>1. /\ stage = "join" /\ stage' = "join" /\ pending' = pending \ {c} /\ Host!Of(c) = {}
      /\ UNCHANGED <<order, instances, ports, flags, parentDone, tasks, request, objects, policy, ops, faults>>
  BY DEF Host!JoinOne
<1>2. \A t \in tasks : t.comp # c
  BY <1>1 DEF Host!Of, HostOwned
<1>3. Halting' /\ Configured'
  BY <1>1, <1>2 DEF Halting, Configured
<1> QED
  BY <1>1, <1>3, LoopMoves DEF HostTypes, Bounded

(* Joined keeps HostInv.                                                   *)
LEMMA JoinedKeeps ==
    ASSUME HostInv, Host!Joined PROVE HostInv'
<1> USE DEF HostInv
<1>1. /\ stage = "join" /\ pending = {} /\ stage' = "release" /\ pending' = order
      /\ UNCHANGED <<order, instances, ports, flags, parentDone, tasks, request, objects, policy, ops, faults>>
  BY DEF Host!Joined
<1>2. tasks = {}
  BY <1>1 DEF Halting
<1>3. Halting' /\ Configured'
  BY <1>1, <1>2 DEF Halting, Configured, HostOwned
<1> QED
  BY <1>1, <1>3, LoopMoves DEF HostTypes, Bounded

(* The failures of a stop leave a state from which it can be repeated.     *)
LEMMA HostStopFailsKeeps ==
    ASSUME HostInv, Host!CloseFails \/ \E c \in Comps : Host!JoinFails(c) \/ Host!ReleaseFails(c) PROVE HostInv'
<1>1. \E S : instances' = Host!SetState(S, "Failed")
  BY DEF Host!CloseFails, Host!JoinFails, Host!ReleaseFails
<1>2. OnlyFails
  BY <1>1, SetFailed DEF HostInv
<1>3. faults' \in Nat
  <2>1. Host!Fault
    BY DEF Host!CloseFails, Host!JoinFails, Host!ReleaseFails
  <2> QED
    BY <2>1 DEF Host!Fault, HostInv, HostTypes
<1>4. /\ Host!Return /\ stage # "commit"
      /\ UNCHANGED <<order, ports, flags, parentDone, tasks, objects, policy, ops>>
  BY DEF Host!CloseFails, Host!JoinFails, Host!ReleaseFails
<1> QED
  BY <1>2, <1>3, <1>4, Returns

(* ReleaseOne keeps HostInv.                                               *)
LEMMA ReleaseOneKeeps ==
    ASSUME Host!RuntimeAssumption, HostInv, NEW c \in Comps, Host!ReleaseOne(c) PROVE HostInv'
<1> USE DEF HostInv
<1>1. /\ stage = "release" /\ c \in pending /\ Retires(c, "Stopped") /\ pending' = pending \ {c}
      /\ UNCHANGED <<order, flags, parentDone, tasks, stage, request, policy, ops, faults>>
  BY DEF Host!ReleaseOne, Retires
<1>2. "Stopped" \in Host!States \ {"Running"} /\ "Stopped" \in Host!States
  BY DEF Host!States
<1>3. /\ instances' \in [Comps -> HostInstType]
      /\ \A d \in Comps \ {c} : instances'[d] = instances[d]
      /\ instances'[c].initialized = FALSE /\ instances'[c].state = "Stopped"
      /\ instances'[c].inc = instances[c].inc /\ instances'[c].cfg = instances[c].cfg
      /\ instances'[c].snap = instances[c].snap
      /\ ports' \in [Comps -> Nat]
      /\ objects' \in SUBSET (Comps \X Nat)
  BY <1>1, <1>2, RetiresFields
<1>4. tasks = {} /\ \A d \in Comps : instances[d].state # "Running"
  BY <1>1 DEF Halting
<1>5. HostOwned'
  BY <1>1, <1>2, <1>4, OwnedRetires
<1>6. HostTypes'
  BY <1>1, <1>3 DEF HostTypes
<1>7. \A d \in Comps : instances'[d].state # "Running"
  BY <1>3, <1>4
<1>8. Current' /\ Booting' /\ Draining' /\ Configured'
  BY <1>1, <1>7 DEF Current, Booting, Draining, Configured
<1>9. Unstarted'
  BY <1>1, <1>3 DEF Unstarted
<1>10. Halting'
  BY <1>1, <1>3, <1>4, <1>7 DEF Halting
<1>11. Bounded'
  BY <1>1, <1>3 DEF Bounded
<1> QED
  BY <1>5, <1>6, <1>8, <1>9, <1>10, <1>11

(* A host that says it is stopped has released everything.                 *)
LEMMA ReleasedKeeps ==
    ASSUME Host!RuntimeAssumption, HostInv, Host!Released PROVE HostInv'
<1> USE DEF HostInv
<1>1. /\ stage = "release" /\ pending = {} /\ stage' = "idle" /\ pending' = {} /\ request' = Host!NoCall
      /\ flags' = [flags EXCEPT !.stopped = TRUE] /\ ports' = [c \in Comps |-> 0]
      /\ UNCHANGED <<order, instances, parentDone, tasks, objects, policy, ops, faults>>
  BY DEF Host!Released, Host!Return
<1>2. /\ flags' \in [started : BOOLEAN, stopping : BOOLEAN, stopped : BOOLEAN]
      /\ flags'.started = flags.started /\ flags'.stopping = flags.stopping
      /\ flags'.stopped = TRUE
  BY <1>1 DEF HostTypes
<1>3. /\ tasks = {} /\ flags.stopping
      /\ \A c \in Comps : instances[c].state # "Running" /\ ~instances[c].initialized
  BY <1>1 DEF Halting
<1>4. HostTypes'
  BY <1>1, <1>2 DEF HostTypes, HostPhases, Host!NoCall
<1>5. HostOwned'
  <2>1. Shadow /\ \A c \in Comps : ports'[c] \in {ports[c], 0}
    BY <1>1 DEF Shadow
  <2> QED
    BY <2>1, <1>1, <1>3, <1>4, OwnedKept
<1>6. Current' /\ Booting' /\ Unstarted' /\ Draining' /\ Configured'
  BY <1>1, <1>3 DEF Current, Booting, Unstarted, Draining, Configured
<1>7. Halting'
  BY <1>1, <1>2, <1>3 DEF Halting
<1>8. Bounded'
  BY <1>1, <1>4 DEF Bounded, Host!NoCall, HostTypes
<1> QED
  BY <1>4, <1>5, <1>6, <1>7, <1>8

-----------------------------------------------------------------------------
(* Reconfigure and ReconfigureBatch *)

(* Batch keeps HostInv.                                                    *)
LEMMA BatchKeeps ==
    ASSUME Host!RuntimeAssumption, HostInv, NEW S \in SUBSET Comps, Host!Batch(S) PROVE HostInv'
<1> USE DEF HostInv
<1>1. /\ stage = "idle" /\ ops < MaxOps /\ ops' = ops + 1 /\ stage' = "prepare" /\ pending' = S
      /\ request' = [kind |-> "batch", who |-> S, v |-> ops]
      /\ UNCHANGED <<order, instances, ports, flags, parentDone, tasks, objects, policy, faults>>
  BY DEF Host!Batch, Host!Calls
<1>2. ops \in Nat /\ MaxOps \in Nat
  BY Wiring DEF HostTypes
<1>3. /\ request' \in [kind : {"none", "reconcile", "batch"}, who : SUBSET Comps, v : Nat]
      /\ request'.v <= ops'
  BY <1>1, <1>2
<1>4. Halting' /\ Configured'
  BY <1>1 DEF Halting, Configured
<1>5. ops' \in Nat /\ ops' <= MaxOps /\ ops <= ops'
  BY <1>1, <1>2
<1> QED
  BY <1>1, <1>3, <1>4, <1>5, LoopMoves DEF HostTypes

(* PrepareOne keeps HostInv.                                               *)
LEMMA PrepareOneKeeps ==
    ASSUME HostInv, NEW c \in Comps, Host!PrepareOne(c) PROVE HostInv'
<1> USE DEF HostInv
<1>1. /\ stage = "prepare" /\ stage' = "prepare" /\ pending' = pending \ {c}
      /\ UNCHANGED <<order, instances, ports, flags, parentDone, tasks, request, objects, policy, ops, faults>>
  BY DEF Host!PrepareOne
<1>2. Halting' /\ Configured'
  BY <1>1 DEF Halting, Configured
<1> QED
  BY <1>1, <1>2, LoopMoves DEF HostTypes, Bounded

(* PrepareRefused and PrepareFails keep HostInv.                           *)
LEMMA PrepareEndsKeeps ==
    ASSUME HostInv, NEW c \in Comps, Host!PrepareRefused(c) \/ Host!PrepareFails(c) PROVE HostInv'
<1>1. OnlyFails /\ faults' \in Nat
  BY UnchangedFails DEF Host!PrepareRefused, Host!PrepareFails, Host!Fault, HostInv, HostTypes
<1> QED
  BY <1>1, Returns DEF Host!PrepareRefused, Host!PrepareFails

(* Persist keeps HostInv.                                                  *)
LEMMA PersistKeeps ==
    ASSUME HostInv, Host!Persist PROVE HostInv'
<1> USE DEF HostInv
<1>1. /\ stage = "prepare"
      /\ UNCHANGED <<order, instances, ports, flags, parentDone, tasks, objects, ops>>
  BY DEF Host!Persist
<1>2. CASE Host!Fault /\ Host!Return /\ policy' = policy
  <2>1. OnlyFails /\ faults' \in Nat
    BY <1>1, <1>2, UnchangedFails DEF Host!Fault, HostTypes
  <2> QED
    BY <2>1, <1>1, <1>2, Returns
<1>3. CASE /\ stage' = "commit" /\ pending' = request.who
           /\ policy' = [c \in Comps |-> IF c \in request.who THEN request.v ELSE policy[c]]
           /\ UNCHANGED <<request, faults>>
  <2>1. request.who \in SUBSET Comps /\ request.v \in Nat /\ policy \in [Comps -> Nat]
    BY DEF HostTypes
  <2>2. policy' \in [Comps -> Nat]
        /\ \A c \in Comps : policy'[c] = IF c \in request.who THEN request.v ELSE policy[c]
    BY <2>1, <1>3
  <2>3. Halting'
    BY <1>1, <1>3 DEF Halting
  <2>4. Configured'
    BY <2>1, <2>2, <1>1, <1>3 DEF Configured
  <2> QED
    BY <2>2, <2>3, <2>4, <1>1, <1>3, LoopMoves DEF HostTypes, Bounded
<1> QED
  BY <1>2, <1>3 DEF Host!Persist

(* The configuration of one instance becomes v, which is policy now.       *)
LEMMA CfgFields ==
    ASSUME HostTypes, NEW c \in Comps, NEW v \in Nat, instances' = [instances EXCEPT ![c].cfg = v]
    PROVE  /\ instances' \in [Comps -> HostInstType]
           /\ instances'[c].cfg = v /\ \A d \in Comps \ {c} : instances'[d].cfg = instances[d].cfg
           /\ \A d \in Comps : /\ instances'[d].state = instances[d].state
                               /\ instances'[d].initialized = instances[d].initialized
                               /\ instances'[d].inc = instances[d].inc /\ instances'[d].snap = instances[d].snap
<1> DEFINE y == [instances[c] EXCEPT !.cfg = v]
<1>1. instances[c] \in HostInstType /\ instances \in [Comps -> HostInstType]
  BY DEF HostTypes
<1>2. /\ y \in HostInstType /\ y.state = instances[c].state /\ y.initialized = instances[c].initialized
      /\ y.inc = instances[c].inc /\ y.cfg = v /\ y.snap = instances[c].snap
  BY <1>1 DEF HostInstType
<1>3. instances' = [instances EXCEPT ![c] = y]
  BY <1>1 DEF HostInstType
<1> HIDE DEF y
<1> QED
  BY <1>1, <1>2, <1>3

(* One instance gets a configuration no newer than the last operation.     *)
LEMMA CfgMoves ==
    ASSUME HostInv, stage \in {"idle", "commit"}, stage' = stage, NEW c \in Comps, NEW v \in Nat,
           instances' = [instances EXCEPT ![c].cfg = v], v <= ops', ops \in Nat, ops' \in Nat,
           ops' <= MaxOps, ops <= ops', pending' \in SUBSET Comps, policy' \in [Comps -> Nat],
           faults' \in Nat, Configured',
           UNCHANGED <<order, ports, flags, parentDone, tasks, request, objects>>
    PROVE  HostInv'
<1> USE DEF HostInv
<1>1. /\ instances' \in [Comps -> HostInstType]
      /\ instances'[c].cfg = v /\ \A d \in Comps \ {c} : instances'[d].cfg = instances[d].cfg
      /\ \A d \in Comps : /\ instances'[d].state = instances[d].state
                          /\ instances'[d].initialized = instances[d].initialized
                          /\ instances'[d].inc = instances[d].inc /\ instances'[d].snap = instances[d].snap
  BY CfgFields
<1>2. HostTypes'
  BY <1>1 DEF HostTypes, HostPhases
<1>3. Shadow
  BY DEF Shadow
<1>4. HostOwned'
  BY <1>1, <1>2, <1>3, OwnedKept DEF HostOwned
<1>5. Current' /\ Booting' /\ Unstarted' /\ Draining'
  BY <1>1 DEF Current, Booting, Unstarted, Draining
<1>6. Halting'
  BY <1>1 DEF Halting
<1>7. Bounded'
  <2>1. request.v \in Nat /\ \A d \in Comps : instances[d] \in HostInstType
    BY DEF HostTypes
  <2> QED
    BY <2>1, <1>1 DEF Bounded, HostInstType
<1> QED
  BY <1>2, <1>4, <1>5, <1>6, <1>7

(* CommitOne keeps HostInv.                                                *)
LEMMA CommitOneKeeps ==
    ASSUME HostInv, NEW c \in Comps, Host!CommitOne(c) PROVE HostInv'
<1> USE DEF HostInv
<1>1. /\ stage = "commit" /\ c \in pending /\ instances' = [instances EXCEPT ![c].cfg = request.v]
      /\ pending' = pending \ {c}
      /\ UNCHANGED <<order, ports, flags, parentDone, tasks, stage, request, objects, policy, ops, faults>>
  BY DEF Host!CommitOne
<1>2. request.v \in Nat /\ request.v <= ops /\ policy[c] = request.v
  BY <1>1 DEF HostTypes, Bounded, Configured
<1>3. /\ instances'[c].cfg = request.v /\ \A d \in Comps \ {c} : instances'[d].cfg = instances[d].cfg
      /\ \A d \in Comps : instances'[d].state = instances[d].state
  BY <1>1, <1>2, CfgFields
<1>4. Configured'
  BY <1>1, <1>2, <1>3 DEF Configured
<1>5. ops \in Nat /\ ops <= MaxOps /\ pending' \in SUBSET Comps /\ policy \in [Comps -> Nat]
      /\ faults \in Nat
  BY <1>1 DEF HostTypes
<1>6. PICK v \in Nat : v = request.v
  BY <1>2
<1>7. /\ instances' = [instances EXCEPT ![c].cfg = v] /\ v <= ops' /\ ops' \in Nat /\ ops' <= MaxOps
      /\ ops <= ops' /\ policy' \in [Comps -> Nat] /\ faults' \in Nat
  BY <1>1, <1>2, <1>5, <1>6
<1> HIDE DEF HostInv
<1> QED
  BY <1>1, <1>4, <1>5, <1>7, CfgMoves

(* ReconfigureOne keeps HostInv.                                           *)
LEMMA ReconfigureOneKeeps ==
    ASSUME Host!RuntimeAssumption, HostInv, NEW c \in Comps, Host!ReconfigureOne(c) PROVE HostInv'
<1> USE DEF HostInv
<1>1. /\ stage = "idle" /\ ops < MaxOps /\ ops' = ops + 1
      /\ UNCHANGED <<order, ports, flags, parentDone, tasks, stage, pending, request, objects>>
  BY DEF Host!ReconfigureOne, Host!Calls
<1>2. ops \in Nat /\ ops' \in Nat /\ ops' <= MaxOps /\ ops <= ops'
  BY <1>1, Wiring DEF HostTypes
<1>3. CASE /\ instances' = [instances EXCEPT ![c].cfg = ops] /\ policy' = [policy EXCEPT ![c] = ops]
           /\ faults' = faults
  <2>1. policy' \in [Comps -> Nat] /\ policy'[c] = ops
        /\ \A d \in Comps \ {c} : policy'[d] = policy[d]
    BY <1>2, <1>3 DEF HostTypes
  <2>2. /\ instances'[c].cfg = ops /\ \A d \in Comps \ {c} : instances'[d].cfg = instances[d].cfg
        /\ \A d \in Comps : instances'[d].state = instances[d].state
    BY <1>2, <1>3, CfgFields
  <2>3. Configured'
    BY <2>1, <2>2, <1>1 DEF Configured
  <2>4. pending' \in SUBSET Comps /\ faults' \in Nat /\ ops <= ops'
    BY <1>1, <1>2, <1>3 DEF HostTypes
  <2> HIDE DEF HostInv
  <2> QED
    BY <2>1, <2>3, <2>4, <1>1, <1>2, <1>3, CfgMoves
<1>4. CASE Host!Fault /\ UNCHANGED <<instances, policy>>
  <2>1. instances[c].cfg \in Nat /\ instances[c].cfg <= ops' /\ instances = [instances EXCEPT ![c].cfg = instances[c].cfg]
    BY <1>2 DEF HostTypes, HostInstType, Bounded
  <2>2. Configured' /\ faults' \in Nat
    BY <1>1, <1>4 DEF Configured, Host!Fault, HostTypes
  <2> QED
    BY <2>1, <2>2, <1>1, <1>2, <1>4, CfgMoves DEF HostTypes
<1> QED
  BY <1>3, <1>4 DEF Host!ReconfigureOne

(* Committed keeps HostInv.                                                *)
LEMMA CommittedKeeps ==
    ASSUME HostInv, Host!Committed PROVE HostInv'
<1>1. OnlyFails /\ faults' \in Nat
  BY UnchangedFails DEF Host!Committed, HostInv, HostTypes
<1> QED
  BY <1>1, Returns DEF Host!Committed

(* The host starts with its books in order.                                *)
LEMMA HostInitial == ASSUME Host!RuntimeAssumption, Host!Init PROVE HostInv
<1>1. /\ order \in SUBSET Comps /\ instances = [c \in Comps |-> Host!Fresh(0)]
      /\ ports = [c \in Comps |-> 0]
      /\ flags = [started |-> FALSE, stopping |-> FALSE, stopped |-> FALSE]
      /\ parentDone = FALSE /\ tasks = {} /\ stage = "idle" /\ pending = {} /\ request = Host!NoCall
      /\ objects = {} /\ policy = [c \in Comps |-> 0] /\ ops = 0 /\ faults = 0
  BY DEF Host!Init, Host!Buildable
<1>2. /\ Host!Fresh(0) \in HostInstType /\ Host!Fresh(0).state = "Stopped" /\ Host!Fresh(0).initialized = FALSE
      /\ Host!Fresh(0).inc = 0 /\ Host!Fresh(0).cfg = 0 /\ \A p \in Comps : Host!Fresh(0).snap[p] = 0
  BY DEF Host!Fresh, HostInstType, Host!States
<1>3. instances \in [Comps -> HostInstType] /\ \A c \in Comps : instances[c] = Host!Fresh(0)
  BY <1>1, <1>2
<1>4. parentDone \in BOOLEAN
  BY <1>1, Zenon
<1>5. HostTypes
  BY <1>1, <1>3, <1>4, Wiring DEF HostTypes, HostPhases, Host!NoCall
<1>6. HostOwned /\ Current /\ Booting /\ Unstarted /\ Draining
  BY <1>1, <1>2, <1>3 DEF HostOwned, Current, Booting, Unstarted, Draining
<1>7. Halting /\ Configured /\ Bounded
  BY <1>1, <1>2, <1>3 DEF Halting, Configured, Bounded, Host!NoCall
<1> QED
  BY <1>5, <1>6, <1>7 DEF HostInv

(* Every step keeps HostInv.                                               *)
LEMMA HostStep == ASSUME Host!RuntimeAssumption, HostInv, Host!Next PROVE HostInv'
<1>1. CASE Host!Start \/ Host!Stop \/ Host!CancelHost
  BY <1>1, StartKeeps, StopKeeps, CancelHostKeeps
<1>2. CASE Host!Lifecycle
  <2>1. CASE Host!StartHook \/ Host!UndoCancel \/ Host!UndoStart \/ Host!StartDone \/ Host!Adopt
    BY <2>1, StartHookKeeps, UndoCancelKeeps, UndoStartKeeps, StartDoneKeeps, AdoptKeeps
  <2>2. CASE Host!CloseBus \/ Host!Joined \/ Host!Released \/ Host!Persist \/ Host!Committed
    BY <2>2, CloseBusKeeps, JoinedKeeps, ReleasedKeeps, PersistKeeps, CommittedKeeps
  <2>3. ASSUME NEW c \in Comps, Host!StartSkip(c) \/ Host!InitHook(c) \/ Host!DrainOne(c) \/ Host!JoinOne(c)
        PROVE  HostInv'
    BY <2>3, StartSkipKeeps, InitHookKeeps, DrainOneKeeps, JoinOneKeeps
  <2>4. ASSUME NEW c \in Comps,
               Host!ReleaseOne(c) \/ Host!PrepareOne(c) \/ Host!PrepareRefused(c) \/ Host!CommitOne(c)
        PROVE  HostInv'
    BY <2>4, ReleaseOneKeeps, PrepareOneKeeps, PrepareEndsKeeps, CommitOneKeeps
  <2> QED
    BY <1>2, <2>1, <2>2, <2>3, <2>4 DEF Host!Lifecycle
<1>3. CASE Host!Failing
  BY <1>3, HostStopFailsKeeps, DrainFailsKeeps, PrepareEndsKeeps DEF Host!Failing
<1>4. CASE Host!TaskStep
  BY <1>4, TaskBeginKeeps, TaskEndKeeps, TaskExitKeeps, PublishKeeps DEF Host!TaskStep
<1>5. CASE \E E \in Host!Buildable : Host!Reconcile(E)
  BY <1>5, ReconcileKeeps
<1>6. CASE \E S \in (SUBSET Comps) \ {{}} : Host!Batch(S)
  BY <1>6, BatchKeeps
<1>7. CASE \E c \in Comps : Host!ReconfigureOne(c)
  BY <1>7, ReconfigureOneKeeps
<1> QED
  BY <1>1, <1>2, <1>3, <1>4, <1>5, <1>6, <1>7 DEF Host!Next

(* So does a step that changes nothing.                                    *)
LEMMA HostStutters == ASSUME HostInv, UNCHANGED Host!vars PROVE HostInv'
  BY DEF Host!vars, HostInv, HostTypes, HostOwned, Current, Booting, Unstarted, Draining, Halting, Configured,
         Bounded, InHook

(* Every reachable state of a host satisfies the invariant.                *)
LEMMA HostSafe == ASSUME Host!RuntimeAssumption PROVE Host!Spec => []HostInv
<1>1. Host!Init => HostInv
  BY HostInitial
<1>2. HostInv /\ [Host!Next]_(Host!vars) => HostInv'
  BY HostStep, HostStutters
<1> QED
  BY <1>1, <1>2, PTL DEF Host!Spec

(* Every reachable state of the component runtime (rte/runtime.go) is well *)
(* typed, for any wiring that Build accepts and any calls and faults.      *)
THEOREM HostTyped == HostSpec => []Host!TypeOK
<1>1. HostInv => Host!TypeOK
  <2> SUFFICES ASSUME HostInv PROVE Host!TypeOK
    OBVIOUS
  <2> USE DEF HostInv
  <2>1. MaxOps \in Nat /\ ops \in Nat /\ ops <= MaxOps
    BY Wiring, HostAssumption DEF HostTypes
  <2>2. ASSUME NEW c \in Comps
        PROVE  instances[c] \in [state : Host!States, initialized : BOOLEAN, canceled : BOOLEAN,
                             inc : 0..MaxOps + 1, cfg : Host!Configs, snap : [Comps -> 0..MaxOps + 1]]
    <3>1. instances[c] \in HostInstType
      BY DEF HostTypes
    <3>2. instances[c].inc \in 0..MaxOps + 1 /\ instances[c].cfg \in Host!Configs
      BY <2>1, <3>1 DEF HostInstType, Bounded, Host!Configs
    <3>3. instances[c].snap \in [Comps -> 0..MaxOps + 1]
      BY <2>1, <3>1 DEF HostInstType, Bounded
    <3> QED
      BY <3>1, <3>2, <3>3 DEF HostInstType
  <2>3. instances \in [Comps -> [state : Host!States, initialized : BOOLEAN, canceled : BOOLEAN,
                            inc : 0..MaxOps + 1, cfg : Host!Configs, snap : [Comps -> 0..MaxOps + 1]]]
    BY <2>2 DEF HostTypes
  <2>4. ASSUME NEW c \in Comps PROVE ports[c] \in 0..MaxOps + 1
    <3>1. instances[c].inc \in Nat /\ instances[c].inc <= ops
      BY DEF HostTypes, HostInstType, Bounded
    <3> QED
      BY <2>1, <3>1 DEF HostOwned
  <2>5. ports \in [Comps -> 0..MaxOps + 1]
    BY <2>4 DEF HostTypes
  <2>6. \A t \in tasks : t.kind \in Work[t.comp] /\ t.queue \in 0..Capacity
    BY DEF HostTypes, TaskType
  <2> QED
    BY <2>3, <2>5, <2>6 DEF Host!TypeOK, HostTypes, HostPhases
<1> QED
  BY <1>1, HostAssumption, HostSafe, PTL DEF HostSpec

(* For any components, wiring, calls and faults: work never uses the port  *)
(* of a stopped component, a running component is bound to what its        *)
(* providers are now (ReconcileComponents), and a component has one        *)
(* object, none in a stopped host.                                         *)
THEOREM HostPorts == HostSpec => []PortsSound
<1>1. HostInv => PortsSound
  <2> SUFFICES ASSUME HostInv PROVE PortsSound
    OBVIOUS
  <2> USE DEF HostInv
  <2>1. Host!NoDanglingPort
    BY DEF Host!NoDanglingPort, HostOwned
  <2>2. Host!BoundToCurrent
    <3> SUFFICES ASSUME NEW c \in Host!Resolvable
                 PROVE  /\ <<c, instances[c].inc>> \in objects
                        /\ \A p \in Host!Providers(c) : instances[c].snap[p] = ports[p]
      BY DEF Host!BoundToCurrent
    <3>1. c \in Comps /\ instances[c].state = "Running" /\ instances[c].inc \in Nat
      BY DEF Host!Resolvable, HostTypes, HostInstType
    <3> QED
      BY <3>1 DEF HostOwned, Current
  <2>3. ASSUME NEW x \in objects, NEW y \in objects, x[1] = y[1] PROVE x = y
    <3>1. PICK c \in Comps, n \in Nat : x = <<c, n>>
      BY DEF HostTypes
    <3>2. PICK d \in Comps, m \in Nat : y = <<d, m>>
      BY DEF HostTypes
    <3>3. c = d
      BY <2>3, <3>1, <3>2
    <3> QED
      BY <3>1, <3>2, <3>3 DEF HostOwned
  <2>4. ASSUME flags.stopped PROVE objects = {} /\ \A t \in tasks : t.comp \notin order
    <3>1. tasks = {} /\ \A c \in Comps : ~instances[c].initialized
      BY <2>4 DEF Halting
    <3>2. \A c \in Comps, n \in Nat : <<c, n>> \notin objects
      BY <3>1 DEF HostOwned
    <3>3. objects \subseteq Comps \X Nat
      BY DEF HostTypes
    <3> QED
      BY <3>1, <3>2, <3>3
  <2> QED
    BY <2>1, <2>2, <2>3, <2>4 DEF PortsSound, Host!OneObject
<1> QED
  BY <1>1, HostAssumption, HostSafe, PTL DEF HostSpec

(* A batch of configurations is live completely or not at all once the     *)
(* call has returned (ReconfigureBatch), through refusals, failed saves    *)
(* and hooks that fail while they commit.                                  *)
THEOREM HostPolicy == HostSpec => []WholePolicy
<1>1. HostInv => WholePolicy
  BY DEF HostInv, HostTypes, Configured, WholePolicy
<1> QED
  BY <1>1, HostAssumption, HostSafe, PTL DEF HostSpec

-----------------------------------------------------------------------------
(***************************************************************************)
(* The process around them: Daemon, for any calls of the panel, edits,     *)
(* configuration files, releases and any number of outside events.         *)
(*                                                                         *)
(* Four invariants are kept together: of the file and the calls (FileInv), *)
(* of the process and its units (LifeInv), of the executable and its       *)
(* helper (UpdateInv) and of the requests to end the process (RequestInv). *)
(***************************************************************************)


-----------------------------------------------------------------------------
(* Documents *)

(* The values of a component that the schema accepts, all of them there.   *)
WholeValues(id, v) ==
    /\ v = [f \in DOMAIN Proc!Schema[id] |-> v[f]] /\ v # Proc!RefusedView
    /\ \A f \in DOMAIN Proc!Schema[id] : Proc!Validate(Proc!Schema[id][f], v[f])
WholeComp(id, comp) ==
    /\ comp = [enabled |-> comp.enabled, values |-> comp.values] /\ WholeValues(id, comp.values)
    /\ id = "range" => comp.enabled = TRUE
WholeParts(comps) ==
    comps = [id \in Proc!Components |-> comps[id]] /\ \A id \in Proc!Components : WholeComp(id, comps[id])
(* A document that completing leaves as it is.                             *)
Whole(doc) == Proc!IsFile(doc) /\ doc.system.namespace # "" /\ WholeParts(doc.components)

(* The declared components and fields, spelled out.                        *)
LEMMA SchemaFields ==
    /\ Proc!Components = {"panel", "clock", "forward", "range", "account"}
    /\ "ntp" \notin DOMAIN Proc!Schema["account"]
    /\ \A id \in Proc!Components : "refused" \notin DOMAIN Proc!Schema[id]
<1>1. Proc!Components = {"panel", "clock", "forward", "range", "account"}
  BY DEF Proc!Components, Proc!Schema
<1>2. DOMAIN Proc!Schema["account"] = {"proxy"} /\ DOMAIN Proc!Schema["panel"] = {"username", "password"}
  BY DEF Proc!Schema
<1>3. DOMAIN Proc!Schema["clock"] = {"server"} /\ DOMAIN Proc!Schema["forward"] = {"listen"}
      /\ DOMAIN Proc!Schema["range"] = {"port"}
  BY DEF Proc!Schema
<1> QED
  BY <1>1, <1>2, <1>3

(* The defaults of the schema are values it accepts.                       *)
LEMMA DefaultsValid ==
    \A id \in Proc!Components : \A f \in DOMAIN Proc!Schema[id] : Proc!Validate(Proc!Schema[id][f], Proc!Schema[id][f].default)
<1>1. /\ DOMAIN Proc!Schema["account"] = {"proxy"} /\ DOMAIN Proc!Schema["panel"] = {"username", "password"}
      /\ DOMAIN Proc!Schema["clock"] = {"server"} /\ DOMAIN Proc!Schema["forward"] = {"listen"}
      /\ DOMAIN Proc!Schema["range"] = {"port"}
  BY DEF Proc!Schema
<1>2. Proc!Schema["panel"]["username"].default = "x" /\ Proc!Schema["panel"]["password"].default = "x"
  BY DEF Proc!Schema
<1>3. Proc!Schema["clock"]["server"].default = "x" /\ Proc!Schema["range"]["port"].default = "x"
  BY DEF Proc!Schema
<1>4. /\ Proc!Schema["forward"]["listen"].default = "" /\ Proc!Schema["account"]["proxy"].default = ""
      /\ ~Proc!Schema["forward"]["listen"].nonempty /\ ~Proc!Schema["account"]["proxy"].nonempty
  BY DEF Proc!Schema
<1> QED
  BY <1>1, <1>2, <1>3, <1>4, SchemaFields DEF Proc!Validate

(* An accepted view is whole, and a whole one is its own view.             *)
LEMMA ViewWhole ==
    ASSUME NEW id, NEW v, Proc!View(id, v) # Proc!RefusedView
    PROVE  /\ WholeValues(id, Proc!View(id, v)) /\ DOMAIN v \subseteq DOMAIN Proc!Schema[id]
           /\ \A f \in DOMAIN Proc!Schema[id] : Proc!View(id, v)[f] = Proc!Given(v, f, Proc!Schema[id][f].default)
<1> DEFINE w == [f \in DOMAIN Proc!Schema[id] |-> Proc!Given(v, f, Proc!Schema[id][f].default)]
<1>1. Proc!View(id, v) = w /\ DOMAIN v \subseteq DOMAIN Proc!Schema[id]
      /\ \A f \in DOMAIN Proc!Schema[id] : Proc!Validate(Proc!Schema[id][f], w[f])
  BY DEF Proc!View
<1>2. w = [f \in DOMAIN Proc!Schema[id] |-> w[f]]
  OBVIOUS
<1>3. \A f \in DOMAIN Proc!Schema[id] : w[f] = Proc!Given(v, f, Proc!Schema[id][f].default)
  OBVIOUS
<1> HIDE DEF w
<1> QED
  BY <1>1, <1>2, <1>3 DEF WholeValues

(* Reading values that are whole already changes nothing.                  *)
LEMMA WholeView ==
    ASSUME NEW id, NEW v, WholeValues(id, v)
    PROVE  Proc!View(id, v) = v
<1> DEFINE w == [f \in DOMAIN Proc!Schema[id] |-> Proc!Given(v, f, Proc!Schema[id][f].default)]
<1>1. DOMAIN v = DOMAIN Proc!Schema[id]
  BY DEF WholeValues
<1>2. \A f \in DOMAIN Proc!Schema[id] : Proc!Given(v, f, Proc!Schema[id][f].default) = v[f]
  BY <1>1 DEF Proc!Given
<1>3. w = [f \in DOMAIN Proc!Schema[id] |-> v[f]]
  BY <1>2
<1>4. w = v
  BY <1>3 DEF WholeValues
<1>5. \A f \in DOMAIN Proc!Schema[id] : Proc!Validate(Proc!Schema[id][f], w[f])
  BY <1>4 DEF WholeValues
<1>6. Proc!View(id, v) = IF DOMAIN v \subseteq DOMAIN Proc!Schema[id]
                       /\ \A f \in DOMAIN Proc!Schema[id] : Proc!Validate(Proc!Schema[id][f], w[f])
                    THEN w ELSE Proc!RefusedView
  BY DEF Proc!View
<1> HIDE DEF w
<1> QED
  BY <1>1, <1>4, <1>5, <1>6

(* Completing leaves a whole document alone.                               *)
LEMMA CompleteFixed ==
    ASSUME NEW doc, Whole(doc) PROVE Proc!Complete(doc) = doc
<1> DEFINE comps == doc.components
<1>1. comps = [id \in Proc!Components |-> comps[id]] /\ DOMAIN comps = Proc!Components
  BY DEF Whole, WholeParts
<1>2. \A id \in Proc!Components : WholeComp(id, comps[id])
  BY DEF Whole, WholeParts
<1>3. "account" \in Proc!Components
  BY SchemaFields
<1>4. DOMAIN comps["account"].values = DOMAIN Proc!Schema["account"]
  BY <1>2, <1>3 DEF WholeComp, WholeValues
<1>5. Proc!MigrateTime(comps) = comps
  BY <1>4, SchemaFields DEF Proc!MigrateTime
<1> DEFINE view(id) == Proc!View(id, Proc!Given(comps, id, [values |-> Proc!NoValues]).values)
           enabled(id) == IF id = "range" THEN TRUE
                          ELSE IF id \in DOMAIN comps THEN comps[id].enabled ELSE id # "forward"
           all == [id \in Proc!Components |-> [enabled |-> enabled(id), values |-> view(id)]]
<1>6. ASSUME NEW id \in Proc!Components
      PROVE  view(id) = comps[id].values /\ view(id) # Proc!RefusedView /\ enabled(id) = comps[id].enabled
  <2>1. Proc!Given(comps, id, [values |-> Proc!NoValues]) = comps[id]
    BY <1>1, <1>6 DEF Proc!Given
  <2>2. WholeValues(id, comps[id].values) /\ comps[id].values # Proc!RefusedView
    BY <1>2, <1>6 DEF WholeComp, WholeValues
  <2>3. Proc!View(id, comps[id].values) = comps[id].values
    BY <2>2, WholeView
  <2>4. enabled(id) = comps[id].enabled
    BY <1>1, <1>2, <1>6 DEF WholeComp
  <2> QED
    BY <2>1, <2>2, <2>3, <2>4
<1>7. all = comps
  <2>1. \A id \in Proc!Components : [enabled |-> enabled(id), values |-> view(id)] = comps[id]
    BY <1>2, <1>6 DEF WholeComp
  <2> QED
    BY <2>1, <1>1
<1>8. Proc!Complete(doc) = IF /\ doc.system.namespace # "" /\ DOMAIN comps \subseteq Proc!Components
                         /\ \A id \in Proc!Components : view(id) # Proc!RefusedView
                      THEN [doc EXCEPT !.components = all] ELSE Proc!Refused
  BY <1>5 DEF Proc!Complete
<1>9. doc = [system |-> doc.system, components |-> comps]
  BY DEF Whole, Proc!IsFile
<1>10. [doc EXCEPT !.components = comps] = doc
  BY <1>9
<1> HIDE DEF view, enabled, all, comps
<1> QED
  BY <1>1, <1>6, <1>7, <1>8, <1>10 DEF Whole

(* What completing a file makes is whole, or refused.                      *)
LEMMA CompleteWhole ==
    ASSUME NEW doc, Proc!IsFile(doc), Proc!Complete(doc) # Proc!Refused PROVE Whole(Proc!Complete(doc))
<1> DEFINE given == Proc!MigrateTime(doc.components)
           view(id) == Proc!View(id, Proc!Given(given, id, [values |-> Proc!NoValues]).values)
           enabled(id) == IF id = "range" THEN TRUE
                          ELSE IF id \in DOMAIN given THEN given[id].enabled ELSE id # "forward"
           all == [id \in Proc!Components |-> [enabled |-> enabled(id), values |-> view(id)]]
<1>1. Proc!Complete(doc) = IF /\ doc.system.namespace # "" /\ DOMAIN given \subseteq Proc!Components
                         /\ \A id \in Proc!Components : view(id) # Proc!RefusedView
                      THEN [doc EXCEPT !.components = all] ELSE Proc!Refused
  BY DEF Proc!Complete
<1>2. \A id \in Proc!Components : WholeValues(id, view(id)) \/ view(id) = Proc!RefusedView
  BY ViewWhole
<1>3. all = [id \in Proc!Components |-> all[id]]
  OBVIOUS
<1>4. \A id \in Proc!Components : all[id] = [enabled |-> enabled(id), values |-> view(id)]
  OBVIOUS
<1>5. \A id \in Proc!Components : id = "range" => enabled(id) = TRUE
  OBVIOUS
<1> HIDE DEF given, view, enabled, all
<1>6. Proc!Complete(doc) = [doc EXCEPT !.components = all] /\ doc.system.namespace # ""
      /\ \A id \in Proc!Components : view(id) # Proc!RefusedView
  BY <1>1
<1>7. /\ Proc!Complete(doc) = [system |-> doc.system, components |-> all]
      /\ doc.system = [namespace |-> doc.system.namespace, debug |-> doc.system.debug]
  BY <1>6 DEF Proc!IsFile
<1>8. ASSUME NEW id \in Proc!Components PROVE WholeComp(id, all[id])
  <2>1. PICK e, v : all[id] = [enabled |-> e, values |-> v] /\ v = view(id) /\ (id = "range" => e = TRUE)
    BY <1>4, <1>5, <1>8, Zenon
  <2>2. all[id].enabled = e /\ all[id].values = v
    BY <2>1
  <2> QED
    BY <2>1, <2>2, <1>2, <1>6, <1>8 DEF WholeComp
<1> QED
  BY <1>3, <1>6, <1>7, <1>8 DEF Whole, WholeParts, Proc!IsFile

(* A file that was never written is completed from the schema.             *)
LEMMA DefaultsWhole == Whole(Proc!Defaults)
<1> DEFINE doc == [system |-> [namespace |-> "a", debug |-> FALSE], components |-> <<>>]
<1>1. Proc!IsFile(doc) /\ doc.system.namespace = "a" /\ doc.components = <<>>
  BY DEF Proc!IsFile
<1> DEFINE view(id) == Proc!View(id, Proc!Given(<<>>, id, [values |-> Proc!NoValues]).values)
<1>2. DOMAIN <<>> = {} /\ "account" \notin DOMAIN <<>> /\ DOMAIN Proc!NoValues = {}
  BY DEF Proc!NoValues
<1>3. Proc!MigrateTime(<<>>) = <<>>
  BY <1>2 DEF Proc!MigrateTime
<1>4. ASSUME NEW id \in Proc!Components PROVE view(id) # Proc!RefusedView
  <2>1. Proc!Given(<<>>, id, [values |-> Proc!NoValues]).values = Proc!NoValues
    BY <1>2 DEF Proc!Given
  <2> DEFINE w == [f \in DOMAIN Proc!Schema[id] |-> Proc!Given(Proc!NoValues, f, Proc!Schema[id][f].default)]
  <2>2. \A f \in DOMAIN Proc!Schema[id] : w[f] = Proc!Schema[id][f].default
    BY <1>2 DEF Proc!Given
  <2>3. \A f \in DOMAIN Proc!Schema[id] : Proc!Validate(Proc!Schema[id][f], Proc!Schema[id][f].default)
    BY DefaultsValid
  <2>4. Proc!View(id, Proc!NoValues) = w
    BY <1>2, <2>2, <2>3 DEF Proc!View
  <2>5. DOMAIN w = DOMAIN Proc!Schema[id] /\ DOMAIN Proc!RefusedView = {"refused"}
    BY DEF Proc!RefusedView
  <2>6. w # Proc!RefusedView
    BY <2>5, SchemaFields
  <2> QED
    BY <2>1, <2>4, <2>6
<1>5. Proc!Complete(doc).system = doc.system
  BY <1>1, <1>2, <1>3, <1>4 DEF Proc!Complete
<1>6. Proc!Complete(doc) # Proc!Refused
  <2>1. Proc!Complete(doc).system.namespace = "a" /\ Proc!Refused.system.namespace = ""
    BY <1>1, <1>5 DEF Proc!Refused
  <2> QED
    BY <2>1
<1> QED
  BY <1>1, <1>6, CompleteWhole DEF Proc!Defaults

-----------------------------------------------------------------------------
(* The calls and the file *)

CallFields == {"at", "kind", "edit", "seen", "versioned", "doc"}
Stages == {"idle", "done", "view", "read", "lock", "load", "save", "system", "set", "current", "select"}
Busy(r) == r.at \notin {"idle", "done"}
Editing == {"form", "field", "toggle"}

(* What the panel shows of a component.                                    *)
Shown(id, seen, doc) ==
    /\ doc.enabled = seen.enabled
    /\ \A f \in DOMAIN Proc!Schema[id] : ~Proc!Schema[id][f].secret => doc.values[f] = seen.values[f]

(* The component after the one change that was asked for.                  *)
Wish(r, comp) ==
    IF r.kind = "toggle" THEN [comp EXCEPT !.enabled = ~comp.enabled]
    ELSE [comp EXCEPT !.values = [comp.values EXCEPT ![r.edit.field] =
             IF Proc!Schema[r.edit.id][r.edit.field].secret /\ r.edit.value = "" THEN comp.values[r.edit.field]
             ELSE r.edit.value]]

(* Where a call is and what it may rely on: the holder of patchMu has the  *)
(* component as the file has it, and what it is about to save is its one   *)
(* change to that.                                                         *)
Good(c, r, mu, comps) ==
    /\ DOMAIN r = CallFields /\ r.at \in Stages
    /\ Busy(r) => /\ r.edit \in Edits /\ r.kind \in Proc!Kinds /\ (r.versioned <=> r.kind \in {"form", "toggle"})
                  /\ r.kind = "toggle" => r.edit.id # "range"
    /\ r.at \in {"view", "read"} => r.kind \in {"form", "toggle"}
    /\ r.at \in {"lock", "load", "save"} => r.kind \in Editing
    /\ r.at \in {"system", "set"} => r.kind = "system"
    /\ r.at \in {"current", "select"} => r.kind = "switch"
    /\ r.at \in {"read", "load", "save"} => mu = c
    /\ r.at = "read" => r.seen = comps[r.edit.id]
    /\ r.at \in {"lock", "load"} /\ r.kind # "field" => Shown(r.edit.id, r.seen, r.doc)
    /\ r.at \in {"load", "save"} /\ r.kind # "field" => comps[r.edit.id] = r.seen
    /\ r.at = "save" => r.doc = Wish(r, comps[r.edit.id]) /\ WholeComp(r.edit.id, r.doc)
    /\ r.at = "select" => r.seen.namespace # "b"

FileInv ==
    /\ Proc!IsFile(disk) /\ ~blind /\ (disk # Proc!NoDoc => Proc!Saved = intended)
    /\ main.phase # "off" => disk # Proc!NoDoc /\ Whole(Proc!Saved)
    /\ main.phase = "off" => \A c \in Calls : ~Busy(panelCall[c])
    /\ panelCall = [c \in Calls |-> panelCall[c]]
    /\ \A c \in Calls : Good(c, panelCall[c], patchMu, Proc!Saved.components)

(* The edits are of declared fields.                                       *)
LEMMA EditFields ==
    ASSUME Proc!DaemonAssumption, NEW e \in Edits
    PROVE  e.id \in Proc!Components /\ e.field \in DOMAIN Proc!Schema[e.id]
BY DEF Proc!DaemonAssumption

(* What a save changes is what was asked for, or it is refused: a form     *)
(* keeps the other fields and every secret it did not show.                *)
LEMMA ChangedIsWish ==
    ASSUME Proc!DaemonAssumption, NEW c \in Calls, NEW comp, panelCall[c].edit \in Edits,
           panelCall[c].kind \in Editing, WholeComp(panelCall[c].edit.id, comp),
           panelCall[c].kind = "toggle" => panelCall[c].edit.id # "range",
           panelCall[c].kind # "field" => Shown(panelCall[c].edit.id, comp, panelCall[c].doc),
           Proc!Changed(c, comp).values # Proc!RefusedView
    PROVE  Proc!Changed(c, comp) = Wish(panelCall[c], comp) /\ WholeComp(panelCall[c].edit.id, Proc!Changed(c, comp))
<1> DEFINE e == panelCall[c].edit
           id == e.id
<1>0. id \in Proc!Components /\ e.field \in DOMAIN Proc!Schema[id]
  BY EditFields
<1>1. /\ comp = [enabled |-> comp.enabled, values |-> comp.values]
      /\ comp.values = [f \in DOMAIN Proc!Schema[id] |-> comp.values[f]]
      /\ DOMAIN comp.values = DOMAIN Proc!Schema[id] /\ WholeValues(id, comp.values)
  BY DEF WholeComp, WholeValues
<1>2. CASE panelCall[c].kind = "toggle"
  <2>1. panelCall[c].doc.enabled = comp.enabled /\ id # "range"
    BY <1>2 DEF Shown
  <2>2. Proc!Changed(c, comp) = [comp EXCEPT !.enabled = ~comp.enabled]
    BY <1>2, <2>1 DEF Proc!Changed
  <2>3. Proc!Changed(c, comp) = Wish(panelCall[c], comp)
    BY <1>2, <2>2 DEF Wish
  <2>4. PICK b : b = ~comp.enabled
    BY Zenon
  <2>5. Proc!Changed(c, comp) = [enabled |-> b, values |-> comp.values]
    BY <2>2, <2>4, <1>1
  <2>6. Proc!Changed(c, comp).enabled = b /\ Proc!Changed(c, comp).values = comp.values
    BY <2>5
  <2>7. WholeComp(id, Proc!Changed(c, comp))
    BY <2>1, <2>5, <2>6, <1>1 DEF WholeComp
  <2> QED
    BY <2>3, <2>7
<1>3. CASE panelCall[c].kind # "toggle"
  <2> DEFINE m == Proc!Merge(id, comp.values, Proc!Patch(c))
             v == Proc!View(id, m)
             old == comp.values
             new == IF Proc!Schema[id][e.field].secret /\ e.value = "" THEN old[e.field] ELSE e.value
  <2>1. Proc!Changed(c, comp) = [comp EXCEPT !.values = v]
    BY <1>3 DEF Proc!Changed
  <2>2. Proc!Changed(c, comp) = [enabled |-> comp.enabled, values |-> v]
    BY <2>1, <1>1
  <2>3. v # Proc!RefusedView
    BY <2>2
  <2>4. /\ WholeValues(id, v) /\ DOMAIN m \subseteq DOMAIN Proc!Schema[id]
        /\ \A f \in DOMAIN Proc!Schema[id] : v[f] = Proc!Given(m, f, Proc!Schema[id][f].default)
    BY <2>3, ViewWhole
  <2>5. m = [f \in DOMAIN old \cup DOMAIN Proc!Patch(c) |->
               IF f \in DOMAIN Proc!Patch(c) /\ ~Proc!Kept(id, Proc!Patch(c), f) THEN Proc!Patch(c)[f] ELSE old[f]]
    BY DEF Proc!Merge
  <2>6. \A f \in DOMAIN Proc!Schema[id] : f \in DOMAIN m /\ v[f] = m[f]
    <3>1. DOMAIN m = DOMAIN old \cup DOMAIN Proc!Patch(c)
      BY <2>5
    <3> QED
      BY <3>1, <2>4, <1>1 DEF Proc!Given
  <2>7. ASSUME NEW f \in DOMAIN Proc!Schema[id]
        PROVE  m[f] = IF f = e.field THEN new ELSE old[f]
    <3>1. m[f] = IF f \in DOMAIN Proc!Patch(c) /\ ~Proc!Kept(id, Proc!Patch(c), f) THEN Proc!Patch(c)[f] ELSE old[f]
      BY <2>5, <2>7, <1>1
    <3>2. CASE panelCall[c].kind = "field"
      <4>1. Proc!Patch(c) = [g \in {e.field} |-> e.value]
        BY <3>2 DEF Proc!Patch
      <4>2. DOMAIN Proc!Patch(c) = {e.field} /\ Proc!Patch(c)[e.field] = e.value
        BY <4>1
      <4>3. CASE f = e.field
        <5>1. Proc!Kept(id, Proc!Patch(c), f) <=> Proc!Schema[id][e.field].secret /\ e.value = ""
          BY <4>2, <4>3, <1>0 DEF Proc!Kept
        <5> HIDE DEF e, id, m, v
        <5> QED
          BY <5>1, <4>2, <4>3, <3>1
      <4>4. CASE f # e.field
        BY <4>2, <4>4, <3>1
      <4> QED
        BY <4>3, <4>4
    <3>3. CASE panelCall[c].kind = "form"
      <4>1. Proc!Patch(c) = [g \in DOMAIN Proc!Schema[id] |-> IF g = e.field THEN e.value
                          ELSE IF Proc!Schema[id][g].secret THEN "" ELSE panelCall[c].doc.values[g]]
        BY <3>3 DEF Proc!Patch
      <4>2. f \in DOMAIN Proc!Patch(c) /\ Proc!Patch(c)[f] = IF f = e.field THEN e.value
                          ELSE IF Proc!Schema[id][f].secret THEN "" ELSE panelCall[c].doc.values[f]
        BY <4>1, <2>7
      <4>3. Proc!Kept(id, Proc!Patch(c), f) <=> Proc!Schema[id][f].secret /\ Proc!Patch(c)[f] = ""
        BY <2>7 DEF Proc!Kept
      <4>4. ~Proc!Schema[id][f].secret => panelCall[c].doc.values[f] = old[f]
        BY <3>3, <2>7 DEF Shown
      <4> HIDE DEF e, id, m, v, old
      <4>5. CASE f = e.field
        BY <4>2, <4>3, <4>5, <3>1
      <4>6. CASE f # e.field
        BY <4>2, <4>3, <4>4, <4>6, <3>1
      <4> QED
        BY <4>5, <4>6
    <3> QED
      BY <3>2, <3>3, <1>3 DEF Editing
  <2>8. v = [f \in DOMAIN Proc!Schema[id] |-> v[f]]
    BY <2>4 DEF WholeValues
  <2>9. v = [old EXCEPT ![e.field] = new]
    <3> HIDE DEF v, m, new, e, id, old
    <3>1. old = [f \in DOMAIN Proc!Schema[id] |-> old[f]]
      BY <1>1 DEF old
    <3>2. \A f \in DOMAIN Proc!Schema[id] : v[f] = IF f = e.field THEN new ELSE old[f]
      BY <2>6, <2>7
    <3> QED
      BY <3>1, <3>2, <2>8
  <2>10. Proc!Changed(c, comp) = Wish(panelCall[c], comp)
    BY <2>1, <2>9, <1>3 DEF Wish
  <2>11. Proc!Changed(c, comp).enabled = comp.enabled /\ Proc!Changed(c, comp).values = v
    BY <2>2
  <2>12. WholeComp(id, Proc!Changed(c, comp))
    <3> HIDE DEF v, id
    <3> QED
      BY <2>2, <2>4, <2>11 DEF WholeComp, id
  <2> QED
    BY <2>10, <2>12
<1> QED
  BY <1>2, <1>3

(* A change to one component, written to a whole document.                 *)
LEMMA ComponentWritten ==
    ASSUME NEW doc, Whole(doc), NEW id \in Proc!Components, NEW comp, WholeComp(id, comp)
    PROVE  /\ Whole([doc EXCEPT !.components[id] = comp])
           /\ [doc EXCEPT !.components[id] = comp].components = [doc.components EXCEPT ![id] = comp]
<1> DEFINE new == [doc.components EXCEPT ![id] = comp]
           y == [doc EXCEPT !.components[id] = comp]
<1>1. /\ doc = [system |-> doc.system, components |-> doc.components]
      /\ doc.components = [i \in Proc!Components |-> doc.components[i]]
  BY DEF Whole, Proc!IsFile, WholeParts
<1>2. y = [system |-> doc.system, components |-> new]
  BY <1>1
<1>3. y.system = doc.system /\ y.components = new
  BY <1>2
<1>4. new = [i \in Proc!Components |-> new[i]] /\ new[id] = comp
      /\ \A i \in Proc!Components \ {id} : new[i] = doc.components[i]
  BY <1>1
<1>5. \A i \in Proc!Components : WholeComp(i, new[i])
  BY <1>4 DEF Whole, WholeParts
<1> HIDE DEF y, new
<1>6. Whole(y)
  BY <1>2, <1>3, <1>4, <1>5 DEF Whole, Proc!IsFile, WholeParts
<1> QED
  BY <1>3, <1>6 DEF y, new

(* A change to the system settings, written to a whole document.           *)
LEMMA SystemWritten ==
    ASSUME NEW doc, Whole(doc), NEW y,
           \/ y = [doc EXCEPT !.system.debug = TRUE] \/ y = [doc EXCEPT !.system.namespace = "b"]
    PROVE  Whole(y) /\ y.components = doc.components
<1>1. /\ doc = [system |-> doc.system, components |-> doc.components]
      /\ doc.system = [namespace |-> doc.system.namespace, debug |-> doc.system.debug]
      /\ doc.system.namespace # ""
  BY DEF Whole, Proc!IsFile
<1>2. PICK n, b : y = [system |-> [namespace |-> n, debug |-> b], components |-> doc.components] /\ n # ""
  <2>1. CASE y = [doc EXCEPT !.system.debug = TRUE]
    <3>1. y = [system |-> [namespace |-> doc.system.namespace, debug |-> TRUE], components |-> doc.components]
      BY <2>1, <1>1
    <3> QED
      BY <3>1, <1>1
  <2>2. CASE y = [doc EXCEPT !.system.namespace = "b"]
    <3>1. y = [system |-> [namespace |-> "b", debug |-> doc.system.debug], components |-> doc.components]
      BY <2>2, <1>1
    <3> QED
      BY <3>1
  <2> QED
    BY <2>1, <2>2
<1>3. /\ y.system = [namespace |-> n, debug |-> b] /\ y.components = doc.components
      /\ y.system.namespace = n /\ y.system.debug = b
  BY <1>2
<1> QED
  BY <1>2, <1>3 DEF Whole, Proc!IsFile

(* An absent file is a file but not a whole one.                           *)
LEMMA NoDocNotWhole == ~Whole(Proc!NoDoc) /\ Proc!IsFile(Proc!NoDoc)
BY DEF Proc!NoDoc, Whole, Proc!IsFile

(* The facts of the other calls.                                           *)
LEMMA OthersGood ==
    ASSUME FileInv, NEW c \in Calls, \A o \in Calls \ {c} : panelCall'[o] = panelCall[o],
           patchMu' = patchMu \/ patchMu \in {0, c}, Proc!DaemonAssumption,
           Proc!Saved'.components = Proc!Saved.components \/ patchMu = c
    PROVE  \A o \in Calls \ {c} : Good(o, panelCall'[o], patchMu', Proc!Saved'.components)
<1> SUFFICES ASSUME NEW o \in Calls \ {c} PROVE Good(o, panelCall'[o], patchMu', Proc!Saved'.components)
  OBVIOUS
<1>0. Good(o, panelCall[o], patchMu, Proc!Saved.components) /\ panelCall'[o] = panelCall[o] /\ o # 0
  BY DEF FileInv, Proc!DaemonAssumption
<1> HIDE DEF Proc!Saved
<1>1. CASE panelCall[o].at \in {"read", "load", "save"}
  <2>1. patchMu = o
    BY <1>0, <1>1 DEF Good
  <2>2. patchMu' = patchMu /\ Proc!Saved'.components = Proc!Saved.components
    BY <2>1, <1>0
  <2> QED
    BY <2>2, <1>0
<1>2. CASE panelCall[o].at \notin {"read", "load", "save"}
  BY <1>0, <1>2 DEF Good, Busy
<1> QED
  BY <1>1, <1>2

(* A step of call c that leaves the file.                                  *)
LEMMA CallMoves ==
    ASSUME FileInv, Proc!DaemonAssumption, NEW c \in Calls, NEW z, panelCall' = [panelCall EXCEPT ![c] = z],
           UNCHANGED <<disk, intended, blind>>, main'.phase = main.phase,
           patchMu' = patchMu \/ patchMu \in {0, c},
           Good(c, z, patchMu', Proc!Saved.components), main.phase = "off" => ~Busy(z)
    PROVE  FileInv'
<1>1. panelCall' = [o \in Calls |-> panelCall'[o]] /\ panelCall'[c] = z /\ \A o \in Calls \ {c} : panelCall'[o] = panelCall[o]
  BY DEF FileInv
<1>2. Proc!Saved' = Proc!Saved
  BY DEF Proc!Saved
<1>3. \A o \in Calls \ {c} : Good(o, panelCall'[o], patchMu', Proc!Saved'.components)
  BY <1>1, <1>2, OthersGood
<1>4. \A o \in Calls : Good(o, panelCall'[o], patchMu', Proc!Saved'.components)
  BY <1>1, <1>2, <1>3
<1> HIDE DEF Proc!Saved
<1>5. main'.phase = "off" => \A o \in Calls : ~Busy(panelCall'[o])
  BY <1>1 DEF FileInv
<1> QED
  BY <1>1, <1>2, <1>4, <1>5 DEF FileInv, Busy

(* Where a call may be in a process that runs.                             *)
LEMMA CallFacts ==
    ASSUME FileInv, NEW c \in Calls
    PROVE  /\ Good(c, panelCall[c], patchMu, Proc!Saved.components) /\ DOMAIN panelCall[c] = CallFields
           /\ Busy(panelCall[c]) => main.phase # "off" /\ Whole(Proc!Saved) /\ Proc!Saved = intended /\ disk # Proc!NoDoc
BY DEF FileInv, Good

(* A call that returned holds nothing.                                     *)
LEMMA DoneGood == ASSUME NEW c, NEW z, NEW mu, NEW comps, DOMAIN z = CallFields, z.at = "done"
                  PROVE  Good(c, z, mu, comps) /\ ~Busy(z)
BY DEF Good, Stages, Busy

(* View1 keeps FileInv.                                                    *)
LEMMA View1File == ASSUME Proc!DaemonAssumption, FileInv, NEW c \in Calls, Proc!View1(c) PROVE FileInv'
<1> DEFINE r == panelCall[c]
           z == [r EXCEPT !.at = "read", !.seen = Proc!Saved.components[r.edit.id]]
<1>0. /\ r.at = "view" /\ patchMu = 0 /\ patchMu' = c /\ UNCHANGED <<disk, intended, blind, main>>
      /\ Good(c, r, patchMu, Proc!Saved.components) /\ DOMAIN r = CallFields
  BY CallFacts DEF Proc!View1, Proc!At, Proc!File, Proc!fileVars
<1>1. main.phase # "off"
  BY <1>0, CallFacts DEF Busy
<1>2. panelCall' = [panelCall EXCEPT ![c] = z]
  BY DEF Proc!View1
<1>3. /\ DOMAIN z = CallFields /\ z.at = "read" /\ z.seen = Proc!Saved.components[r.edit.id]
      /\ z.edit = r.edit /\ z.kind = r.kind /\ z.versioned = r.versioned
  BY <1>0 DEF CallFields
<1> HIDE DEF z, r, Proc!Saved
<1>4. Good(c, z, c, Proc!Saved.components)
  BY <1>0, <1>3 DEF Good, Busy, Stages
<1> QED
  BY <1>0, <1>1, <1>2, <1>4, CallMoves

(* View2 keeps FileInv.                                                    *)
LEMMA View2File == ASSUME Proc!DaemonAssumption, FileInv, NEW c \in Calls, Proc!View2(c) PROVE FileInv'
<1> DEFINE r == panelCall[c]
           id == r.edit.id
           comp == Proc!Saved.components[id]
           shown == [comp EXCEPT !.values = Proc!PublicValues(id, comp.values)]
           z == [r EXCEPT !.at = "lock", !.doc = shown]
<1>0. /\ r.at = "read" /\ patchMu' = 0 /\ UNCHANGED <<disk, intended, blind, main>>
      /\ Good(c, r, patchMu, Proc!Saved.components) /\ DOMAIN r = CallFields
  BY CallFacts DEF Proc!View2, Proc!At, Proc!File, Proc!fileVars
<1>1. main.phase # "off" /\ Whole(Proc!Saved) /\ r.edit \in Edits
  BY <1>0, CallFacts DEF Busy, Good
<1>2. panelCall' = [panelCall EXCEPT ![c] = z]
  BY DEF Proc!View2
<1>3. /\ DOMAIN z = CallFields /\ z.at = "lock" /\ z.doc = shown /\ z.seen = r.seen
      /\ z.edit = r.edit /\ z.kind = r.kind /\ z.versioned = r.versioned
  BY <1>0 DEF CallFields
<1>4. id \in Proc!Components
  BY <1>1, EditFields
<1>5. WholeComp(id, comp)
  BY <1>1, <1>4 DEF Whole, WholeParts
<1>6. shown.enabled = comp.enabled /\ shown.values = Proc!PublicValues(id, comp.values)
  BY <1>5 DEF WholeComp
<1>7. \A f \in DOMAIN Proc!Schema[id] : ~Proc!Schema[id][f].secret => Proc!PublicValues(id, comp.values)[f] = comp.values[f]
  <2>1. DOMAIN comp.values = DOMAIN Proc!Schema[id]
    BY <1>5 DEF WholeComp, WholeValues
  <2> QED
    BY <2>1 DEF Proc!PublicValues
<1>8. Shown(id, comp, shown)
  BY <1>6, <1>7 DEF Shown
<1>9. r.seen = comp /\ patchMu = c
  BY <1>0 DEF Good
<1> HIDE DEF z, r, Proc!Saved, shown, comp, id
<1>10. Good(c, z, 0, Proc!Saved.components)
  BY <1>0, <1>3, <1>8, <1>9 DEF Good, Busy, Stages, Editing, id
<1> QED
  BY <1>0, <1>1, <1>2, <1>9, <1>10, CallMoves

(* Lock keeps FileInv.                                                     *)
LEMMA LockFile == ASSUME Proc!DaemonAssumption, FileInv, NEW c \in Calls, Proc!Lock(c) PROVE FileInv'
<1> DEFINE r == panelCall[c]
           z == [r EXCEPT !.at = IF Proc!Conflict(c) THEN "done" ELSE "load"]
<1>0. /\ r.at = "lock" /\ patchMu = 0 /\ UNCHANGED <<disk, intended, blind, main>>
      /\ Good(c, r, patchMu, Proc!Saved.components) /\ DOMAIN r = CallFields
      /\ patchMu' = IF Proc!Conflict(c) THEN 0 ELSE c
  BY CallFacts DEF Proc!Lock, Proc!At, Proc!File, Proc!fileVars
<1>1. main.phase # "off"
  BY <1>0, CallFacts DEF Busy
<1>2. panelCall' = [panelCall EXCEPT ![c] = z]
  BY DEF Proc!Lock, Proc!Step
<1>3. /\ DOMAIN z = CallFields /\ z.at = (IF Proc!Conflict(c) THEN "done" ELSE "load") /\ z.doc = r.doc
      /\ z.seen = r.seen /\ z.edit = r.edit /\ z.kind = r.kind /\ z.versioned = r.versioned
  BY <1>0 DEF CallFields
<1>4. ~Proc!Conflict(c) => (r.versioned => Proc!Saved.components[r.edit.id] = r.seen)
  BY DEF Proc!Conflict
<1> HIDE DEF z, r, Proc!Saved
<1>5. Good(c, z, patchMu', Proc!Saved.components)
  <2>1. CASE Proc!Conflict(c)
    BY <2>1, <1>3, DoneGood
  <2>2. CASE ~Proc!Conflict(c)
    BY <2>2, <1>0, <1>3, <1>4 DEF Good, Busy, Stages, Editing
  <2> QED
    BY <2>1, <2>2
<1> QED
  BY <1>0, <1>1, <1>2, <1>5, CallMoves

(* Load keeps FileInv.                                                     *)
LEMMA LoadFile == ASSUME Proc!DaemonAssumption, FileInv, NEW c \in Calls, Proc!Load(c) PROVE FileInv'
<1> DEFINE r == panelCall[c]
           id == r.edit.id
           comp == Proc!Saved.components[id]
           new == Proc!Changed(c, comp)
           y == [r EXCEPT !.at = "done"]
           z == [r EXCEPT !.at = "save", !.doc = new]
<1>0. /\ r.at = "load" /\ UNCHANGED <<disk, intended, blind, main>>
      /\ Good(c, r, patchMu, Proc!Saved.components) /\ DOMAIN r = CallFields
  BY CallFacts DEF Proc!Load, Proc!At, Proc!File, Proc!fileVars
<1>1. main.phase # "off" /\ Whole(Proc!Saved) /\ r.edit \in Edits /\ patchMu = c /\ r.kind \in Editing
  BY <1>0, CallFacts DEF Busy, Good
<1>2. WholeComp(id, comp)
  BY <1>1, EditFields DEF Whole, WholeParts
<1>3. CASE new.values = Proc!RefusedView
  <2>1. panelCall' = [panelCall EXCEPT ![c] = y] /\ patchMu' = 0
    BY <1>3 DEF Proc!Load, Proc!Step
  <2>2. DOMAIN y = CallFields /\ y.at = "done"
    BY <1>0 DEF CallFields
  <2> HIDE DEF y, Proc!Saved
  <2> QED
    BY <2>1, <2>2, <1>0, <1>1, DoneGood, CallMoves
<1>4. CASE new.values # Proc!RefusedView
  <2>1. panelCall' = [panelCall EXCEPT ![c] = z] /\ patchMu' = patchMu
    BY <1>4 DEF Proc!Load
  <2>2. /\ DOMAIN z = CallFields /\ z.at = "save" /\ z.doc = new
        /\ z.seen = r.seen /\ z.edit = r.edit /\ z.kind = r.kind /\ z.versioned = r.versioned
    BY <1>0 DEF CallFields
  <2>3. /\ r.kind # "field" => comp = r.seen /\ Shown(id, r.seen, r.doc)
        /\ r.kind = "toggle" => id # "range"
    BY <1>0 DEF Good, Busy
  <2>4. new = Wish(r, comp) /\ WholeComp(id, new)
    <3> HIDE DEF Proc!Saved, comp
    <3> QED
      BY <2>3, <1>1, <1>2, <1>4, ChangedIsWish
  <2>5. Wish(z, comp) = Wish(r, comp)
    <3> HIDE DEF z, r, comp
    <3> QED
      BY <2>2 DEF Wish
  <2> HIDE DEF z, r, Proc!Saved, new
  <2>6. Good(c, z, patchMu', Proc!Saved.components)
    BY <2>1, <2>2, <2>3, <2>4, <2>5, <1>0, <1>1 DEF Good, Busy, Stages, Editing
  <2> QED
    BY <2>1, <2>6, <1>0, <1>1, CallMoves
<1> QED
  BY <1>3, <1>4

(* What the caller wants of a document, in the same terms.                 *)
LEMMA IntentIsWish ==
    ASSUME Proc!DaemonAssumption, NEW c \in Calls, NEW doc, Whole(doc), panelCall[c].edit \in Edits, panelCall[c].kind \in Editing
    PROVE  Proc!Intent(c, doc) = [doc EXCEPT !.components[panelCall[c].edit.id] = Wish(panelCall[c], doc.components[panelCall[c].edit.id])]
<1> DEFINE e == panelCall[c].edit
           id == e.id
           comps == doc.components
           comp == comps[id]
           keeps == Proc!Schema[id][e.field].secret /\ e.value = ""
<1>0. id \in Proc!Components /\ e.field \in DOMAIN Proc!Schema[id]
  BY EditFields
<1>1. /\ doc = [system |-> doc.system, components |-> comps]
      /\ comps = [i \in Proc!Components |-> comps[i]]
      /\ WholeComp(id, comp)
  BY <1>0 DEF Whole, Proc!IsFile, WholeParts
<1>2. /\ comp = [enabled |-> comp.enabled, values |-> comp.values]
      /\ DOMAIN comp.values = DOMAIN Proc!Schema[id]
  BY <1>1 DEF WholeComp, WholeValues
<1>3. CASE panelCall[c].kind = "toggle"
  <2>1. Proc!Intent(c, doc) = [doc EXCEPT !.components[id].enabled = ~@]
    BY <1>3 DEF Proc!Intent
  <2>2. Proc!Intent(c, doc) = [doc EXCEPT !.components[id] = [comp EXCEPT !.enabled = ~comp.enabled]]
    BY <2>1, <1>0, <1>1, <1>2
  <2> QED
    BY <2>2, <1>3 DEF Wish
<1>4. CASE panelCall[c].kind # "toggle"
  <2>1. Proc!Intent(c, doc) = [doc EXCEPT !.components[id].values[e.field] = IF keeps THEN @ ELSE e.value]
    BY <1>4 DEF Proc!Intent, Editing
  <2>2. Proc!Intent(c, doc) = [doc EXCEPT !.components[id] = [comp EXCEPT !.values =
                             [comp.values EXCEPT ![e.field] = IF keeps THEN comp.values[e.field] ELSE e.value]]]
    BY <2>1, <1>0, <1>1, <1>2
  <2> QED
    BY <2>2, <1>4 DEF Wish
<1> QED
  BY <1>3, <1>4

(* A call that writes a whole document, the one that is wanted, and ends.  *)
LEMMA CallWrites ==
    ASSUME FileInv, Proc!DaemonAssumption, NEW c \in Calls, NEW z, panelCall' = [panelCall EXCEPT ![c] = z],
           DOMAIN z = CallFields, z.at = "done", NEW y, disk' = y, Whole(y), intended' = y, ~blind',
           main'.phase = main.phase, main.phase # "off", patchMu' = patchMu \/ patchMu \in {0, c},
           y.components = Proc!Saved.components \/ patchMu = c
    PROVE  FileInv'
<1>1. panelCall' = [o \in Calls |-> panelCall'[o]] /\ panelCall'[c] = z /\ \A o \in Calls \ {c} : panelCall'[o] = panelCall[o]
  BY DEF FileInv
<1>2. Proc!Saved' = y
  BY CompleteFixed DEF Proc!Saved
<1>3. \A o \in Calls \ {c} : Good(o, panelCall'[o], patchMu', Proc!Saved'.components)
  BY <1>1, <1>2, OthersGood
<1>4. \A o \in Calls : Good(o, panelCall'[o], patchMu', Proc!Saved'.components)
  BY <1>1, <1>3, DoneGood
<1>5. disk' # Proc!NoDoc /\ Proc!IsFile(disk')
  BY NoDocNotWhole DEF Whole
<1> HIDE DEF Proc!Saved
<1> QED
  BY <1>1, <1>2, <1>4, <1>5 DEF FileInv

(* Save keeps FileInv.                                                     *)
LEMMA SaveFile == ASSUME Proc!DaemonAssumption, FileInv, NEW c \in Calls, Proc!Save(c) PROVE FileInv'
<1> DEFINE r == panelCall[c]
           id == r.edit.id
           z == [r EXCEPT !.at = "done"]
           y == [Proc!Saved EXCEPT !.components[id] = r.doc]
<1>0. /\ r.at = "save" /\ patchMu' = 0 /\ UNCHANGED main
      /\ Good(c, r, patchMu, Proc!Saved.components) /\ DOMAIN r = CallFields
  BY CallFacts DEF Proc!Save, Proc!At
<1>1. main.phase # "off" /\ Whole(Proc!Saved) /\ Proc!Saved = intended /\ r.edit \in Edits /\ patchMu = c /\ r.kind \in Editing
  BY <1>0, CallFacts DEF Busy, Good
<1>2. panelCall' = [panelCall EXCEPT ![c] = z]
  BY DEF Proc!Save, Proc!Step
<1>3. DOMAIN z = CallFields /\ z.at = "done"
  BY <1>0 DEF CallFields
<1>4. r.doc = Wish(r, Proc!Saved.components[id]) /\ WholeComp(id, r.doc)
  BY <1>0 DEF Good
<1>5. id \in Proc!Components
  BY <1>1, EditFields
<1>6. Whole(y)
  BY <1>1, <1>4, <1>5, ComponentWritten
<1>7. Proc!Intent(c, intended) = y
  BY <1>1, <1>4, IntentIsWish
<1>8. ~Proc!Conflict(c)
  BY <1>0 DEF Proc!Conflict, Good, Busy
<1>9. \/ disk' = y /\ intended' = Proc!Intent(c, intended) /\ blind' = (blind \/ Proc!Conflict(c))
      \/ UNCHANGED <<disk, intended, blind>>
  BY DEF Proc!Save, Proc!Write, Proc!fileVars
<1>10. ~blind
  BY DEF FileInv
<1> HIDE DEF z, y, r, Proc!Saved
<1>11. CASE disk' = y /\ intended' = Proc!Intent(c, intended) /\ blind' = (blind \/ Proc!Conflict(c))
  BY <1>0, <1>1, <1>2, <1>3, <1>6, <1>7, <1>8, <1>10, <1>11, CallWrites
<1>12. CASE UNCHANGED <<disk, intended, blind>>
  BY <1>0, <1>1, <1>2, <1>3, <1>12, DoneGood, CallMoves
<1> QED
  BY <1>9, <1>11, <1>12

(* ReadSystem keeps FileInv.                                               *)
LEMMA ReadSystemFile == ASSUME Proc!DaemonAssumption, FileInv, NEW c \in Calls, Proc!ReadSystem(c) PROVE FileInv'
<1> DEFINE r == panelCall[c]
           z == [r EXCEPT !.at = "set", !.seen = Proc!Saved.system]
<1>0. /\ r.at = "system" /\ patchMu' = patchMu /\ UNCHANGED <<disk, intended, blind, main>>
      /\ Good(c, r, patchMu, Proc!Saved.components) /\ DOMAIN r = CallFields
  BY CallFacts DEF Proc!ReadSystem, Proc!At, Proc!fileVars
<1>1. main.phase # "off"
  BY <1>0, CallFacts DEF Busy
<1>2. panelCall' = [panelCall EXCEPT ![c] = z]
  BY DEF Proc!ReadSystem
<1>3. /\ DOMAIN z = CallFields /\ z.at = "set"
      /\ z.edit = r.edit /\ z.kind = r.kind /\ z.versioned = r.versioned
  BY <1>0 DEF CallFields
<1> HIDE DEF z, r, Proc!Saved
<1>4. Good(c, z, patchMu', Proc!Saved.components)
  BY <1>0, <1>3 DEF Good, Busy, Stages
<1> QED
  BY <1>0, <1>1, <1>2, <1>4, CallMoves

(* SetSystem keeps FileInv.                                                *)
LEMMA SetSystemFile == ASSUME Proc!DaemonAssumption, FileInv, NEW c \in Calls, Proc!SetSystem(c) PROVE FileInv'
<1> DEFINE r == panelCall[c]
           z == [r EXCEPT !.at = "done"]
           y == [Proc!Saved EXCEPT !.system.debug = TRUE]
<1>0. /\ r.at = "set" /\ patchMu' = patchMu /\ UNCHANGED <<blind, main>>
      /\ Good(c, r, patchMu, Proc!Saved.components) /\ DOMAIN r = CallFields /\ r.kind = "system"
  BY CallFacts DEF Proc!SetSystem, Proc!At, Good
<1>1. main.phase # "off" /\ Whole(Proc!Saved) /\ Proc!Saved = intended
  BY <1>0, CallFacts DEF Busy, Good
<1>2. panelCall' = [panelCall EXCEPT ![c] = z]
  BY DEF Proc!SetSystem, Proc!Step
<1>3. DOMAIN z = CallFields /\ z.at = "done"
  BY <1>0 DEF CallFields
<1>4. Proc!Intent(c, intended) = y
  BY <1>0, <1>1 DEF Proc!Intent
<1>5. Whole(y) /\ y.components = Proc!Saved.components
  BY <1>1, SystemWritten
<1>6. (disk' = y /\ intended' = Proc!Intent(c, intended)) \/ UNCHANGED <<disk, intended>>
  BY DEF Proc!SetSystem, Proc!Write
<1>7. ~blind
  BY DEF FileInv
<1> HIDE DEF z, y, r, Proc!Saved
<1>8. CASE disk' = y /\ intended' = Proc!Intent(c, intended)
  BY <1>0, <1>1, <1>2, <1>3, <1>4, <1>5, <1>7, <1>8, CallWrites
<1>9. CASE UNCHANGED <<disk, intended>>
  BY <1>0, <1>1, <1>2, <1>3, <1>9, DoneGood, CallMoves
<1> QED
  BY <1>6, <1>8, <1>9

(* Current keeps FileInv.                                                  *)
LEMMA CurrentFile == ASSUME Proc!DaemonAssumption, FileInv, NEW c \in Calls, Proc!Current(c) PROVE FileInv'
<1> DEFINE r == panelCall[c]
           refused == (\E o \in Calls : Proc!At(o, "select")) \/ instance.namespace = "b"
           z == [r EXCEPT !.at = IF refused THEN "done" ELSE "select", !.seen = instance]
<1>0. /\ r.at = "current" /\ patchMu' = patchMu /\ UNCHANGED <<disk, intended, blind, main>>
      /\ Good(c, r, patchMu, Proc!Saved.components) /\ DOMAIN r = CallFields
  BY CallFacts DEF Proc!Current, Proc!At, Proc!fileVars
<1>1. main.phase # "off"
  BY <1>0, CallFacts DEF Busy
<1>2. panelCall' = [panelCall EXCEPT ![c] = z]
  BY DEF Proc!Current
<1>3. /\ DOMAIN z = CallFields /\ z.at = (IF refused THEN "done" ELSE "select") /\ z.seen = instance
      /\ z.edit = r.edit /\ z.kind = r.kind /\ z.versioned = r.versioned
  BY <1>0 DEF CallFields
<1> HIDE DEF z, r, Proc!Saved
<1>4. Good(c, z, patchMu', Proc!Saved.components)
  <2>1. CASE refused
    BY <2>1, <1>3, DoneGood
  <2>2. CASE ~refused
    BY <2>2, <1>0, <1>3 DEF Good, Busy, Stages
  <2> QED
    BY <2>1, <2>2
<1> QED
  BY <1>0, <1>1, <1>2, <1>4, CallMoves

(* Select keeps FileInv.                                                   *)
LEMMA SelectFile == ASSUME Proc!DaemonAssumption, FileInv, NEW c \in Calls, Proc!Select(c) PROVE FileInv'
<1> DEFINE r == panelCall[c]
           z == [r EXCEPT !.at = "done"]
           y == [Proc!Saved EXCEPT !.system.namespace = "b"]
<1>0. /\ r.at = "select" /\ patchMu' = patchMu /\ UNCHANGED <<blind, main>>
      /\ Good(c, r, patchMu, Proc!Saved.components) /\ DOMAIN r = CallFields /\ r.kind = "switch"
  BY CallFacts DEF Proc!Select, Proc!At, Good
<1>1. main.phase # "off" /\ Whole(Proc!Saved) /\ Proc!Saved = intended
  BY <1>0, CallFacts DEF Busy, Good
<1>2. panelCall' = [panelCall EXCEPT ![c] = z]
  BY DEF Proc!Select, Proc!Step
<1>3. DOMAIN z = CallFields /\ z.at = "done"
  BY <1>0 DEF CallFields
<1>4. Proc!Intent(c, intended) = y
  BY <1>0, <1>1 DEF Proc!Intent
<1>5. Whole(y) /\ y.components = Proc!Saved.components
  BY <1>1, SystemWritten
<1>6. (disk' = y /\ intended' = Proc!Intent(c, intended)) \/ UNCHANGED <<disk, intended>>
  BY DEF Proc!Select, Proc!Write
<1>7. ~blind
  BY DEF FileInv
<1> HIDE DEF z, y, r, Proc!Saved
<1>8. CASE disk' = y /\ intended' = Proc!Intent(c, intended)
  BY <1>0, <1>1, <1>2, <1>3, <1>4, <1>5, <1>7, <1>8, CallWrites
<1>9. CASE UNCHANGED <<disk, intended>>
  BY <1>0, <1>1, <1>2, <1>3, <1>9, DoneGood, CallMoves
<1> QED
  BY <1>6, <1>8, <1>9

(* Abort keeps FileInv.                                                    *)
LEMMA AbortFile == ASSUME Proc!DaemonAssumption, FileInv, NEW c \in Calls, Proc!Abort(c) PROVE FileInv'
<1> DEFINE r == panelCall[c]
           z == [r EXCEPT !.at = "done"]
<1>0. /\ UNCHANGED <<disk, intended, blind, main>> /\ DOMAIN r = CallFields
      /\ patchMu' = patchMu \/ patchMu = c
  BY CallFacts DEF Proc!Abort, Proc!fileVars
<1>2. panelCall' = [panelCall EXCEPT ![c] = z]
  BY DEF Proc!Abort, Proc!Step
<1>3. DOMAIN z = CallFields /\ z.at = "done"
  BY <1>0 DEF CallFields
<1> HIDE DEF z, r, Proc!Saved
<1> QED
  BY <1>0, <1>2, <1>3, DoneGood, CallMoves

(* Begin keeps FileInv.                                                    *)
LEMMA BeginFile ==
    ASSUME Proc!DaemonAssumption, FileInv, main.phase # "off", NEW k \in Proc!Kinds, NEW e \in Edits, Proc!Begin(k, e) PROVE FileInv'
<1> DEFINE at == IF k = "toggle" /\ e.id = "range" THEN "done" ELSE Proc!First(k)
           z == [Proc!NoCall EXCEPT !.at = at, !.kind = k, !.edit = e, !.versioned = k \in {"form", "toggle"}]
<1>0. UNCHANGED <<disk, intended, blind, main, patchMu>>
  BY DEF Proc!Begin, Proc!fileVars
<1>1. panelCall' = [panelCall EXCEPT ![Proc!Next1(Proc!Idle)] = z]
  BY DEF Proc!Begin
<1>2. CASE Proc!Next1(Proc!Idle) \in Calls
  <2>0. PICK v : v = (k \in {"form", "toggle"})
    BY Zenon
  <2>1. z = [at |-> at, kind |-> k, edit |-> e, seen |-> <<>>, versioned |-> v, doc |-> <<>>]
    <3> HIDE DEF at
    <3>1. z = [Proc!NoCall EXCEPT !.at = at, !.kind = k, !.edit = e, !.versioned = v]
      BY <2>0
    <3> HIDE DEF z
    <3> QED
      BY <3>1 DEF Proc!NoCall
  <2>2. v <=> k \in {"form", "toggle"}
    BY <2>0
  <2>3. DOMAIN z = CallFields /\ z.at = at /\ z.kind = k /\ z.edit = e /\ z.versioned = v
    BY <2>1 DEF CallFields
  <2>4. PICK c \in Calls : c = Proc!Next1(Proc!Idle)
    BY <1>2
  <2>5. panelCall' = [panelCall EXCEPT ![c] = z]
    BY <2>4, <1>1
  <2>6. at \in {"done", "view", "lock", "system", "current"} /\ (at = "lock" => k = "field") /\ (at = "view" => k \in {"form", "toggle"})
        /\ (at = "system" => k = "system") /\ (at = "current" => k = "switch") /\ (at # "done" => ~(k = "toggle" /\ e.id = "range"))
    BY DEF Proc!First, Proc!Kinds
  <2> HIDE DEF z, at, Proc!Saved
  <2>7. Good(c, z, patchMu', Proc!Saved.components)
    BY <2>2, <2>3, <2>6 DEF Good, Busy, Stages, Editing
  <2> QED
    BY <2>5, <2>7, <1>0, CallMoves
<1>3. CASE Proc!Next1(Proc!Idle) \notin Calls
  <2>1. panelCall' = panelCall
    BY <1>1, <1>3 DEF FileInv
  <2> QED
    BY <2>1, <1>0 DEF FileInv, Proc!Saved
<1> QED
  BY <1>2, <1>3

-----------------------------------------------------------------------------
(* The process, its executable and the requests to end it *)

ProcRec == [active : BOOLEAN, live : {0, 1}, wait : BOOLEAN, cancelled : BOOLEAN, tries : Nat, ready : BOOLEAN]
DRec == [phase : {"off", "booted", "web", "up", "drain", "stopping", "left"}, launch : BOOLEAN, cancelled : BOOLEAN,
         closing : BOOLEAN, version : Nat, failed : BOOLEAN, todo : SUBSET Proc!Units, busy : BOOLEAN]
AskRec == [at : {"idle", "download", "first", "second", "done"}, kind : {"", "reboot", "update", "reset"}]
FlagRec == [reboot : BOOLEAN, plan : BOOLEAN, reset : BOOLEAN]
Asked(r) == r.at \notin {"idle", "done"}

(* An invocation runs exactly while its process counts as active, and only *)
(* then is it ready or waiting for another attempt.                        *)
GoodProc(u, p) ==
    /\ p \in ProcRec /\ p.live = (IF p.active THEN 1 ELSE 0)
    /\ p.wait => p.active /\ u = "bot"
    /\ p.ready => p.active

(* A phase after the cancellation, and what is over in it: transitions     *)
(* before anything is stopped, and the stopped units, unless a stop failed.*)
GoodD(x, ts, tn, ps) ==
    /\ x \in DRec
    /\ x.phase \in {"drain", "stopping", "left"} => x.closing /\ x.cancelled
    /\ x.phase \in {"off", "stopping", "left"} => ts = {} /\ tn = Proc!NoTurn
    /\ x.phase = "stopping" => \A u \in Proc!Units \ x.todo : ~ps[u].active \/ x.failed
    /\ x.phase = "left" => \A u \in Proc!Units : ~ps[u].active \/ x.failed
    /\ x.phase = "off" => \A u \in Proc!Units : ~ps[u].active

LifeInv ==
    /\ proc = [u \in Proc!Units |-> proc[u]] /\ \A u \in Proc!Units : GoodProc(u, proc[u])
    /\ GoodD(main, transitions, turn, proc)
    /\ ask \in [Proc!Requesters -> AskRec] /\ ending \in FlagRec
    /\ Proc!Handling => proc["panel"].active
    /\ main.phase = "off" => (\A r \in Proc!Requesters : ask[r].at = "idle") /\ ending = Proc!NoFlags

(* A plan has a downloaded executable; the helper runs only between two    *)
(* processes, and before each of its renames there is what it renames.     *)
UpdateInv ==
    /\ exe = [target |-> exe.target, backup |-> exe.backup, source |-> exe.source]
    /\ main.phase # "off" => exe.target # "none" /\ helper \in {"none", "dead"}
    /\ helper \notin {"none", "dead"} => ~main.launch
    /\ helper \in {"none", "clear", "backup", "tidy"} => exe.target # "none"
    /\ helper = "install" => exe.backup # "none"
    /\ helper \in {"clear", "backup", "install"} => exe.source # "none"
    /\ exe.target # "none" \/ exe.backup # "none"
    /\ helper \in {"none", "dead", "clear", "backup", "install", "tidy"}
    /\ ending.plan => exe.source # "none"
    /\ \A r \in Proc!Requesters : ask[r].at \in {"first", "second"} /\ ask[r].kind = "update" => exe.source # "none"

(* While no two requests wrote at once, one that is between its writes has *)
(* made the first of them, and else the flags are those of the last.       *)
RequestInv ==
    /\ owed = "reset" => ending.reset
    /\ \A r \in Proc!Requesters : ask[r].at = "second" /\ ask[r].kind = "reset" => ending.reset
    /\ ask["switch"].at # "idle" => instance.namespace = "b"
    /\ owed # "either" =>
          /\ \A r, q \in Proc!Requesters : ask[r].at = "second" /\ ask[q].at = "second" => r = q
          /\ \A r \in Proc!Requesters : ask[r].at = "second" /\ ask[r].kind = "reboot" => ending.reboot
          /\ (\A r \in Proc!Requesters : ask[r].at # "second") =>
                /\ owed = "reboot" => ending.reboot /\ ~ending.plan
                /\ owed = "update" => ending.plan

DaemonInv == FileInv /\ LifeInv /\ UpdateInv /\ RequestInv

(* A unit without a process is in order.                                   *)
LEMMA NoProcGood == \A u \in Proc!Units : GoodProc(u, Proc!NoProc) /\ Proc!NoProc \in ProcRec /\ ~Proc!NoProc.active
BY DEF GoodProc, Proc!NoProc, ProcRec

(* What the panel handles depends on its calls and requests alone.         *)
LEMMA HandlingFrame == ASSUME UNCHANGED <<panelCall, ask>> PROVE Proc!Handling' = Proc!Handling
BY DEF Proc!Handling

(* A step of one process, or of the transition that starts it.             *)
LEMMA ProcMoves ==
    ASSUME LifeInv, NEW u \in Proc!Units, NEW z, proc' = [proc EXCEPT ![u] = z], GoodProc(u, z),
           UNCHANGED <<transitions, ask, ending, panelCall>>, main' = main \/ (main' \in DRec /\ main'.phase = "web"),
           z.active => proc[u].active \/ main.phase \notin {"off", "stopping", "left"},
           u = "panel" /\ Proc!Handling => z.active,
           turn' = turn \/ main.phase \notin {"off", "stopping", "left"}
    PROVE  LifeInv'
<1>1. proc' = [v \in Proc!Units |-> proc'[v]] /\ proc'[u] = z /\ \A v \in Proc!Units \ {u} : proc'[v] = proc[v]
  BY DEF LifeInv
<1>2. \A v \in Proc!Units : GoodProc(v, proc'[v])
  BY <1>1 DEF LifeInv
<1>3. \A v \in Proc!Units : proc'[v].active => proc[v].active \/ main.phase \notin {"off", "stopping", "left"}
  BY <1>1
<1>4. GoodD(main', transitions, turn', proc')
  BY <1>3 DEF LifeInv, GoodD
<1>5. Proc!Handling' => proc'["panel"].active
  <2>1. "panel" \in Proc!Units
    BY DEF Proc!Units
  <2> QED
    BY <2>1, <1>1, HandlingFrame DEF LifeInv
<1> QED
  BY <1>1, <1>2, <1>4, <1>5 DEF LifeInv

(* A step of the process as a whole.                                       *)
LEMMA DMoves ==
    ASSUME LifeInv, UNCHANGED <<proc, ask, ending, panelCall>>, GoodD(main', transitions', turn', proc), main'.phase = "off" => main.phase = "off"
    PROVE  LifeInv'
<1>1. Proc!Handling' => proc'["panel"].active
  BY HandlingFrame DEF LifeInv
<1> QED
  BY <1>1 DEF LifeInv

(* A step of a call, while the panel runs.                                 *)
LEMMA CallLife ==
    ASSUME LifeInv, UNCHANGED <<proc, ask, ending, main, transitions, turn>>, proc["panel"].active
    PROVE  LifeInv'
BY DEF LifeInv

(* A step of a call that is being handled.                                 *)
LEMMA HandledLife ==
    ASSUME LifeInv, UNCHANGED <<proc, ask, ending, main, transitions, turn>>, NEW c \in Calls, panelCall[c].at \notin {"idle", "done"}
    PROVE  LifeInv'
BY CallLife DEF LifeInv, Proc!Handling

(* Starting a unit keeps LifeInv while the process is neither off nor      *)
(* stopping.                                                               *)
LEMMA StartLife ==
    ASSUME LifeInv, NEW u \in Proc!Units, Proc!Start(u), UNCHANGED <<transitions, ask, ending, panelCall>>,
           main' = main \/ (main' \in DRec /\ main'.phase = "web"),
           main.phase \notin {"off", "stopping", "left"}
    PROVE  LifeInv'
<1> DEFINE n == proc[u].live + 1
           z == [Proc!NoProc EXCEPT !.active = TRUE, !.live = n]
<1>1. CASE proc[u].active \/ main.cancelled
  <2>1. proc' = [proc EXCEPT ![u] = proc[u]]
    BY <1>1 DEF Proc!Start, LifeInv
  <2>2. GoodProc(u, proc[u])
    BY DEF LifeInv
  <2>3. u = "panel" /\ Proc!Handling => proc[u].active
    BY DEF LifeInv
  <2> QED
    BY <2>1, <2>2, <2>3, ProcMoves
<1>2. CASE ~(proc[u].active \/ main.cancelled)
  <2>1. proc' = [proc EXCEPT ![u] = z]
    BY <1>2 DEF Proc!Start
  <2>2. n = 1
    BY <1>2 DEF LifeInv, GoodProc
  <2> HIDE DEF n
  <2>3. z \in ProcRec /\ z.active = TRUE /\ z.live = n /\ z.wait = FALSE /\ z.ready = FALSE
    BY <2>2 DEF Proc!NoProc, ProcRec
  <2> HIDE DEF z
  <2>4. GoodProc(u, z)
    BY <2>2, <2>3 DEF GoodProc
  <2> QED
    BY <2>1, <2>3, <2>4, ProcMoves
<1> QED
  BY <1>1, <1>2

(* The end of an invocation.                                               *)
LEMMA EndedLife ==
    ASSUME LifeInv, NEW u \in Proc!Units, proc' = Proc!Ended(u), UNCHANGED <<main, transitions, turn, ask, ending, panelCall>>,
           proc[u].active, u = "panel" => ~Proc!Handling
    PROVE  LifeInv'
<1> DEFINE p == proc[u]
           n == p.live - 1
           z == [p EXCEPT !.active = FALSE, !.live = n, !.wait = FALSE, !.ready = FALSE]
<1>0. proc = [v \in Proc!Units |-> proc[v]] /\ p \in ProcRec /\ GoodProc(u, p)
  BY DEF LifeInv, GoodProc
<1>1. proc' = [proc EXCEPT ![u] = z]
  BY <1>0 DEF Proc!Ended
<1>2. n = 0
  BY <1>0 DEF GoodProc
<1>3. z \in ProcRec /\ z.active = FALSE /\ z.live = 0 /\ z.wait = FALSE /\ z.ready = FALSE
  BY <1>0, <1>2 DEF ProcRec
<1>4. GoodProc(u, z)
  <2> HIDE DEF z
  <2> QED
    BY <1>3 DEF GoodProc
<1> HIDE DEF z, p
<1> QED
  BY <1>1, <1>3, <1>4, ProcMoves

(* Return keeps LifeInv.                                                   *)
LEMMA ReturnLife == ASSUME LifeInv, NEW u \in Proc!Units, Proc!Return(u) PROVE LifeInv'
BY EndedLife DEF Proc!Return, Proc!turnVars, Proc!callVars, Proc!askVars

(* Fail keeps LifeInv.                                                     *)
LEMMA FailLife == ASSUME LifeInv, NEW u \in Proc!Units, Proc!Fail(u) PROVE LifeInv'
<1>0. UNCHANGED <<main, transitions, turn, ask, ending, panelCall>> /\ proc[u].active /\ (u = "panel" => ~Proc!Handling)
  BY DEF Proc!Fail, Proc!turnVars, Proc!callVars, Proc!askVars
<1>1. CASE proc' = Proc!Ended(u)
  BY <1>0, <1>1, EndedLife
<1>2. CASE u = "bot" /\ proc' = [proc EXCEPT ![u].wait = TRUE, ![u].tries = @ + 1]
  <2> DEFINE p == proc[u]
             n == p.tries + 1
             z == [p EXCEPT !.wait = TRUE, !.tries = n]
  <2>0. proc = [v \in Proc!Units |-> proc[v]] /\ p \in ProcRec /\ GoodProc(u, p)
    BY DEF LifeInv, GoodProc
  <2>1. proc' = [proc EXCEPT ![u] = z]
    BY <2>0, <1>2
  <2>2. n \in Nat
    BY <2>0 DEF ProcRec
  <2> HIDE DEF n
  <2>3. z \in ProcRec /\ z.active = p.active /\ z.live = p.live /\ z.wait = TRUE /\ z.ready = p.ready
    BY <2>0, <2>2 DEF ProcRec
  <2> HIDE DEF z
  <2>4. GoodProc(u, z) /\ z.active
    BY <2>0, <2>3, <1>0, <1>2 DEF GoodProc
  <2> QED
    BY <2>1, <2>3, <2>4, <1>0, <1>2, ProcMoves
<1> QED
  BY <1>1, <1>2 DEF Proc!Fail

(* Retry keeps LifeInv.                                                    *)
LEMMA RetryLife == ASSUME LifeInv, NEW u \in Proc!Units, Proc!Retry(u) PROVE LifeInv'
<1>0. /\ UNCHANGED <<main, transitions, turn, ask, ending, panelCall>> /\ proc[u].wait
      /\ proc[u].active /\ u = "bot"
  BY DEF Proc!Retry, Proc!turnVars, Proc!callVars, Proc!askVars, LifeInv, GoodProc
<1>1. CASE Proc!Cancelled(u)
  BY <1>0, <1>1, EndedLife DEF Proc!Retry
<1>2. CASE ~Proc!Cancelled(u)
  <2> DEFINE p == proc[u]
             z == [p EXCEPT !.wait = FALSE]
  <2>0. proc = [v \in Proc!Units |-> proc[v]] /\ p \in ProcRec /\ GoodProc(u, p)
    BY DEF LifeInv, GoodProc
  <2>1. proc' = [proc EXCEPT ![u] = z]
    BY <2>0, <1>2 DEF Proc!Retry
  <2>3. z \in ProcRec /\ z.active = p.active /\ z.live = p.live /\ z.wait = FALSE /\ z.ready = p.ready
    BY <2>0 DEF ProcRec
  <2> HIDE DEF z
  <2>4. GoodProc(u, z) /\ z.active
    BY <2>0, <2>3, <1>0 DEF GoodProc
  <2> QED
    BY <2>1, <2>3, <2>4, <1>0, ProcMoves
<1> QED
  BY <1>1, <1>2

(* The cancellation of an invocation leaves it active.                     *)
LEMMA StopLife ==
    ASSUME LifeInv, NEW u \in Proc!Units, Proc!Stop(u), UNCHANGED <<main, transitions, turn, ask, ending, panelCall>> PROVE LifeInv'
<1> DEFINE p == proc[u]
           z == [p EXCEPT !.cancelled = TRUE]
<1>0. proc = [v \in Proc!Units |-> proc[v]] /\ p \in ProcRec /\ GoodProc(u, p) /\ (Proc!Handling => proc["panel"].active)
  BY DEF LifeInv, GoodProc
<1>1. proc' = [proc EXCEPT ![u] = z]
  BY <1>0 DEF Proc!Stop
<1>2. z \in ProcRec /\ z.active = p.active /\ z.live = p.live /\ z.wait = p.wait /\ z.ready = p.ready
  BY <1>0 DEF ProcRec
<1> HIDE DEF z
<1>3. GoodProc(u, z)
  BY <1>0, <1>2 DEF GoodProc
<1> QED
  BY <1>0, <1>1, <1>2, <1>3, ProcMoves

(* ControlStart and ControlStop keep LifeInv.                              *)
LEMMA ControlLife == ASSUME LifeInv, Proc!ControlStart \/ Proc!ControlStop PROVE LifeInv'
<1>0. UNCHANGED <<main, transitions, turn, ask, ending, panelCall>> /\ "bot" \in Proc!Units /\ main.phase = "up"
  BY DEF Proc!ControlStart, Proc!ControlStop, Proc!turnVars, Proc!callVars, Proc!askVars, Proc!Units
<1>1. CASE Proc!ControlStart
  BY <1>0, <1>1, StartLife DEF Proc!ControlStart
<1>2. CASE Proc!ControlStop
  BY <1>0, <1>2, StopLife DEF Proc!ControlStop
<1> QED
  BY <1>1, <1>2

(* PanelReady keeps LifeInv.                                               *)
LEMMA PanelReadyLife == ASSUME LifeInv, Proc!PanelReady PROVE LifeInv'
<1> DEFINE p == proc["panel"]
           z == [p EXCEPT !.ready = TRUE]
<1>0. proc = [v \in Proc!Units |-> proc[v]] /\ p \in ProcRec /\ GoodProc("panel", p) /\ "panel" \in Proc!Units
  BY DEF LifeInv, GoodProc, Proc!Units
<1>1. proc' = [proc EXCEPT !["panel"] = z] /\ p.active /\ UNCHANGED <<main, transitions, turn, ask, ending, panelCall>>
  BY <1>0 DEF Proc!PanelReady, Proc!turnVars, Proc!callVars, Proc!askVars
<1>2. z \in ProcRec /\ z.active = p.active /\ z.live = p.live /\ z.wait = p.wait /\ z.ready = TRUE
  BY <1>0 DEF ProcRec
<1> HIDE DEF z
<1>3. GoodProc("panel", z)
  BY <1>0, <1>1, <1>2 DEF GoodProc
<1> QED
  BY <1>0, <1>1, <1>2, <1>3, ProcMoves

(* StartWebUI keeps LifeInv.                                               *)
LEMMA StartWebUILife == ASSUME LifeInv, Proc!StartWebUI PROVE LifeInv'
<1>0. /\ UNCHANGED <<transitions, turn, ask, ending, panelCall>> /\ "panel" \in Proc!Units /\ main.phase = "booted"
      /\ main' = [main EXCEPT !.phase = "web"] /\ main \in DRec
  BY DEF Proc!StartWebUI, Proc!turnVars, Proc!callVars, Proc!askVars, Proc!Units, LifeInv, GoodD
<1>1. main' \in DRec /\ main'.phase = "web"
  BY <1>0 DEF DRec
<1>2. CASE Proc!Start("panel")
  BY <1>0, <1>1, <1>2, StartLife
<1>3. CASE UNCHANGED proc
  BY <1>0, <1>1, <1>3, DMoves DEF GoodD
<1> QED
  BY <1>2, <1>3 DEF Proc!StartWebUI

(* ApplyConfig keeps LifeInv.                                              *)
LEMMA ApplyConfigLife == ASSUME LifeInv, Proc!ApplyConfig PROVE LifeInv'
<1> DEFINE n == main.version + 1
<1>0. UNCHANGED <<proc, turn, ask, ending, panelCall>> /\ main.phase = "web" /\ main \in DRec
  BY DEF Proc!ApplyConfig, Proc!procVars, Proc!callVars, Proc!askVars, LifeInv, GoodD
<1>1. n \in Nat
  BY <1>0 DEF DRec
<1>2. main' = [main EXCEPT !.phase = "up"] \/ main' = [main EXCEPT !.phase = "up", !.version = n]
  BY DEF Proc!ApplyConfig
<1> HIDE DEF n
<1>3. main' \in DRec /\ main'.phase = "up"
  BY <1>0, <1>1, <1>2 DEF DRec
<1> QED
  BY <1>0, <1>3, DMoves DEF GoodD

(* LoginSucceeds keeps LifeInv.                                            *)
LEMMA LoginSucceedsLife == ASSUME LifeInv, Proc!LoginSucceeds PROVE LifeInv'
<1>0. UNCHANGED <<proc, turn, ask, ending, panelCall, main>> /\ proc["panel"].ready /\ (main.closing => transitions' = transitions)
  BY DEF Proc!LoginSucceeds, Proc!procVars, Proc!callVars, Proc!askVars
<1>1. proc["panel"].active /\ "panel" \in Proc!Units
  BY <1>0 DEF LifeInv, GoodProc, Proc!Units
<1>2. main.phase # "off"
  BY <1>1 DEF LifeInv, GoodD
<1> QED
  BY <1>0, <1>2, DMoves DEF GoodD, LifeInv

(* TurnBegins keeps LifeInv.                                               *)
LEMMA TurnBeginsLife == ASSUME LifeInv, NEW t \in transitions, Proc!TurnBegins(t) PROVE LifeInv'
<1>0. UNCHANGED <<proc, ask, ending, panelCall, main>>
  BY DEF Proc!TurnBegins, Proc!procVars, Proc!callVars, Proc!askVars
<1>1. main.phase \notin {"off", "stopping", "left"}
  BY DEF LifeInv, GoodD
<1> QED
  BY <1>0, <1>1, DMoves DEF GoodD, LifeInv

(* TurnEnds keeps LifeInv.                                                 *)
LEMMA TurnEndsLife == ASSUME LifeInv, Proc!TurnEnds PROVE LifeInv'
<1>0. UNCHANGED <<proc, ask, ending, panelCall, main>> /\ turn # Proc!NoTurn
  BY DEF Proc!TurnEnds, Proc!procVars, Proc!callVars, Proc!askVars
<1>1. main.phase \notin {"off", "stopping", "left"}
  BY <1>0 DEF LifeInv, GoodD
<1> QED
  BY <1>0, <1>1, DMoves DEF GoodD, LifeInv

(* TurnStep keeps LifeInv.                                                 *)
LEMMA TurnStepLife == ASSUME LifeInv, Proc!TurnStep PROVE LifeInv'
<1>0. UNCHANGED <<transitions, ask, ending, panelCall, main>> /\ turn # Proc!NoTurn
  BY DEF Proc!TurnStep, Proc!callVars, Proc!askVars, Proc!NoTurn
<1>1. main.phase \notin {"off", "stopping", "left"}
  BY <1>0 DEF LifeInv, GoodD
<1>2. \/ UNCHANGED proc
      \/ \E u \in Proc!Units : Proc!Start(u)
      \/ Proc!Stop("watch") /\ UNCHANGED turn
  BY DEF Proc!TurnStep, Proc!Starting, Proc!Units
<1>3. CASE UNCHANGED proc
  BY <1>0, <1>1, <1>3, DMoves DEF GoodD, LifeInv
<1>4. CASE \E u \in Proc!Units : Proc!Start(u)
  BY <1>0, <1>1, <1>4, StartLife
<1>5. CASE Proc!Stop("watch") /\ UNCHANGED turn
  BY <1>0, <1>5, StopLife DEF Proc!Units
<1> QED
  BY <1>2, <1>3, <1>4, <1>5

(* The process that is off, with and without a launch ahead.               *)
LEMMA OffFacts == /\ Proc!Off \in DRec /\ Proc!Off.phase = "off" /\ Proc!Off.launch = FALSE
                  /\ \A b \in BOOLEAN : [Proc!Off EXCEPT !.launch = b] \in DRec /\ [Proc!Off EXCEPT !.launch = b].phase = "off"
                                        /\ [Proc!Off EXCEPT !.launch = b].launch = b
                  /\ [Proc!Off EXCEPT !.phase = "booted"] \in DRec /\ [Proc!Off EXCEPT !.phase = "booted"].phase = "booted"
                  /\ [Proc!Off EXCEPT !.phase = "booted"].launch = FALSE
BY DEF Proc!Off, DRec

(* Boot keeps LifeInv.                                                     *)
LEMMA BootLife == ASSUME LifeInv, Proc!Boot PROVE LifeInv'
<1>0. /\ UNCHANGED <<proc, turn, transitions, ask, ending, panelCall>> /\ main.phase = "off"
      /\ main' = Proc!Off \/ main' = [Proc!Off EXCEPT !.phase = "booted"]
  BY DEF Proc!Boot, Proc!procVars, Proc!callVars, Proc!askVars, Proc!turnVars
<1>1. main' \in DRec /\ main'.phase \in {"off", "booted"}
  BY <1>0, OffFacts
<1> QED
  BY <1>0, <1>1, DMoves DEF GoodD, LifeInv

(* Signal keeps LifeInv.                                                   *)
LEMMA SignalLife == ASSUME LifeInv, Proc!Signal PROVE LifeInv'
<1>0. /\ UNCHANGED <<proc, turn, transitions, ask, ending, panelCall>> /\ main \in DRec
      /\ main' = [main EXCEPT !.cancelled = TRUE]
  BY DEF Proc!Signal, Proc!procVars, Proc!callVars, Proc!askVars, Proc!turnVars, LifeInv, GoodD
<1>1. /\ main' \in DRec /\ main'.phase = main.phase /\ main'.cancelled = TRUE /\ main'.closing = main.closing
      /\ main'.todo = main.todo /\ main'.failed = main.failed
  BY <1>0 DEF DRec
<1> QED
  BY <1>0, <1>1, DMoves DEF GoodD, LifeInv

(* Closing keeps LifeInv.                                                  *)
LEMMA ClosingLife == ASSUME LifeInv, Proc!Closing PROVE LifeInv'
<1> DEFINE n == main.version + 1
<1>0. UNCHANGED <<proc, turn, transitions, ask, ending, panelCall>> /\ main.phase = "up" /\ main.cancelled /\ main \in DRec
  BY DEF Proc!Closing, Proc!procVars, Proc!callVars, Proc!askVars, Proc!turnVars, LifeInv, GoodD
<1>1. n \in Nat
  BY <1>0 DEF DRec
<1>2. main' = [main EXCEPT !.phase = "drain", !.closing = TRUE, !.version = n]
  BY DEF Proc!Closing
<1> HIDE DEF n
<1>3. main' \in DRec /\ main'.phase = "drain" /\ main'.closing = TRUE /\ main'.cancelled = main.cancelled
  BY <1>0, <1>1, <1>2 DEF DRec
<1> QED
  BY <1>0, <1>3, DMoves DEF GoodD

(* Drained keeps LifeInv.                                                  *)
LEMMA DrainedLife == ASSUME LifeInv, Proc!Drained PROVE LifeInv'
<1>0. /\ UNCHANGED <<proc, turn, transitions, ask, ending, panelCall>> /\ main.phase = "drain" /\ main \in DRec
      /\ transitions = {} /\ turn = Proc!NoTurn /\ main' = [main EXCEPT !.phase = "stopping", !.todo = Proc!Units]
  BY DEF Proc!Drained, Proc!procVars, Proc!callVars, Proc!askVars, Proc!turnVars, LifeInv, GoodD
<1>1. /\ main' \in DRec /\ main'.phase = "stopping" /\ main'.closing = main.closing /\ main'.cancelled = main.cancelled /\ main'.todo = Proc!Units
  BY <1>0 DEF DRec
<1> QED
  BY <1>0, <1>1, DMoves DEF GoodD, LifeInv

(* StopUnit keeps LifeInv.                                                 *)
LEMMA StopUnitLife == ASSUME LifeInv, NEW u \in Proc!Units, Proc!StopUnit(u) PROVE LifeInv'
<1> DEFINE s == main.todo \ {u}
<1>0. UNCHANGED <<turn, transitions, ask, ending, panelCall>> /\ main.phase = "stopping" /\ main \in DRec
  BY DEF Proc!StopUnit, Proc!callVars, Proc!askVars, Proc!turnVars, LifeInv, GoodD
<1>1. s \in SUBSET Proc!Units
  BY <1>0 DEF DRec
<1>2. CASE Proc!Stop(u) /\ UNCHANGED main
  BY <1>0, <1>2, StopLife
<1>3. CASE ~proc[u].active /\ main' = [main EXCEPT !.todo = @ \ {u}] /\ UNCHANGED proc
  <2>1. main' = [main EXCEPT !.todo = s]
    BY <1>3
  <2> HIDE DEF s
  <2>2. /\ main' \in DRec /\ main'.phase = main.phase /\ main'.closing = main.closing /\ main'.cancelled = main.cancelled
        /\ main'.todo = s /\ main'.failed = main.failed
    BY <2>1, <1>0, <1>1 DEF DRec
  <2> QED
    BY <2>2, <1>0, <1>3, DMoves DEF GoodD, LifeInv, s
<1>4. CASE main' = [main EXCEPT !.todo = @ \ {u}, !.failed = TRUE] /\ UNCHANGED proc
  <2>1. main' = [main EXCEPT !.todo = s, !.failed = TRUE]
    BY <1>4
  <2> HIDE DEF s
  <2>2. /\ main' \in DRec /\ main'.phase = main.phase /\ main'.closing = main.closing /\ main'.cancelled = main.cancelled
        /\ main'.todo = s /\ main'.failed = TRUE
    BY <2>1, <1>0, <1>1 DEF DRec
  <2> QED
    BY <2>2, <1>0, <1>4, DMoves DEF GoodD, LifeInv
<1> QED
  BY <1>2, <1>3, <1>4 DEF Proc!StopUnit

(* Left keeps LifeInv.                                                     *)
LEMMA LeftLife == ASSUME LifeInv, Proc!Left PROVE LifeInv'
<1>0. /\ UNCHANGED <<proc, turn, transitions, ask, ending, panelCall>> /\ main.phase = "stopping" /\ main \in DRec
      /\ main.todo = {} /\ main' = [main EXCEPT !.phase = "left"]
  BY DEF Proc!Left, Proc!procVars, Proc!callVars, Proc!askVars, Proc!turnVars, LifeInv, GoodD
<1>1. /\ main' \in DRec /\ main'.phase = "left" /\ main'.closing = main.closing /\ main'.cancelled = main.cancelled /\ main'.failed = main.failed
  BY <1>0 DEF DRec
<1> QED
  BY <1>0, <1>1, DMoves DEF GoodD, LifeInv

(* A launch that is ordered keeps LifeInv.                                 *)
LEMMA LaunchLife == ASSUME LifeInv, main \in DRec, main' = [main EXCEPT !.launch = TRUE], UNCHANGED <<proc, turn, transitions, ask, ending, panelCall>>
                    PROVE  LifeInv'
<1>1. /\ main' \in DRec /\ main'.phase = main.phase /\ main'.closing = main.closing /\ main'.cancelled = main.cancelled
      /\ main'.failed = main.failed /\ main'.todo = main.todo
  BY DEF DRec
<1> QED
  BY <1>1, DMoves DEF GoodD, LifeInv

(* A step of a request.                                                    *)
LEMMA AskMoves ==
    ASSUME LifeInv, UNCHANGED <<proc, transitions, turn>>, NEW r \in Proc!Requesters, NEW z \in AskRec, ask' = [ask EXCEPT ![r] = z],
           ending' \in FlagRec, GoodD(main', transitions, turn, proc), main'.phase # "off",
           proc["panel"].active \/ (UNCHANGED panelCall /\ (r = "bot" \/ ~Asked(z)))
    PROVE  LifeInv'
<1>1. ask' \in [Proc!Requesters -> AskRec] /\ ask'[r] = z /\ \A q \in Proc!Requesters \ {r} : ask'[q] = ask[q]
  BY DEF LifeInv
<1>2. Proc!Handling' => proc["panel"].active
  <2>1. "panel" \in Proc!Requesters /\ "switch" \in Proc!Requesters
    BY DEF Proc!Requesters
  <2>2. CASE UNCHANGED panelCall /\ (r = "bot" \/ ~Asked(z))
    BY <2>1, <2>2, <1>1 DEF LifeInv, Proc!Handling, Asked
  <2> QED
    BY <2>2
<1> QED
  BY <1>1, <1>2 DEF LifeInv

(* Whoever is asked runs.                                                  *)
LEMMA AskedRuns ==
    ASSUME LifeInv, NEW r \in Proc!Requesters, Asked(ask[r])
    PROVE  main.phase # "off" /\ main \in DRec /\ (r # "bot" => proc["panel"].active)
BY DEF LifeInv, Asked, Proc!Handling, Proc!Requesters, GoodD

(* A unit is active only in a process that runs.                           *)
LEMMA ActiveRuns == ASSUME LifeInv, NEW u \in Proc!Units, proc[u].active PROVE main.phase # "off" /\ main \in DRec
BY DEF LifeInv, GoodD

(* The busy flag is no part of what LifeInv says of the process.           *)
LEMMA BusyFrame ==
    ASSUME LifeInv, NEW b \in BOOLEAN, main' = [main EXCEPT !.busy = b]
    PROVE  GoodD(main', transitions, turn, proc) /\ main'.phase = main.phase /\ main'.launch = main.launch
<1>1. main \in DRec
  BY DEF LifeInv, GoodD
<1>2. /\ main' \in DRec /\ main'.phase = main.phase /\ main'.closing = main.closing /\ main'.cancelled = main.cancelled
      /\ main'.failed = main.failed /\ main'.todo = main.todo /\ main'.launch = main.launch
  BY <1>1 DEF DRec
<1> QED
  BY <1>2 DEF LifeInv, GoodD

(* Nor is the cancelled context.                                           *)
LEMMA CancelFrame ==
    ASSUME LifeInv, main' = [main EXCEPT !.cancelled = TRUE]
    PROVE  GoodD(main', transitions, turn, proc) /\ main'.phase = main.phase /\ main'.launch = main.launch
<1>1. main \in DRec
  BY DEF LifeInv, GoodD
<1>2. /\ main' \in DRec /\ main'.phase = main.phase /\ main'.closing = main.closing /\ main'.cancelled = TRUE
      /\ main'.failed = main.failed /\ main'.todo = main.todo /\ main'.launch = main.launch
  BY <1>1 DEF DRec
<1> QED
  BY <1>2 DEF LifeInv, GoodD

(* AskBot keeps LifeInv.                                                   *)
LEMMA AskBotLife == ASSUME LifeInv, Proc!AskBot PROVE LifeInv'
<1>0. /\ UNCHANGED <<proc, transitions, turn, ending, main, panelCall>> /\ proc["bot"].active
      /\ "bot" \in Proc!Units /\ "bot" \in Proc!Requesters
  BY DEF Proc!AskBot, Proc!procVars, Proc!turnVars, Proc!callVars, Proc!Units, Proc!Requesters
<1>1. PICK k \in {"reboot", "update"} : Proc!Asking("bot", k)
  BY DEF Proc!AskBot
<1> DEFINE z == [at |-> IF k = "update" THEN "download" ELSE "first", kind |-> k]
<1>2. ask' = [ask EXCEPT !["bot"] = z] /\ z \in AskRec
  BY <1>1 DEF Proc!Asking, AskRec
<1> HIDE DEF z
<1>3. main.phase # "off" /\ GoodD(main, transitions, turn, proc) /\ ending \in FlagRec
  BY <1>0, ActiveRuns DEF LifeInv
<1> QED
  BY <1>0, <1>2, <1>3, AskMoves

(* AskPanel keeps LifeInv.                                                 *)
LEMMA AskPanelLife == ASSUME LifeInv, Proc!AskPanel PROVE LifeInv'
<1>0. /\ UNCHANGED <<proc, transitions, turn, ending, panelCall>> /\ proc["panel"].active
      /\ "panel" \in Proc!Units /\ "panel" \in Proc!Requesters /\ main' = [main EXCEPT !.busy = TRUE]
  BY DEF Proc!AskPanel, Proc!procVars, Proc!turnVars, Proc!callVars, Proc!Units, Proc!Requesters
<1>1. PICK k \in {"reboot", "update", "reset"} : Proc!Asking("panel", k)
  BY DEF Proc!AskPanel
<1> DEFINE z == [at |-> IF k = "update" THEN "download" ELSE "first", kind |-> k]
<1>2. ask' = [ask EXCEPT !["panel"] = z] /\ z \in AskRec
  BY <1>1 DEF Proc!Asking, AskRec
<1> HIDE DEF z
<1>3. main'.phase # "off" /\ GoodD(main', transitions, turn, proc) /\ ending \in FlagRec
  BY <1>0, ActiveRuns, BusyFrame DEF LifeInv
<1> QED
  BY <1>0, <1>2, <1>3, AskMoves

(* Download keeps LifeInv.                                                 *)
LEMMA DownloadLife == ASSUME LifeInv, NEW r \in Proc!Requesters, Proc!Download(r) PROVE LifeInv'
<1> DEFINE x == ask[r]
           z == [x EXCEPT !.at = "first"]
<1>0. /\ UNCHANGED <<proc, transitions, turn, ending, panelCall>> /\ x.at = "download"
      /\ ask = [q \in Proc!Requesters |-> ask[q]] /\ x \in AskRec
  BY DEF Proc!Download, Proc!procVars, Proc!turnVars, Proc!callVars, LifeInv
<1>1. main.phase # "off" /\ (r # "bot" => proc["panel"].active)
  BY <1>0, AskedRuns DEF Asked
<1>2. main' = main \/ main' = [main EXCEPT !.busy = FALSE]
  BY DEF Proc!Download
<1>3. main'.phase # "off" /\ GoodD(main', transitions, turn, proc) /\ ending \in FlagRec
  <2>1. CASE main' = main
    BY <2>1, <1>1 DEF LifeInv
  <2>2. CASE main' = [main EXCEPT !.busy = FALSE]
    BY <2>2, <1>1, BusyFrame DEF LifeInv
  <2> QED
    BY <2>1, <2>2, <1>2
<1>4. ask' = [ask EXCEPT ![r] = z] \/ ask' = [ask EXCEPT ![r] = Proc!NoAsk]
  BY <1>0 DEF Proc!Download
<1>5. z \in AskRec /\ Proc!NoAsk \in AskRec
  BY <1>0 DEF AskRec, Proc!NoAsk
<1> HIDE DEF z, x
<1> QED
  BY <1>0, <1>1, <1>3, <1>4, <1>5, AskMoves

(* FirstWrite and SecondWrite keep LifeInv.                                *)
LEMMA WriteLife == ASSUME LifeInv, NEW r \in Proc!Requesters, Proc!FirstWrite(r) \/ Proc!SecondWrite(r) PROVE LifeInv'
<1> DEFINE x == ask[r]
           s == [x EXCEPT !.at = "second"]
           e == [x EXCEPT !.at = "done"]
<1>0. /\ UNCHANGED <<proc, transitions, turn, panelCall>> /\ Asked(x)
      /\ ask = [q \in Proc!Requesters |-> ask[q]] /\ x \in AskRec /\ ending \in FlagRec
  BY DEF Proc!FirstWrite, Proc!SecondWrite, Proc!procVars, Proc!turnVars, Proc!callVars, LifeInv, Asked
<1>1. main.phase # "off" /\ (r # "bot" => proc["panel"].active) /\ GoodD(main, transitions, turn, proc)
  BY <1>0, AskedRuns DEF LifeInv
<1>2. ending' \in FlagRec
  <2>1. \/ ending' = ending \/ ending' = [ending EXCEPT !.reboot = TRUE] \/ ending' = [ending EXCEPT !.reboot = FALSE]
        \/ ending' = [ending EXCEPT !.reset = TRUE] \/ ending' = [ending EXCEPT !.plan = TRUE] \/ ending' = [ending EXCEPT !.plan = FALSE]
    BY DEF Proc!FirstWrite, Proc!SecondWrite
  <2> QED
    BY <2>1, <1>0 DEF FlagRec
<1>3. main'.phase # "off" /\ GoodD(main', transitions, turn, proc)
  BY <1>1, CancelFrame DEF Proc!FirstWrite, Proc!SecondWrite
<1>4. ask' = [ask EXCEPT ![r] = s] \/ ask' = [ask EXCEPT ![r] = e]
  BY <1>0 DEF Proc!FirstWrite, Proc!SecondWrite
<1>5. s \in AskRec /\ e \in AskRec
  BY <1>0 DEF AskRec
<1> HIDE DEF s, e, x
<1> QED
  BY <1>0, <1>1, <1>2, <1>3, <1>4, <1>5, AskMoves

(* Select keeps LifeInv.                                                   *)
LEMMA SelectLife == ASSUME LifeInv, NEW c \in Calls, Proc!Select(c) PROVE LifeInv'
<1> DEFINE z == [at |-> "first", kind |-> "reboot"]
<1>0. /\ UNCHANGED <<proc, transitions, turn, ending, main>> /\ panelCall[c].at = "select"
      /\ "switch" \in Proc!Requesters /\ z \in AskRec /\ "panel" \in Proc!Units
      /\ GoodD(main, transitions, turn, proc) /\ ending \in FlagRec
  BY DEF Proc!Select, Proc!procVars, Proc!turnVars, Proc!At, Proc!Requesters, Proc!Units, AskRec, LifeInv
<1>1. proc["panel"].active
  BY <1>0 DEF LifeInv, Proc!Handling
<1>2. main.phase # "off"
  BY <1>0, <1>1, ActiveRuns
<1>3. ask' = [ask EXCEPT !["switch"] = z] \/ UNCHANGED ask
  BY DEF Proc!Select
<1> HIDE DEF z
<1>4. CASE ask' = [ask EXCEPT !["switch"] = z]
  BY <1>0, <1>1, <1>2, <1>4, AskMoves
<1>5. CASE UNCHANGED ask
  BY <1>0, <1>1, <1>5, CallLife
<1> QED
  BY <1>3, <1>4, <1>5

(* Gone keeps LifeInv.                                                     *)
LEMMA GoneLife == ASSUME LifeInv, NEW b \in BOOLEAN, Proc!Gone(b) PROVE LifeInv'
<1>0. /\ main' = [Proc!Off EXCEPT !.launch = b] /\ transitions' = {} /\ turn' = Proc!NoTurn
      /\ proc' = [u \in Proc!Units |-> Proc!NoProc] /\ ask' = [r \in Proc!Requesters |-> Proc!NoAsk] /\ ending' = Proc!NoFlags
  BY DEF Proc!Gone
<1>1. main' \in DRec /\ main'.phase = "off"
  BY <1>0, OffFacts
<1>2. proc' = [u \in Proc!Units |-> proc'[u]] /\ \A u \in Proc!Units : proc'[u] = Proc!NoProc
  BY <1>0
<1>3. \A u \in Proc!Units : GoodProc(u, proc'[u]) /\ ~proc'[u].active
  BY <1>2, NoProcGood
<1>4. GoodD(main', transitions', turn', proc')
  BY <1>0, <1>1, <1>3 DEF GoodD
<1>5. Proc!NoAsk \in AskRec /\ Proc!NoAsk.at = "idle" /\ Proc!NoFlags \in FlagRec
  BY DEF Proc!NoAsk, AskRec, Proc!NoFlags, FlagRec
<1>6. ask' \in [Proc!Requesters -> AskRec] /\ \A r \in Proc!Requesters : ask'[r].at = "idle"
  BY <1>0, <1>5
<1>7. ~Proc!Handling'
  <2>1. panelCall' = [c \in Calls |-> IF panelCall[c].at = "idle" THEN Proc!NoCall ELSE [Proc!NoCall EXCEPT !.at = "done"]]
    BY DEF Proc!Gone
  <2>2. Proc!NoCall.at = "idle" /\ [Proc!NoCall EXCEPT !.at = "done"].at = "done"
    BY DEF Proc!NoCall
  <2>3. \A c \in Calls : panelCall'[c].at \in {"idle", "done"}
    BY <2>1, <2>2
  <2>4. "panel" \in Proc!Requesters /\ "switch" \in Proc!Requesters
    BY DEF Proc!Requesters
  <2> QED
    BY <2>3, <2>4, <1>6 DEF Proc!Handling
<1> QED
  BY <1>0, <1>2, <1>3, <1>4, <1>5, <1>6, <1>7 DEF LifeInv

-----------------------------------------------------------------------------
(* The other parts under these steps *)

(* What leaves the file and the calls alone keeps FileInv.                 *)
LEMMA FileFrame ==
    ASSUME FileInv, UNCHANGED <<disk, intended, blind, panelCall, patchMu>>, main'.phase = "off" <=> main.phase = "off" PROVE FileInv'
<1>1. Proc!Saved' = Proc!Saved
  BY DEF Proc!Saved
<1> HIDE DEF Proc!Saved
<1> QED
  BY <1>1 DEF FileInv, Busy

(* What leaves the executable, its helper and the requests alone keeps     *)
(* UpdateInv.                                                              *)
LEMMA UpdateFrame ==
    ASSUME UpdateInv, UNCHANGED <<helper, exe, ending, ask>>, main' = main \/ (main.phase # "off" /\ main'.phase # "off") PROVE UpdateInv'
BY DEF UpdateInv

(* What leaves the requests alone keeps RequestInv.                        *)
LEMMA RequestFrame == ASSUME RequestInv, UNCHANGED <<ask, ending, owed, instance>> PROVE RequestInv'
BY DEF RequestInv

(* What a step of the processes and transitions leaves alone.              *)
aside == <<Proc!fileVars, Proc!callVars, Proc!memory, Proc!askVars, Proc!updateVars>>
(* A step of the units keeps the three other invariants.                   *)
LEMMA AsideKeeps ==
    ASSUME DaemonInv, UNCHANGED aside, main' = main \/ (main.phase # "off" /\ main'.phase # "off")
    PROVE  FileInv' /\ UpdateInv' /\ RequestInv'
<1>1. UNCHANGED <<disk, intended, blind, panelCall, patchMu, instance, ask, ending, owed, helper, exe>>
  BY DEF aside, Proc!fileVars, Proc!callVars, Proc!memory, Proc!askVars, Proc!updateVars
<1> QED
  BY <1>1, FileFrame, UpdateFrame, RequestFrame DEF DaemonInv

(* These steps are taken by a process that runs and goes on running.       *)
LEMMA RunningPhases ==
    ASSUME LifeInv,
           \/ Proc!StartWebUI \/ Proc!ApplyConfig \/ Proc!Signal \/ Proc!Closing \/ Proc!Drained \/ Proc!Left
           \/ \E u \in Proc!Units : Proc!StopUnit(u)
    PROVE  main.phase # "off" /\ main'.phase # "off" /\ UNCHANGED aside
<1>0. main \in DRec
  BY DEF LifeInv, GoodD
<1>1. UNCHANGED aside
  BY DEF Proc!StartWebUI, Proc!ApplyConfig, Proc!Signal, Proc!Closing, Proc!Drained, Proc!Left, Proc!StopUnit, aside
<1>2. CASE Proc!StartWebUI
  BY <1>0, <1>1, <1>2 DEF Proc!StartWebUI, DRec
<1>3. CASE Proc!ApplyConfig
  BY <1>0, <1>1, <1>3 DEF Proc!ApplyConfig, DRec
<1>4. CASE Proc!Signal
  BY <1>0, <1>1, <1>4, CancelFrame DEF Proc!Signal, Proc!Up
<1>5. CASE Proc!Closing
  BY <1>0, <1>1, <1>5 DEF Proc!Closing, DRec
<1>6. CASE Proc!Drained
  BY <1>0, <1>1, <1>6 DEF Proc!Drained, DRec
<1>7. CASE Proc!Left
  BY <1>0, <1>1, <1>7 DEF Proc!Left, DRec
<1>8. CASE \E u \in Proc!Units : Proc!StopUnit(u)
  BY <1>0, <1>1, <1>8 DEF Proc!StopUnit, DRec
<1> QED
  BY <1>2, <1>3, <1>4, <1>5, <1>6, <1>7, <1>8

(* The steps of the running process and of its units keep DaemonInv.       *)
LEMMA ProcessKeeps ==
    ASSUME DaemonInv,
           \/ Proc!StartWebUI \/ Proc!ApplyConfig \/ Proc!Signal \/ Proc!Closing \/ Proc!Drained \/ Proc!Left
           \/ Proc!ControlStart \/ Proc!ControlStop \/ Proc!PanelReady \/ Proc!LoginSucceeds \/ Proc!TurnStep \/ Proc!TurnEnds
           \/ \E t \in transitions : Proc!TurnBegins(t)
           \/ \E u \in Proc!Units : Proc!Return(u) \/ Proc!Retry(u) \/ Proc!StopUnit(u) \/ Proc!Fail(u) \/ Proc!Hang(u)
    PROVE  DaemonInv'
<1>0. LifeInv
  BY DEF DaemonInv
<1>1. CASE Proc!StartWebUI \/ Proc!ApplyConfig \/ Proc!Signal \/ Proc!Closing \/ Proc!Drained \/ Proc!Left
  <2>1. main.phase # "off" /\ main'.phase # "off" /\ UNCHANGED aside
    BY <1>0, <1>1, RunningPhases
  <2>2. FileInv' /\ UpdateInv' /\ RequestInv'
    BY <2>1, AsideKeeps
  <2>3. LifeInv'
    BY <1>0, <1>1, StartWebUILife, ApplyConfigLife, SignalLife, ClosingLife, DrainedLife, LeftLife
  <2> QED
    BY <2>2, <2>3 DEF DaemonInv
<1>2. ASSUME NEW u \in Proc!Units, Proc!StopUnit(u) PROVE DaemonInv'
  <2>1. main.phase # "off" /\ main'.phase # "off" /\ UNCHANGED aside
    BY <1>0, <1>2, RunningPhases
  <2>2. FileInv' /\ UpdateInv' /\ RequestInv'
    BY <2>1, AsideKeeps
  <2>3. LifeInv'
    BY <1>0, <1>2, StopUnitLife
  <2> QED
    BY <2>2, <2>3 DEF DaemonInv
<1>3. ASSUME Proc!ControlStart \/ Proc!ControlStop \/ Proc!PanelReady \/ Proc!LoginSucceeds \/ Proc!TurnStep \/ Proc!TurnEnds PROVE DaemonInv'
  <2>1. UNCHANGED aside /\ UNCHANGED main
    BY <1>3 DEF Proc!ControlStart, Proc!ControlStop, Proc!PanelReady, Proc!LoginSucceeds, Proc!TurnStep, Proc!TurnEnds, aside
  <2>2. FileInv' /\ UpdateInv' /\ RequestInv'
    BY <2>1, AsideKeeps
  <2>3. LifeInv'
    BY <1>0, <1>3, ControlLife, PanelReadyLife, LoginSucceedsLife, TurnStepLife, TurnEndsLife
  <2> QED
    BY <2>2, <2>3 DEF DaemonInv
<1>4. ASSUME NEW t \in transitions, Proc!TurnBegins(t) PROVE DaemonInv'
  <2>1. UNCHANGED aside /\ UNCHANGED main
    BY <1>4 DEF Proc!TurnBegins, aside
  <2>2. FileInv' /\ UpdateInv' /\ RequestInv'
    BY <2>1, AsideKeeps
  <2>3. LifeInv'
    BY <1>0, <1>4, TurnBeginsLife
  <2> QED
    BY <2>2, <2>3 DEF DaemonInv
<1>5. ASSUME NEW u \in Proc!Units, Proc!Return(u) \/ Proc!Retry(u) \/ Proc!Fail(u) \/ Proc!Hang(u) PROVE DaemonInv'
  <2>1. UNCHANGED aside /\ UNCHANGED main
    BY <1>5 DEF Proc!Return, Proc!Retry, Proc!Fail, Proc!Hang, aside
  <2>2. FileInv' /\ UpdateInv' /\ RequestInv'
    BY <2>1, AsideKeeps
  <2>3. CASE Proc!Hang(u)
    <3>1. UNCHANGED <<proc, ask, ending, panelCall, transitions, turn>>
      BY <2>3 DEF Proc!Hang, Proc!askVars, Proc!callVars, Proc!turnVars
    <3>2. LifeInv'
      BY <3>1, <2>1, <1>0, DMoves DEF LifeInv
    <3> QED
      BY <3>2, <2>2 DEF DaemonInv
  <2>4. CASE Proc!Return(u) \/ Proc!Retry(u) \/ Proc!Fail(u)
    BY <2>2, <2>4, <1>0, ReturnLife, RetryLife, FailLife DEF DaemonInv
  <2> QED
    BY <2>3, <2>4, <1>5
<1> QED
  BY <1>1, <1>2, <1>3, <1>4, <1>5

(* Starts and ends of the process *)

(* A call that is idle or returned holds nothing.                          *)
LEMMA IdleGood == ASSUME NEW c, NEW z, NEW mu, NEW comps, DOMAIN z = CallFields, z.at \in {"idle", "done"}
                  PROVE  Good(c, z, mu, comps) /\ ~Busy(z)
BY DEF Good, Stages, Busy

(* DaemonAssumption keeps DaemonInv.                                       *)
LEMMA BootKeeps == ASSUME DaemonInv, Proc!DaemonAssumption, Proc!Boot PROVE DaemonInv'
<1>0. LifeInv /\ FileInv /\ UpdateInv /\ RequestInv
  BY DEF DaemonInv
<1>1. /\ UNCHANGED <<panelCall, patchMu, ask, ending, owed, helper, exe, blind>> /\ main.phase = "off" /\ main.launch /\ exe.target # "none"
  BY DEF Proc!Boot, Proc!callVars, Proc!askVars, Proc!updateVars
<1>2. LifeInv'
  BY <1>0, BootLife
<1>3. main' = Proc!Off \/ main' = [Proc!Off EXCEPT !.phase = "booted"]
  BY DEF Proc!Boot
<1>4. ~main'.launch
  BY <1>3, OffFacts
<1>5. UpdateInv'
  BY <1>0, <1>1, <1>4 DEF UpdateInv
<1>6. \A r \in Proc!Requesters : ask[r].at = "idle"
  BY <1>0, <1>1 DEF LifeInv
<1>7. RequestInv'
  BY <1>0, <1>1, <1>6 DEF RequestInv, Proc!Requesters
<1>8. FileInv'
  <2>1. CASE Proc!Opened = Proc!Refused
    <3>1. UNCHANGED <<disk, intended>> /\ main' = Proc!Off
      BY <2>1 DEF Proc!Boot
    <3>2. main'.phase = "off"
      BY <3>1, OffFacts
    <3> QED
      BY <3>1, <3>2, <1>0, <1>1, FileFrame
  <2>2. CASE Proc!Opened # Proc!Refused
    <3>1. main' = [Proc!Off EXCEPT !.phase = "booted"] /\ IF disk = Proc!NoDoc THEN disk' = Proc!Opened /\ intended' = Proc!Opened ELSE UNCHANGED <<disk, intended>>
      BY <2>2 DEF Proc!Boot
    <3>2. main'.phase # "off"
      BY <3>1, OffFacts
    <3>3. ASSUME NEW comps PROVE \A c \in Calls : Good(c, panelCall[c], patchMu, comps)
      <4>1. \A c \in Calls : DOMAIN panelCall[c] = CallFields /\ ~Busy(panelCall[c])
        BY <1>0, <1>1 DEF FileInv, Good
      <4> QED
        BY <4>1, IdleGood DEF Busy
    <3>4. disk' # Proc!NoDoc /\ Proc!IsFile(disk') /\ Whole(Proc!Saved') /\ Proc!Saved' = intended'
      <4>1. CASE disk = Proc!NoDoc
        <5>1. disk' = Proc!Defaults /\ intended' = Proc!Defaults
          BY <4>1, <3>1 DEF Proc!Opened
        <5>2. Proc!Saved' = Proc!Defaults
          BY <5>1, DefaultsWhole, CompleteFixed DEF Proc!Saved
        <5> QED
          BY <5>1, <5>2, DefaultsWhole, NoDocNotWhole DEF Whole
      <4>2. CASE disk # Proc!NoDoc
        <5>1. Proc!Saved # Proc!Refused /\ Proc!Saved' = Proc!Saved
          BY <4>2, <3>1, <2>2 DEF Proc!Opened, Proc!Saved
        <5>2. Whole(Proc!Saved)
          BY <5>1, <1>0, CompleteWhole DEF Proc!Saved, FileInv
        <5> HIDE DEF Proc!Saved
        <5> QED
          BY <5>1, <5>2, <4>2, <3>1, <1>0 DEF FileInv
      <4> QED
        BY <4>1, <4>2
    <3>5. panelCall' = [c \in Calls |-> panelCall'[c]]
      BY <1>0, <1>1 DEF FileInv
    <3>6. \A c \in Calls : Good(c, panelCall'[c], patchMu', Proc!Saved'.components)
      BY <3>3, <1>1
    <3> HIDE DEF Proc!Saved
    <3> QED
      BY <3>2, <3>4, <3>5, <3>6, <1>0, <1>1 DEF FileInv
  <2> QED
    BY <2>1, <2>2
<1> QED
  BY <1>2, <1>5, <1>7, <1>8 DEF DaemonInv

(* The end of the process, by itself or by a crash.                        *)
LEMMA GoneFile ==
    ASSUME FileInv, NEW b \in BOOLEAN, Proc!Gone(b), UNCHANGED blind,
           UNCHANGED <<disk, intended>> \/ disk' = Proc!NoDoc
    PROVE  FileInv'
<1>1. /\ panelCall' = [c \in Calls |-> IF panelCall[c].at = "idle" THEN Proc!NoCall ELSE [Proc!NoCall EXCEPT !.at = "done"]]
      /\ main' = [Proc!Off EXCEPT !.launch = b]
  BY DEF Proc!Gone
<1>2. main'.phase = "off"
  BY <1>1, OffFacts
<1>3. /\ DOMAIN Proc!NoCall = CallFields /\ Proc!NoCall.at = "idle"
      /\ DOMAIN [Proc!NoCall EXCEPT !.at = "done"] = CallFields /\ [Proc!NoCall EXCEPT !.at = "done"].at = "done"
  BY DEF Proc!NoCall, CallFields
<1>4. panelCall' = [c \in Calls |-> panelCall'[c]] /\ \A c \in Calls : DOMAIN panelCall'[c] = CallFields /\ panelCall'[c].at \in {"idle", "done"}
  BY <1>1, <1>3
<1>5. \A c \in Calls : Good(c, panelCall'[c], patchMu', Proc!Saved'.components) /\ ~Busy(panelCall'[c])
  BY <1>4, IdleGood
<1>6. Proc!IsFile(disk') /\ (disk' # Proc!NoDoc => Proc!Saved' = intended')
  BY NoDocNotWhole DEF FileInv, Proc!Saved
<1> HIDE DEF Proc!Saved
<1> QED
  BY <1>2, <1>4, <1>5, <1>6 DEF FileInv

(* The end of a process, orderly or not, keeps DaemonInv.                  *)
LEMMA GoneKeeps ==
    ASSUME DaemonInv, main.phase # "off", NEW b \in BOOLEAN, Proc!Gone(b), UNCHANGED <<blind, exe>>, owed' = "nothing",
           UNCHANGED <<disk, intended>> \/ disk' = Proc!NoDoc,
           helper' = helper \/ (helper' = "clear" /\ ending.plan /\ ~b)
    PROVE  DaemonInv'
<1>0. LifeInv /\ FileInv /\ UpdateInv /\ RequestInv
  BY DEF DaemonInv
<1>1. main' = [Proc!Off EXCEPT !.launch = b] /\ ask' = [r \in Proc!Requesters |-> Proc!NoAsk] /\ ending' = Proc!NoFlags
  BY DEF Proc!Gone
<1>2. main'.phase = "off" /\ main'.launch = b
  BY <1>1, OffFacts
<1>3. /\ \A r \in Proc!Requesters : ask'[r].at = "idle"
      /\ ~ending'.plan /\ ~ending'.reset /\ ~ending'.reboot
  BY <1>1 DEF Proc!NoAsk, Proc!NoFlags
<1>4. UpdateInv'
  BY <1>0, <1>2, <1>3 DEF UpdateInv
<1>5. RequestInv'
  BY <1>3 DEF RequestInv, Proc!Requesters
<1> QED
  BY <1>0, <1>4, <1>5, GoneFile, GoneLife DEF DaemonInv

(* Decide keeps DaemonInv.                                                 *)
LEMMA DecideKeeps == ASSUME DaemonInv, Proc!Decide PROVE DaemonInv'
<1>1. PICK done \in {Proc!Verdict, "failed"} :
          /\ Proc!Gone(done = "reboot")
          /\ IF done = "reset" THEN disk' = Proc!NoDoc /\ intended' = Proc!NoDoc ELSE UNCHANGED <<disk, intended>>
          /\ helper' = IF done = "update" THEN "clear" ELSE helper
  BY DEF Proc!Decide
<1>2. main.phase # "off" /\ UNCHANGED <<blind, exe>> /\ owed' = "nothing"
  BY DEF Proc!Decide
<1>3. PICK b \in BOOLEAN : b = (done = "reboot")
  BY Zenon
<1>4. done = "update" => ending.plan /\ ~b
  BY <1>1, <1>3 DEF Proc!Verdict
<1>5. Proc!Gone(b)
  BY <1>1, <1>3
<1> QED
  BY <1>1, <1>2, <1>4, <1>5, GoneKeeps

(* Crash keeps DaemonInv.                                                  *)
LEMMA CrashKeeps == ASSUME DaemonInv, Proc!Crash PROVE DaemonInv'
<1>1. /\ main.phase # "off" /\ Proc!Gone(FALSE) /\ owed' = "nothing" /\ UNCHANGED <<disk, intended, blind, exe, helper>>
  BY DEF Proc!Crash, Proc!Up, Proc!fileVars, Proc!updateVars
<1>2. FALSE \in BOOLEAN
  OBVIOUS
<1> QED
  BY <1>1, <1>2, GoneKeeps

(* Launch keeps DaemonInv.                                                 *)
LEMMA LaunchKeeps == ASSUME DaemonInv, Proc!Launch PROVE DaemonInv'
<1>0. LifeInv /\ FileInv /\ UpdateInv /\ RequestInv /\ main \in DRec
  BY DEF DaemonInv, LifeInv, GoodD
<1>1. /\ main.phase = "off" /\ helper \in {"none", "dead"} /\ main' = [main EXCEPT !.launch = TRUE]
      /\ UNCHANGED <<disk, intended, blind, panelCall, patchMu, instance, proc, turn, transitions, ask, ending, owed, helper, exe>>
  BY DEF Proc!Launch, Proc!Up, Proc!fileVars, Proc!callVars, Proc!memory, Proc!turnVars, Proc!procVars, Proc!askVars, Proc!updateVars
<1>2. main'.phase = "off"
  BY <1>0, <1>1 DEF DRec
<1>3. LifeInv'
  BY <1>0, <1>1, LaunchLife
<1>4. FileInv' /\ RequestInv'
  BY <1>0, <1>1, <1>2, FileFrame, RequestFrame
<1>5. UpdateInv'
  BY <1>0, <1>1, <1>2 DEF UpdateInv
<1> QED
  BY <1>3, <1>4, <1>5 DEF DaemonInv

(* The steps of the helper: what it moves is there.                        *)
LEMMA HelperMoves ==
    ASSUME DaemonInv, helper \notin {"none", "dead"},
           UNCHANGED <<disk, intended, blind, panelCall, patchMu, instance, proc, turn, transitions, ask, ending, owed>>,
           main' = main \/ (main' = [main EXCEPT !.launch = TRUE] /\ helper' = "none"),
           exe' = [target |-> exe'.target, backup |-> exe'.backup, source |-> exe'.source],
           helper' \in {"none", "clear", "backup", "tidy"} => exe'.target # "none",
           helper' = "install" => exe'.backup # "none",
           helper' \in {"clear", "backup", "install"} => exe'.source # "none",
           exe'.target # "none" \/ exe'.backup # "none",
           helper' \in {"none", "dead", "clear", "backup", "install", "tidy"}
    PROVE  DaemonInv'
<1>0. LifeInv /\ FileInv /\ UpdateInv /\ RequestInv /\ main \in DRec
  BY DEF DaemonInv, LifeInv, GoodD
<1>1. main.phase = "off" /\ ~main.launch
  BY <1>0 DEF UpdateInv
<1>2. main'.phase = "off" /\ (helper' # "none" => ~main'.launch)
  BY <1>0, <1>1 DEF DRec
<1>3. LifeInv'
  <2>1. CASE main' = main
    BY <2>1, <1>0, DMoves DEF LifeInv
  <2>2. CASE main' = [main EXCEPT !.launch = TRUE]
    BY <2>2, <1>0, LaunchLife
  <2> QED
    BY <2>1, <2>2
<1>4. FileInv' /\ RequestInv'
  BY <1>0, <1>1, <1>2, FileFrame, RequestFrame
<1>5. /\ \A r \in Proc!Requesters : ask[r].at = "idle"
      /\ ~ending.plan
  BY <1>0, <1>1 DEF LifeInv, Proc!NoFlags
<1>6. UpdateInv'
  BY <1>2, <1>5 DEF UpdateInv
<1> QED
  BY <1>3, <1>4, <1>6 DEF DaemonInv

(* HelperStep keeps DaemonInv.                                             *)
LEMMA HelperStepKeeps == ASSUME DaemonInv, Proc!HelperStep PROVE DaemonInv'
<1> DEFINE t == exe.target
           b == exe.backup
           s == exe.source
<1>0. UpdateInv /\ exe = [target |-> t, backup |-> b, source |-> s] /\ (t # "none" \/ b # "none")
  BY DEF DaemonInv, UpdateInv
<1>1. UNCHANGED <<disk, intended, blind, panelCall, patchMu, instance, proc, turn, transitions, ask, ending, owed>>
  BY DEF Proc!HelperStep, Proc!fileVars, Proc!callVars, Proc!memory, Proc!turnVars, Proc!procVars, Proc!askVars
<1>2. CASE helper = "clear" /\ exe' = [exe EXCEPT !.backup = "none"] /\ helper' = "backup" /\ UNCHANGED main
  <2>1. exe' = [target |-> t, backup |-> "none", source |-> s] /\ t # "none" /\ s # "none"
    BY <1>0, <1>2 DEF UpdateInv
  <2> QED
    BY <2>1, <1>1, <1>2, HelperMoves
<1>3. CASE helper = "backup" /\ exe' = [exe EXCEPT !.backup = exe.target, !.target = "none"] /\ helper' = "install" /\ UNCHANGED main
  <2>1. exe' = [target |-> "none", backup |-> t, source |-> s] /\ t # "none" /\ s # "none"
    BY <1>0, <1>3 DEF UpdateInv
  <2> QED
    BY <2>1, <1>1, <1>3, HelperMoves
<1>4. CASE helper = "backup" /\ helper' = "none" /\ UNCHANGED <<exe, main>>
  <2>1. exe' = [target |-> t, backup |-> b, source |-> s] /\ t # "none"
    BY <1>0, <1>4 DEF UpdateInv
  <2> QED
    BY <2>1, <1>1, <1>4, HelperMoves
<1>5. CASE helper = "install" /\ exe' = [exe EXCEPT !.target = exe.source, !.source = "none"] /\ helper' = "tidy" /\ UNCHANGED main
  <2>1. exe' = [target |-> s, backup |-> b, source |-> "none"] /\ s # "none"
    BY <1>0, <1>5 DEF UpdateInv
  <2> QED
    BY <2>1, <1>1, <1>5, HelperMoves
<1>6. CASE helper = "install" /\ exe' = Proc!Restore /\ helper' = "none" /\ UNCHANGED main
  <2>1. b # "none"
    BY <1>0, <1>6 DEF UpdateInv
  <2>2. exe' = [target |-> b, backup |-> "none", source |-> s]
    BY <2>1, <1>0, <1>6 DEF Proc!Restore
  <2> QED
    BY <2>1, <2>2, <1>1, <1>6, HelperMoves
<1>7. CASE helper = "tidy" /\ exe' = [exe EXCEPT !.backup = "none"] /\ helper' = "none" /\ (main' = [main EXCEPT !.launch = TRUE] \/ UNCHANGED main)
  <2>1. exe' = [target |-> t, backup |-> "none", source |-> s] /\ t # "none"
    BY <1>0, <1>7 DEF UpdateInv
  <2> QED
    BY <2>1, <1>1, <1>7, HelperMoves
<1> QED
  BY <1>2, <1>3, <1>4, <1>5, <1>6, <1>7 DEF Proc!HelperStep

(* HelperCrash keeps DaemonInv.                                            *)
LEMMA HelperCrashKeeps == ASSUME DaemonInv, Proc!HelperCrash PROVE DaemonInv'
<1>1. /\ UNCHANGED <<disk, intended, blind, panelCall, patchMu, instance, proc, turn, transitions, ask, ending, owed>>
      /\ helper \notin {"none", "dead"} /\ helper' = "dead" /\ UNCHANGED <<main, exe>>
  BY DEF Proc!HelperCrash, Proc!fileVars, Proc!callVars, Proc!memory, Proc!turnVars, Proc!procVars, Proc!askVars
<1>2. exe = [target |-> exe.target, backup |-> exe.backup, source |-> exe.source] /\ (exe.target # "none" \/ exe.backup # "none")
  BY DEF DaemonInv, UpdateInv
<1> QED
  BY <1>1, <1>2, HelperMoves

-----------------------------------------------------------------------------
(* Requests *)

(* A request that begins, or is given up, between the writes of none.      *)
LEMMA AskIdle ==
    ASSUME LifeInv, UpdateInv, RequestInv, NEW r \in Proc!Requesters, ask[r].at # "second",
           NEW z, z.at \notin {"second"}, ask' = [ask EXCEPT ![r] = z], UNCHANGED <<ending, owed>>,
           r = "switch" => z.at = "idle" \/ instance'.namespace = "b", r # "switch" => instance' = instance
    PROVE  RequestInv'
<1>1. \A q \in Proc!Requesters : ask'[q] = IF q = r THEN z ELSE ask[q]
  BY DEF LifeInv
<1>2. \A q \in Proc!Requesters : (ask'[q].at = "second" <=> ask[q].at = "second") /\ (ask[q].at = "second" => ask'[q] = ask[q])
  BY <1>1
<1>3. ask'["switch"].at # "idle" => instance'.namespace = "b"
  BY <1>1 DEF RequestInv, Proc!Requesters
<1> QED
  BY <1>2, <1>3 DEF RequestInv

(* AskBot and AskPanel keep DaemonInv.                                     *)
LEMMA AskKeeps == ASSUME DaemonInv, Proc!AskBot \/ Proc!AskPanel PROVE DaemonInv'
<1>0. LifeInv /\ FileInv /\ UpdateInv /\ RequestInv
  BY DEF DaemonInv
<1>1. LifeInv'
  BY <1>0, AskBotLife, AskPanelLife
<1>2. UNCHANGED <<disk, intended, blind, panelCall, patchMu, instance, ending, owed, helper, exe>>
  BY DEF Proc!AskBot, Proc!AskPanel, Proc!fileVars, Proc!callVars, Proc!memory, Proc!updateVars
<1>3. PICK r \in {"bot", "panel"}, k \in {"reboot", "update", "reset"} :
          /\ ask[r].at \in {"idle", "done"} /\ Proc!Asking(r, k) /\ proc[r].active
  BY DEF Proc!AskBot, Proc!AskPanel
<1>4. r \in Proc!Requesters /\ r \in Proc!Units
  BY DEF Proc!Requesters, Proc!Units
<1>5. main.phase # "off"
  BY <1>0, <1>3, <1>4, ActiveRuns
<1>6. main'.phase # "off"
  BY <1>0, <1>5, BusyFrame DEF Proc!AskBot, Proc!AskPanel
<1> DEFINE z == [at |-> IF k = "update" THEN "download" ELSE "first", kind |-> k]
<1>7. ask' = [ask EXCEPT ![r] = z] /\ z.at \in {"first", "download"} /\ (z.at = "first" => z.kind # "update")
  BY <1>3 DEF Proc!Asking
<1> HIDE DEF z
<1>8. FileInv'
  BY <1>0, <1>2, <1>5, <1>6, FileFrame
<1>9. RequestInv'
  BY <1>0, <1>2, <1>3, <1>4, <1>7, AskIdle
<1>10. UpdateInv'
  <2>1. \A q \in Proc!Requesters : ask'[q] = IF q = r THEN z ELSE ask[q]
    BY <1>0, <1>4, <1>7 DEF LifeInv
  <2> QED
    BY <2>1, <1>0, <1>2, <1>5, <1>6, <1>7 DEF UpdateInv
<1> QED
  BY <1>1, <1>8, <1>9, <1>10 DEF DaemonInv

(* DaemonAssumption keeps DaemonInv.                                       *)
LEMMA DownloadKeeps == ASSUME DaemonInv, Proc!DaemonAssumption, NEW r \in Proc!Requesters, Proc!Download(r) PROVE DaemonInv'
<1> DEFINE z == [ask[r] EXCEPT !.at = "first"]
<1>0. LifeInv /\ FileInv /\ UpdateInv /\ RequestInv
  BY DEF DaemonInv
<1>1. LifeInv'
  BY <1>0, DownloadLife
<1>2. /\ UNCHANGED <<disk, intended, blind, panelCall, patchMu, instance, ending, owed, helper>> /\ ask[r].at = "download"
      /\ ask = [q \in Proc!Requesters |-> ask[q]] /\ ask[r] \in AskRec
  BY <1>0 DEF Proc!Download, Proc!fileVars, Proc!callVars, Proc!memory, LifeInv
<1>3. main.phase # "off"
  BY <1>0, <1>2, AskedRuns DEF Asked
<1>4. main'.phase # "off"
  <2>1. CASE UNCHANGED main
    BY <2>1, <1>3
  <2>2. CASE main' = [main EXCEPT !.busy = FALSE]
    BY <2>2, <1>0, <1>3, BusyFrame
  <2> QED
    BY <2>1, <2>2 DEF Proc!Download
<1>5. z.at = "first" /\ z.kind = ask[r].kind /\ Proc!NoAsk.at = "idle"
  BY <1>2 DEF AskRec, Proc!NoAsk
<1>6. (ask' = [ask EXCEPT ![r] = z] /\ \E v \in Proc!Offered(r) : exe' = [exe EXCEPT !.source = v])
      \/ (ask' = [ask EXCEPT ![r] = Proc!NoAsk] /\ UNCHANGED exe)
  BY <1>2 DEF Proc!Download
<1> HIDE DEF z
<1>7. FileInv'
  BY <1>0, <1>2, <1>3, <1>4, FileFrame
<1>8. CASE ask' = [ask EXCEPT ![r] = z] /\ \E v \in Proc!Offered(r) : exe' = [exe EXCEPT !.source = v]
  <2>1. PICK v \in Proc!Offered(r) : exe' = [exe EXCEPT !.source = v]
    BY <1>8
  <2>2. v # "none"
    BY DEF Proc!Offered, Proc!DaemonAssumption
  <2>3. exe' = [target |-> exe.target, backup |-> exe.backup, source |-> v]
    BY <2>1, <1>0 DEF UpdateInv
  <2>4. exe'.target = exe.target /\ exe'.backup = exe.backup /\ exe'.source = v
    BY <2>3
  <2>5. UpdateInv'
    BY <2>2, <2>3, <2>4, <1>0, <1>2, <1>3, <1>4 DEF UpdateInv
  <2>6. r = "switch" => instance.namespace = "b"
    BY <1>0, <1>2 DEF RequestInv
  <2>7. RequestInv'
    BY <2>6, <1>0, <1>2, <1>5, <1>8, AskIdle
  <2> QED
    BY <2>5, <2>7, <1>1, <1>7 DEF DaemonInv
<1>9. CASE ask' = [ask EXCEPT ![r] = Proc!NoAsk] /\ UNCHANGED exe
  <2>1. RequestInv'
    BY <1>0, <1>2, <1>5, <1>9, AskIdle
  <2>2. \A q \in Proc!Requesters : ask'[q] = IF q = r THEN Proc!NoAsk ELSE ask[q]
    BY <1>2, <1>9
  <2>3. UpdateInv'
    BY <2>2, <1>0, <1>2, <1>3, <1>4, <1>5, <1>9 DEF UpdateInv
  <2> QED
    BY <2>1, <2>3, <1>1, <1>7 DEF DaemonInv
<1> QED
  BY <1>6, <1>8, <1>9

(* FirstWrite keeps DaemonInv.                                             *)
LEMMA FirstWriteKeeps == ASSUME DaemonInv, NEW r \in Proc!Requesters, Proc!FirstWrite(r) PROVE DaemonInv'
<1> DEFINE k == ask[r].kind
           z == [ask[r] EXCEPT !.at = "second"]
<1>0. LifeInv /\ FileInv /\ UpdateInv /\ RequestInv
  BY DEF DaemonInv
<1>1. LifeInv'
  BY <1>0, WriteLife
<1>2. /\ UNCHANGED <<disk, intended, blind, panelCall, patchMu, instance, helper, exe, main>> /\ ask[r].at = "first"
      /\ ask = [q \in Proc!Requesters |-> ask[q]] /\ ask[r] \in AskRec /\ ending \in FlagRec
  BY <1>0 DEF Proc!FirstWrite, Proc!fileVars, Proc!callVars, Proc!memory, Proc!updateVars, LifeInv
<1>3. /\ ending.reset => ending'.reset
      /\ ending'.plan = ending.plan
      /\ k = "reset" => ending'.reset
      /\ k = "reboot" => ending'.reboot
  <2>1. CASE k = "reboot"
    <3>1. ending' = [ending EXCEPT !.reboot = TRUE]
      BY <2>1 DEF Proc!FirstWrite
    <3> QED
      BY <3>1, <2>1, <1>2 DEF FlagRec
  <2>2. CASE k = "update"
    <3>1. ending' = [ending EXCEPT !.reboot = FALSE]
      BY <2>2 DEF Proc!FirstWrite
    <3> QED
      BY <3>1, <2>2, <1>2 DEF FlagRec
  <2>3. CASE k \notin {"reboot", "update"}
    <3>1. ending' = [ending EXCEPT !.reset = TRUE]
      BY <2>3 DEF Proc!FirstWrite
    <3> QED
      BY <3>1, <2>3, <1>2 DEF FlagRec
  <2> QED
    BY <2>1, <2>2, <2>3
<1>4. /\ ask' = [ask EXCEPT ![r] = z] /\ z.at = "second" /\ z.kind = k
  BY <1>2 DEF Proc!FirstWrite, AskRec
<1> HIDE DEF z
<1>5. \A q \in Proc!Requesters : ask'[q] = IF q = r THEN z ELSE ask[q]
  BY <1>2, <1>4
<1>6. FileInv'
  BY <1>0, <1>2, FileFrame
<1>7. UpdateInv'
  BY <1>0, <1>2, <1>3, <1>4, <1>5 DEF UpdateInv
<1>8. RequestInv'
  <2>1. owed' # "either" => owed' = owed /\ \A q \in Proc!Requesters \ {r} : ask[q].at # "second"
    BY DEF Proc!FirstWrite, Proc!Alone
  <2>2. owed' = "reset" => ending'.reset
    BY <2>1, <1>0, <1>3 DEF RequestInv
  <2>3. \A q \in Proc!Requesters : ask'[q].at = "second" /\ ask'[q].kind = "reset" => ending'.reset
    BY <1>0, <1>3, <1>4, <1>5 DEF RequestInv
  <2>4. ask'["switch"].at # "idle" => instance'.namespace = "b"
    BY <1>0, <1>2, <1>5 DEF RequestInv, Proc!Requesters
  <2>5. owed' # "either" => \A q \in Proc!Requesters : ask'[q].at = "second" => q = r /\ ask'[q].kind = k
    BY <2>1, <1>4, <1>5
  <2>6. ask'[r].at = "second"
    BY <1>4, <1>5
  <2> QED
    BY <2>2, <2>3, <2>4, <2>5, <2>6, <1>3 DEF RequestInv
<1> QED
  BY <1>1, <1>6, <1>7, <1>8 DEF DaemonInv

(* SecondWrite keeps DaemonInv.                                            *)
LEMMA SecondWriteKeeps == ASSUME DaemonInv, NEW r \in Proc!Requesters, Proc!SecondWrite(r) PROVE DaemonInv'
<1> DEFINE k == ask[r].kind
           z == [ask[r] EXCEPT !.at = "done"]
<1>0. LifeInv /\ FileInv /\ UpdateInv /\ RequestInv
  BY DEF DaemonInv
<1>1. LifeInv'
  BY <1>0, WriteLife
<1>2. /\ UNCHANGED <<disk, intended, blind, panelCall, patchMu, instance, helper, exe>> /\ ask[r].at = "second"
      /\ ask = [q \in Proc!Requesters |-> ask[q]] /\ ask[r] \in AskRec /\ ending \in FlagRec
      /\ main' = [main EXCEPT !.cancelled = TRUE] /\ owed' = IF owed = "either" THEN owed ELSE k
  BY <1>0 DEF Proc!SecondWrite, Proc!fileVars, Proc!callVars, Proc!memory, Proc!updateVars, LifeInv
<1>3. main.phase # "off" /\ main'.phase # "off"
  BY <1>0, <1>2, AskedRuns, CancelFrame DEF Asked
<1>4. /\ ending'.reset = ending.reset /\ ending'.reboot = ending.reboot
      /\ k = "reboot" => ~ending'.plan
      /\ k = "update" => ending'.plan
      /\ ending'.plan => ending.plan \/ k = "update"
  <2>1. CASE k = "reboot"
    <3>1. ending' = [ending EXCEPT !.plan = FALSE]
      BY <2>1 DEF Proc!SecondWrite
    <3> QED
      BY <3>1, <2>1, <1>2 DEF FlagRec
  <2>2. CASE k = "update"
    <3>1. ending' = [ending EXCEPT !.plan = TRUE]
      BY <2>2 DEF Proc!SecondWrite
    <3> QED
      BY <3>1, <2>2, <1>2 DEF FlagRec
  <2>3. CASE k \notin {"reboot", "update"}
    <3>1. ending' = ending
      BY <2>3 DEF Proc!SecondWrite
    <3> QED
      BY <3>1, <2>3
  <2> QED
    BY <2>1, <2>2, <2>3
<1>5. /\ ask' = [ask EXCEPT ![r] = z] /\ z.at = "done"
  BY <1>2 DEF Proc!SecondWrite, AskRec
<1> HIDE DEF z
<1>6. \A q \in Proc!Requesters : ask'[q] = IF q = r THEN z ELSE ask[q]
  BY <1>2, <1>5
<1>7. FileInv'
  BY <1>0, <1>2, <1>3, FileFrame
<1>8. UpdateInv'
  BY <1>0, <1>2, <1>3, <1>4, <1>5, <1>6 DEF UpdateInv
<1>9. RequestInv'
  <2>1. owed' # "either" => owed' = k /\ \A q \in Proc!Requesters : ask'[q].at # "second"
    BY <1>0, <1>2, <1>5, <1>6 DEF RequestInv
  <2>2. owed' = "reset" => ending'.reset
    BY <2>1, <1>0, <1>2, <1>4 DEF RequestInv
  <2>3. \A q \in Proc!Requesters : ask'[q].at = "second" /\ ask'[q].kind = "reset" => ending'.reset
    BY <1>0, <1>4, <1>5, <1>6 DEF RequestInv
  <2>4. ask'["switch"].at # "idle" => instance'.namespace = "b"
    BY <1>0, <1>2, <1>6 DEF RequestInv, Proc!Requesters
  <2>5. owed' # "either" /\ k = "reboot" => ending.reboot
    BY <1>0, <1>2 DEF RequestInv
  <2> QED
    BY <2>1, <2>2, <2>3, <2>4, <2>5, <1>4 DEF RequestInv
<1> QED
  BY <1>1, <1>7, <1>8, <1>9 DEF DaemonInv

(* Select keeps DaemonInv.                                                 *)
LEMMA SelectKeeps == ASSUME Proc!DaemonAssumption, DaemonInv, NEW c \in Calls, Proc!Select(c) PROVE DaemonInv'
<1> DEFINE z == [at |-> "first", kind |-> "reboot"]
<1>0. LifeInv /\ FileInv /\ UpdateInv /\ RequestInv
  BY DEF DaemonInv
<1>1. LifeInv' /\ FileInv'
  BY <1>0, SelectLife, SelectFile
<1>2. UNCHANGED <<main, ending, owed, helper, exe>> /\ panelCall[c].at = "select"
  BY DEF Proc!Select, Proc!updateVars, Proc!At
<1>3. CASE UNCHANGED <<disk, intended, instance, ask>>
  BY <1>0, <1>1, <1>2, <1>3, UpdateFrame, RequestFrame DEF DaemonInv
<1>4. CASE /\ instance.namespace = panelCall[c].seen.namespace /\ Proc!Saved.system = instance
           /\ instance' = [instance EXCEPT !.namespace = "b"] /\ ask' = [ask EXCEPT !["switch"] = z]
  <2>1. Good(c, panelCall[c], patchMu, Proc!Saved.components) /\ Whole(Proc!Saved)
    BY <1>0, <1>2, CallFacts DEF Busy
  <2>2. instance.namespace # "b"
    BY <2>1, <1>2, <1>4 DEF Good
  <2>3. instance'.namespace = "b"
    <3> HIDE DEF Proc!Saved
    <3>1. instance = [namespace |-> instance.namespace, debug |-> instance.debug]
      BY <2>1, <1>4 DEF Whole, Proc!IsFile
    <3> QED
      BY <3>1, <1>4
  <2>4. ask["switch"].at = "idle" /\ "switch" \in Proc!Requesters
    BY <2>2, <1>0 DEF RequestInv, Proc!Requesters
  <2>5. z.at = "first" /\ z.kind = "reboot"
    OBVIOUS
  <2> HIDE DEF z, Proc!Saved
  <2>6. RequestInv'
    BY <2>3, <2>4, <2>5, <1>0, <1>2, <1>4, AskIdle
  <2>7. \A q \in Proc!Requesters : ask'[q] = IF q = "switch" THEN z ELSE ask[q]
    BY <2>4, <1>0, <1>4 DEF LifeInv
  <2>8. UpdateInv'
    BY <2>5, <2>7, <1>0, <1>2 DEF UpdateInv
  <2> QED
    BY <2>6, <2>8, <1>1 DEF DaemonInv
<1> QED
  BY <1>3, <1>4 DEF Proc!Select

-----------------------------------------------------------------------------
(* Calls *)

(* Begin keeps DaemonInv.                                                  *)
LEMMA PanelBeginKeeps ==
    ASSUME Proc!DaemonAssumption, DaemonInv, NEW k \in Proc!Kinds, NEW e \in Edits, Proc!Begin(k, e) PROVE DaemonInv'
<1>0. LifeInv /\ FileInv /\ UpdateInv /\ RequestInv
  BY DEF DaemonInv
<1>1. /\ UNCHANGED <<proc, ask, ending, main, transitions, turn, owed, instance, helper, exe>>
      /\ proc["panel"].ready /\ "panel" \in Proc!Units
  BY DEF Proc!Begin, Proc!procVars, Proc!askVars, Proc!turnVars, Proc!memory, Proc!updateVars, Proc!Units
<1>2. proc["panel"].active
  BY <1>0, <1>1 DEF LifeInv, GoodProc
<1>3. main.phase # "off"
  BY <1>0, <1>1, <1>2, ActiveRuns
<1> QED
  BY <1>0, <1>1, <1>2, <1>3, BeginFile, CallLife, UpdateFrame, RequestFrame DEF DaemonInv

(* Every step of a call of the panel but the selection of a namespace      *)
(* keeps DaemonInv.                                                        *)
LEMMA PanelCallKeeps ==
    ASSUME Proc!DaemonAssumption, DaemonInv, NEW c \in Calls,
           \/ Proc!View1(c) \/ Proc!View2(c) \/ Proc!Lock(c) \/ Proc!Load(c) \/ Proc!Save(c)
           \/ Proc!ReadSystem(c) \/ Proc!SetSystem(c) \/ Proc!Current(c) \/ Proc!Abort(c)
    PROVE  DaemonInv'
<1>0. LifeInv /\ FileInv /\ UpdateInv /\ RequestInv
  BY DEF DaemonInv
<1>1. UNCHANGED <<proc, ask, ending, main, transitions, turn, owed, instance, helper, exe>>
  BY DEF Proc!View1, Proc!View2, Proc!Lock, Proc!Load, Proc!Save, Proc!ReadSystem, Proc!SetSystem, Proc!Current, Proc!Abort, Proc!File, Proc!procVars, Proc!askVars, Proc!turnVars, Proc!memory, Proc!updateVars
<1>2. panelCall[c].at \notin {"idle", "done"}
  BY DEF Proc!View1, Proc!View2, Proc!Lock, Proc!Load, Proc!Save, Proc!ReadSystem, Proc!SetSystem, Proc!Current, Proc!Abort, Proc!At
<1>3. FileInv'
  BY <1>0, View1File, View2File, LockFile, LoadFile, SaveFile, ReadSystemFile, SetSystemFile, CurrentFile, AbortFile
<1> QED
  BY <1>0, <1>1, <1>2, <1>3, HandledLife, UpdateFrame, RequestFrame DEF DaemonInv

-----------------------------------------------------------------------------
(* A machine before its first start is in order.                           *)
LEMMA DaemonInit == ASSUME Proc!DaemonAssumption, Proc!Init PROVE DaemonInv
<1>1. FileInv
  <2>1. panelCall = [c \in Calls |-> Proc!NoCall] /\ ~blind /\ Proc!IsFile(disk) /\ main = [Proc!Off EXCEPT !.launch = TRUE]
        /\ (disk # Proc!NoDoc => Proc!Saved = intended)
    BY DEF Proc!Init, Proc!DaemonAssumption, Proc!Saved
  <2>2. main.phase = "off" /\ DOMAIN Proc!NoCall = CallFields /\ Proc!NoCall.at = "idle"
    BY <2>1, OffFacts DEF Proc!NoCall, CallFields
  <2>3. \A c \in Calls : Good(c, panelCall[c], patchMu, Proc!Saved.components) /\ ~Busy(panelCall[c])
    BY <2>1, <2>2, IdleGood
  <2>4. panelCall = [c \in Calls |-> panelCall[c]]
    BY <2>1
  <2> HIDE DEF Proc!Saved
  <2> QED
    BY <2>1, <2>2, <2>3, <2>4 DEF FileInv
<1>2. main \in DRec /\ main.phase = "off"
  BY OffFacts DEF Proc!Init
<1>3. /\ Proc!NoAsk \in AskRec /\ Proc!NoAsk.at = "idle" /\ Proc!NoFlags \in FlagRec
      /\ ~Proc!NoFlags.plan /\ ~Proc!NoFlags.reset
  BY DEF Proc!NoAsk, AskRec, Proc!NoFlags, FlagRec
<1>4. ask \in [Proc!Requesters -> AskRec] /\ \A r \in Proc!Requesters : ask[r].at = "idle"
  BY <1>3 DEF Proc!Init
<1>5. LifeInv
  <2>1. proc = [u \in Proc!Units |-> proc[u]] /\ \A u \in Proc!Units : proc[u] = Proc!NoProc
    BY DEF Proc!Init
  <2>2. \A u \in Proc!Units : GoodProc(u, proc[u]) /\ ~proc[u].active
    BY <2>1, NoProcGood
  <2>3. GoodD(main, transitions, turn, proc)
    BY <2>2, <1>2 DEF GoodD, Proc!Init
  <2>4. ~Proc!Handling
    <3>1. \A c \in Calls : panelCall[c].at = "idle"
      BY DEF Proc!Init, Proc!NoCall
    <3> QED
      BY <3>1, <1>4 DEF Proc!Handling, Proc!Requesters
  <2> QED
    BY <2>1, <2>2, <2>3, <2>4, <1>3, <1>4 DEF LifeInv, Proc!Init
<1>6. UpdateInv
  <2>1. exe = [target |-> "old", backup |-> "none", source |-> "none"] /\ helper = "none" /\ ending = Proc!NoFlags
    BY DEF Proc!Init
  <2> QED
    BY <2>1, <1>2, <1>3, <1>4 DEF UpdateInv
<1>7. RequestInv
  BY <1>3, <1>4 DEF RequestInv, Proc!Init, Proc!Requesters
<1> QED
  BY <1>1, <1>5, <1>6, <1>7 DEF DaemonInv

(* A step that changes nothing keeps DaemonInv.                            *)
LEMMA DaemonStutter == ASSUME DaemonInv, UNCHANGED Proc!vars PROVE DaemonInv'
<1>0. LifeInv /\ FileInv /\ UpdateInv /\ RequestInv
  BY DEF DaemonInv
<1>1. UNCHANGED <<disk, intended, blind, panelCall, patchMu, instance, proc, turn, transitions, ask, ending, owed, helper, exe, main>>
  BY DEF Proc!vars
<1>2. LifeInv'
  BY <1>0, <1>1, DMoves DEF LifeInv
<1> QED
  BY <1>0, <1>1, <1>2, FileFrame, UpdateFrame, RequestFrame DEF DaemonInv

(* Every step keeps DaemonInv.                                             *)
LEMMA DaemonStep == ASSUME Proc!DaemonAssumption, DaemonInv, [Proc!Next]_(Proc!vars) PROVE DaemonInv'
<1>1. CASE Proc!Outside
  BY <1>1, ProcessKeeps, PanelBeginKeeps, AskKeeps, CrashKeeps, LaunchKeeps, HelperCrashKeeps DEF Proc!Outside
<1>2. CASE Proc!Internal
  BY <1>2, ProcessKeeps, BootKeeps, PanelCallKeeps, SelectKeeps, DownloadKeeps, FirstWriteKeeps, SecondWriteKeeps,
     DecideKeeps, HelperStepKeeps DEF Proc!Internal
<1>3. CASE UNCHANGED Proc!vars
  BY <1>3, DaemonStutter
<1> QED
  BY <1>1, <1>2, <1>3 DEF Proc!Next

(* So it holds in every reachable state.                                   *)
LEMMA DaemonSafe == ASSUME Proc!DaemonAssumption PROVE Proc!Spec => []DaemonInv
BY DaemonInit, DaemonStep, PTL DEF Proc!Spec

(* The process and its executable, for any calls, edits, releases and      *)
(* faults: rte.Process runs one invocation at a time and knows it, also    *)
(* when a stop ran out of time; when Manager.Run has returned without an   *)
(* error no invocation, transition or request is left; and at every moment *)
(* of an update, its failures and crashes included, there is a whole       *)
(* executable, in place or beside it.                                      *)
THEOREM DaemonSound == ProcessSpec => []ProcessSound
<1>1. ASSUME DaemonInv PROVE ProcessSound
  <2>0. LifeInv /\ UpdateInv
    BY <1>1 DEF DaemonInv
  <2>1. Proc!OneInvocation
    BY <2>0 DEF Proc!OneInvocation, LifeInv, GoodProc
  <2>2. Proc!CleanExit
    <3>1. ASSUME main.phase = "left", ~main.failed
          PROVE  (\A u \in Proc!Units : ~proc[u].active /\ proc[u].live = 0) /\ transitions = {} /\ turn = Proc!NoTurn /\ ~Proc!Handling
      BY <2>0, <3>1 DEF LifeInv, GoodD, GoodProc, Proc!Units
    <3> QED
      BY <3>1 DEF Proc!CleanExit
  <2>3. Proc!ExecutableKept
    BY <2>0 DEF Proc!ExecutableKept, UpdateInv
  <2> QED
    BY <2>1, <2>2, <2>3 DEF ProcessSound
<1> QED
  BY <1>1, ProcessAssumption, DaemonSafe, PTL DEF ProcessSpec

(* What the user asked for is what happens, for any calls and faults: the  *)
(* file is what the acknowledged changes of the panel make of it, however  *)
(* their reads and writes interleave, a save with a revision never         *)
(* replaced what its caller had not seen, and the process ends the way the *)
(* last request asked for (Directory.PatchWithRevision, RequestReboot,     *)
(* RequestUpdate, reset.Request).                                          *)
THEOREM DaemonHonoured == ProcessSpec => []RequestsHonoured
<1>1. ASSUME DaemonInv PROVE RequestsHonoured
  <2>0. FileInv /\ RequestInv
    BY <1>1 DEF DaemonInv
  <2>1. Proc!SavesExact
    BY <2>0 DEF Proc!SavesExact, FileInv
  <2>2. Proc!RestartHonoured
    <3>1. ASSUME ~main.failed, \A r \in Proc!Requesters : ask[r].at # "second"
          PROVE  /\ (owed = "reset" \/ ending.reset) => Proc!Verdict = "reset"
                 /\ (owed \in {"reboot", "update"} /\ ~ending.reset) => Proc!Verdict = owed
      <4>1. owed = "reset" => ending.reset
        BY <2>0 DEF RequestInv
      <4>2. owed = "reboot" => ending.reboot /\ ~ending.plan
        BY <2>0, <3>1 DEF RequestInv
      <4>3. owed = "update" => ending.plan
        BY <2>0, <3>1 DEF RequestInv
      <4> QED
        BY <4>1, <4>2, <4>3, <3>1 DEF Proc!Verdict
    <3> QED
      BY <3>1 DEF Proc!RestartHonoured
  <2> QED
    BY <2>1, <2>2 DEF RequestsHonoured
<1> QED
  BY <1>1, ProcessAssumption, DaemonSafe, PTL DEF ProcessSpec
=============================================================================
