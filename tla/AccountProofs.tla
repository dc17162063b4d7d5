---------------------------- MODULE AccountProofs ----------------------------
(***************************************************************************)
(* Proofs about Account: one transport, whose users and handlers leave     *)
(* before it is given up; the stored session is the one of the last login; *)
(* what is typed into the web panel answers the open prompt.               *)
(***************************************************************************)
EXTENDS Account, FiniteSetTheorems, TLAPS

(* The states of a connection and of a user, and the stages of a login.    *)
ConnType == [st : {"none", "open", "serving", "ready", "ended", "done"},
             closing : BOOLEAN, canceled : BOOLEAN,
             err : {"none", "canceled", "failed"}, ver : Nat]
UserType == [pc : {"idle", "open", "opened", "waiting", "using", "closing", "wait", "retry"},
             conn : Slots \cup {0}, done : BOOLEAN, stopped : BOOLEAN,
             res : {"nil", "canceled", "failed"}]
FlowType == [pc : {"idle", "auth", "prompting", "asking", "verifying", "replacing",
                   "draining", "committing", "writing", "returning", "completing"},
             id : Nat, acct : Accounts, canceled : BOOLEAN, stage : Stages, n : Nat,
             answer : Nat, seen : Nat, conn : Slots \cup {0}]
OwnerType == [closed : BOOLEAN, stopped : BOOLEAN, replacing : SUBSET Accounts,
              logins : SUBSET Accounts]
DispatchType == [user : Users, st : {"none", "copied", "active"}, closed : BOOLEAN,
                 gone : BOOLEAN]
WebType == [stage : Stages, pending : BOOLEAN, code : Nat, password : Nat]

Types ==
    /\ conns \in [Slots -> ConnType] /\ current \in Slots \cup {0} /\ owner \in OwnerType
    /\ users \in [Users -> UserType] /\ dispatch \in DispatchType
    /\ flows \in [Flows -> FlowType] /\ web \in WebType
    /\ session \in [Accounts -> Nat] /\ committed \in [Accounts -> Nat] /\ events \in Nat

Running == {"serving", "ready", "ended"}
Inside == {"waiting", "using", "closing"}

(* Only the current connection has a transport; one that was dropped       *)
(* before its start is closing, so that nobody starts it any more.         *)
ConnInv ==
    /\ \A i \in Slots : conns[i].st \in Running => current = i
    /\ current # 0 => conns[current].st \in Running \cup {"open"}
    /\ \A i \in Slots : conns[i].st = "open" /\ current # i => conns[i].closing
    /\ \A i \in Slots : conns[i].st \in {"ended", "done"} => conns[i].closing

(* Whoever is inside Run is on the current transport.                      *)
UserInv ==
    \A u \in Users :
       /\ users[u].pc \in Inside => users[u].conn = current /\ current # 0
                                    /\ conns[current].st \in Running
       /\ users[u].pc = "opened" => users[u].conn # 0 /\ conns[users[u].conn].st # "none"

(* The stages in which a login owns its account, and those in which it     *)
(* keeps everybody off the transport.                                      *)
Owning == {"prompting", "asking", "verifying", "replacing", "draining", "committing",
           "writing", "returning"}
Replacing == {"draining", "committing", "writing"}

(* A login owns its account alone; a deletion and a login exclude each     *)
(* other; a login that stores its session has the account to itself.       *)
OwnerInv ==
    /\ \A f \in Flows : flows[f].pc \in Owning => flows[f].acct \in owner.logins
    /\ \A f, g \in Flows : f # g /\ flows[f].pc \in Owning /\ flows[g].pc \in Owning
          => flows[f].acct # flows[g].acct
    /\ \A f \in Flows : flows[f].pc \in Replacing => flows[f].acct \in owner.replacing
    /\ \A f \in Flows : flows[f].pc = "draining" =>
          flows[f].acct = "cur" /\ flows[f].conn # 0 /\ current \in {0, flows[f].conn}
    /\ \A f \in Flows : flows[f].pc \in {"committing", "writing"} /\ flows[f].acct = "cur" =>
          current = 0
    /\ deleting => "other" \in owner.replacing /\ "other" \notin owner.logins
    /\ owner.stopped => /\ owner.closed /\ current = 0
                        /\ owner.logins = {} /\ owner.replacing = {}

(* A handler that is to be called is of a Run that is still inside, or its *)
(* entry is closed.                                                        *)
HandlerInv ==
    /\ dispatch.st = "copied" =>
          dispatch.closed \/ (users[dispatch.user].pc \in {"waiting", "using"} /\ ~dispatch.gone)
    /\ HandlersDrained

(* What is typed into the web panel is for the open prompt.                *)
WebInv ==
    /\ web.code # 0 => web.code = flows["web"].n /\ web.pending /\ flows["web"].pc = "asking"
    /\ web.password # 0 =>
          web.password = flows["web"].n /\ web.pending /\ flows["web"].pc = "asking"
    /\ web.code = 0 \/ web.password = 0
    /\ web.stage # "none" /\ ~web.pending => flows["web"].pc = "asking"
    /\ flows["web"].pc = "verifying" => web.pending /\ flows["web"].answer = flows["web"].n

(* The inductive invariant.                                                *)
Inv == /\ Types /\ ConnInv /\ UserInv /\ OwnerInv /\ HandlerInv /\ WebInv
       /\ SessionIsLatest

-----------------------------------------------------------------------------
(* Constants and counters *)

(* The slots are positive, so that 0 names none of them.                   *)
LEMMA SlotTypes ==
    /\ 0 \notin Slots /\ \A i \in Slots : i \in Nat
    /\ Watcher \in Users
BY AccountAssumption

(* Outside events are counted; nothing else moves the counter.             *)
LEMMA EventsType == ASSUME events \in Nat, [Next]_vars PROVE events' \in Nat
<1> DEFINE Counts == events' \in Nat
<1>e. ASSUME Quiet \/ \E k : Event(k) PROVE Counts
  BY <1>e DEF Quiet, Event
<1> HIDE DEF Counts
<1>1. ASSUME NEW u \in Users,
             \/ OpenRefused(u) \/ OpenShared(u) \/ OpenNew(u) \/ EnterRun(u) \/ RunReady(u)
             \/ Release(u) \/ AwaitDone(u) \/ Retry(u) \/ LeaveRun(u) \/ StartProbe(u)
             \/ CancelUser(u) \/ CopyHandlers(u)
      PROVE  Counts
  BY <1>1, <1>e DEF OpenRefused, OpenShared, OpenNew, EnterRun, RunReady, Release, AwaitDone,
                    Retry, LeaveRun, StartProbe, CancelUser, CopyHandlers
<1>2. ASSUME NEW i \in Slots,
             \/ Connect(i) \/ TransportStops(i) \/ FinishServe(i) \/ TransportFails(i)
             \/ StoreSession(i)
      PROVE  Counts
  BY <1>2, <1>e DEF Connect, TransportStops, FinishServe, TransportFails, StoreSession
<1>3. ASSUME NEW f \in Flows,
             \/ BeginLogin(f) \/ Prompt(f) \/ Replace(f) \/ Drained(f) \/ CheckOpen(f)
             \/ CommitSession(f) \/ LoginReturns(f) \/ Complete(f) \/ Verify(f)
             \/ LoginFails(f) \/ CancelLogin(f) \/ \E a \in Accounts : StartLogin(f, a)
      PROVE  Counts
  BY <1>3, <1>e DEF BeginLogin, Prompt, Replace, Drained, CheckOpen, CommitSession,
                    LoginReturns, Complete, Verify, LoginFails, CancelLogin, StartLogin
<1>4. ASSUME \/ SubmitWeb \/ SubmitBot \/ TakeWeb \/ TakeBot \/ StopOwner \/ StopDrain
             \/ StopReturns \/ DeleteCommits \/ DeleteSession \/ Switch \/ RestartStop
             \/ RestartStart \/ CallHandler \/ HandlerReturns
      PROVE  Counts
  BY <1>4, <1>e DEF SubmitWeb, SubmitBot, TakeWeb, TakeBot, StopOwner, StopDrain, StopReturns,
                    DeleteCommits, DeleteSession, Switch, RestartStop, RestartStart,
                    CallHandler, HandlerReturns
<1>5. ASSUME UNCHANGED vars PROVE Counts
  BY <1>5 DEF vars, Counts
<1>6. Counts
  BY <1>1, <1>2, <1>3, <1>4, <1>5
     DEF Next, UserStep, TransportStep, FlowStep, Owner, Restart, Dispatching
<1> QED
  BY <1>6 DEF Counts

-----------------------------------------------------------------------------
(* What a step does to one connection, one user, one login *)

ConnMoved(i, s, c, v) ==
    /\ conns' \in [Slots -> ConnType]
    /\ \A j \in Slots : j # i => conns'[j] = conns[j]
    /\ conns'[i].st = s /\ conns'[i].closing = c /\ conns'[i].ver = v

UserMoved(u, p, k) ==
    /\ users' \in [Users -> UserType]
    /\ \A v \in Users : v # u => users'[v] = users[v]
    /\ users'[u].pc = p /\ users'[u].conn = k

(* A new value of one entry, and of the fields the invariants speak of.    *)
LEMMA ConnSet ==
    ASSUME conns \in [Slots -> ConnType], NEW i \in Slots, NEW y \in ConnType,
           conns' = [conns EXCEPT ![i] = y]
    PROVE  ConnMoved(i, y.st, y.closing, y.ver)
BY DEF ConnMoved

(* A connection is told to close.                                          *)
LEMMA ConnCloses ==
    ASSUME conns \in [Slots -> ConnType], NEW i \in Slots, NEW b \in BOOLEAN,
           conns' = [conns EXCEPT ![i].closing = TRUE, ![i].canceled = b]
    PROVE  ConnMoved(i, conns[i].st, TRUE, conns[i].ver)
<1> DEFINE y == [conns[i] EXCEPT !.closing = TRUE, !.canceled = b]
<1>1. y \in ConnType /\ y.st = conns[i].st /\ y.closing = TRUE /\ y.ver = conns[i].ver
  BY DEF ConnType
<1>2. conns' = [conns EXCEPT ![i] = y]
  OBVIOUS
<1> HIDE DEF y
<1>3. ConnMoved(i, y.st, y.closing, y.ver)
  BY <1>1, <1>2, ConnSet
<1> QED
  BY <1>1, <1>3

(* The same for a user.                                                    *)
LEMMA UserSet ==
    ASSUME users \in [Users -> UserType], NEW u \in Users, NEW y \in UserType,
           users' = [users EXCEPT ![u] = y]
    PROVE  UserMoved(u, y.pc, y.conn)
BY DEF UserMoved

(* The caller of Run gets its result.                                      *)
LEMMA ReturnedMoves ==
    ASSUME users \in [Users -> UserType], NEW u \in Users, NEW res,
           users' = [users EXCEPT ![u] = Returned(u, res)]
    PROVE  \E p \in {"retry", "idle"} : UserMoved(u, p, 0)
<1> DEFINE y == Returned(u, res)
<1>1. y \in UserType /\ y.pc \in {"retry", "idle"} /\ y.conn = 0
  BY DEF Returned, UserType
<1> HIDE DEF y
<1>2. users' = [users EXCEPT ![u] = y]
  BY DEF y
<1>3. UserMoved(u, y.pc, y.conn)
  BY <1>1, <1>2, UserSet
<1> QED
  BY <1>1, <1>3

-----------------------------------------------------------------------------
(* Frames *)

(* A step of the users and of the transport: what is left to show.         *)
LEMMA TransportSide ==
    ASSUME Inv, [Next]_vars, UNCHANGED <<loginVars, owner>>,
           conns' \in [Slots -> ConnType], current' \in Slots \cup {0},
           users' \in [Users -> UserType], dispatch' \in DispatchType,
           ConnInv', UserInv', HandlerInv',
           \/ current' \in {0, current}
           \/ "cur" \notin owner.replacing /\ owner.closed = FALSE,
           \A i \in Slots : conns'[i].st \in {"serving", "ready"} =>
              \/ conns[i].st \in {"serving", "ready"} /\ conns'[i].ver = conns[i].ver
              \/ conns'[i].ver = session["cur"]
    PROVE  Inv'
<1>1. /\ flows' = flows /\ web' = web /\ deleting' = deleting /\ session' = session
      /\ committed' = committed /\ owner' = owner
  BY DEF loginVars
<1>2. events' \in Nat
  BY EventsType DEF Inv, Types
<1>3. Types'
  BY <1>1, <1>2 DEF Inv, Types
<1>4. WebInv'
  BY <1>1 DEF Inv, WebInv
<1>5. OwnerInv'
  <2>1. CASE current' \in {0, current}
    BY <1>1, <2>1 DEF Inv, OwnerInv
  <2>2. CASE "cur" \notin owner.replacing /\ owner.closed = FALSE
    BY <1>1, <2>2 DEF Inv, OwnerInv, Replacing
  <2> QED
    BY <2>1, <2>2
<1>6. SessionIsLatest'
  BY <1>1 DEF Inv, SessionIsLatest
<1> QED
  BY <1>3, <1>4, <1>5, <1>6 DEF Inv

(* A step that leaves the connections as they are to the invariants.       *)
LEMMA ConnsKept ==
    ASSUME Inv, current' = current,
           \A i \in Slots : conns'[i].st = conns[i].st /\ conns'[i].closing = conns[i].closing
                            /\ conns'[i].ver = conns[i].ver
    PROVE  /\ ConnInv'
           /\ \A i \in Slots : conns'[i].st \in {"serving", "ready"} =>
                 conns[i].st \in {"serving", "ready"} /\ conns'[i].ver = conns[i].ver
BY DEF Inv, Types, ConnInv

(* A user that moves elsewhere than into Run.                              *)
LEMMA UserElsewhere ==
    ASSUME Inv, NEW u \in Users, NEW p, NEW k, UserMoved(u, p, k), p \notin Inside,
           p = "opened" => k # 0 /\ conns[k].st # "none",
           current' = current, \A i \in Slots : conns'[i].st = conns[i].st
    PROVE  UserInv'
<1>1. current \in Slots \cup {0} /\ \A v \in Users : users[v].conn \in Slots \cup {0}
      /\ users'[u].conn \in Slots \cup {0}
  BY DEF Inv, Types, UserType, UserMoved
<1>2. ASSUME NEW v \in Users
      PROVE /\ users'[v].pc \in Inside => users'[v].conn = current' /\ current' # 0
                                    /\ conns'[current'].st \in Running
            /\ users'[v].pc = "opened" => users'[v].conn # 0 /\ conns'[users'[v].conn].st # "none"
  <2>1. CASE v = u
    BY <1>1, <2>1 DEF UserMoved
  <2>2. CASE v # u
    <3>1. users'[v] = users[v]
      BY <2>2 DEF UserMoved
    <3> QED
      BY <1>1, <3>1 DEF Inv, UserInv
  <2> QED
    BY <2>1, <2>2
<1> QED
  BY <1>2 DEF UserInv

(* A step that calls no handler and ends no Run.                           *)
LEMMA HandlersKept ==
    ASSUME Inv, dispatch' = dispatch,
           \A v \in Users : users[v].pc \in {"waiting", "using"} =>
                            users'[v].pc \in {"waiting", "using"}
    PROVE  HandlerInv'
BY DEF Inv, Types, DispatchType, HandlerInv, HandlersDrained

-----------------------------------------------------------------------------
(* Users *)

(* A caller outside Run comes or goes.                                     *)
LEMMA UserOutside ==
    ASSUME Inv, [Next]_vars, UNCHANGED <<loginVars, owner, conns, current, dispatch>>,
           NEW u \in Users, NEW p, NEW k, UserMoved(u, p, k), p \notin Inside,
           users[u].pc \notin {"waiting", "using"},
           p = "opened" => k # 0 /\ conns[k].st # "none"
    PROVE  Inv'
<1>1. ConnInv' /\ \A i \in Slots : conns'[i].st \in {"serving", "ready"} =>
                     conns[i].st \in {"serving", "ready"} /\ conns'[i].ver = conns[i].ver
  BY ConnsKept
<1>2. UserInv'
  BY UserElsewhere
<1>3. HandlerInv'
  BY HandlersKept DEF UserMoved
<1>4. /\ conns' \in [Slots -> ConnType] /\ current' \in Slots \cup {0}
      /\ users' \in [Users -> UserType] /\ dispatch' \in DispatchType
  BY DEF Inv, Types, UserMoved
<1> QED
  BY <1>1, <1>2, <1>3, <1>4, TransportSide DEF loginVars

(* Open refuses the caller: it goes elsewhere.                             *)
LEMMA OpenRefusedKeeps == ASSUME Inv, NEW u \in Users, OpenRefused(u), [Next]_vars PROVE Inv'
<1>1. PICK p \in {"retry", "idle"} : UserMoved(u, p, 0)
  BY ReturnedMoves DEF OpenRefused, Inv, Types
<1> QED
  BY <1>1, UserOutside DEF OpenRefused, Inside

(* Open hands out the current connection.                                  *)
LEMMA OpenSharedKeeps == ASSUME Inv, NEW u \in Users, OpenShared(u), [Next]_vars PROVE Inv'
<1> DEFINE y == [users[u] EXCEPT !.pc = "opened", !.conn = current]
<1>1. /\ y \in UserType /\ y.pc = "opened" /\ y.conn = current
      /\ users \in [Users -> UserType]
  BY DEF Inv, Types, UserType
<1>2. users' = [users EXCEPT ![u] = y]
  BY <1>1 DEF OpenShared
<1> HIDE DEF y
<1>3. UserMoved(u, "opened", current)
  BY <1>1, <1>2, UserSet
<1>4. current # 0 /\ conns[current].st # "none"
  BY DEF OpenShared, Inv, ConnInv, Running
<1> QED
  BY <1>3, <1>4, UserOutside DEF OpenShared, Inside

(* Open creates a connection when there is none, on a free slot.           *)
LEMMA OpenNewKeeps == ASSUME Inv, NEW u \in Users, OpenNew(u), [Next]_vars PROVE Inv'
<1>1. PICK i \in Slots : /\ Free(i) /\ current' = i
                         /\ conns' = [conns EXCEPT ![i] = [NoConn EXCEPT !.st = "open"]]
                         /\ users' = [users EXCEPT ![u].pc = "opened", ![u].conn = i]
  BY DEF OpenNew
<1>2. /\ users[u].pc = "open" /\ owner.closed = FALSE /\ "cur" \notin owner.replacing
      /\ current = 0 /\ dispatch' = dispatch /\ UNCHANGED <<loginVars, owner>>
      /\ users \in [Users -> UserType] /\ conns \in [Slots -> ConnType] /\ i # 0
  BY SlotTypes DEF OpenNew, Inv, Types, OwnerType
<1>3. ConnMoved(i, "open", FALSE, 0)
  <2> DEFINE y == [NoConn EXCEPT !.st = "open"]
  <2>1. y \in ConnType /\ y.st = "open" /\ y.closing = FALSE /\ y.ver = 0
    BY DEF NoConn, ConnType
  <2> HIDE DEF y
  <2>2. conns' = [conns EXCEPT ![i] = y]
    BY <1>1 DEF y
  <2> QED
    BY <1>2, <2>1, <2>2, ConnSet
<1>4. UserMoved(u, "opened", i)
  <2> DEFINE y == [users[u] EXCEPT !.pc = "opened", !.conn = i]
  <2>1. y \in UserType /\ y.pc = "opened" /\ y.conn = i
    BY <1>2 DEF UserType
  <2>2. users' = [users EXCEPT ![u] = y]
    BY <1>1, <1>2
  <2> HIDE DEF y
  <2> QED
    BY <1>2, <2>1, <2>2, UserSet
<1>5. ConnInv'
  <2>1. \A j \in Slots : conns[j].st \notin Running
    BY <1>2, SlotTypes DEF Inv, ConnInv
  <2>2. ASSUME NEW j \in Slots
        PROVE  /\ conns'[j].st \in Running => current' = j
               /\ conns'[j].st = "open" /\ current' # j => conns'[j].closing
               /\ conns'[j].st \in {"ended", "done"} => conns'[j].closing
    <3>1. CASE j = i
      BY <1>1, <1>3, <3>1 DEF ConnMoved, Running
    <3>2. CASE j # i
      <4>1. conns'[j] = conns[j]
        BY <1>3, <3>2 DEF ConnMoved
      <4>2. conns[j].st = "open" => conns[j].closing
        BY <1>2, SlotTypes DEF Inv, ConnInv
      <4>3. conns[j].st \in {"ended", "done"} => conns[j].closing
        BY DEF Inv, ConnInv
      <4> QED
        BY <2>1, <4>1, <4>2, <4>3
    <3> QED
      BY <3>1, <3>2
  <2>3. current' # 0 => conns'[current'].st \in Running \cup {"open"}
    BY <1>1, <1>3 DEF ConnMoved
  <2> QED
    BY <2>2, <2>3 DEF ConnInv
<1>6. ASSUME NEW v \in Users
      PROVE  /\ users'[v].pc \in Inside => users'[v].conn = current' /\ current' # 0
                                           /\ conns'[current'].st \in Running
             /\ users'[v].pc = "opened" => users'[v].conn # 0 /\ conns'[users'[v].conn].st # "none"
  <2>1. CASE v = u
    BY <1>2, <1>3, <1>4, <2>1 DEF UserMoved, ConnMoved, Inside
  <2>2. CASE v # u
    <3>1. users'[v] = users[v] /\ users[v].pc \notin Inside
      BY <1>2, <1>4, <2>2 DEF UserMoved, Inv, UserInv
    <3>2. users[v].pc = "opened" =>
             users[v].conn # i /\ users[v].conn \in Slots /\ conns[users[v].conn].st # "none"
      BY <1>1, <1>2 DEF Free, Refs, Inv, UserInv, UserType
    <3> QED
      BY <1>3, <3>1, <3>2, SlotTypes DEF ConnMoved
  <2> QED
    BY <2>1, <2>2
<1>7. UserInv'
  BY <1>6 DEF UserInv
<1>8. HandlerInv'
  BY <1>2, <1>4, HandlersKept DEF UserMoved
<1>9. \A j \in Slots : conns'[j].st \in {"serving", "ready"} =>
         conns[j].st \in {"serving", "ready"} /\ conns'[j].ver = conns[j].ver
  BY <1>3 DEF ConnMoved
<1>10. /\ conns' \in [Slots -> ConnType] /\ current' \in Slots \cup {0}
       /\ users' \in [Users -> UserType] /\ dispatch' \in DispatchType
  BY <1>1, <1>2, <1>3, <1>4 DEF Inv, Types, UserMoved, ConnMoved
<1> QED
  BY <1>2, <1>5, <1>7, <1>8, <1>9, <1>10, TransportSide DEF loginVars

(* Whoever enters Run is on the current connection, and starts it with the *)
(* session that is stored.                                                 *)
LEMMA EnterRunKeeps == ASSUME Inv, NEW u \in Users, EnterRun(u), [Next]_vars PROVE Inv'
<1>i. PICK i : i = users[u].conn
  OBVIOUS
<1>1. /\ users[u].pc = "opened" /\ users \in [Users -> UserType] /\ users[u] \in UserType
      /\ conns \in [Slots -> ConnType] /\ i \in Slots /\ i # 0 /\ conns[i].st # "none"
      /\ current' = current /\ dispatch' = dispatch /\ UNCHANGED <<loginVars, owner>>
      /\ session["cur"] \in Nat /\ owner.closed \in BOOLEAN
  BY <1>i DEF EnterRun, Inv, UserInv, Types, UserType, OwnerType, Accounts
<1>2. CASE conns' = conns /\ users' = [users EXCEPT ![u] = Returned(u, "failed")]
  <2>1. PICK p \in {"retry", "idle"} : UserMoved(u, p, 0)
    BY <1>1, <1>2, ReturnedMoves
  <2> QED
    BY <1>1, <1>2, <2>1, UserOutside DEF Inside
<1>3. CASE ~conns[i].closing /\ users' = [users EXCEPT ![u] = [users[u] EXCEPT !.pc = "waiting"]]
  <2>1. UserMoved(u, "waiting", i)
    <3> DEFINE y == [users[u] EXCEPT !.pc = "waiting"]
    <3>1. y \in UserType /\ y.pc = "waiting" /\ y.conn = i
      BY <1>i, <1>1 DEF UserType
    <3> HIDE DEF y
    <3>2. users' = [users EXCEPT ![u] = y]
      BY <1>3 DEF y
    <3> QED
      BY <1>1, <3>1, <3>2, UserSet
  <2>2. current = i /\ conns[i].st \in Running \cup {"open"}
    BY <1>1, <1>3 DEF Inv, ConnInv, Types, ConnType, Running
  <2>3. \/ conns[i].st = "open" /\ ConnMoved(i, "serving", conns[i].closing, session["cur"])
        \/ conns[i].st # "open" /\ conns' = conns
    <3>1. CASE conns[i].st = "open"
      <4> DEFINE y == [conns[i] EXCEPT !.st = "serving", !.canceled = owner.closed,
                                       !.ver = session["cur"]]
      <4>1. /\ y \in ConnType /\ y.st = "serving" /\ y.closing = conns[i].closing
            /\ y.ver = session["cur"]
        BY <1>1 DEF ConnType
      <4>2. conns' = [conns EXCEPT ![i].st = "serving", ![i].canceled = owner.closed,
                                   ![i].ver = session["cur"]]
        <5>1. users'[u].pc = "waiting"
          BY <2>1 DEF UserMoved
        <5>2. users' # [users EXCEPT ![u] = Returned(u, "failed")]
          <6> SUFFICES ASSUME users' = [users EXCEPT ![u] = Returned(u, "failed")]
                       PROVE  FALSE
            OBVIOUS
          <6>1. PICK p \in {"retry", "idle"} : UserMoved(u, p, 0)
            BY <1>1, ReturnedMoves
          <6> QED
            BY <5>1, <6>1 DEF UserMoved
        <5> QED
          BY <1>i, <3>1, <5>2 DEF EnterRun
      <4>3. conns' = [conns EXCEPT ![i] = y]
        BY <1>1, <4>2
      <4> HIDE DEF y
      <4> QED
        BY <1>1, <3>1, <4>1, <4>3, ConnSet
    <3>2. CASE conns[i].st # "open"
      BY <1>i, <3>2 DEF EnterRun
    <3> QED
      BY <3>1, <3>2
  <2>4. /\ conns'[i].st \in Running /\ conns'[i].closing = conns[i].closing
        /\ conns' \in [Slots -> ConnType]
        /\ \A j \in Slots : j # i => conns'[j] = conns[j]
        /\ conns'[i].st \in {"ended", "done"} => conns[i].st \in {"ended", "done"}
        /\ conns'[i].st \in {"serving", "ready"} =>
              \/ conns[i].st \in {"serving", "ready"} /\ conns'[i].ver = conns[i].ver
              \/ conns'[i].ver = session["cur"]
    BY <1>1, <2>2, <2>3 DEF ConnMoved, Running
  <2>5. ConnInv'
    BY <1>1, <2>2, <2>4 DEF Inv, ConnInv, Running
  <2>6. ASSUME NEW v \in Users
        PROVE  /\ users'[v].pc \in Inside => users'[v].conn = current' /\ current' # 0
                                             /\ conns'[current'].st \in Running
               /\ users'[v].pc = "opened" => users'[v].conn # 0 /\ conns'[users'[v].conn].st # "none"
    <3>1. CASE v = u
      BY <1>1, <2>1, <2>2, <2>4, <3>1 DEF UserMoved
    <3>2. CASE v # u
      <4>1. users'[v] = users[v] /\ users[v].conn \in Slots \cup {0}
        BY <1>1, <2>1, <3>2 DEF UserMoved, UserType
      <4> QED
        BY <1>1, <2>2, <2>4, <4>1 DEF Inv, UserInv, Running
    <3> QED
      BY <3>1, <3>2
  <2>7. UserInv'
    BY <2>6 DEF UserInv
  <2>8. HandlerInv'
    BY <1>1, <2>1, HandlersKept DEF UserMoved
  <2>9. /\ conns' \in [Slots -> ConnType] /\ current' \in Slots \cup {0}
        /\ users' \in [Users -> UserType] /\ dispatch' \in DispatchType
    BY <1>1, <2>1, <2>4 DEF Inv, Types, UserMoved
  <2>10. \A j \in Slots : conns'[j].st \in {"serving", "ready"} =>
            \/ conns[j].st \in {"serving", "ready"} /\ conns'[j].ver = conns[j].ver
            \/ conns'[j].ver = session["cur"]
    BY <2>4
  <2> QED
    BY <1>1, <2>5, <2>7, <2>8, <2>9, <2>10, TransportSide DEF loginVars
<1> QED
  BY <1>i, <1>2, <1>3 DEF EnterRun

(* A user inside Run that stays there, or leaves it.                       *)
LEMMA RunReadyKeeps == ASSUME Inv, NEW u \in Users, RunReady(u), [Next]_vars PROVE Inv'
<1> DEFINE y == [users[u] EXCEPT !.pc = "using"]
<1>1. /\ users \in [Users -> UserType] /\ y \in UserType /\ y.pc = "using"
      /\ y.conn = users[u].conn /\ users[u].pc = "waiting"
      /\ UNCHANGED <<loginVars, owner, conns, current, dispatch>>
  BY DEF Inv, Types, UserType, RunReady
<1>2. users' = [users EXCEPT ![u] = y]
  BY <1>1 DEF RunReady
<1> HIDE DEF y
<1>3. UserMoved(u, "using", users[u].conn)
  BY <1>1, <1>2, UserSet
<1>4. ConnInv' /\ \A i \in Slots : conns'[i].st \in {"serving", "ready"} =>
                     conns[i].st \in {"serving", "ready"} /\ conns'[i].ver = conns[i].ver
  BY <1>1, ConnsKept
<1>5. ASSUME NEW v \in Users
      PROVE  /\ users'[v].pc \in Inside => users'[v].conn = current' /\ current' # 0
                                           /\ conns'[current'].st \in Running
             /\ users'[v].pc = "opened" => users'[v].conn # 0 /\ conns'[users'[v].conn].st # "none"
  <2>1. CASE v = u
    BY <1>1, <1>3, <2>1 DEF UserMoved, Inside, Inv, UserInv
  <2>2. CASE v # u
    <3>1. users'[v] = users[v]
      BY <1>3, <2>2 DEF UserMoved
    <3> QED
      BY <1>1, <3>1 DEF Inv, UserInv
  <2> QED
    BY <2>1, <2>2
<1>6. UserInv'
  BY <1>5 DEF UserInv
<1>7. HandlerInv'
  BY <1>1, <1>3, HandlersKept DEF UserMoved
<1>8. /\ conns' \in [Slots -> ConnType] /\ current' \in Slots \cup {0}
      /\ users' \in [Users -> UserType] /\ dispatch' \in DispatchType
  BY <1>1, <1>3 DEF Inv, Types, UserMoved
<1> QED
  BY <1>1, <1>4, <1>6, <1>7, <1>8, TransportSide DEF loginVars

(* The entry of a handler is closed when its Run leaves.                   *)
LEMMA LeaveRunKeeps == ASSUME Inv, NEW u \in Users, LeaveRun(u), [Next]_vars PROVE Inv'
<1>1. /\ users \in [Users -> UserType] /\ users[u] \in UserType
      /\ users[u].pc \in {"waiting", "using"} /\ users[u].conn \in Slots
      /\ UNCHANGED <<loginVars, owner, conns, current>>
      /\ dispatch' = IF dispatch.user = u THEN [dispatch EXCEPT !.closed = TRUE] ELSE dispatch
      /\ conns[users[u].conn].canceled \in BOOLEAN /\ dispatch \in DispatchType
  BY DEF Inv, Types, UserType, ConnType, LeaveRun, UserInv, Inside
<1>2. \E s \in BOOLEAN, r \in {"nil", "canceled", "failed"} :
         users' = [users EXCEPT ![u] = [users[u] EXCEPT !.pc = "closing", !.stopped = s, !.res = r]]
  <2>1. CASE CallDone(u) /\
             users' = [users EXCEPT ![u].pc = "closing", ![u].stopped = conns[users[u].conn].canceled,
                                    ![u].res = IF users[u].pc = "using" THEN "nil" ELSE "canceled"]
    <3>1. users' = [users EXCEPT ![u] = [users[u] EXCEPT !.pc = "closing",
                        !.stopped = conns[users[u].conn].canceled,
                        !.res = IF users[u].pc = "using" THEN "nil" ELSE "canceled"]]
      BY <1>1, <2>1
    <3> QED
      BY <1>1, <3>1
  <2>2. CASE users' = [users EXCEPT ![u].pc = "closing",
                                    ![u].res = IF u = Watcher THEN "failed" ELSE "nil"]
    <3>1. users' = [users EXCEPT ![u] = [users[u] EXCEPT !.pc = "closing",
                        !.stopped = users[u].stopped,
                        !.res = IF u = Watcher THEN "failed" ELSE "nil"]]
      BY <1>1, <2>2 DEF UserType
    <3>2. users[u].stopped \in BOOLEAN
      BY <1>1 DEF UserType
    <3> QED
      BY <3>1, <3>2
  <2> QED
    BY <2>1, <2>2 DEF LeaveRun
<1>3. UserMoved(u, "closing", users[u].conn)
  <2>1. PICK s \in BOOLEAN, r \in {"nil", "canceled", "failed"} :
         users' = [users EXCEPT ![u] = [users[u] EXCEPT !.pc = "closing", !.stopped = s, !.res = r]]
    BY <1>2
  <2> DEFINE y == [users[u] EXCEPT !.pc = "closing", !.stopped = s, !.res = r]
  <2>2. y \in UserType /\ y.pc = "closing" /\ y.conn = users[u].conn
    BY <1>1 DEF UserType
  <2>3. users' = [users EXCEPT ![u] = y]
    BY <2>1
  <2> HIDE DEF y
  <2> QED
    BY <1>1, <2>2, <2>3, UserSet
<1>4. ConnInv' /\ \A i \in Slots : conns'[i].st \in {"serving", "ready"} =>
                     conns[i].st \in {"serving", "ready"} /\ conns'[i].ver = conns[i].ver
  BY <1>1, ConnsKept
<1>5. ASSUME NEW v \in Users
      PROVE  /\ users'[v].pc \in Inside => users'[v].conn = current' /\ current' # 0
                                           /\ conns'[current'].st \in Running
             /\ users'[v].pc = "opened" => users'[v].conn # 0 /\ conns'[users'[v].conn].st # "none"
  <2>1. CASE v = u
    BY <1>1, <1>3, <2>1 DEF UserMoved, Inside, Inv, UserInv
  <2>2. CASE v # u
    <3>1. users'[v] = users[v]
      BY <1>3, <2>2 DEF UserMoved
    <3> QED
      BY <1>1, <3>1 DEF Inv, UserInv
  <2> QED
    BY <2>1, <2>2
<1>6. UserInv'
  BY <1>5 DEF UserInv
<1>7. /\ dispatch' \in DispatchType /\ dispatch'.user = dispatch.user /\ dispatch'.st = dispatch.st
      /\ dispatch'.gone = dispatch.gone /\ (dispatch.closed => dispatch'.closed)
      /\ (dispatch.user = u => dispatch'.closed)
  BY <1>1 DEF DispatchType
<1>8. HandlerInv'
  <2>1. dispatch.user # u => users'[dispatch.user] = users[dispatch.user]
    BY <1>1, <1>3 DEF UserMoved, DispatchType
  <2> QED
    BY <1>7, <2>1 DEF Inv, HandlerInv, HandlersDrained
<1>9. /\ conns' \in [Slots -> ConnType] /\ current' \in Slots \cup {0}
      /\ users' \in [Users -> UserType]
  BY <1>1, <1>3 DEF Inv, Types, UserMoved
<1> QED
  BY <1>1, <1>4, <1>6, <1>7, <1>8, <1>9, TransportSide DEF loginVars

(* Run releases its resources only when its handler does not run.          *)
LEMMA ReleaseKeeps == ASSUME Inv, NEW u \in Users, Release(u), [Next]_vars PROVE Inv'
<1>i. PICK i : i = users[u].conn
  OBVIOUS
<1>1. /\ users \in [Users -> UserType] /\ users[u] \in UserType /\ users[u].pc = "closing"
      /\ i \in Slots /\ i = current /\ conns[i].st \in Running
      /\ conns \in [Slots -> ConnType] /\ conns[i] \in ConnType /\ dispatch \in DispatchType
      /\ current' = current /\ UNCHANGED <<loginVars, owner>>
      /\ ~(dispatch.user = u /\ dispatch.st = "active" /\ ~dispatch.gone)
      /\ dispatch' = IF dispatch.user = u THEN [dispatch EXCEPT !.gone = TRUE] ELSE dispatch
      /\ \/ conns' = conns
         \/ conns' = [conns EXCEPT ![i].closing = TRUE, ![i].canceled = TRUE]
      /\ \/ users' = [users EXCEPT ![u] = [users[u] EXCEPT !.pc = "wait"]]
         \/ users' = [users EXCEPT ![u] = Returned(u, users[u].res)]
  <2>1. /\ users \in [Users -> UserType] /\ users[u] \in UserType /\ users[u].pc = "closing"
        /\ i \in Slots /\ i = current /\ conns[i].st \in Running
        /\ conns \in [Slots -> ConnType] /\ conns[i] \in ConnType /\ dispatch \in DispatchType
    BY <1>i DEF Inv, Types, UserInv, Inside, Release, UserType
  <2>2. /\ current' = current /\ UNCHANGED <<loginVars, owner>>
        /\ ~(dispatch.user = u /\ dispatch.st = "active" /\ ~dispatch.gone)
        /\ dispatch' = IF dispatch.user = u THEN [dispatch EXCEPT !.gone = TRUE] ELSE dispatch
    BY DEF Release
  <2>3. /\ \/ conns' = conns
           \/ conns' = [conns EXCEPT ![i].closing = TRUE, ![i].canceled = TRUE]
        /\ \/ users' = [users EXCEPT ![u] = [users[u] EXCEPT !.pc = "wait"]]
           \/ users' = [users EXCEPT ![u] = Returned(u, users[u].res)]
    BY <1>i DEF Release
  <2> QED
    BY <2>1, <2>2, <2>3
<1>2. \E p \in {"wait", "retry", "idle"}, k \in Slots \cup {0} : UserMoved(u, p, k)
  <2>1. CASE users' = [users EXCEPT ![u] = [users[u] EXCEPT !.pc = "wait"]]
    <3> DEFINE y == [users[u] EXCEPT !.pc = "wait"]
    <3>1. y \in UserType /\ y.pc = "wait" /\ y.conn \in Slots \cup {0}
      BY <1>1 DEF UserType
    <3>2. users' = [users EXCEPT ![u] = y]
      BY <2>1
    <3> HIDE DEF y
    <3>3. UserMoved(u, y.pc, y.conn)
      BY <1>1, <3>1, <3>2, UserSet
    <3> QED
      BY <3>1, <3>3
  <2>2. CASE users' = [users EXCEPT ![u] = Returned(u, users[u].res)]
    <3>1. PICK p \in {"retry", "idle"} : UserMoved(u, p, 0)
      BY <1>1, <2>2, ReturnedMoves
    <3> QED
      BY <3>1
  <2> QED
    BY <1>1, <2>1, <2>2
<1>3. PICK p \in {"wait", "retry", "idle"}, k \in Slots \cup {0} : UserMoved(u, p, k)
  BY <1>2
<1>4. /\ conns' \in [Slots -> ConnType]
      /\ \A j \in Slots : /\ conns'[j].st = conns[j].st /\ conns'[j].ver = conns[j].ver
                          /\ conns[j].closing => conns'[j].closing
  <2>1. CASE conns' = conns
    BY <1>1, <2>1
  <2>2. CASE conns' = [conns EXCEPT ![i].closing = TRUE, ![i].canceled = TRUE]
    <3>1. ConnMoved(i, conns[i].st, TRUE, conns[i].ver)
      BY <1>1, <2>2, ConnCloses
    <3> QED
      BY <3>1 DEF ConnMoved
  <2> QED
    BY <1>1, <2>1, <2>2
<1>5. ConnInv'
  BY <1>1, <1>4 DEF Inv, ConnInv, Types
<1>6. UserInv'
  BY <1>1, <1>3, <1>4, UserElsewhere DEF Inside
<1>7. /\ dispatch' \in DispatchType /\ dispatch'.user = dispatch.user /\ dispatch'.st = dispatch.st
      /\ dispatch'.closed = dispatch.closed
      /\ (dispatch.user # u => dispatch'.gone = dispatch.gone)
  BY <1>1 DEF DispatchType
<1>8. HandlerInv'
  <2>1. CASE dispatch.user = u
    BY <1>1, <1>7, <2>1 DEF Inv, HandlerInv, HandlersDrained
  <2>2. CASE dispatch.user # u
    <3>1. users'[dispatch.user] = users[dispatch.user]
      BY <1>1, <1>3, <2>2 DEF UserMoved, DispatchType
    <3> QED
      BY <1>7, <2>2, <3>1 DEF Inv, HandlerInv, HandlersDrained
  <2> QED
    BY <2>1, <2>2
<1>9. /\ current' \in Slots \cup {0} /\ users' \in [Users -> UserType]
  BY <1>1, <1>3 DEF Inv, Types, UserMoved
<1>10. \A j \in Slots : conns'[j].st \in {"serving", "ready"} =>
         conns[j].st \in {"serving", "ready"} /\ conns'[j].ver = conns[j].ver
  BY <1>4
<1> QED
  BY <1>1, <1>4, <1>5, <1>6, <1>7, <1>8, <1>9, <1>10, TransportSide DEF loginVars

(* The user of a transport that has ended gets its result.                 *)
LEMMA AwaitDoneKeeps == ASSUME Inv, NEW u \in Users, AwaitDone(u), [Next]_vars PROVE Inv'
<1>1. \E res : users' = [users EXCEPT ![u] = Returned(u, res)]
  BY DEF AwaitDone
<1>2. PICK res : users' = [users EXCEPT ![u] = Returned(u, res)]
  BY <1>1
<1>3. PICK p \in {"retry", "idle"} : UserMoved(u, p, 0)
  BY <1>2, ReturnedMoves DEF Inv, Types
<1> QED
  BY <1>3, UserOutside DEF AwaitDone, Inside

(* A caller that comes, tries again or has its context done.               *)
LEMMA RetryKeeps == ASSUME Inv, NEW u \in Users, Retry(u), [Next]_vars PROVE Inv'
<1> DEFINE y == [users[u] EXCEPT !.pc = IF users[u].done THEN "idle" ELSE "open"]
<1>1. /\ users \in [Users -> UserType] /\ y \in UserType /\ y.pc \in {"idle", "open"}
      /\ y.conn = users[u].conn
  BY DEF Inv, Types, UserType
<1>2. users' = [users EXCEPT ![u] = y]
  BY <1>1 DEF Retry
<1> HIDE DEF y
<1>3. UserMoved(u, y.pc, y.conn)
  BY <1>1, <1>2, UserSet
<1> QED
  BY <1>1, <1>3, UserOutside DEF Retry, Inside

(* A probe comes.                                                          *)
LEMMA StartProbeKeeps == ASSUME Inv, NEW u \in Users, StartProbe(u), [Next]_vars PROVE Inv'
<1> DEFINE y == [users[u] EXCEPT !.pc = "open", !.done = FALSE]
<1>1. /\ users \in [Users -> UserType] /\ y \in UserType /\ y.pc = "open"
      /\ y.conn = users[u].conn
  BY DEF Inv, Types, UserType
<1>2. users' = [users EXCEPT ![u] = y]
  BY <1>1 DEF StartProbe
<1> HIDE DEF y
<1>3. UserMoved(u, y.pc, y.conn)
  BY <1>1, <1>2, UserSet
<1> QED
  BY <1>1, <1>3, UserOutside DEF StartProbe, Inside

(* Only the context of a user changes.                                     *)
LEMMA UserContext ==
    ASSUME Inv, [Next]_vars, UNCHANGED <<loginVars, owner, conns, current, dispatch>>,
           NEW u \in Users, NEW b \in BOOLEAN, users' = [users EXCEPT ![u].done = b]
    PROVE  Inv'
<1>1. /\ users' \in [Users -> UserType]
      /\ \A v \in Users : users'[v].pc = users[v].pc /\ users'[v].conn = users[v].conn
  <2> DEFINE y == [users[u] EXCEPT !.done = b]
  <2>1. /\ users \in [Users -> UserType] /\ y \in UserType /\ y.pc = users[u].pc
        /\ y.conn = users[u].conn
    BY DEF Inv, Types, UserType
  <2>2. users' = [users EXCEPT ![u] = y]
    BY <2>1
  <2> HIDE DEF y
  <2>3. UserMoved(u, y.pc, y.conn)
    BY <2>1, <2>2, UserSet
  <2> QED
    BY <2>1, <2>3 DEF UserMoved
<1>2. ConnInv' /\ \A i \in Slots : conns'[i].st \in {"serving", "ready"} =>
                     conns[i].st \in {"serving", "ready"} /\ conns'[i].ver = conns[i].ver
  BY ConnsKept
<1>3. UserInv'
  BY <1>1 DEF Inv, UserInv
<1>4. HandlerInv'
  BY <1>1, HandlersKept
<1>5. /\ conns' \in [Slots -> ConnType] /\ current' \in Slots \cup {0}
      /\ dispatch' \in DispatchType
  BY DEF Inv, Types
<1> QED
  BY <1>1, <1>2, <1>3, <1>4, <1>5, TransportSide DEF loginVars

(* The context of a probe is cancelled.                                    *)
LEMMA CancelUserKeeps == ASSUME Inv, NEW u \in Users, CancelUser(u), [Next]_vars PROVE Inv'
BY UserContext DEF CancelUser

-----------------------------------------------------------------------------
(* Handlers of updates *)

(* Only the update on its way to a handler moves.                          *)
LEMMA DispatchSide ==
    ASSUME Inv, [Next]_vars, UNCHANGED <<loginVars, owner, conns, current, users>>,
           dispatch' \in DispatchType, HandlerInv'
    PROVE  Inv'
<1>1. ConnInv' /\ \A i \in Slots : conns'[i].st \in {"serving", "ready"} =>
                     conns[i].st \in {"serving", "ready"} /\ conns'[i].ver = conns[i].ver
  BY ConnsKept
<1>2. UserInv'
  BY DEF Inv, UserInv
<1>3. /\ conns' \in [Slots -> ConnType] /\ current' \in Slots \cup {0}
      /\ users' \in [Users -> UserType]
  BY DEF Inv, Types
<1> QED
  BY <1>1, <1>2, <1>3, TransportSide DEF loginVars

(* An update is copied for a Run that is inside.                           *)
LEMMA CopyHandlersKeeps == ASSUME Inv, NEW u \in Users, CopyHandlers(u), [Next]_vars PROVE Inv'
<1>1. /\ dispatch' \in DispatchType /\ dispatch'.user = u /\ dispatch'.st = "copied"
      /\ dispatch'.gone = FALSE /\ users[u].pc \in {"waiting", "using"}
      /\ UNCHANGED <<loginVars, owner, conns, current, users>>
  BY DEF CopyHandlers, DispatchType
<1>2. HandlerInv'
  BY <1>1 DEF HandlerInv, HandlersDrained
<1> QED
  BY <1>1, <1>2, DispatchSide

(* A handler is called while its entry is open: its Run is inside.         *)
LEMMA CallHandlerKeeps == ASSUME Inv, CallHandler, [Next]_vars PROVE Inv'
<1>1. /\ dispatch \in DispatchType /\ dispatch.st = "copied"
      /\ dispatch' = IF dispatch.closed THEN NoDispatch ELSE [dispatch EXCEPT !.st = "active"]
      /\ UNCHANGED <<loginVars, owner, conns, current, users>>
  BY DEF CallHandler, Inv, Types
<1>2. /\ dispatch' \in DispatchType
      /\ \/ dispatch'.st = "none"
         \/ ~dispatch.closed /\ dispatch'.st = "active" /\ dispatch'.gone = dispatch.gone
  BY <1>1, SlotTypes DEF DispatchType, NoDispatch
<1>3. HandlerInv'
  BY <1>1, <1>2 DEF Inv, HandlerInv, HandlersDrained
<1> QED
  BY <1>1, <1>2, <1>3, DispatchSide

(* A handler returns.                                                      *)
LEMMA HandlerReturnsKeeps == ASSUME Inv, HandlerReturns, [Next]_vars PROVE Inv'
<1>1. /\ dispatch' \in DispatchType /\ dispatch'.st = "none"
      /\ UNCHANGED <<loginVars, owner, conns, current, users>>
  BY SlotTypes DEF HandlerReturns, DispatchType, NoDispatch
<1>2. HandlerInv'
  BY <1>1 DEF HandlerInv, HandlersDrained
<1> QED
  BY <1>1, <1>2, DispatchSide

-----------------------------------------------------------------------------
(* The transport *)

(* The transport of the current connection moves on; it is given up only   *)
(* when nobody is inside Run.                                              *)
LEMMA TransportMoves ==
    ASSUME Inv, [Next]_vars, UNCHANGED <<loginVars, owner, users, dispatch>>,
           NEW i \in Slots, NEW s \in Running \cup {"done"}, NEW c \in BOOLEAN, NEW n,
           ConnMoved(i, s, c, n), conns[i].st \in Running,
           current' = IF s = "done" THEN 0 ELSE current,
           s = "done" => \A u \in Users : users[u].pc \in Inside => users[u].conn # i,
           s \in {"ended", "done"} => c,
           s \in {"serving", "ready"} => conns[i].st \in {"serving", "ready"} /\ n = conns[i].ver
    PROVE  Inv'
<1>1. /\ current = i /\ i # 0 /\ conns' \in [Slots -> ConnType]
      /\ \A j \in Slots : j # i => conns'[j] = conns[j] /\ conns[j].st \notin Running
      /\ conns'[i].st = s /\ conns'[i].closing = c /\ conns'[i].ver = n
  BY SlotTypes DEF Inv, ConnInv, ConnMoved
<1>2. ConnInv'
  <2>1. ASSUME NEW j \in Slots
        PROVE  /\ conns'[j].st \in Running => current' = j
               /\ conns'[j].st = "open" /\ current' # j => conns'[j].closing
               /\ conns'[j].st \in {"ended", "done"} => conns'[j].closing
    <3>1. CASE j = i
      BY <1>1, <3>1 DEF Running
    <3>2. CASE j # i
      <4>1. conns'[j] = conns[j] /\ conns[j].st \notin Running
        BY <1>1, <3>2
      <4>2. conns[j].st = "open" => conns[j].closing
        BY <1>1, <3>2 DEF Inv, ConnInv
      <4>3. conns[j].st \in {"ended", "done"} => conns[j].closing
        BY DEF Inv, ConnInv
      <4> QED
        BY <4>1, <4>2, <4>3
    <3> QED
      BY <3>1, <3>2
  <2>2. current' # 0 => conns'[current'].st \in Running \cup {"open"}
    BY <1>1
  <2> QED
    BY <2>1, <2>2 DEF ConnInv
<1>3. UserInv'
  <2>1. ASSUME NEW v \in Users
        PROVE  /\ users'[v].pc \in Inside => users'[v].conn = current' /\ current' # 0
                                             /\ conns'[current'].st \in Running
               /\ users'[v].pc = "opened" => users'[v].conn # 0 /\ conns'[users'[v].conn].st # "none"
    <3>1. users'[v] = users[v] /\ users[v].conn \in Slots \cup {0}
      BY DEF Inv, Types, UserType
    <3>2. users[v].pc \in Inside => users[v].conn = i /\ s # "done"
      BY <1>1 DEF Inv, UserInv
    <3>3. users[v].pc = "opened" => users[v].conn \in Slots /\ conns[users[v].conn].st # "none"
      BY <3>1 DEF Inv, UserInv
    <3> QED
      BY <1>1, <3>1, <3>2, <3>3, SlotTypes DEF Running
  <2> QED
    BY <2>1 DEF UserInv
<1>4. HandlerInv'
  BY HandlersKept
<1>5. /\ current' \in Slots \cup {0} /\ users' \in [Users -> UserType]
      /\ dispatch' \in DispatchType
  BY DEF Inv, Types
<1>6. \A j \in Slots : conns'[j].st \in {"serving", "ready"} =>
         conns[j].st \in {"serving", "ready"} /\ conns'[j].ver = conns[j].ver
  BY <1>1 DEF Running
<1>7. current' \in {0, current}
  OBVIOUS
<1> QED
  BY <1>1, <1>2, <1>3, <1>4, <1>5, <1>6, <1>7, TransportSide DEF loginVars

(* The transport becomes ready.                                            *)
LEMMA ConnectKeeps == ASSUME Inv, NEW i \in Slots, Connect(i), [Next]_vars PROVE Inv'
<1> DEFINE y == [conns[i] EXCEPT !.st = "ready"]
<1>1. /\ conns \in [Slots -> ConnType] /\ y \in ConnType /\ y.st = "ready"
      /\ y.closing \in BOOLEAN /\ y.ver = conns[i].ver /\ conns[i].st = "serving"
      /\ UNCHANGED <<loginVars, owner, users, dispatch>> /\ current' = current
  BY DEF Connect, Inv, Types, ConnType
<1>2. conns' = [conns EXCEPT ![i] = y]
  BY <1>1 DEF Connect
<1> HIDE DEF y
<1>3. ConnMoved(i, y.st, y.closing, y.ver)
  BY <1>1, <1>2, ConnSet
<1> QED
  BY <1>1, <1>3, TransportMoves DEF Running

(* The transport fails: it ends, and closes.                               *)
LEMMA TransportFailsKeeps ==
    ASSUME Inv, NEW i \in Slots, TransportFails(i), [Next]_vars PROVE Inv'
<1> DEFINE y == [conns[i] EXCEPT !.st = "ended", !.err = "failed", !.closing = TRUE,
                                 !.canceled = TRUE]
<1>1. /\ conns \in [Slots -> ConnType] /\ y \in ConnType /\ y.st = "ended"
      /\ y.closing = TRUE /\ conns[i].st \in {"serving", "ready"}
      /\ UNCHANGED <<loginVars, owner, users, dispatch>> /\ current' = current
  BY DEF TransportFails, Inv, Types, ConnType
<1>2. conns' = [conns EXCEPT ![i] = y]
  BY <1>1 DEF TransportFails
<1> HIDE DEF y
<1>3. ConnMoved(i, "ended", TRUE, y.ver)
  BY <1>1, <1>2, ConnSet
<1> QED
  BY <1>1, <1>3, TransportMoves DEF Running

(* The cancelled transport closes, or ends.                                *)
LEMMA TransportStopsKeeps ==
    ASSUME Inv, NEW i \in Slots, TransportStops(i), [Next]_vars PROVE Inv'
<1>1. /\ conns \in [Slots -> ConnType] /\ conns[i].st \in {"serving", "ready"}
      /\ UNCHANGED <<loginVars, owner, users, dispatch>> /\ current' = current
  BY DEF TransportStops, Inv, Types
<1>2. CASE conns' = [conns EXCEPT ![i].closing = TRUE]
  <2> DEFINE y == [conns[i] EXCEPT !.closing = TRUE]
  <2>1. y \in ConnType /\ y.st = conns[i].st /\ y.closing = TRUE /\ y.ver = conns[i].ver
    BY <1>1 DEF ConnType
  <2>2. conns' = [conns EXCEPT ![i] = y]
    BY <1>1, <1>2
  <2> HIDE DEF y
  <2>3. ConnMoved(i, conns[i].st, TRUE, conns[i].ver)
    BY <1>1, <2>1, <2>2, ConnSet
  <2> QED
    BY <1>1, <2>1, <2>3, TransportMoves DEF Running
<1>3. CASE conns' = [conns EXCEPT ![i].st = "ended", ![i].err = "canceled", ![i].closing = TRUE]
  <2> DEFINE y == [conns[i] EXCEPT !.st = "ended", !.err = "canceled", !.closing = TRUE]
  <2>1. y \in ConnType /\ y.st = "ended" /\ y.closing = TRUE
    BY <1>1 DEF ConnType
  <2>2. conns' = [conns EXCEPT ![i] = y]
    BY <1>1, <1>3
  <2> HIDE DEF y
  <2>3. ConnMoved(i, "ended", TRUE, y.ver)
    BY <1>1, <2>1, <2>2, ConnSet
  <2> QED
    BY <1>1, <2>1, <2>3, TransportMoves DEF Running
<1> QED
  BY <1>2, <1>3 DEF TransportStops

(* The transport is given up when nobody is counted on it.                 *)
LEMMA FinishServeKeeps == ASSUME Inv, NEW i \in Slots, FinishServe(i), [Next]_vars PROVE Inv'
<1> DEFINE y == [conns[i] EXCEPT !.st = "done", !.ver = 0]
<1>1. /\ conns \in [Slots -> ConnType] /\ y \in ConnType /\ y.st = "done"
      /\ y.closing = conns[i].closing /\ conns[i].st = "ended" /\ conns[i].closing = TRUE
      /\ UNCHANGED <<loginVars, owner, users, dispatch>> /\ current' = 0
  BY DEF FinishServe, Inv, Types, ConnType, ConnInv, Running
<1>2. conns' = [conns EXCEPT ![i] = y]
  BY <1>1 DEF FinishServe
<1> HIDE DEF y
<1>3. ConnMoved(i, y.st, y.closing, y.ver)
  BY <1>1, <1>2, ConnSet
<1>4. \A u \in Users : users[u].pc \in Inside => users[u].conn # i
  BY DEF FinishServe, Counted, Inside
<1> QED
  BY <1>1, <1>3, <1>4, TransportMoves DEF Running

-----------------------------------------------------------------------------
(* Connections.Stop *)

(* The current connection is told to close; one that was never started is  *)
(* dropped.  Nobody is inside Run on that one.                             *)
LEMMA CurrentCloses ==
    ASSUME Inv, current # 0, users' = users,
           ConnMoved(current, conns[current].st, TRUE, conns[current].ver),
           current' = IF conns[current].st = "open" THEN 0 ELSE current
    PROVE  /\ ConnInv' /\ UserInv' /\ conns' \in [Slots -> ConnType]
           /\ current' \in Slots \cup {0}
           /\ \A j \in Slots : conns'[j].st \in {"serving", "ready"} =>
                 conns[j].st \in {"serving", "ready"} /\ conns'[j].ver = conns[j].ver
<1>i. PICK i \in Slots : i = current
  BY DEF Inv, Types
<1>1. /\ i # 0 /\ conns' \in [Slots -> ConnType]
      /\ \A j \in Slots : j # i => conns'[j] = conns[j] /\ conns[j].st \notin Running
      /\ conns'[i].st = conns[i].st /\ conns'[i].closing = TRUE /\ conns'[i].ver = conns[i].ver
      /\ conns[i].st \in Running \cup {"open"}
  BY <1>i, SlotTypes DEF Inv, ConnInv, ConnMoved
<1>2. ConnInv'
  <2>1. ASSUME NEW j \in Slots
        PROVE  /\ conns'[j].st \in Running => current' = j
               /\ conns'[j].st = "open" /\ current' # j => conns'[j].closing
               /\ conns'[j].st \in {"ended", "done"} => conns'[j].closing
    <3>1. CASE j = i
      BY <1>i, <1>1, <3>1 DEF Running
    <3>2. CASE j # i
      <4>1. conns'[j] = conns[j] /\ conns[j].st \notin Running
        BY <1>1, <3>2
      <4>2. conns[j].st = "open" => conns[j].closing
        BY <1>i, <1>1, <3>2 DEF Inv, ConnInv
      <4>3. conns[j].st \in {"ended", "done"} => conns[j].closing
        BY DEF Inv, ConnInv
      <4> QED
        BY <4>1, <4>2, <4>3
    <3> QED
      BY <3>1, <3>2
  <2>2. current' # 0 => conns'[current'].st \in Running \cup {"open"}
    BY <1>i, <1>1
  <2> QED
    BY <2>1, <2>2 DEF ConnInv
<1>3. UserInv'
  <2>1. ASSUME NEW v \in Users
        PROVE  /\ users'[v].pc \in Inside => users'[v].conn = current' /\ current' # 0
                                             /\ conns'[current'].st \in Running
               /\ users'[v].pc = "opened" => users'[v].conn # 0 /\ conns'[users'[v].conn].st # "none"
    <3>1. users'[v] = users[v] /\ users[v].conn \in Slots \cup {0}
      BY DEF Inv, Types, UserType
    <3>2. users[v].pc \in Inside => users[v].conn = i /\ conns[i].st \in Running
      BY <1>i, <1>1 DEF Inv, UserInv
    <3>3. users[v].pc = "opened" => users[v].conn \in Slots /\ conns[users[v].conn].st # "none"
      BY <3>1 DEF Inv, UserInv
    <3> QED
      BY <1>i, <1>1, <3>1, <3>2, <3>3, SlotTypes DEF Running
  <2> QED
    BY <2>1 DEF UserInv
<1>4. \A j \in Slots : conns'[j].st \in {"serving", "ready"} =>
         conns[j].st \in {"serving", "ready"} /\ conns'[j].ver = conns[j].ver
  BY <1>1 DEF Running
<1> QED
  BY <1>i, <1>1, <1>2, <1>3, <1>4

(* Stop closes the current connection.                                     *)
LEMMA StopDrainKeeps == ASSUME Inv, StopDrain, [Next]_vars PROVE Inv'
<1>i. PICK i \in Slots : i = current
  BY DEF StopDrain, Inv, Types
<1>1. /\ conns' = [conns EXCEPT ![i].closing = TRUE, ![i].canceled = TRUE]
      /\ current' = IF conns[current].st = "open" THEN 0 ELSE current
      /\ UNCHANGED <<loginVars, owner, users, dispatch>> /\ current # 0
      /\ conns \in [Slots -> ConnType]
  BY <1>i DEF StopDrain, Inv, Types
<1>2. ConnMoved(i, conns[i].st, TRUE, conns[i].ver)
  BY <1>1, ConnCloses
<1>3. ConnMoved(current, conns[current].st, TRUE, conns[current].ver)
  BY <1>i, <1>2
<1>4. /\ ConnInv' /\ UserInv' /\ conns' \in [Slots -> ConnType]
      /\ current' \in Slots \cup {0}
      /\ \A j \in Slots : conns'[j].st \in {"serving", "ready"} =>
            conns[j].st \in {"serving", "ready"} /\ conns'[j].ver = conns[j].ver
  BY <1>1, <1>3, CurrentCloses
<1>5. HandlerInv'
  BY <1>1, HandlersKept
<1>6. users' \in [Users -> UserType] /\ dispatch' \in DispatchType /\ current' \in {0, current}
  BY <1>1 DEF Inv, Types
<1> QED
  BY <1>1, <1>4, <1>5, <1>6, TransportSide DEF loginVars

(* The flags of the owner and the cancellation of the transports.          *)
LEMMA OwnerFlags ==
    ASSUME Inv, [Next]_vars, UNCHANGED <<loginVars, current, users, dispatch>>,
           conns' \in [Slots -> ConnType],
           \A i \in Slots : conns'[i].st = conns[i].st /\ conns'[i].closing = conns[i].closing
                            /\ conns'[i].ver = conns[i].ver,
           owner' \in OwnerType, owner'.logins = owner.logins,
           owner'.replacing = owner.replacing,
           owner'.stopped => /\ owner'.closed /\ current = 0
                             /\ owner.logins = {} /\ owner.replacing = {}
    PROVE  Inv'
<1>1. /\ flows' = flows /\ web' = web /\ deleting' = deleting /\ session' = session
      /\ committed' = committed
  BY DEF loginVars
<1>2. events' \in Nat
  BY EventsType DEF Inv, Types
<1>3. Types'
  BY <1>1, <1>2 DEF Inv, Types
<1>4. WebInv'
  BY <1>1 DEF Inv, WebInv
<1>5. OwnerInv'
  BY <1>1 DEF Inv, OwnerInv
<1>6. ConnInv' /\ \A i \in Slots : conns'[i].st \in {"serving", "ready"} =>
                     conns[i].st \in {"serving", "ready"} /\ conns'[i].ver = conns[i].ver
  BY ConnsKept
<1>7. SessionIsLatest'
  BY <1>1, <1>6 DEF Inv, SessionIsLatest
<1>8. UserInv'
  <2>1. ASSUME NEW v \in Users
        PROVE  /\ users'[v].pc \in Inside => users'[v].conn = current' /\ current' # 0
                                             /\ conns'[current'].st \in Running
               /\ users'[v].pc = "opened" => users'[v].conn # 0 /\ conns'[users'[v].conn].st # "none"
    <3>1. users'[v] = users[v] /\ users[v].conn \in Slots \cup {0} /\ current \in Slots \cup {0}
      BY DEF Inv, Types, UserType
    <3> QED
      BY <3>1 DEF Inv, UserInv
  <2> QED
    BY <2>1 DEF UserInv
<1>9. HandlerInv'
  BY HandlersKept
<1> QED
  BY <1>3, <1>4, <1>5, <1>6, <1>7, <1>8, <1>9 DEF Inv

(* Stop cancels the transports.                                            *)
LEMMA StopOwnerKeeps == ASSUME Inv, StopOwner, [Next]_vars PROVE Inv'
<1>1. /\ owner \in OwnerType /\ owner' = [owner EXCEPT !.closed = TRUE]
      /\ conns \in [Slots -> ConnType]
      /\ UNCHANGED <<loginVars, current, users, dispatch>>
  BY DEF StopOwner, Inv, Types
<1>2. /\ owner' \in OwnerType /\ owner'.closed = TRUE /\ owner'.logins = owner.logins
      /\ owner'.replacing = owner.replacing /\ owner'.stopped = owner.stopped
  BY <1>1 DEF OwnerType
<1>3. \A i \in Slots : conns'[i] = conns[i] \/ conns'[i] = [conns[i] EXCEPT !.canceled = TRUE]
  BY DEF StopOwner
<1>4. /\ conns' \in [Slots -> ConnType]
      /\ \A i \in Slots : conns'[i].st = conns[i].st /\ conns'[i].closing = conns[i].closing
                          /\ conns'[i].ver = conns[i].ver
  <2>1. ASSUME NEW i \in Slots
        PROVE  /\ conns'[i] \in ConnType /\ conns'[i].st = conns[i].st
               /\ conns'[i].closing = conns[i].closing /\ conns'[i].ver = conns[i].ver
    <3>1. conns[i] \in ConnType
      BY <1>1
    <3>2. CASE conns'[i] = conns[i]
      BY <3>1, <3>2
    <3>3. CASE conns'[i] = [conns[i] EXCEPT !.canceled = TRUE]
      BY <3>1, <3>3 DEF ConnType
    <3> QED
      BY <1>3, <3>2, <3>3
  <2>2. conns' = [i \in Slots |-> conns'[i]]
    BY DEF StopOwner
  <2> QED
    BY <2>1, <2>2
<1> QED
  BY <1>1, <1>2, <1>4, OwnerFlags DEF Inv, OwnerInv

(* Stop returns when nothing is held any more.                             *)
LEMMA StopReturnsKeeps == ASSUME Inv, StopReturns, [Next]_vars PROVE Inv'
<1>1. /\ owner \in OwnerType /\ owner' = [owner EXCEPT !.stopped = TRUE]
      /\ conns' = conns /\ conns \in [Slots -> ConnType]
      /\ UNCHANGED <<loginVars, current, users, dispatch>>
      /\ owner.closed /\ current = 0 /\ owner.logins = {} /\ owner.replacing = {}
  BY DEF StopReturns, Inv, Types
<1>2. /\ owner' \in OwnerType /\ owner'.closed = owner.closed /\ owner'.logins = owner.logins
      /\ owner'.replacing = owner.replacing
  BY <1>1 DEF OwnerType
<1> QED
  BY <1>1, <1>2, OwnerFlags

-----------------------------------------------------------------------------
(* Logins *)

FlowMoved(f, y) ==
    /\ flows' \in [Flows -> FlowType] /\ flows'[f] = y
    /\ \A g \in Flows : g # f => flows'[g] = flows[g]

(* A new value of one login.                                               *)
LEMMA FlowSet ==
    ASSUME flows \in [Flows -> FlowType], NEW f \in Flows, NEW y \in FlowType,
           flows' = [flows EXCEPT ![f] = y]
    PROVE  FlowMoved(f, y)
BY DEF FlowMoved

(* The logins are two, by name; the idle one and the empty prompt.         *)
LEMMA FlowConstants ==
    /\ "web" \in Flows /\ "bot" \in Flows /\ "cur" \in Accounts /\ "other" \in Accounts
    /\ NoFlow \in FlowType /\ NoFlow.pc = "idle" /\ NoWeb \in WebType
    /\ NoWeb.code = 0 /\ NoWeb.password = 0 /\ NoWeb.stage = "none"
BY DEF Flows, Accounts, NoFlow, FlowType, NoWeb, WebType, Stages

(* A step of the logins that leaves the transport alone: what is left.     *)
LEMMA LoginSide ==
    ASSUME Inv, [Next]_vars,
           UNCHANGED <<conns, current, users, dispatch, deleting, session, committed>>,
           owner' \in OwnerType, flows' \in [Flows -> FlowType], web' \in WebType,
           OwnerInv', WebInv',
           \A g \in Flows : flows'[g].pc \notin {"idle", "auth", "returning", "completing"} =>
              flows'[g].seen = session[flows'[g].acct]
    PROVE  Inv'
<1>1. events' \in Nat
  BY EventsType DEF Inv, Types
<1>2. Types'
  BY <1>1 DEF Inv, Types
<1>3. ConnInv' /\ UserInv' /\ HandlerInv'
  BY DEF Inv, ConnInv, UserInv, HandlerInv, HandlersDrained
<1>4. SessionIsLatest'
  BY DEF Inv, SessionIsLatest
<1> QED
  BY <1>2, <1>3, <1>4 DEF Inv

(* One login moves while the owner takes or gives back its account.        *)
LEMMA OwnerMoves ==
    ASSUME Inv, NEW f \in Flows, NEW y \in FlowType, FlowMoved(f, y),
           deleting' = deleting, owner'.closed = owner.closed,
           owner'.stopped = owner.stopped, current' \in {0, current},
           y.pc \in Owning => y.acct \in owner'.logins,
           y.pc \in Replacing => y.acct \in owner'.replacing,
           y.pc = "draining" => y.acct = "cur" /\ y.conn # 0 /\ current' \in {0, y.conn},
           y.pc \in {"committing", "writing"} /\ y.acct = "cur" => current' = 0,
           \A g \in Flows : g # f =>
              /\ flows[g].pc \in Owning => /\ flows[g].acct \in owner'.logins
                                           /\ y.pc \in Owning => flows[g].acct # y.acct
              /\ flows[g].pc \in Replacing => flows[g].acct \in owner'.replacing,
           deleting => "other" \in owner'.replacing /\ "other" \notin owner'.logins,
           owner.stopped => owner'.logins = {} /\ owner'.replacing = {}
    PROVE  OwnerInv'
<1>1. ASSUME NEW g \in Flows
      PROVE  /\ flows'[g].pc \in Owning => flows'[g].acct \in owner'.logins
             /\ flows'[g].pc \in Replacing => flows'[g].acct \in owner'.replacing
             /\ flows'[g].pc = "draining" => /\ flows'[g].acct = "cur" /\ flows'[g].conn # 0
                                             /\ current' \in {0, flows'[g].conn}
             /\ flows'[g].pc \in {"committing", "writing"} /\ flows'[g].acct = "cur" =>
                   current' = 0
  <2>1. CASE g = f
    BY <2>1 DEF FlowMoved
  <2>2. CASE g # f
    <3>1. flows'[g] = flows[g]
      BY <2>2 DEF FlowMoved
    <3>2. /\ flows[g].pc = "draining" => /\ flows[g].acct = "cur" /\ flows[g].conn # 0
                                         /\ current \in {0, flows[g].conn}
          /\ flows[g].pc \in {"committing", "writing"} /\ flows[g].acct = "cur" => current = 0
      BY DEF Inv, OwnerInv
    <3> QED
      BY <2>2, <3>1, <3>2
  <2> QED
    BY <2>1, <2>2
<1>2. ASSUME NEW g \in Flows, NEW h \in Flows, g # h,
             flows'[g].pc \in Owning, flows'[h].pc \in Owning
      PROVE  flows'[g].acct # flows'[h].acct
  <2>1. CASE g = f
    BY <1>2, <2>1 DEF FlowMoved
  <2>2. CASE h = f
    BY <1>2, <2>2 DEF FlowMoved
  <2>3. CASE g # f /\ h # f
    <3>1. flows'[g] = flows[g] /\ flows'[h] = flows[h]
      BY <2>3 DEF FlowMoved
    <3> QED
      BY <1>2, <3>1 DEF Inv, OwnerInv
  <2> QED
    BY <2>1, <2>2, <2>3
<1>3. owner'.stopped => /\ owner'.closed /\ current' = 0
                        /\ owner'.logins = {} /\ owner'.replacing = {}
  BY DEF Inv, OwnerInv
<1> QED
  BY <1>1, <1>2, <1>3 DEF OwnerInv

(* A step of one login that takes and gives back nothing.                  *)
LEMMA FlowOnly ==
    ASSUME Inv, [Next]_vars, UNCHANGED <<connVars, deleting, session, committed>>,
           NEW f \in Flows, NEW y \in FlowType, FlowMoved(f, y), web' \in WebType, WebInv',
           y.pc \in Owning => /\ flows[f].pc \in Owning /\ y.acct = flows[f].acct
                              /\ y.seen = flows[f].seen,
           y.pc \in Owning \ {"returning"} => flows[f].pc # "returning",
           y.pc \in Replacing => flows[f].pc \in Replacing,
           y.pc = "draining" => flows[f].pc = "draining" /\ y.conn = flows[f].conn,
           y.pc \in {"committing", "writing"} /\ y.acct = "cur" => current = 0
    PROVE  Inv'
<1>1. /\ conns' = conns /\ current' = current /\ owner' = owner /\ users' = users
      /\ dispatch' = dispatch /\ flows' \in [Flows -> FlowType]
  BY DEF connVars, FlowMoved
<1>2. \A g \in Flows : g # f =>
              /\ flows[g].pc \in Owning => /\ flows[g].acct \in owner'.logins
                                           /\ y.pc \in Owning => flows[g].acct # y.acct
              /\ flows[g].pc \in Replacing => flows[g].acct \in owner'.replacing
  BY <1>1 DEF Inv, OwnerInv
<1>3. /\ y.pc \in Owning => y.acct \in owner'.logins
      /\ y.pc \in Replacing => y.acct \in owner'.replacing
      /\ y.pc = "draining" => y.acct = "cur" /\ y.conn # 0 /\ current' \in {0, y.conn}
  BY <1>1 DEF Inv, OwnerInv, Owning, Replacing
<1>4. /\ deleting => "other" \in owner'.replacing /\ "other" \notin owner'.logins
      /\ owner.stopped => owner'.logins = {} /\ owner'.replacing = {}
  BY <1>1 DEF Inv, OwnerInv
<1>5. OwnerInv'
  BY <1>1, <1>2, <1>3, <1>4, OwnerMoves
<1>6. \A g \in Flows : flows'[g].pc \notin {"idle", "auth", "returning", "completing"} =>
              flows'[g].seen = session[flows'[g].acct]
  <2>1. y.pc \notin {"idle", "auth", "returning", "completing"} => y.pc \in Owning \ {"returning"}
    BY DEF FlowType, Owning
  <2>2. y.pc \notin {"idle", "auth", "returning", "completing"} =>
           y.seen = session[y.acct]
    BY <2>1 DEF Inv, SessionIsLatest, Owning
  <2> QED
    BY <2>2 DEF Inv, SessionIsLatest, FlowMoved
<1> QED
  BY <1>1, <1>5, <1>6, LoginSide DEF Inv, Types

(* The prompt of the web panel, seen from steps that do not answer it.     *)
LEMMA WebUntouched ==
    ASSUME Inv, web' = web, flows'["web"].pc = flows["web"].pc,
           flows'["web"].n = flows["web"].n, flows'["web"].answer = flows["web"].answer
    PROVE  WebInv'
BY DEF Inv, WebInv

(* Steps of the web login that no prompt is open for.                      *)
LEMMA WebLeaves ==
    ASSUME Inv, flows["web"].pc # "asking", flows'["web"].pc # "verifying",
           web'.code = web.code, web'.password = web.password, web'.pending = web.pending,
           web'.stage = web.stage \/ web.pending
    PROVE  WebInv'
BY DEF Inv, WebInv

(* The end of the web login.                                               *)
LEMMA WebEnds ==
    ASSUME web' = NoWeb, flows'["web"].pc # "verifying" PROVE WebInv'
BY FlowConstants DEF WebInv

(* A step of another login than the web panel's.                           *)
LEMMA WebApart ==
    ASSUME Inv, NEW f \in Flows, NEW y, FlowMoved(f, y), f # "web", web' = web
    PROVE  WebInv'
BY WebUntouched, FlowConstants DEF FlowMoved

(* A login begins and owns nothing yet.                                    *)
LEMMA StartLoginKeeps ==
    ASSUME Inv, NEW f \in Flows, NEW a \in Accounts, StartLogin(f, a), [Next]_vars PROVE Inv'
<1> DEFINE y == Started(a)
<1>1. /\ y \in FlowType /\ y.pc = "auth" /\ flows \in [Flows -> FlowType]
  <2>1. PICK m \in Nat : m = events + 2
    BY DEF Inv, Types
  <2>2. y = [NoFlow EXCEPT !.pc = "auth", !.acct = a, !.id = m]
    BY <2>1 DEF Started
  <2>3. flows \in [Flows -> FlowType]
    BY DEF Inv, Types
  <2> HIDE DEF y
  <2> QED
    BY <2>2, <2>3, FlowConstants DEF FlowType
<1>2. flows' = [flows EXCEPT ![f] = y]
  BY DEF StartLogin
<1> HIDE DEF y
<1>3. FlowMoved(f, y)
  BY <1>1, <1>2, FlowSet
<1>4. /\ flows[f].pc = "idle" /\ web' = web /\ web \in WebType
      /\ UNCHANGED <<connVars, deleting, session, committed>>
  BY DEF StartLogin, Inv, Types
<1>5. WebInv'
  <2>1. CASE f = "web"
    BY <1>1, <1>3, <1>4, <2>1, WebLeaves DEF FlowMoved
  <2>2. CASE f # "web"
    BY <1>3, <1>4, <2>2, WebApart
  <2> QED
    BY <2>1, <2>2
<1> QED
  BY <1>1, <1>3, <1>4, <1>5, FlowOnly DEF Owning, Replacing

(* A login is cancelled: it ends at a later step.                          *)
LEMMA CancelLoginKeeps == ASSUME Inv, NEW f \in Flows, CancelLogin(f), [Next]_vars PROVE Inv'
<1> DEFINE y == [flows[f] EXCEPT !.canceled = TRUE]
<1>1. /\ y \in FlowType /\ flows \in [Flows -> FlowType]
      /\ y.pc = flows[f].pc /\ y.acct = flows[f].acct /\ y.seen = flows[f].seen
      /\ y.conn = flows[f].conn /\ y.n = flows[f].n /\ y.answer = flows[f].answer
  BY DEF Inv, Types, FlowType
<1>2. flows' = [flows EXCEPT ![f] = y]
  BY <1>1 DEF CancelLogin
<1> HIDE DEF y
<1>3. FlowMoved(f, y)
  BY <1>1, <1>2, FlowSet
<1>4. /\ web' = web /\ web \in WebType /\ UNCHANGED <<connVars, deleting, session, committed>>
  BY DEF CancelLogin, Inv, Types
<1>5. WebInv'
  <2>1. CASE f = "web"
    BY <1>1, <1>3, <1>4, <2>1, WebUntouched DEF FlowMoved
  <2>2. CASE f # "web"
    BY <1>3, <1>4, <2>2, WebApart
  <2> QED
    BY <2>1, <2>2
<1>6. y.pc \in {"committing", "writing"} /\ y.acct = "cur" => current = 0
  BY <1>1 DEF Inv, OwnerInv
<1> QED
  BY <1>1, <1>3, <1>4, <1>5, <1>6, FlowOnly

(* A step of a login that only moves it on, between two stages of which    *)
(* neither or both own its account.                                        *)
LEMMA FlowGoesOn ==
    ASSUME Inv, [Next]_vars, UNCHANGED <<connVars, deleting, session, committed>>,
           NEW f \in Flows, NEW y \in FlowType, flows' = [flows EXCEPT ![f] = y],
           web' \in WebType, FlowMoved(f, y) => WebInv',
           flows[f].pc \in Owning \ {"returning"}, y.pc \in Owning,
           y.acct = flows[f].acct, y.seen = flows[f].seen,
           y.pc \in Replacing => flows[f].pc \in Replacing /\ y.pc # "draining",
           y.pc \in {"committing", "writing"} /\ y.acct = "cur" => current = 0
    PROVE  Inv'
<1>1. FlowMoved(f, y)
  BY FlowSet DEF Inv, Types
<1> QED
  BY <1>1, FlowOnly DEF Owning, Replacing

(* A new prompt of the web login begins with empty inputs.                 *)
LEMMA PromptKeeps == ASSUME Inv, NEW f \in Flows, Prompt(f), [Next]_vars PROVE Inv'
<1>m. PICK m \in Nat : m = flows[f].n + 1
  BY DEF Inv, Types, FlowType
<1> DEFINE y == [flows[f] EXCEPT !.pc = "asking", !.n = m]
<1>1. /\ y \in FlowType /\ flows \in [Flows -> FlowType] /\ flows[f] \in FlowType
      /\ y.pc = "asking" /\ y.acct = flows[f].acct /\ y.seen = flows[f].seen
  BY DEF Inv, Types, FlowType
<1>2. flows' = [flows EXCEPT ![f] = y]
  BY <1>m, <1>1 DEF Prompt
<1> HIDE DEF y
<1>3. /\ flows[f].pc = "prompting" /\ web \in WebType /\ flows[f].stage \in Stages
      /\ web' = IF f = "web" THEN [web EXCEPT !.stage = flows[f].stage, !.pending = FALSE] ELSE web
      /\ UNCHANGED <<connVars, deleting, session, committed>>
  BY <1>1 DEF Prompt, Inv, Types, FlowType
<1>4. web' \in WebType
  BY <1>3 DEF WebType
<1>5. ASSUME FlowMoved(f, y) PROVE WebInv'
  <2>1. CASE f = "web"
    <3>1. web.code = 0 /\ web.password = 0
      BY <1>3, <2>1 DEF Inv, WebInv
    <3>2. web'.code = 0 /\ web'.password = 0
      BY <1>3, <2>1, <3>1 DEF WebType
    <3>3. flows'["web"].pc = "asking"
      BY <1>1, <1>5, <2>1 DEF FlowMoved
    <3> QED
      BY <3>2, <3>3 DEF WebInv
  <2>2. CASE f # "web"
    BY <1>3, <1>5, <2>2, WebApart
  <2> QED
    BY <2>1, <2>2
<1> QED
  BY <1>1, <1>2, <1>3, <1>4, <1>5, FlowGoesOn DEF Owning, Replacing

(* The web panel accepts an input only while its prompt is open.           *)
LEMMA SubmitWebKeeps == ASSUME Inv, SubmitWeb, [Next]_vars PROVE Inv'
<1>1. /\ ~web.pending /\ web.stage \in {"code", "password"} /\ web \in WebType
      /\ flows["web"].n \in Nat /\ flows' = flows /\ flows \in [Flows -> FlowType]
      /\ UNCHANGED <<connVars, deleting, session, committed>>
      /\ \/ web' = [web EXCEPT !.pending = TRUE, !.code = flows["web"].n]
         \/ web' = [web EXCEPT !.pending = TRUE, !.password = flows["web"].n]
  BY FlowConstants DEF SubmitWeb, Inv, Types, FlowType
<1>2. web.code = 0 /\ web.password = 0 /\ flows["web"].pc = "asking"
  BY <1>1 DEF Inv, WebInv
<1>3. /\ web' \in WebType /\ web'.pending = TRUE
      /\ \/ web'.code = flows["web"].n /\ web'.password = 0
         \/ web'.password = flows["web"].n /\ web'.code = 0
  <2>1. CASE web' = [web EXCEPT !.pending = TRUE, !.code = flows["web"].n]
    BY <1>1, <1>2, <2>1 DEF WebType
  <2>2. CASE web' = [web EXCEPT !.pending = TRUE, !.password = flows["web"].n]
    BY <1>1, <1>2, <2>2 DEF WebType
  <2> QED
    BY <1>1, <2>1, <2>2
<1>4. WebInv'
  BY <1>1, <1>2, <1>3 DEF WebInv
<1>5. OwnerInv'
  BY <1>1 DEF Inv, OwnerInv, connVars
<1>6. /\ conns' = conns /\ current' = current /\ owner' = owner /\ users' = users
      /\ dispatch' = dispatch
  BY <1>1 DEF connVars
<1> QED
  BY <1>1, <1>3, <1>4, <1>5, <1>6, LoginSide DEF Inv, Types, SessionIsLatest

(* Inputs of the bot wait whatever the login asks for.                     *)
LEMMA SubmitBotKeeps == ASSUME Inv, SubmitBot, [Next]_vars PROVE Inv'
<1>1. /\ web' = web /\ flows' = flows /\ UNCHANGED <<connVars, deleting, session, committed>>
  BY DEF SubmitBot
<1>2. WebInv' /\ OwnerInv'
  BY <1>1 DEF Inv, WebInv, OwnerInv, connVars
<1>3. /\ conns' = conns /\ current' = current /\ owner' = owner /\ users' = users
      /\ dispatch' = dispatch
  BY <1>1 DEF connVars
<1> QED
  BY <1>1, <1>2, <1>3, LoginSide DEF Inv, Types, SessionIsLatest

(* The input that is taken was typed for the open prompt.                  *)
LEMMA TakeWebKeeps == ASSUME Inv, TakeWeb, [Next]_vars PROVE Inv'
<1>1. PICK c \in Nat :
         /\ c # 0 /\ c \in {web.code, web.password}
         /\ flows' = [flows EXCEPT !["web"].pc = "verifying", !["web"].answer = c]
         /\ \/ c = web.code /\ web' = [web EXCEPT !.code = 0]
            \/ c = web.password /\ web' = [web EXCEPT !.password = 0]
  <2>1. web.code \in Nat /\ web.password \in Nat
    BY DEF Inv, Types, WebType
  <2>2. CASE /\ web.code # 0 /\ web' = [web EXCEPT !.code = 0]
             /\ flows' = [flows EXCEPT !["web"].pc = "verifying", !["web"].answer = web.code]
    BY <2>1, <2>2
  <2>3. CASE /\ web.password # 0 /\ web' = [web EXCEPT !.password = 0]
             /\ flows' = [flows EXCEPT !["web"].pc = "verifying", !["web"].answer = web.password]
    BY <2>1, <2>3
  <2> QED
    BY <2>2, <2>3 DEF TakeWeb
<1> DEFINE y == [flows["web"] EXCEPT !.pc = "verifying", !.answer = c]
<1>2. /\ y \in FlowType /\ flows \in [Flows -> FlowType] /\ y.pc = "verifying"
      /\ y.acct = flows["web"].acct /\ y.seen = flows["web"].seen /\ y.n = flows["web"].n
      /\ y.answer = c
  BY FlowConstants DEF Inv, Types, FlowType
<1>3. flows' = [flows EXCEPT !["web"] = y]
  BY <1>1, <1>2, FlowConstants
<1> HIDE DEF y
<1>4. /\ flows["web"].pc = "asking" /\ web \in WebType
      /\ UNCHANGED <<connVars, deleting, session, committed>>
  BY DEF TakeWeb, Inv, Types
<1>5. web.pending /\ c = flows["web"].n /\ (web.code = 0 \/ web.password = 0)
  BY <1>1 DEF Inv, WebInv
<1>6. /\ web' \in WebType /\ web'.pending = web.pending /\ web'.code = 0 /\ web'.password = 0
  <2>1. CASE c = web.code /\ web' = [web EXCEPT !.code = 0]
    BY <1>1, <1>4, <1>5, <2>1 DEF WebType
  <2>2. CASE c = web.password /\ web' = [web EXCEPT !.password = 0]
    BY <1>1, <1>4, <1>5, <2>2 DEF WebType
  <2> QED
    BY <1>1, <2>1, <2>2
<1>7. ASSUME FlowMoved("web", y) PROVE WebInv'
  <2>1. flows'["web"] = y
    BY <1>7 DEF FlowMoved
  <2> QED
    BY <1>2, <1>5, <1>6, <2>1 DEF WebInv
<1> QED
  BY <1>2, <1>3, <1>4, <1>6, <1>7, FlowConstants, FlowGoesOn DEF Owning, Replacing

(* The bot takes the next input.                                           *)
LEMMA TakeBotKeeps == ASSUME Inv, TakeBot, [Next]_vars PROVE Inv'
<1> DEFINE y == [flows["bot"] EXCEPT
                    !.pc = IF flows["bot"].stage = "phone" THEN "prompting" ELSE "verifying",
                    !.stage = IF flows["bot"].stage = "phone" THEN "code" ELSE flows["bot"].stage]
<1>1. /\ y \in FlowType /\ flows \in [Flows -> FlowType] /\ y.pc \in {"prompting", "verifying"}
      /\ y.acct = flows["bot"].acct /\ y.seen = flows["bot"].seen
  BY FlowConstants DEF Inv, Types, FlowType, Stages
<1>2. flows' = [flows EXCEPT !["bot"] = y]
  BY <1>1, FlowConstants DEF TakeBot
<1> HIDE DEF y
<1>3. /\ flows["bot"].pc = "asking" /\ web \in WebType /\ web' = web
      /\ UNCHANGED <<connVars, deleting, session, committed>>
  BY DEF TakeBot, Inv, Types
<1>4. ASSUME FlowMoved("bot", y) PROVE WebInv'
  BY <1>3, <1>4, FlowConstants, WebApart
<1> QED
  BY <1>1, <1>2, <1>3, <1>4, FlowConstants, FlowGoesOn DEF Owning, Replacing

(* A wrong input leaves the prompt closed until the next one.              *)
LEMMA VerifyKeeps == ASSUME Inv, NEW f \in Flows, Verify(f), [Next]_vars PROVE Inv'
<1>1. PICK p \in {"replacing", "prompting"}, s \in Stages :
         flows' = [flows EXCEPT ![f] = [flows[f] EXCEPT !.pc = p, !.stage = s]]
  <2>1. flows \in [Flows -> FlowType] /\ flows[f] \in FlowType /\ flows[f].stage \in Stages
        /\ "password" \in Stages
    BY DEF Inv, Types, FlowType, Stages
  <2>2. CASE flows' = [flows EXCEPT ![f].pc = "replacing"]
    <3>1. flows' = [flows EXCEPT ![f] = [flows[f] EXCEPT !.pc = "replacing", !.stage = flows[f].stage]]
      BY <2>1, <2>2 DEF FlowType
    <3> QED
      BY <2>1, <3>1
  <2>3. CASE flows' = [flows EXCEPT ![f].pc = "prompting", ![f].stage = "password"]
    <3>1. flows' = [flows EXCEPT ![f] = [flows[f] EXCEPT !.pc = "prompting", !.stage = "password"]]
      BY <2>1, <2>3
    <3> QED
      BY <2>1, <3>1
  <2>4. CASE flows' = [flows EXCEPT ![f].pc = "prompting"]
    <3>1. flows' = [flows EXCEPT ![f] = [flows[f] EXCEPT !.pc = "prompting", !.stage = flows[f].stage]]
      BY <2>1, <2>4 DEF FlowType
    <3> QED
      BY <2>1, <3>1
  <2> QED
    BY <2>2, <2>3, <2>4 DEF Verify
<1> DEFINE y == [flows[f] EXCEPT !.pc = p, !.stage = s]
<1>2. /\ y \in FlowType /\ flows \in [Flows -> FlowType] /\ y.pc \in {"prompting", "replacing"}
      /\ y.acct = flows[f].acct /\ y.seen = flows[f].seen
  BY DEF Inv, Types, FlowType
<1>3. flows' = [flows EXCEPT ![f] = y]
  BY <1>1
<1> HIDE DEF y
<1>4. /\ flows[f].pc = "verifying" /\ web \in WebType /\ flows[f].stage \in Stages
      /\ UNCHANGED <<connVars, deleting, session, committed>>
      /\ \/ web' = web
         \/ f = "web" /\ web' = [web EXCEPT !.stage = flows[f].stage]
  BY DEF Verify, Inv, Types, FlowType
<1>5. /\ web' \in WebType /\ web'.code = web.code /\ web'.password = web.password
      /\ web'.pending = web.pending
  BY <1>4 DEF WebType
<1>6. ASSUME FlowMoved(f, y) PROVE WebInv'
  <2>1. CASE f = "web"
    <3>1. web.pending
      BY <1>4, <2>1 DEF Inv, WebInv
    <3>2. flows'["web"].pc # "verifying"
      BY <1>2, <1>6, <2>1 DEF FlowMoved
    <3> QED
      BY <1>4, <1>5, <2>1, <3>1, <3>2, WebLeaves
  <2>2. CASE f # "web"
    BY <1>4, <1>6, <2>2, WebApart
  <2> QED
    BY <2>1, <2>2
<1> QED
  BY <1>2, <1>3, <1>4, <1>5, <1>6, FlowGoesOn DEF Owning, Replacing

(* The old transport has ended: the connection that was drained is gone.   *)
LEMMA DrainedKeeps == ASSUME Inv, NEW f \in Flows, Drained(f), [Next]_vars PROVE Inv'
<1> DEFINE y == [flows[f] EXCEPT !.pc = "committing", !.conn = 0]
<1>1. /\ y \in FlowType /\ flows \in [Flows -> FlowType] /\ y.pc = "committing"
      /\ y.acct = flows[f].acct /\ y.seen = flows[f].seen
  BY DEF Inv, Types, FlowType
<1>2. flows' = [flows EXCEPT ![f] = y]
  BY <1>1 DEF Drained
<1> HIDE DEF y
<1>3. /\ flows[f].pc = "draining" /\ web \in WebType /\ web' = web
      /\ conns[flows[f].conn].st = "done"
      /\ UNCHANGED <<connVars, deleting, session, committed>>
  BY DEF Drained, Inv, Types
<1>4. current = 0
  <2>1. current \in {0, flows[f].conn}
    BY <1>3 DEF Inv, OwnerInv
  <2>2. current # 0 => conns[current].st \in Running \cup {"open"}
    BY DEF Inv, ConnInv
  <2> QED
    BY <1>3, <2>1, <2>2 DEF Running
<1>5. ASSUME FlowMoved(f, y) PROVE WebInv'
  <2>1. CASE f = "web"
    BY <1>1, <1>3, <1>5, <2>1, WebLeaves DEF FlowMoved
  <2>2. CASE f # "web"
    BY <1>3, <1>5, <2>2, WebApart
  <2> QED
    BY <2>1, <2>2
<1> QED
  BY <1>1, <1>2, <1>3, <1>4, <1>5, FlowGoesOn DEF Owning, Replacing

(* The commit begins while the account has no transport.                   *)
LEMMA CheckOpenKeeps == ASSUME Inv, NEW f \in Flows, CheckOpen(f), [Next]_vars PROVE Inv'
<1> DEFINE y == [flows[f] EXCEPT !.pc = "writing"]
<1>1. /\ y \in FlowType /\ flows \in [Flows -> FlowType] /\ y.pc = "writing"
      /\ y.acct = flows[f].acct /\ y.seen = flows[f].seen
  BY DEF Inv, Types, FlowType
<1>2. flows' = [flows EXCEPT ![f] = y]
  BY <1>1 DEF CheckOpen
<1> HIDE DEF y
<1>3. /\ flows[f].pc = "committing" /\ web \in WebType /\ web' = web
      /\ UNCHANGED <<connVars, deleting, session, committed>>
  BY DEF CheckOpen, Inv, Types
<1>4. y.acct = "cur" => current = 0
  BY <1>1, <1>3 DEF Inv, OwnerInv
<1>5. ASSUME FlowMoved(f, y) PROVE WebInv'
  <2>1. CASE f = "web"
    BY <1>1, <1>3, <1>5, <2>1, WebLeaves DEF FlowMoved
  <2>2. CASE f # "web"
    BY <1>3, <1>5, <2>2, WebApart
  <2> QED
    BY <2>1, <2>2
<1> QED
  BY <1>1, <1>2, <1>3, <1>4, <1>5, FlowGoesOn DEF Owning, Replacing

(* End of a login that owns nothing any more.                              *)
LEMMA CompleteKeeps == ASSUME Inv, NEW f \in Flows, Complete(f), [Next]_vars PROVE Inv'
<1>1. /\ flows \in [Flows -> FlowType] /\ web \in WebType
      /\ flows' = [flows EXCEPT ![f] = NoFlow]
      /\ web' = IF f = "web" THEN NoWeb ELSE web
      /\ UNCHANGED <<connVars, deleting, session, committed>>
  BY DEF Complete, End, Inv, Types
<1>2. FlowMoved(f, NoFlow)
  BY <1>1, FlowSet, FlowConstants
<1>3. web' \in WebType
  BY <1>1, FlowConstants
<1>4. WebInv'
  <2>1. CASE f = "web"
    BY <1>1, <1>2, <2>1, WebEnds, FlowConstants DEF FlowMoved
  <2>2. CASE f # "web"
    BY <1>1, <1>2, <2>2, WebApart
  <2> QED
    BY <2>1, <2>2
<1> QED
  BY <1>1, <1>2, <1>3, <1>4, FlowConstants, FlowOnly DEF Owning, Replacing

(* BeginLogin takes an account that no login and no replacement holds.     *)
LEMMA BeginLoginKeeps == ASSUME Inv, NEW f \in Flows, BeginLogin(f), [Next]_vars PROVE Inv'
<1>1. /\ flows[f].pc = "auth" /\ flows \in [Flows -> FlowType] /\ web \in WebType
      /\ owner \in OwnerType /\ session \in [Accounts -> Nat] /\ flows[f].acct \in Accounts
      /\ UNCHANGED <<conns, current, users, dispatch, deleting, session, committed>>
  BY DEF BeginLogin, Inv, Types, FlowType
<1>2. CASE End(f) /\ UNCHANGED owner
  <2>1. /\ flows' = [flows EXCEPT ![f] = NoFlow] /\ web' = IF f = "web" THEN NoWeb ELSE web
        /\ UNCHANGED <<connVars, deleting, session, committed>>
    BY <1>1, <1>2 DEF End, connVars
  <2>2. FlowMoved(f, NoFlow)
    BY <1>1, <2>1, FlowSet, FlowConstants
  <2>3. web' \in WebType
    BY <1>1, <2>1, FlowConstants
  <2>4. WebInv'
    <3>1. CASE f = "web"
      BY <2>1, <2>2, <3>1, WebEnds, FlowConstants DEF FlowMoved
    <3>2. CASE f # "web"
      BY <2>1, <2>2, <3>2, WebApart
    <3> QED
      BY <3>1, <3>2
  <2> QED
    BY <2>1, <2>2, <2>3, <2>4, FlowConstants, FlowOnly DEF Owning, Replacing
<1>3. CASE /\ ~owner.closed /\ flows[f].acct \notin owner.logins \cup owner.replacing /\ web' = web
           /\ owner' = [owner EXCEPT !.logins = @ \cup {flows[f].acct}]
           /\ flows' = [flows EXCEPT ![f].pc = "prompting", ![f].seen = session[flows[f].acct],
                                     ![f].stage = IF f = "bot" THEN "phone" ELSE "code"]
  <2>a. PICK a \in Accounts : a = flows[f].acct
    BY <1>1
  <2> DEFINE y == [flows[f] EXCEPT !.pc = "prompting", !.seen = session[a],
                                   !.stage = IF f = "bot" THEN "phone" ELSE "code"]
  <2>1. /\ y \in FlowType /\ y.pc = "prompting" /\ y.acct = a /\ y.seen = session[a]
    BY <1>1, <2>a DEF FlowType, Stages
  <2>2. flows' = [flows EXCEPT ![f] = y]
    BY <1>1, <1>3, <2>a
  <2> HIDE DEF y
  <2>3. FlowMoved(f, y)
    BY <1>1, <2>1, <2>2, FlowSet
  <2>4. /\ owner' \in OwnerType /\ owner'.logins = owner.logins \cup {a}
        /\ owner'.replacing = owner.replacing /\ owner'.closed = owner.closed
        /\ owner'.stopped = owner.stopped /\ a \notin owner.logins /\ a \notin owner.replacing
    BY <1>1, <1>3, <2>a DEF OwnerType
  <2>5. OwnerInv'
    <3>1. \A g \in Flows : g # f =>
              /\ flows[g].pc \in Owning => /\ flows[g].acct \in owner'.logins
                                           /\ y.pc \in Owning => flows[g].acct # y.acct
              /\ flows[g].pc \in Replacing => flows[g].acct \in owner'.replacing
      BY <2>1, <2>4 DEF Inv, OwnerInv
    <3>2. deleting => "other" \in owner'.replacing /\ "other" \notin owner'.logins
      BY <2>4 DEF Inv, OwnerInv
    <3>3. ~owner.stopped
      BY <1>3 DEF Inv, OwnerInv
    <3>4. y.pc \in Owning /\ y.pc \notin Replacing /\ y.acct \in owner'.logins
      BY <2>1, <2>4 DEF Owning, Replacing
    <3>5. deleting' = deleting /\ current' \in {0, current}
      BY <1>1
    <3> QED
      BY <2>1, <2>3, <2>4, <3>1, <3>2, <3>3, <3>4, <3>5, OwnerMoves
  <2>6. WebInv'
    <3>1. CASE f = "web"
      BY <1>1, <1>3, <2>1, <2>3, <3>1, WebLeaves DEF FlowMoved
    <3>2. CASE f # "web"
      BY <1>3, <2>3, <3>2, WebApart
    <3> QED
      BY <3>1, <3>2
  <2>7. \A g \in Flows : flows'[g].pc \notin {"idle", "auth", "returning", "completing"} =>
              flows'[g].seen = session[flows'[g].acct]
    BY <2>1, <2>3 DEF Inv, SessionIsLatest, FlowMoved
  <2> QED
    BY <1>1, <1>3, <2>3, <2>4, <2>5, <2>6, <2>7, LoginSide DEF FlowMoved
<1> QED
  BY <1>2, <1>3 DEF BeginLogin

(* A login that ends gives back what it holds, and nobody else holds that. *)
LEMMA OthersHold ==
    ASSUME Inv, NEW f \in Flows, flows[f].pc \in Owning
    PROVE  /\ \A g \in Flows : g # f =>
                 /\ flows[g].pc \in Owning =>
                       flows[g].acct \in owner.logins /\ flows[g].acct # flows[f].acct
                 /\ flows[g].pc \in Replacing =>
                       flows[g].acct \in owner.replacing /\ flows[g].acct # flows[f].acct
           /\ deleting => /\ flows[f].acct # "other" /\ "other" \in owner.replacing
                          /\ "other" \notin owner.logins
           /\ ~owner.stopped
<1>1. Replacing \subseteq Owning
  BY DEF Replacing, Owning
<1>2. flows[f].acct \in owner.logins
  BY DEF Inv, OwnerInv
<1> QED
  BY <1>1, <1>2 DEF Inv, OwnerInv

(* A login fails and gives its account back.                               *)
LEMMA LoginFailsKeeps == ASSUME Inv, NEW f \in Flows, LoginFails(f), [Next]_vars PROVE Inv'
<1>a. PICK a \in Accounts : a = flows[f].acct
  BY DEF Inv, Types, FlowType
<1>1. /\ flows[f].pc \in Owning /\ flows \in [Flows -> FlowType] /\ web \in WebType
      /\ owner \in OwnerType /\ flows' = [flows EXCEPT ![f] = NoFlow]
      /\ web' = IF f = "web" THEN NoWeb ELSE web
      /\ UNCHANGED <<conns, current, users, dispatch, deleting, session, committed>>
  BY DEF LoginFails, Authenticating, Owning, End, Inv, Types
<1>2. /\ owner' \in OwnerType /\ owner'.logins = owner.logins \ {a}
      /\ owner'.replacing \in {owner.replacing, owner.replacing \ {a}}
      /\ owner'.closed = owner.closed /\ owner'.stopped = owner.stopped
  <2>1. \E R \in {owner.replacing, owner.replacing \ {a}} :
           owner' = [owner EXCEPT !.logins = owner.logins \ {a}, !.replacing = R]
    BY <1>a DEF LoginFails
  <2> QED
    BY <1>1, <2>1 DEF OwnerType
<1>3. FlowMoved(f, NoFlow)
  BY <1>1, FlowSet, FlowConstants
<1>4. web' \in WebType
  BY <1>1, FlowConstants
<1>5. WebInv'
  <2>1. CASE f = "web"
    BY <1>1, <1>3, <2>1, WebEnds, FlowConstants DEF FlowMoved
  <2>2. CASE f # "web"
    BY <1>1, <1>3, <2>2, WebApart
  <2> QED
    BY <2>1, <2>2
<1>6. OwnerInv'
  <2>1. \A g \in Flows : g # f =>
              /\ flows[g].pc \in Owning => flows[g].acct \in owner'.logins
              /\ flows[g].pc \in Replacing => flows[g].acct \in owner'.replacing
    BY <1>a, <1>1, <1>2, OthersHold
  <2>2. /\ deleting => "other" \in owner'.replacing /\ "other" \notin owner'.logins
        /\ ~owner.stopped
    BY <1>a, <1>1, <1>2, OthersHold
  <2>3. NoFlow.pc \notin Owning /\ NoFlow.pc \notin Replacing
        /\ NoFlow.pc \notin {"draining", "committing", "writing"}
    BY FlowConstants DEF Owning, Replacing
  <2>4. deleting' = deleting /\ current' \in {0, current}
    BY <1>1
  <2> QED
    BY <1>2, <1>3, <2>1, <2>2, <2>3, <2>4, FlowConstants, OwnerMoves
<1>7. \A g \in Flows : flows'[g].pc \notin {"idle", "auth", "returning", "completing"} =>
              flows'[g].seen = session[flows'[g].acct]
  BY <1>3, FlowConstants DEF Inv, SessionIsLatest, FlowMoved
<1> QED
  BY <1>1, <1>2, <1>3, <1>4, <1>5, <1>6, <1>7, LoginSide DEF FlowMoved

(* A login that has stored its session gives its account back.             *)
LEMMA LoginReturnsKeeps == ASSUME Inv, NEW f \in Flows, LoginReturns(f), [Next]_vars PROVE Inv'
<1>a. PICK a \in Accounts : a = flows[f].acct
  BY DEF Inv, Types, FlowType
<1> DEFINE y == [flows[f] EXCEPT !.pc = "completing"]
<1>1. /\ y \in FlowType /\ flows \in [Flows -> FlowType] /\ y.pc = "completing"
  BY DEF Inv, Types, FlowType
<1>2. flows' = [flows EXCEPT ![f] = y]
  BY <1>1 DEF LoginReturns
<1> HIDE DEF y
<1>3. FlowMoved(f, y)
  BY <1>1, <1>2, FlowSet
<1>4. /\ flows[f].pc = "returning" /\ flows[f].pc \in Owning /\ web \in WebType /\ web' = web
      /\ owner \in OwnerType
      /\ UNCHANGED <<conns, current, users, dispatch, deleting, session, committed>>
  BY DEF LoginReturns, Owning, Inv, Types
<1>5. /\ owner' \in OwnerType /\ owner'.logins = owner.logins \ {a}
      /\ owner'.replacing = owner.replacing
      /\ owner'.closed = owner.closed /\ owner'.stopped = owner.stopped
  <2>1. owner' = [owner EXCEPT !.logins = owner.logins \ {a}]
    BY <1>a DEF LoginReturns
  <2> QED
    BY <1>4, <2>1 DEF OwnerType
<1>6. WebInv'
  <2>1. CASE f = "web"
    BY <1>1, <1>3, <1>4, <2>1, WebLeaves DEF FlowMoved
  <2>2. CASE f # "web"
    BY <1>3, <1>4, <2>2, WebApart
  <2> QED
    BY <2>1, <2>2
<1>7. OwnerInv'
  <2>1. \A g \in Flows : g # f =>
              /\ flows[g].pc \in Owning => flows[g].acct \in owner'.logins
              /\ flows[g].pc \in Replacing => flows[g].acct \in owner'.replacing
    BY <1>a, <1>4, <1>5, OthersHold
  <2>2. /\ deleting => "other" \in owner'.replacing /\ "other" \notin owner'.logins
        /\ ~owner.stopped
    BY <1>a, <1>4, <1>5, OthersHold
  <2>3. y.pc \notin Owning /\ y.pc \notin Replacing
        /\ y.pc \notin {"draining", "committing", "writing"}
    BY <1>1 DEF Owning, Replacing
  <2>4. deleting' = deleting /\ current' \in {0, current}
    BY <1>4
  <2> QED
    BY <1>1, <1>3, <1>5, <2>1, <2>2, <2>3, <2>4, OwnerMoves
<1>8. \A g \in Flows : flows'[g].pc \notin {"idle", "auth", "returning", "completing"} =>
              flows'[g].seen = session[flows'[g].acct]
  BY <1>1, <1>3 DEF Inv, SessionIsLatest, FlowMoved
<1> QED
  BY <1>3, <1>4, <1>5, <1>6, <1>7, <1>8, LoginSide DEF FlowMoved

(* The new session is stored while the account has no transport and no     *)
(* other login of it is under way.                                         *)
LEMMA CommitSessionKeeps ==
    ASSUME Inv, NEW f \in Flows, CommitSession(f), [Next]_vars PROVE Inv'
<1>a. PICK a \in Accounts : a = flows[f].acct
  BY DEF Inv, Types, FlowType
<1>n. PICK n \in Nat : n = flows[f].id
  BY DEF Inv, Types, FlowType
<1> DEFINE y == [flows[f] EXCEPT !.pc = "returning"]
<1>1. /\ y \in FlowType /\ flows \in [Flows -> FlowType] /\ y.pc = "returning" /\ y.acct = a
  BY <1>a DEF Inv, Types, FlowType
<1>2. flows' = [flows EXCEPT ![f] = y]
  BY <1>1 DEF CommitSession
<1> HIDE DEF y
<1>3. FlowMoved(f, y)
  BY <1>1, <1>2, FlowSet
<1>4. /\ flows[f].pc = "writing" /\ flows[f].pc \in Owning /\ web \in WebType /\ web' = web
      /\ owner \in OwnerType /\ UNCHANGED <<conns, current, users, dispatch, deleting>>
      /\ session \in [Accounts -> Nat] /\ session = committed
  BY DEF CommitSession, Owning, Inv, Types, SessionIsLatest
<1>5. /\ session' = [session EXCEPT ![a] = n] /\ committed' = [committed EXCEPT ![a] = n]
      /\ owner' = [owner EXCEPT !.replacing = owner.replacing \ {a}]
  BY <1>a, <1>n DEF CommitSession
<1>6. /\ owner' \in OwnerType /\ owner'.logins = owner.logins
      /\ owner'.replacing = owner.replacing \ {a}
      /\ owner'.closed = owner.closed /\ owner'.stopped = owner.stopped
  BY <1>4, <1>5 DEF OwnerType
<1>7. WebInv'
  <2>1. CASE f = "web"
    BY <1>1, <1>3, <1>4, <2>1, WebLeaves DEF FlowMoved
  <2>2. CASE f # "web"
    BY <1>3, <1>4, <2>2, WebApart
  <2> QED
    BY <2>1, <2>2
<1>8. OwnerInv'
  <2>1. \A g \in Flows : g # f =>
              /\ flows[g].pc \in Owning => /\ flows[g].acct \in owner'.logins
                                           /\ flows[g].acct # y.acct
              /\ flows[g].pc \in Replacing => flows[g].acct \in owner'.replacing
    BY <1>a, <1>1, <1>4, <1>6, OthersHold
  <2>2. /\ deleting => "other" \in owner'.replacing /\ "other" \notin owner'.logins
        /\ ~owner.stopped
    BY <1>a, <1>4, <1>6, OthersHold
  <2>3. /\ y.pc \notin Replacing /\ y.pc \notin {"draining", "committing", "writing"}
        /\ y.acct \in owner'.logins
    <3>1. a \in owner.logins
      BY <1>a, <1>4 DEF Inv, OwnerInv
    <3> QED
      BY <1>1, <1>6, <3>1 DEF Replacing
  <2>4. deleting' = deleting /\ current' \in {0, current}
    BY <1>4
  <2> QED
    BY <1>1, <1>3, <1>6, <2>1, <2>2, <2>3, <2>4, OwnerMoves
<1>9. SessionIsLatest'
  <2>1. session' = committed'
    BY <1>4, <1>5
  <2>2. ASSUME NEW i \in Slots, conns'[i].st \in {"serving", "ready"}
        PROVE  conns'[i].ver = committed'["cur"]
    <3>1. conns[i].st \in {"serving", "ready"} /\ conns'[i] = conns[i]
      BY <1>4, <2>2
    <3>2. current = i /\ i # 0
      BY <3>1, SlotTypes DEF Inv, ConnInv, Running
    <3>3. a # "cur"
      BY <1>a, <1>4, <3>2 DEF Inv, OwnerInv
    <3>4. committed'["cur"] = committed["cur"]
      BY <1>4, <1>5, <3>3, FlowConstants
    <3> QED
      BY <3>1, <3>4 DEF Inv, SessionIsLatest
  <2>3. ASSUME NEW g \in Flows, flows'[g].pc \notin {"idle", "auth", "returning", "completing"}
        PROVE  flows'[g].seen = session'[flows'[g].acct]
    <3>1. g # f /\ flows'[g] = flows[g]
      BY <1>1, <1>3, <2>3 DEF FlowMoved
    <3>2. flows[g].pc \in Owning /\ flows[g].acct \in Accounts
      BY <2>3, <3>1 DEF Inv, Types, FlowType, Owning
    <3>3. flows[g].acct # a
      BY <1>a, <1>4, <3>1, <3>2, OthersHold
    <3>4. session'[flows[g].acct] = session[flows[g].acct]
      BY <1>4, <1>5, <3>2, <3>3
    <3> QED
      BY <2>3, <3>1, <3>4 DEF Inv, SessionIsLatest
  <2> QED
    BY <2>1, <2>2, <2>3 DEF SessionIsLatest
<1>10. Types'
  <2>1. events' \in Nat
    BY EventsType DEF Inv, Types
  <2>2. session' \in [Accounts -> Nat] /\ committed' \in [Accounts -> Nat]
    BY <1>4, <1>5
  <2> QED
    BY <1>3, <1>4, <1>6, <2>1, <2>2 DEF Inv, Types, FlowMoved
<1>11. ConnInv' /\ UserInv' /\ HandlerInv'
  BY <1>4 DEF Inv, ConnInv, UserInv, HandlerInv, HandlersDrained
<1> QED
  BY <1>7, <1>8, <1>9, <1>10, <1>11 DEF Inv

(* A replacement refuses new users and closes the transport; it waits for  *)
(* its end when there is one.                                              *)
LEMMA ReplaceKeeps == ASSUME Inv, NEW f \in Flows, Replace(f), [Next]_vars PROVE Inv'
<1>a. PICK a \in Accounts : a = flows[f].acct
  BY DEF Inv, Types, FlowType
<1>1. /\ flows[f].pc = "replacing" /\ flows[f].pc \in Owning /\ web \in WebType /\ web' = web
      /\ owner \in OwnerType /\ flows \in [Flows -> FlowType] /\ conns \in [Slots -> ConnType]
      /\ UNCHANGED <<users, dispatch, deleting, session, committed>>
      /\ owner' = [owner EXCEPT !.replacing = owner.replacing \cup {a}]
      /\ a \in owner.logins
  BY <1>a DEF Replace, Owning, Inv, Types, OwnerInv
<1>2. /\ owner' \in OwnerType /\ owner'.logins = owner.logins
      /\ owner'.replacing = owner.replacing \cup {a}
      /\ owner'.closed = owner.closed /\ owner'.stopped = owner.stopped
  BY <1>1 DEF OwnerType
<1>3. \E y \in FlowType :
         /\ flows' = [flows EXCEPT ![f] = y] /\ y.acct = a /\ y.seen = flows[f].seen
         /\ \/ /\ y.pc = "committing" /\ conns' = conns /\ current' = current
               /\ a = "cur" => current = 0
            \/ /\ a = "cur" /\ current # 0
               /\ ConnMoved(current, conns[current].st, TRUE, conns[current].ver)
               /\ current' = IF conns[current].st = "open" THEN 0 ELSE current
               /\ y.pc = IF current' = 0 THEN "committing" ELSE "draining"
               /\ y.conn = current
  <2>1. CASE current = 0 \/ a # "cur"
    <3> DEFINE y == [flows[f] EXCEPT !.pc = "committing"]
    <3>1. y \in FlowType /\ y.acct = a /\ y.seen = flows[f].seen /\ y.pc = "committing"
      BY <1>a, <1>1 DEF FlowType
    <3>2. flows' = [flows EXCEPT ![f] = y]
      BY <1>a, <1>1, <2>1 DEF Replace
    <3>3. conns' = conns /\ current' = current
      BY <1>a, <2>1 DEF Replace
    <3> HIDE DEF y
    <3> QED
      BY <2>1, <3>1, <3>2, <3>3
  <2>2. CASE current # 0 /\ a = "cur"
    <3>i. PICK i \in Slots : i = current
      BY <2>2 DEF Inv, Types
    <3>1. /\ conns' = [conns EXCEPT ![i].closing = TRUE, ![i].canceled = conns[i].st # "open"]
          /\ current' = IF conns[i].st = "open" THEN 0 ELSE current
      BY <1>a, <2>2, <3>i DEF Replace
    <3>b. PICK b \in BOOLEAN : b = (conns[i].st # "open")
      OBVIOUS
    <3>2. ConnMoved(i, conns[i].st, TRUE, conns[i].ver)
      BY <1>1, <3>1, <3>b, ConnCloses
    <3>p. PICK p \in {"committing", "draining"} : p = IF current' = 0 THEN "committing" ELSE "draining"
      OBVIOUS
    <3> DEFINE y == [flows[f] EXCEPT !.pc = p, !.conn = i]
    <3>3. y \in FlowType /\ y.acct = a /\ y.seen = flows[f].seen /\ y.pc = p /\ y.conn = i
      BY <1>a, <1>1 DEF FlowType
    <3>4. flows' = [flows EXCEPT ![f] = y]
      BY <1>a, <1>1, <2>2, <3>i, <3>p DEF Replace
    <3> HIDE DEF y
    <3> QED
      BY <2>2, <3>i, <3>1, <3>2, <3>3, <3>4, <3>p
  <2> QED
    BY <2>1, <2>2
<1>4. PICK y \in FlowType :
         /\ flows' = [flows EXCEPT ![f] = y] /\ y.acct = a /\ y.seen = flows[f].seen
         /\ \/ /\ y.pc = "committing" /\ conns' = conns /\ current' = current
               /\ a = "cur" => current = 0
            \/ /\ a = "cur" /\ current # 0
               /\ ConnMoved(current, conns[current].st, TRUE, conns[current].ver)
               /\ current' = IF conns[current].st = "open" THEN 0 ELSE current
               /\ y.pc = IF current' = 0 THEN "committing" ELSE "draining"
               /\ y.conn = current
  BY <1>3
<1>5. FlowMoved(f, y) /\ y.pc \in {"committing", "draining"}
  BY <1>1, <1>4, FlowSet
<1>6. /\ ConnInv' /\ UserInv' /\ conns' \in [Slots -> ConnType]
      /\ current' \in Slots \cup {0} /\ current' \in {0, current}
      /\ \A j \in Slots : conns'[j].st \in {"serving", "ready"} =>
            conns[j].st \in {"serving", "ready"} /\ conns'[j].ver = conns[j].ver
  <2>1. CASE conns' = conns /\ current' = current
    BY <1>1, <2>1 DEF Inv, ConnInv, UserInv, Types
  <2>2. CASE /\ current # 0
             /\ ConnMoved(current, conns[current].st, TRUE, conns[current].ver)
             /\ current' = IF conns[current].st = "open" THEN 0 ELSE current
    BY <1>1, <2>2, CurrentCloses
  <2> QED
    BY <1>4, <2>1, <2>2
<1>7. WebInv'
  <2>1. CASE f = "web"
    BY <1>1, <1>5, <2>1, WebLeaves DEF FlowMoved
  <2>2. CASE f # "web"
    BY <1>1, <1>5, <2>2, WebApart
  <2> QED
    BY <2>1, <2>2
<1>8. OwnerInv'
  <2>1. \A g \in Flows : g # f =>
              /\ flows[g].pc \in Owning => /\ flows[g].acct \in owner'.logins
                                           /\ flows[g].acct # y.acct
              /\ flows[g].pc \in Replacing => flows[g].acct \in owner'.replacing
    BY <1>a, <1>1, <1>2, <1>4, OthersHold
  <2>2. /\ deleting => "other" \in owner'.replacing /\ "other" \notin owner'.logins
        /\ ~owner.stopped
    BY <1>a, <1>1, <1>2, OthersHold
  <2>3. /\ y.acct \in owner'.logins /\ y.acct \in owner'.replacing
        /\ y.pc = "draining" => y.acct = "cur" /\ y.conn # 0 /\ current' \in {0, y.conn}
        /\ y.pc \in {"committing", "writing"} /\ y.acct = "cur" => current' = 0
    BY <1>1, <1>2, <1>4
  <2> QED
    BY <1>1, <1>2, <1>5, <1>6, <2>1, <2>2, <2>3, OwnerMoves
<1>9. SessionIsLatest'
  <2>1. \A g \in Flows : flows'[g].pc \notin {"idle", "auth", "returning", "completing"} =>
              flows'[g].seen = session[flows'[g].acct]
    <3>1. y.seen = session[y.acct]
      BY <1>a, <1>1, <1>4 DEF Inv, SessionIsLatest
    <3> QED
      BY <1>5, <3>1 DEF Inv, SessionIsLatest, FlowMoved
  <2> QED
    BY <1>1, <1>6, <2>1 DEF Inv, SessionIsLatest
<1>10. Types'
  <2>1. events' \in Nat
    BY EventsType DEF Inv, Types
  <2> QED
    BY <1>1, <1>2, <1>5, <1>6, <2>1 DEF Inv, Types, FlowMoved
<1>11. HandlerInv'
  BY <1>1, HandlersKept
<1> QED
  BY <1>6, <1>7, <1>8, <1>9, <1>10, <1>11 DEF Inv

-----------------------------------------------------------------------------
(* Sessions and the restart of the watcher *)

(* The protocol client writes the session that is stored already.          *)
LEMMA StoreSessionKeeps ==
    ASSUME Inv, NEW i \in Slots, StoreSession(i), [Next]_vars PROVE Inv'
<1>1. /\ conns[i].st \in {"serving", "ready"} /\ session \in [Accounts -> Nat]
      /\ UNCHANGED <<connVars, flows, web, deleting, committed>>
      /\ session' = [session EXCEPT !["cur"] = conns[i].ver]
  BY DEF StoreSession, Inv, Types
<1>2. conns[i].ver = session["cur"]
  BY <1>1 DEF Inv, SessionIsLatest
<1>3. session' = session
  BY <1>1, <1>2, FlowConstants
<1>4. WebInv' /\ OwnerInv'
  BY <1>1 DEF Inv, WebInv, OwnerInv, connVars
<1>5. /\ conns' = conns /\ current' = current /\ owner' = owner /\ users' = users
      /\ dispatch' = dispatch
  BY <1>1 DEF connVars
<1> QED
  BY <1>1, <1>3, <1>4, <1>5, LoginSide DEF Inv, Types, SessionIsLatest

(* A deletion takes an account that no login owns.                         *)
LEMMA DeleteSessionKeeps == ASSUME Inv, DeleteSession, [Next]_vars PROVE Inv'
<1>1. /\ owner \in OwnerType /\ owner' = [owner EXCEPT !.replacing = owner.replacing \cup {"other"}]
      /\ ~owner.closed /\ "other" \notin owner.logins /\ deleting' = TRUE
      /\ UNCHANGED <<conns, current, users, dispatch, flows, web, session, committed>>
  BY DEF DeleteSession, Inv, Types
<1>2. /\ owner' \in OwnerType /\ owner'.logins = owner.logins
      /\ owner'.replacing = owner.replacing \cup {"other"}
      /\ owner'.closed = owner.closed /\ owner'.stopped = owner.stopped
  BY <1>1, FlowConstants DEF OwnerType
<1>3. OwnerInv'
  BY <1>1, <1>2 DEF Inv, OwnerInv
<1>4. ConnInv' /\ UserInv' /\ HandlerInv' /\ WebInv' /\ SessionIsLatest'
  BY <1>1 DEF Inv, ConnInv, UserInv, HandlerInv, HandlersDrained, WebInv, SessionIsLatest
<1>5. Types'
  <2>1. events' \in Nat
    BY EventsType DEF Inv, Types
  <2> QED
    BY <1>1, <1>2, <2>1 DEF Inv, Types
<1> QED
  BY <1>3, <1>4, <1>5 DEF Inv

(* No login of the account is under way that started from what is deleted. *)
LEMMA DeleteCommitsKeeps == ASSUME Inv, DeleteCommits, [Next]_vars PROVE Inv'
<1>v. PICK v \in Nat : v = IF owner.closed THEN session["other"] ELSE 0
  BY FlowConstants DEF Inv, Types
<1>1. /\ owner \in OwnerType /\ owner' = [owner EXCEPT !.replacing = owner.replacing \ {"other"}]
      /\ deleting /\ deleting' = FALSE /\ session \in [Accounts -> Nat] /\ session = committed
      /\ UNCHANGED <<conns, current, users, dispatch, flows, web>>
      /\ session' = [session EXCEPT !["other"] = v]
      /\ committed' = [committed EXCEPT !["other"] = v]
  BY <1>v DEF DeleteCommits, Inv, Types, SessionIsLatest
<1>2. /\ owner' \in OwnerType /\ owner'.logins = owner.logins
      /\ owner'.replacing = owner.replacing \ {"other"}
      /\ owner'.closed = owner.closed /\ owner'.stopped = owner.stopped
  BY <1>1 DEF OwnerType
<1>3. \A g \in Flows : flows[g].pc \in Owning => flows[g].acct # "other"
  BY <1>1 DEF Inv, OwnerInv
<1>4. Replacing \subseteq Owning
  BY DEF Replacing, Owning
<1>5. OwnerInv'
  BY <1>1, <1>2, <1>3, <1>4 DEF Inv, OwnerInv
<1>6. SessionIsLatest'
  <2>1. /\ session' = committed' /\ committed'["cur"] = committed["cur"]
        /\ session'["cur"] = session["cur"]
    BY <1>1, FlowConstants
  <2>2. ASSUME NEW g \in Flows, flows'[g].pc \notin {"idle", "auth", "returning", "completing"}
        PROVE  flows'[g].seen = session'[flows'[g].acct]
    <3>1. flows'[g] = flows[g] /\ flows[g].pc \in Owning /\ flows[g].acct \in Accounts
      BY <1>1, <2>2 DEF Inv, Types, FlowType, Owning
    <3>2. flows[g].acct = "cur"
      BY <1>3, <3>1 DEF Accounts
    <3> QED
      BY <2>1, <2>2, <3>1, <3>2 DEF Inv, SessionIsLatest
  <2> QED
    BY <1>1, <2>1, <2>2 DEF Inv, SessionIsLatest
<1>7. ConnInv' /\ UserInv' /\ HandlerInv' /\ WebInv'
  BY <1>1 DEF Inv, ConnInv, UserInv, HandlerInv, HandlersDrained, WebInv
<1>8. Types'
  <2>1. events' \in Nat
    BY EventsType DEF Inv, Types
  <2>2. session' \in [Accounts -> Nat] /\ committed' \in [Accounts -> Nat]
    BY <1>1
  <2> QED
    BY <1>1, <1>2, <2>1, <2>2 DEF Inv, Types
<1> QED
  BY <1>5, <1>6, <1>7, <1>8 DEF Inv

(* Another account is selected for the next start.                         *)
LEMMA SwitchKeeps == ASSUME Inv, Switch, [Next]_vars PROVE Inv'
<1>1. UNCHANGED <<conns, current, owner, users, dispatch, flows, web, deleting, session, committed>>
  BY DEF Switch, connVars
<1>2. WebInv' /\ OwnerInv'
  BY <1>1 DEF Inv, WebInv, OwnerInv
<1> QED
  BY <1>1, <1>2, LoginSide DEF Inv, Types, SessionIsLatest

(* A step of the watcher's process: its own place and context.             *)
LEMMA WatcherSide ==
    ASSUME Inv, [Next]_vars,
           UNCHANGED <<conns, current, owner, dispatch, flows, web, deleting, session, committed>>,
           users' \in [Users -> UserType], UserInv', HandlerInv'
    PROVE  Inv'
<1>1. events' \in Nat
  BY EventsType DEF Inv, Types
<1>2. Types'
  BY <1>1 DEF Inv, Types
<1>3. ConnInv' /\ OwnerInv' /\ WebInv' /\ SessionIsLatest'
  BY DEF Inv, ConnInv, OwnerInv, WebInv, SessionIsLatest
<1> QED
  BY <1>2, <1>3 DEF Inv

(* The watcher is told to end.                                             *)
LEMMA RestartStopKeeps == ASSUME Inv, RestartStop, [Next]_vars PROVE Inv'
<1>b. PICK b \in BOOLEAN : b = (users[Watcher].pc # "idle")
  OBVIOUS
<1>1. /\ users' = [users EXCEPT ![Watcher].done = b] /\ Watcher \in Users
      /\ users \in [Users -> UserType]
      /\ UNCHANGED <<conns, current, owner, dispatch, flows, web, deleting, session, committed>>
  BY <1>b, SlotTypes DEF RestartStop, Inv, Types
<1>2. /\ users' \in [Users -> UserType]
      /\ \A v \in Users : users'[v].pc = users[v].pc /\ users'[v].conn = users[v].conn
  <2> DEFINE y == [users[Watcher] EXCEPT !.done = b]
  <2>1. /\ y \in UserType /\ y.pc = users[Watcher].pc /\ y.conn = users[Watcher].conn
    BY <1>1 DEF UserType
  <2>2. users' = [users EXCEPT ![Watcher] = y]
    BY <1>1
  <2> HIDE DEF y
  <2>3. UserMoved(Watcher, y.pc, y.conn)
    BY <1>1, <2>1, <2>2, UserSet
  <2> QED
    BY <2>1, <2>3 DEF UserMoved
<1>3. UserInv'
  BY <1>1, <1>2 DEF Inv, UserInv
<1>4. HandlerInv'
  BY <1>1, <1>2, HandlersKept
<1> QED
  BY <1>1, <1>2, <1>3, <1>4, WatcherSide

(* The watcher begins again.                                               *)
LEMMA RestartStartKeeps == ASSUME Inv, RestartStart, [Next]_vars PROVE Inv'
<1> DEFINE y == [users[Watcher] EXCEPT !.pc = "open", !.done = FALSE]
<1>1. /\ users \in [Users -> UserType] /\ Watcher \in Users /\ users[Watcher].pc = "idle"
      /\ UNCHANGED <<conns, current, owner, dispatch, flows, web, deleting, session, committed>>
  BY SlotTypes DEF RestartStart, Inv, Types
<1>2. y \in UserType /\ y.pc = "open"
  BY <1>1 DEF UserType
<1>3. users' = [users EXCEPT ![Watcher] = y]
  BY <1>1 DEF RestartStart
<1> HIDE DEF y
<1>4. UserMoved(Watcher, y.pc, y.conn)
  BY <1>1, <1>2, <1>3, UserSet
<1>5. UserInv'
  BY <1>1, <1>2, <1>4, UserElsewhere DEF Inside
<1>6. HandlerInv'
  BY <1>1, <1>4, HandlersKept DEF UserMoved
<1> QED
  BY <1>1, <1>4, <1>5, <1>6, WatcherSide DEF UserMoved

-----------------------------------------------------------------------------
(* The inductive invariant *)

(* At the start nothing is held.                                           *)
LEMMA InvInit == ASSUME Init PROVE Inv
<1>1. /\ \A i \in Slots : conns[i] = NoConn
      /\ conns \in [Slots -> ConnType] /\ NoConn.st = "none"
  BY DEF Init, NoConn, ConnType
<1>2. /\ users \in [Users -> UserType] /\ \A u \in Users : users[u].pc \in {"open", "idle"}
  BY DEF Init, UserType
<1>3. /\ flows \in [Flows -> FlowType] /\ \A f \in Flows : flows[f].pc = "idle"
  BY FlowConstants DEF Init
<1>4. /\ session \in [Accounts -> Nat] /\ committed = session /\ current = 0 /\ events \in Nat
      /\ web = NoWeb /\ ~deleting /\ dispatch = NoDispatch
      /\ owner = [closed |-> FALSE, stopped |-> FALSE, replacing |-> {}, logins |-> {}]
  BY DEF Init
<1>5. owner \in OwnerType /\ ~owner.stopped
  BY <1>4 DEF OwnerType
<1>6. dispatch \in DispatchType /\ dispatch.st = "none"
  BY <1>4, SlotTypes DEF NoDispatch, DispatchType
<1>7. Types
  BY <1>1, <1>2, <1>3, <1>4, <1>5, <1>6, FlowConstants DEF Types
<1>8. ConnInv /\ UserInv
  BY <1>1, <1>2, <1>4 DEF ConnInv, UserInv, Inside, Running
<1>9. OwnerInv
  BY <1>3, <1>4, <1>5 DEF OwnerInv, Owning, Replacing
<1>10. HandlerInv
  BY <1>6 DEF HandlerInv, HandlersDrained
<1>11. WebInv
  BY <1>3, <1>4, FlowConstants DEF WebInv
<1>12. SessionIsLatest
  BY <1>1, <1>3, <1>4 DEF SessionIsLatest
<1> QED
  BY <1>7, <1>8, <1>9, <1>10, <1>11, <1>12 DEF Inv

(* Every step keeps the invariant.                                         *)
LEMMA InvStep == ASSUME Inv, [Next]_vars PROVE Inv'
<1>1. ASSUME NEW u \in Users,
             \/ OpenRefused(u) \/ OpenShared(u) \/ OpenNew(u) \/ EnterRun(u) \/ RunReady(u)
             \/ Release(u) \/ AwaitDone(u) \/ Retry(u) \/ LeaveRun(u) \/ StartProbe(u)
             \/ CancelUser(u) \/ CopyHandlers(u)
      PROVE  Inv'
  BY <1>1, OpenRefusedKeeps, OpenSharedKeeps, OpenNewKeeps, EnterRunKeeps, RunReadyKeeps,
     ReleaseKeeps, AwaitDoneKeeps, RetryKeeps, LeaveRunKeeps, StartProbeKeeps,
     CancelUserKeeps, CopyHandlersKeeps
<1>2. ASSUME NEW i \in Slots,
             \/ Connect(i) \/ TransportStops(i) \/ FinishServe(i) \/ TransportFails(i)
             \/ StoreSession(i)
      PROVE  Inv'
  BY <1>2, ConnectKeeps, TransportStopsKeeps, FinishServeKeeps, TransportFailsKeeps,
     StoreSessionKeeps
<1>3. ASSUME NEW f \in Flows,
             \/ BeginLogin(f) \/ Prompt(f) \/ Replace(f) \/ Drained(f) \/ CheckOpen(f)
             \/ CommitSession(f) \/ LoginReturns(f) \/ Complete(f) \/ Verify(f)
             \/ LoginFails(f) \/ CancelLogin(f) \/ \E a \in Accounts : StartLogin(f, a)
      PROVE  Inv'
  BY <1>3, BeginLoginKeeps, PromptKeeps, ReplaceKeeps, DrainedKeeps, CheckOpenKeeps,
     CommitSessionKeeps, LoginReturnsKeeps, CompleteKeeps, VerifyKeeps, LoginFailsKeeps,
     CancelLoginKeeps, StartLoginKeeps
<1>4. ASSUME \/ SubmitWeb \/ SubmitBot \/ TakeWeb \/ TakeBot \/ StopOwner \/ StopDrain
             \/ StopReturns \/ DeleteCommits \/ DeleteSession \/ Switch \/ RestartStop
             \/ RestartStart \/ CallHandler \/ HandlerReturns
      PROVE  Inv'
  BY <1>4, SubmitWebKeeps, SubmitBotKeeps, TakeWebKeeps, TakeBotKeeps, StopOwnerKeeps,
     StopDrainKeeps, StopReturnsKeeps, DeleteCommitsKeeps, DeleteSessionKeeps, SwitchKeeps,
     RestartStopKeeps, RestartStartKeeps, CallHandlerKeeps, HandlerReturnsKeeps
<1>5. ASSUME UNCHANGED vars PROVE Inv'
  BY <1>5 DEF vars, Inv, Types, ConnInv, UserInv, OwnerInv, HandlerInv, HandlersDrained, WebInv,
     SessionIsLatest
<1> QED
  BY <1>1, <1>2, <1>3, <1>4, <1>5
     DEF Next, UserStep, TransportStep, FlowStep, Owner, Restart, Dispatching

(* The invariant holds in every behaviour.                                 *)
LEMMA SpecInv == Spec => []Inv
<1>1. Init => Inv
  BY InvInit
<1>2. Inv /\ [Next]_vars => Inv'
  BY InvStep
<1> QED
  BY <1>1, <1>2, PTL DEF Spec

(* The only connection with a transport is the current one, so there is at *)
(* most one; nobody is inside Run without it, and no login or deletion is  *)
(* about to write once Stop has returned.                                  *)
LEMMA InvOwned == Inv => TransportOwned
<1> SUFFICES ASSUME Inv PROVE TransportOwned
  OBVIOUS
<1>1. \A i \in Live : i = current
  BY DEF Inv, ConnInv, Live, Running
<1>2. Cardinality(Live) <= 1
  <2>s. PICK S : S = {current}
    OBVIOUS
  <2>l. PICK L : L = Live
    OBVIOUS
  <2>1. IsFiniteSet(S) /\ Cardinality(S) = 1
    BY <2>s, FS_Singleton
  <2>2. L \subseteq S
    BY <1>1, <2>s, <2>l
  <2>3. Cardinality(L) <= Cardinality(S)
    BY <2>1, <2>2, FS_Subset
  <2> QED
    BY <2>1, <2>3, <2>l
<1>3. \A u \in Users : users[u].pc \in {"waiting", "using", "closing"} =>
          users[u].conn = current /\ conns[current].st # "done"
  BY DEF Inv, UserInv, Inside, Running
<1>4. ASSUME owner.stopped
      PROVE  Live = {} /\ ~deleting /\ \A f \in Flows : flows[f].pc # "writing"
  <2>1. current = 0 /\ owner.logins = {} /\ owner.replacing = {}
    BY <1>4 DEF Inv, OwnerInv
  <2>2. Live = {}
    BY <1>1, <2>1, SlotTypes DEF Live
  <2>3. ~deleting
    BY <2>1 DEF Inv, OwnerInv
  <2>4. \A f \in Flows : flows[f].pc # "writing"
    BY <2>1 DEF Inv, OwnerInv, Replacing
  <2> QED
    BY <2>2, <2>3, <2>4
<1>5. OneTransport
  BY <1>2, <1>3, <1>4 DEF OneTransport
<1> QED
  BY <1>5 DEF Inv, HandlerInv, TransportOwned

-----------------------------------------------------------------------------
(* Connections.Open, Run, release and serve keep one transport at most:    *)
(* whoever is inside Run is on the current one, no handler runs after its  *)
(* Run has released its resources, and once Stop has returned there is no  *)
(* transport and nobody about to write a session.                          *)
THEOREM AccountTransportOwned == Spec => []TransportOwned
BY SpecInv, InvOwned, PTL

(* The stored session is the one of the last login or deletion, every      *)
(* transport runs on it, and a login commits over the session it started   *)
(* from, whatever the interleaving of logins, deletions and transports.    *)
THEOREM AccountSessionLatest == Spec => []SessionIsLatest
<1>1. Inv => SessionIsLatest
  BY DEF Inv
<1> QED
  BY SpecInv, <1>1, PTL

(* The code or password the web login sends to Telegram was typed for the  *)
(* prompt that is open.                                                    *)
THEOREM AccountAnswersPrompt == Spec => []AnswersPrompt
<1>1. Inv => AnswersPrompt
  BY DEF Inv, WebInv, AnswersPrompt
<1> QED
  BY SpecInv, <1>1, PTL
=============================================================================
