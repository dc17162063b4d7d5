------------------------------- MODULE Account -------------------------------
(***************************************************************************)
(* The Telegram account: the owner of its transport (tgauth/connections),  *)
(* the users of that transport (the watcher, probes), the two login flows  *)
(* (web panel and bot console) that replace the stored session underneath  *)
(* it, the deletion and selection of sessions, and the restart of the      *)
(* watcher after a login (runtime/manager).                                *)
(*                                                                         *)
(* The process runs the account "cur"; "other" stands for any other        *)
(* namespace.  A session is the number of the login that stored it.        *)
(***************************************************************************)
EXTENDS Naturals, FiniteSets

CONSTANTS
    Users,       \* callers of Connection.Run; one of them is Watcher
    Watcher,
    Slots,       \* transports that can exist at the same time
    InboxSize,   \* capacity of the bot's input channel
    Scenarios,   \* sets of kinds of outside events; a behaviour meets those of one set
    MaxEvents,   \* bound on outside events
    MaxPrompts   \* bound on the prompts of one login

VARIABLES
    conns,       \* Connection: st, closing, canceled, err, ver (the session it runs on)
    current,     \* Connections.current, 0 for none
    owner,       \* Connections: closed, stopped, replacing, logins
    users,       \* pc, conn, done (own context), stopped (transport), res
    dispatch,    \* one update on its way to one handler entry
    flows,       \* the login flows "web" and "bot"
    web,         \* loginFlow: stage, pending, code and password channels
    inbox,       \* inputs waiting in botLoginFlow.input
    deleting,    \* SessionRepository.Delete holds replacing["other"]
    session,     \* the stored sessions
    selected,    \* the namespace selected in the configuration
    restarts,    \* restartWatch transitions to run
    restarting,  \* restartWatch waits for the watcher to end
    committed,   \* history: the session each account should have
    kinds, events

vars == <<conns, current, owner, users, dispatch, flows, web, inbox, deleting, session, selected,
          restarts, restarting, committed, kinds, events>>
connVars == <<conns, current, owner, users, dispatch>>
loginVars == <<flows, web, inbox, deleting, session, selected, restarts, restarting, committed>>

Accounts == {"cur", "other"}
Flows == {"web", "bot"}
Stages == {"none", "phone", "code", "password"}

ASSUME AccountAssumption ==
    /\ Watcher \in Users /\ IsFiniteSet(Users) /\ Slots \in SUBSET (Nat \ {0})
    /\ \A S \in Scenarios : S \subseteq {"web", "bot", "cancel", "wrong", "probe", "fault", "update",
                                         "store", "stop", "delete", "switch"}
    /\ {InboxSize, MaxEvents, MaxPrompts} \subseteq Nat

NoConn == [st |-> "none", closing |-> FALSE, canceled |-> FALSE, err |-> "none", ver |-> 0]
NoDispatch == [user |-> Watcher, st |-> "none", closed |-> FALSE, gone |-> FALSE]
NoFlow == [pc |-> "idle", id |-> 0, acct |-> "cur", canceled |-> FALSE, stage |-> "none",
           n |-> 0, answer |-> 0, seen |-> 0, conn |-> 0]
NoWeb == [stage |-> "none", pending |-> FALSE, code |-> 0, password |-> 0]

TypeOK ==
    /\ conns \in [Slots -> [st : {"none", "open", "serving", "ready", "ended", "done"},
                            closing : BOOLEAN, canceled : BOOLEAN,
                            err : {"none", "canceled", "failed"}, ver : 0..MaxEvents + 1]]
    /\ current \in Slots \cup {0}
    /\ users \in [Users -> [pc : {"idle", "open", "opened", "waiting", "using", "closing", "wait", "retry"},
                            conn : Slots \cup {0}, done : BOOLEAN, stopped : BOOLEAN,
                            res : {"nil", "canceled", "failed"}]]
    /\ flows \in [Flows -> [pc : {"idle", "auth", "prompting", "asking", "verifying", "replacing",
                                  "draining", "committing", "writing", "returning", "completing"},
                            id : 0..MaxEvents + 1, acct : Accounts, canceled : BOOLEAN,
                            stage : Stages, n : 0..MaxPrompts,
                            answer : 0..MaxPrompts, seen : 0..MaxEvents + 1, conn : Slots \cup {0}]]
    /\ session \in [Accounts -> 0..MaxEvents + 1] /\ inbox \in 0..InboxSize

Init ==
    /\ conns = [i \in Slots |-> NoConn] /\ current = 0
    /\ owner = [closed |-> FALSE, stopped |-> FALSE, replacing |-> {}, logins |-> {}]
    /\ users = [u \in Users |-> [pc |-> IF u = Watcher THEN "open" ELSE "idle", conn |-> 0,
                                 done |-> FALSE, stopped |-> FALSE, res |-> "nil"]]
    /\ dispatch = NoDispatch
    /\ flows = [f \in Flows |-> NoFlow] /\ web = NoWeb /\ inbox = 0 /\ deleting = FALSE
    /\ session = [a \in Accounts |-> 1] /\ committed = session
    /\ selected = "cur" /\ restarts = 0 /\ restarting = FALSE
    /\ kinds \in Scenarios /\ events = 0

Event(k) == k \in kinds /\ events < MaxEvents /\ events' = events + 1 /\ UNCHANGED kinds
Quiet == UNCHANGED <<kinds, events>>

-----------------------------------------------------------------------------
(* Users of the transport: Connections.Open, Connection.Run *)

Counted(i) == {u \in Users : users[u].conn = i /\ users[u].pc \in {"waiting", "using", "closing"}}
Refs(i) == {u \in Users : users[u].conn = i /\ users[u].pc # "idle"}
           \cup {f \in Flows : flows[f].conn = i /\ flows[f].pc = "draining"}
Free(i) == i # current /\ conns[i].st \in {"none", "open", "done"} /\ Refs(i) = {}

(* What the caller of Run does with its result: watch.Run ends on nil and  *)
(* on a cancellation and tries again on every other error; a probe reports.*)
Returned(u, res) ==
    [users[u] EXCEPT !.conn = 0, !.stopped = FALSE, !.res = "nil",
                     !.pc = IF u = Watcher /\ res = "failed" /\ ~users[u].done THEN "retry" ELSE "idle"]

OpenRefused(u) ==
    /\ users[u].pc = "open"
    /\ \/ owner.closed \/ "cur" \in owner.replacing
       \/ current # 0 /\ conns[current].closing
    /\ users' = [users EXCEPT ![u] = Returned(u, "failed")]
    /\ UNCHANGED <<conns, current, owner, dispatch, loginVars>> /\ Quiet

OpenShared(u) ==
    /\ users[u].pc = "open" /\ ~owner.closed /\ "cur" \notin owner.replacing
    /\ current # 0 /\ ~conns[current].closing
    /\ users' = [users EXCEPT ![u].pc = "opened", ![u].conn = current]
    /\ UNCHANGED <<conns, current, owner, dispatch, loginVars>> /\ Quiet

OpenNew(u) ==
    /\ users[u].pc = "open" /\ ~owner.closed /\ "cur" \notin owner.replacing /\ current = 0
    /\ \E i \in Slots :
          /\ Free(i) /\ \A j \in Slots : j < i => ~Free(j)
          /\ conns' = [conns EXCEPT ![i] = [NoConn EXCEPT !.st = "open"]]
          /\ current' = i
          /\ users' = [users EXCEPT ![u].pc = "opened", ![u].conn = i]
    /\ UNCHANGED <<owner, dispatch, loginVars>> /\ Quiet

(* Connection.Run: the first caller starts the transport, which loads the  *)
(* stored session.  Its context hangs on the context of the owner.         *)
EnterRun(u) ==
    /\ users[u].pc = "opened"
    /\ LET i == users[u].conn
           refused == users[u].done \/ conns[i].closing
       IN /\ users' = [users EXCEPT ![u] = IF refused THEN Returned(u, "failed")
                                                       ELSE [@ EXCEPT !.pc = "waiting"]]
          /\ conns' = IF refused \/ conns[i].st # "open" THEN conns
                      ELSE [conns EXCEPT ![i].st = "serving", ![i].canceled = owner.closed,
                                         ![i].ver = session["cur"]]
    /\ UNCHANGED <<current, owner, dispatch, loginVars>> /\ Quiet

CallDone(u) == users[u].done \/ conns[users[u].conn].canceled

RunReady(u) ==
    /\ users[u].pc = "waiting" /\ conns[users[u].conn].st = "ready" /\ ~CallDone(u)
    /\ users' = [users EXCEPT ![u].pc = "using"]
    /\ UNCHANGED <<conns, current, owner, dispatch, loginVars>> /\ Quiet

(* The body ends: because a context is done, because a probe has its       *)
(* answer, or because a call of the watcher failed.  The handler entry is  *)
(* closed first.                                                           *)
LeaveRun(u) ==
    /\ users[u].pc \in {"waiting", "using"}
    /\ \/ CallDone(u) /\ Quiet
          /\ users' = [users EXCEPT ![u].pc = "closing", ![u].stopped = conns[users[u].conn].canceled,
                                    ![u].res = IF users[u].pc = "using" THEN "nil" ELSE "canceled"]
       \/ /\ ~CallDone(u) /\ users[u].pc = "using"
          /\ IF u = Watcher THEN Event("fault") ELSE Quiet
          /\ users' = [users EXCEPT ![u].pc = "closing", ![u].res = IF u = Watcher THEN "failed" ELSE "nil"]
    /\ dispatch' = IF dispatch.user = u THEN [dispatch EXCEPT !.closed = TRUE] ELSE dispatch
    /\ UNCHANGED <<conns, current, owner, loginVars>>

(* Connection.release: running dispatches have drained; the last user      *)
(* stops the transport and waits for its end, and so does one that leaves  *)
(* because the transport stopped.                                          *)
Release(u) ==
    /\ users[u].pc = "closing" /\ ~(dispatch.user = u /\ dispatch.st = "active" /\ ~dispatch.gone)
    /\ LET i == users[u].conn
           last == Counted(i) = {u}
       IN /\ conns' = IF last THEN [conns EXCEPT ![i].closing = TRUE, ![i].canceled = TRUE] ELSE conns
          /\ users' = [users EXCEPT ![u] = IF last \/ (users[u].stopped /\ ~users[u].done)
                                            THEN [@ EXCEPT !.pc = "wait"] ELSE Returned(u, users[u].res)]
    /\ dispatch' = IF dispatch.user = u THEN [dispatch EXCEPT !.gone = TRUE] ELSE dispatch
    /\ UNCHANGED <<current, owner, loginVars>> /\ Quiet

(* The error of the transport takes the place of nil or of a cancellation. *)
AwaitDone(u) ==
    /\ users[u].pc = "wait" /\ conns[users[u].conn].st = "done"
    /\ LET err == conns[users[u].conn].err
           res == IF users[u].stopped /\ ~users[u].done /\ err # "none" /\ users[u].res # "failed"
                  THEN err ELSE users[u].res
       IN users' = [users EXCEPT ![u] = Returned(u, res)]
    /\ UNCHANGED <<conns, current, owner, dispatch, loginVars>> /\ Quiet

(* watch.Run after reconnect_timeout, or at once when its context is done. *)
Retry(u) ==
    /\ users[u].pc = "retry"
    /\ users' = [users EXCEPT ![u].pc = IF users[u].done THEN "idle" ELSE "open"]
    /\ UNCHANGED <<conns, current, owner, dispatch, loginVars>> /\ Quiet

(* Everybody else: one call on the transport, with a handler of its own.   *)
Probes == Users \ {Watcher}

StartProbe(u) ==
    /\ u \in Probes /\ users[u].pc = "idle" /\ Event("probe")
    /\ users' = [users EXCEPT ![u].pc = "open", ![u].done = FALSE]
    /\ UNCHANGED <<conns, current, owner, dispatch, loginVars>>

CancelUser(u) ==
    /\ u \in Probes /\ users[u].pc \notin {"idle", "open"} /\ ~users[u].done /\ Event("cancel")
    /\ users' = [users EXCEPT ![u].done = TRUE]
    /\ UNCHANGED <<conns, current, owner, dispatch, loginVars>>

-----------------------------------------------------------------------------
(* The transport: Connection.serve and Connection.dispatch *)

Connect(i) ==
    /\ conns[i].st = "serving" /\ ~conns[i].canceled
    /\ conns' = [conns EXCEPT ![i].st = "ready"]
    /\ UNCHANGED <<current, owner, users, dispatch, loginVars>> /\ Quiet

TransportFails(i) ==
    /\ conns[i].st \in {"serving", "ready"} /\ Event("fault")
    /\ conns' = [conns EXCEPT ![i] = [@ EXCEPT !.st = "ended", !.err = "failed", !.closing = TRUE,
                                               !.canceled = TRUE]]
    /\ UNCHANGED <<current, owner, users, dispatch, loginVars>>

(* The cancellation ends the transport.  Once ready, the callback closes   *)
(* the connection and holds the transport until every user has gone;       *)
(* before that, run returns without its callback and serve closes it.      *)
TransportStops(i) ==
    /\ conns[i].st \in {"serving", "ready"} /\ conns[i].canceled
    /\ \/ /\ conns[i].st = "ready" /\ ~conns[i].closing
          /\ conns' = [conns EXCEPT ![i].closing = TRUE]
       \/ /\ conns[i].st = "ready" => conns[i].closing /\ Counted(i) = {}
          /\ conns' = [conns EXCEPT ![i].st = "ended", ![i].err = "canceled", ![i].closing = TRUE]
    /\ UNCHANGED <<current, owner, users, dispatch, loginVars>> /\ Quiet

(* Slip: a failed transport is given up while its users still run.         *)
FinishAtOnce(i) ==
    /\ conns[i].st = "ended"
    /\ conns' = [conns EXCEPT ![i].st = "done", ![i].ver = 0]
    /\ current' = IF current = i THEN 0 ELSE current
    /\ UNCHANGED <<owner, users, dispatch, loginVars>> /\ Quiet

FinishServe(i) ==
    /\ conns[i].st = "ended" /\ Counted(i) = {}
    /\ conns' = [conns EXCEPT ![i].st = "done", ![i].ver = 0]
    /\ current' = IF current = i THEN 0 ELSE current
    /\ UNCHANGED <<owner, users, dispatch, loginVars>> /\ Quiet

(* The protocol client stores its session whenever its keys change.        *)
StoreSession(i) ==
    /\ conns[i].st \in {"serving", "ready"} /\ Event("store")
    /\ session' = [session EXCEPT !["cur"] = conns[i].ver]
    /\ UNCHANGED <<connVars, flows, web, inbox, deleting, selected, restarts, restarting, committed>>

(* dispatch copies the entries under the lock, then looks at each again.   *)
CopyHandlers(u) ==
    /\ dispatch.st = "none" /\ users[u].pc \in {"waiting", "using"}
    /\ conns[users[u].conn].st = "ready" /\ Event("update")
    /\ dispatch' = [user |-> u, st |-> "copied", closed |-> FALSE, gone |-> FALSE]
    /\ UNCHANGED <<conns, current, owner, users, loginVars>>

CallHandler ==
    /\ dispatch.st = "copied"
    /\ dispatch' = IF dispatch.closed THEN NoDispatch ELSE [dispatch EXCEPT !.st = "active"]
    /\ UNCHANGED <<conns, current, owner, users, loginVars>> /\ Quiet

HandlerReturns ==
    /\ dispatch.st = "active" /\ dispatch' = NoDispatch
    /\ UNCHANGED <<conns, current, owner, users, loginVars>> /\ Quiet

-----------------------------------------------------------------------------
(* Connections.Stop *)

StopOwner ==
    /\ ~owner.closed /\ Event("stop")
    /\ owner' = [owner EXCEPT !.closed = TRUE]
    /\ conns' = [i \in Slots |-> IF conns[i].st \in {"none", "open"} THEN conns[i]
                                 ELSE [conns[i] EXCEPT !.canceled = TRUE]]
    /\ UNCHANGED <<current, users, dispatch, loginVars>>

StopDrain ==
    /\ owner.closed /\ current # 0 /\ ~conns[current].closing
    /\ conns' = [conns EXCEPT ![current].closing = TRUE, ![current].canceled = TRUE]
    /\ current' = IF conns[current].st = "open" THEN 0 ELSE current
    /\ UNCHANGED <<owner, users, dispatch, loginVars>> /\ Quiet

StopReturns ==
    /\ owner.closed /\ ~owner.stopped /\ current = 0 /\ owner.logins = {} /\ owner.replacing = {}
    /\ owner' = [owner EXCEPT !.stopped = TRUE]
    /\ UNCHANGED <<conns, current, users, dispatch, loginVars>> /\ Quiet

-----------------------------------------------------------------------------
(* Login: Login.start and BotLogin.start with runWithTemporarySession *)

(* Slip: the context of a login does not hang on the owner.                *)
LoginDoneByUser(f) == flows[f].canceled

LoginDone(f) == flows[f].canceled \/ owner.closed
End(f) == /\ flows' = [flows EXCEPT ![f] = NoFlow]
          /\ web' = IF f = "web" THEN NoWeb ELSE web
          /\ inbox' = IF f = "bot" THEN 0 ELSE inbox

Started(a) == [NoFlow EXCEPT !.pc = "auth", !.acct = a, !.id = events + 2]
StartLogin(f, a) ==
    /\ flows[f].pc = "idle" /\ Event(f)
    /\ flows' = [flows EXCEPT ![f] = Started(a)]
    /\ UNCHANGED <<connVars, web, inbox, deleting, session, selected, restarts, restarting, committed>>

CancelLogin(f) ==
    /\ flows[f].pc # "idle" /\ ~flows[f].canceled /\ Event("cancel")
    /\ flows' = [flows EXCEPT ![f].canceled = TRUE]
    /\ UNCHANGED <<connVars, web, inbox, deleting, session, selected, restarts, restarting, committed>>

(* Credentials are those of the process's own account: the web panel binds *)
(* them to the target of the login, the bot asks for the target's.         *)
CredentialsFor(f, a) == f = "web" \/ a = "cur"

BeginLogin(f) ==
    /\ flows[f].pc = "auth"
    /\ LET a == flows[f].acct
           refused == \/ owner.closed \/ a \in owner.logins \cup owner.replacing
                      \/ ~CredentialsFor(f, a)
       IN \/ /\ refused /\ End(f) /\ UNCHANGED owner
          \/ /\ ~refused /\ UNCHANGED <<web, inbox>>
             /\ owner' = [owner EXCEPT !.logins = @ \cup {a}]
             /\ flows' = [flows EXCEPT ![f].pc = "prompting", ![f].seen = session[a],
                                       ![f].stage = IF f = "bot" THEN "phone" ELSE "code"]
    /\ UNCHANGED <<conns, current, users, dispatch, deleting, session, selected,
                   restarts, restarting, committed>> /\ Quiet

(* loginFlow.prompt resets inputPending; the bot sends a message.          *)
Prompt(f) ==
    /\ flows[f].pc = "prompting" /\ flows[f].n < MaxPrompts
    /\ flows' = [flows EXCEPT ![f].pc = "asking", ![f].n = @ + 1]
    /\ web' = IF f = "web" THEN [web EXCEPT !.stage = flows[f].stage, !.pending = FALSE] ELSE web
    /\ UNCHANGED <<connVars, inbox, deleting, session, selected, restarts, restarting, committed>> /\ Quiet

requireActive == flows["web"].pc # "idle"

(* sendCode and sendPassword: only at their stage, once per prompt.        *)
SubmitWeb ==
    /\ requireActive /\ ~flows["web"].canceled /\ ~web.pending
    /\ \/ web.stage = "code" /\ web.code = 0
          /\ web' = [web EXCEPT !.pending = TRUE, !.code = flows["web"].n]
       \/ web.stage = "password" /\ web.password = 0
          /\ web' = [web EXCEPT !.pending = TRUE, !.password = flows["web"].n]
    /\ UNCHANGED <<connVars, flows, inbox, deleting, session, selected, restarts, restarting, committed>> /\ Quiet

(* BotLogin.HandleInput: buffered whatever the stage is, never blocking.   *)
SubmitBot ==
    /\ flows["bot"].pc # "idle" /\ inbox < InboxSize
    /\ inbox' = inbox + 1
    /\ UNCHANGED <<connVars, flows, web, deleting, session, selected, restarts, restarting, committed>> /\ Quiet

(* Slip: the input counts as handled as soon as it is taken.               *)
TakeAndReset ==
    /\ flows["web"].pc = "asking"
    /\ \/ /\ flows["web"].stage = "code" /\ web.code # 0
          /\ flows' = [flows EXCEPT !["web"].pc = "verifying", !["web"].answer = web.code]
          /\ web' = [web EXCEPT !.code = 0, !.pending = FALSE]
       \/ /\ flows["web"].stage = "password" /\ web.password # 0
          /\ flows' = [flows EXCEPT !["web"].pc = "verifying", !["web"].answer = web.password]
          /\ web' = [web EXCEPT !.password = 0, !.pending = FALSE]
    /\ UNCHANGED <<connVars, inbox, deleting, session, selected, restarts, restarting, committed>> /\ Quiet

(* waitCode and waitPassword *)
TakeWeb ==
    /\ flows["web"].pc = "asking"
    /\ \/ /\ flows["web"].stage = "code" /\ web.code # 0
          /\ flows' = [flows EXCEPT !["web"].pc = "verifying", !["web"].answer = web.code]
          /\ web' = [web EXCEPT !.code = 0]
       \/ /\ flows["web"].stage = "password" /\ web.password # 0
          /\ flows' = [flows EXCEPT !["web"].pc = "verifying", !["web"].answer = web.password]
          /\ web' = [web EXCEPT !.password = 0]
    /\ UNCHANGED <<connVars, inbox, deleting, session, selected, restarts, restarting, committed>> /\ Quiet

(* BotLogin.ask: an unusable input is asked for again.                     *)
TakeBot ==
    /\ flows["bot"].pc = "asking" /\ inbox > 0
    /\ inbox' = inbox - 1
    /\ flows' = [flows EXCEPT !["bot"].pc = IF flows["bot"].stage = "phone" THEN "prompting" ELSE "verifying",
                              !["bot"].stage = IF @ = "phone" THEN "code" ELSE @]
    /\ UNCHANGED <<connVars, web, deleting, session, selected, restarts, restarting, committed>> /\ Quiet

(* Telegram's answer: accepted, a password is needed, or a wrong input.    *)
Verify(f) ==
    /\ flows[f].pc = "verifying"
    /\ \/ flows' = [flows EXCEPT ![f].pc = "replacing"] /\ UNCHANGED web /\ Quiet
       \/ /\ flows[f].stage = "code" /\ flows[f].n < MaxPrompts
          /\ flows' = [flows EXCEPT ![f].pc = "prompting", ![f].stage = "password"]
          /\ UNCHANGED web /\ Quiet
       \/ /\ flows[f].n < MaxPrompts /\ Event("wrong")
          /\ flows' = [flows EXCEPT ![f].pc = "prompting"]
          /\ web' = IF f = "web" THEN [web EXCEPT !.stage = flows[f].stage] ELSE web
    /\ UNCHANGED <<connVars, inbox, deleting, session, selected, restarts, restarting, committed>>

(* The steps of the authentication that return an error: the transport,    *)
(* a sign-up that is asked for, no valid user, a store that fails.         *)
Authenticating == {"prompting", "asking", "verifying", "replacing", "draining", "committing", "returning"}

(* A login that fails, or whose context is done (user, time-out or owner), *)
(* releases everything it holds.                                           *)
LoginFails(f) ==
    /\ flows[f].pc \in Authenticating
    /\ IF LoginDone(f) THEN Quiet ELSE flows[f].pc # "returning" /\ Event("fault")
    /\ owner' = [owner EXCEPT !.logins = @ \ {flows[f].acct},
                              !.replacing = IF flows[f].pc \in {"draining", "committing"}
                                            THEN @ \ {flows[f].acct} ELSE @]
    /\ End(f)
    /\ UNCHANGED <<conns, current, users, dispatch, deleting, session, selected,
                   restarts, restarting, committed>>

(* Slip: the old transport lives on while the new session is stored.       *)
ReplaceWithoutDrain(f) ==
    /\ flows[f].pc = "replacing" /\ ~owner.closed /\ flows[f].acct \notin owner.replacing
    /\ owner' = [owner EXCEPT !.replacing = @ \cup {flows[f].acct}]
    /\ flows' = [flows EXCEPT ![f].pc = "committing"]
    /\ UNCHANGED <<conns, current, users, dispatch, web, inbox, deleting, session, selected,
                   restarts, restarting, committed>> /\ Quiet

(* Connections.Replace with Drain: new users are refused, the transport is *)
(* cancelled, one that was never started is dropped.  A login owns its     *)
(* account in logins, so no other replacement of it can be under way; the  *)
(* guard keeps the code's condition.                                       *)
Replace(f) ==
    /\ flows[f].pc = "replacing" /\ ~owner.closed /\ flows[f].acct \notin owner.replacing
    /\ owner' = [owner EXCEPT !.replacing = @ \cup {flows[f].acct}]
    /\ IF current = 0 \/ flows[f].acct # "cur"
       THEN /\ flows' = [flows EXCEPT ![f].pc = "committing"]
            /\ UNCHANGED <<conns, current>>
       ELSE /\ conns' = [conns EXCEPT ![current].closing = TRUE,
                                      ![current].canceled = conns[current].st # "open"]
            /\ current' = IF conns[current].st = "open" THEN 0 ELSE current
            /\ flows' = [flows EXCEPT ![f].pc = IF current' = 0 THEN "committing" ELSE "draining",
                                      ![f].conn = current]
    /\ UNCHANGED <<users, dispatch, web, inbox, deleting, session, selected, restarts,
                   restarting, committed>> /\ Quiet

Drained(f) ==
    /\ flows[f].pc = "draining" /\ conns[flows[f].conn].st = "done"
    /\ flows' = [flows EXCEPT ![f].pc = "committing", ![f].conn = 0]
    /\ UNCHANGED <<connVars, web, inbox, deleting, session, selected, restarts, restarting, committed>> /\ Quiet

CheckOpen(f) ==
    /\ flows[f].pc = "committing" /\ ~LoginDone(f)
    /\ flows' = [flows EXCEPT ![f].pc = "writing"]
    /\ UNCHANGED <<connVars, web, inbox, deleting, session, selected, restarts, restarting, committed>> /\ Quiet

(* CommitSession: session, application and fingerprint in one transaction. *)
CommitSession(f) ==
    /\ flows[f].pc = "writing"
    /\ LET a == flows[f].acct
       IN /\ session' = [session EXCEPT ![a] = flows[f].id]
          /\ committed' = [committed EXCEPT ![a] = flows[f].id]
          /\ owner' = [owner EXCEPT !.replacing = @ \ {a}]
    /\ flows' = [flows EXCEPT ![f].pc = "returning"]
    /\ UNCHANGED <<conns, current, users, dispatch, web, inbox, deleting, selected, restarts,
                   restarting>> /\ Quiet

LoginReturns(f) ==
    /\ flows[f].pc = "returning" /\ ~LoginDone(f)
    /\ owner' = [owner EXCEPT !.logins = @ \ {flows[f].acct}]
    /\ flows' = [flows EXCEPT ![f].pc = "completing"]
    /\ UNCHANGED <<conns, current, users, dispatch, web, inbox, deleting, session, selected,
                   restarts, restarting, committed>> /\ Quiet

(* SelectNamespace compares and sets; a login of the running account       *)
(* restarts the watcher, one of another account selects it for the reboot. *)
Complete(f) ==
    /\ flows[f].pc = "completing"
    /\ End(f)
    /\ LET ok == ~flows[f].canceled /\ selected = "cur"
       IN /\ selected' = IF ok THEN flows[f].acct ELSE selected
          /\ restarts' = IF ok /\ flows[f].acct = "cur" THEN restarts + 1 ELSE restarts
    /\ UNCHANGED <<connVars, deleting, session, restarting, committed>> /\ Quiet

-----------------------------------------------------------------------------
(* Deletion and selection of other sessions; the watcher's restart *)

(* Sessions.Delete refuses the running account; ReplaceIdle refuses while  *)
(* a login of the account is active.                                       *)
DeleteSession ==
    /\ ~deleting /\ ~owner.closed /\ "other" \notin owner.replacing \cup owner.logins /\ Event("delete")
    /\ owner' = [owner EXCEPT !.replacing = @ \cup {"other"}] /\ deleting' = TRUE
    /\ UNCHANGED <<conns, current, users, dispatch, flows, web, inbox, session, selected,
                   restarts, restarting, committed>>

DeleteCommits ==
    /\ deleting /\ deleting' = FALSE
    /\ owner' = [owner EXCEPT !.replacing = @ \ {"other"}]
    /\ LET v == IF owner.closed THEN session["other"] ELSE 0
       IN /\ session' = [session EXCEPT !["other"] = v]
          /\ committed' = [committed EXCEPT !["other"] = v]
    /\ UNCHANGED <<conns, current, users, dispatch, flows, web, inbox, selected, restarts,
                   restarting>> /\ Quiet

(* Actions.Switch: only to an account that has a session.                  *)
Switch ==
    /\ selected = "cur" /\ session["other"] # 0 /\ Event("switch")
    /\ selected' = "other"
    /\ UNCHANGED <<connVars, flows, web, inbox, deleting, session, restarts, restarting, committed>>

(* restartWatch: StopContext waits for the process, StartWatch begins a    *)
(* new one.                                                                *)
RestartStop ==
    /\ restarts > 0 /\ ~restarting
    /\ restarting' = TRUE /\ restarts' = restarts - 1
    /\ users' = [users EXCEPT ![Watcher].done = users[Watcher].pc # "idle"]
    /\ UNCHANGED <<conns, current, owner, dispatch, flows, web, inbox, deleting, session, selected,
                   committed>> /\ Quiet

RestartStart ==
    /\ restarting /\ users[Watcher].pc = "idle"
    /\ restarting' = FALSE
    /\ users' = [users EXCEPT ![Watcher].pc = "open", ![Watcher].done = FALSE]
    /\ UNCHANGED <<conns, current, owner, dispatch, flows, web, inbox, deleting, session, selected,
                   restarts, committed>> /\ Quiet

-----------------------------------------------------------------------------
UserStep(u) ==
    \/ OpenRefused(u) \/ OpenShared(u) \/ OpenNew(u) \/ EnterRun(u) \/ RunReady(u)
    \/ Release(u) \/ AwaitDone(u) \/ Retry(u) \/ (LeaveRun(u) /\ (CallDone(u) \/ u # Watcher))
TransportStep(i) == Connect(i) \/ TransportStops(i) \/ FinishServe(i)
FlowStep(f) ==
    \/ BeginLogin(f) \/ Prompt(f) \/ Replace(f) \/ Drained(f)
    \/ CheckOpen(f) \/ CommitSession(f) \/ LoginReturns(f) \/ Complete(f)
    \/ (LoginFails(f) /\ LoginDone(f))
Owner == StopDrain \/ StopReturns \/ DeleteCommits
Restart == RestartStop \/ RestartStart
Dispatching == CallHandler \/ HandlerReturns

Next ==
    \/ \E u \in Users : UserStep(u) \/ LeaveRun(u) \/ StartProbe(u) \/ CancelUser(u) \/ CopyHandlers(u)
    \/ \E i \in Slots : TransportStep(i) \/ TransportFails(i) \/ StoreSession(i)
    \/ \E f \in Flows : \/ FlowStep(f) \/ Verify(f) \/ LoginFails(f) \/ CancelLogin(f)
                        \/ \E a \in Accounts : StartLogin(f, a)
    \/ SubmitWeb \/ SubmitBot \/ TakeWeb \/ TakeBot
    \/ StopOwner \/ Owner \/ DeleteSession \/ Switch \/ Restart \/ Dispatching

Spec == Init /\ [][Next]_vars

(* The program's own steps happen; what a person, Telegram or the network  *)
(* decides need not.                                                       *)
Fairness ==
    /\ \A u \in Users : WF_vars(UserStep(u))
    /\ \A i \in Slots : WF_vars(TransportStep(i))
    /\ \A f \in Flows : WF_vars(FlowStep(f))
    /\ WF_vars(Owner) /\ WF_vars(Restart) /\ WF_vars(Dispatching)

FairSpec == Spec /\ Fairness

-----------------------------------------------------------------------------
Live == {i \in Slots : conns[i].st \in {"serving", "ready", "ended"}}

(* There is one transport at most, and nobody runs on a transport that the *)
(* owner has given up: a new one exists only after all users of the old    *)
(* one have left (connections.go:205-221).  Once Stop has returned there   *)
(* is none, and nobody is about to change a session.                       *)
OneTransport ==
    /\ Cardinality(Live) <= 1
    /\ \A u \in Users : users[u].pc \in {"waiting", "using", "closing"} =>
          users[u].conn = current /\ conns[current].st # "done"
    /\ owner.stopped => Live = {} /\ ~deleting /\ \A f \in Flows : flows[f].pc # "writing"

(* "preventing late session writes from restoring the old authorization":  *)
(* the store has what the last login or deletion put there, and every      *)
(* transport runs on it.  A login commits over the session it started from *)
(* ("a late login commit cannot recreate a deleted session").              *)
SessionIsLatest ==
    /\ session = committed
    /\ \A i \in Slots : conns[i].st \in {"serving", "ready"} => conns[i].ver = committed["cur"]
    /\ \A f \in Flows : flows[f].pc \notin {"idle", "auth", "returning", "completing"} =>
          flows[f].seen = session[flows[f].acct]

(* No update handler runs once the Run it was registered by has released   *)
(* its resources (the watcher closes its pool right after).                *)
HandlersDrained == dispatch.st = "active" => ~dispatch.gone

(* The code or password the web flow sends to Telegram was typed for the   *)
(* prompt that is open, never left over from an earlier one.               *)
AnswersPrompt == flows["web"].pc = "verifying" => flows["web"].answer = flows["web"].n

(* "登录成功后会自动重新启动 watch": after a login of the running account   *)
(* succeeded the watcher is on a transport with the new session again,     *)
(* although the commit had to stop it, unless the process is stopping or   *)
(* the next login takes the transport away.                                *)
LoginReconnects ==
    restarts > 0 ~> \/ owner.closed \/ "cur" \in owner.replacing
                    \/ /\ users[Watcher].pc = "using"
                       /\ conns[users[Watcher].conn].ver = session["cur"]

(* Stop of the owner ends, whatever it interrupts: every user, login and   *)
(* deletion lets go.                                                       *)
StopCompletes == owner.closed ~> owner.stopped

(* One transport, and no handler or user on one that was given up.         *)
TransportOwned == OneTransport /\ HandlersDrained

(* A login ends on a working connection and a stop ends.                   *)
OwnerSettles == LoginReconnects /\ StopCompletes

=============================================================================
