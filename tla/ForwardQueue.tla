---------------------------- MODULE ForwardQueue ----------------------------
(***************************************************************************)
(* The persistent forward queue of application/forwarder/queue.go over     *)
(* bsw/cdd/taskhub/forward_repository.go: producers store jobs, controls   *)
(* pause, resume and delete them, and one worker (Serve) sends them one at *)
(* a time and retries with backoff.                                        *)
(*                                                                         *)
(* Queue.dataMu makes the body of every control, of EnqueueRouted, of      *)
(* pickNext, of the claim, of a progress report and of the recording of a  *)
(* result one step; a producer that does not take it stores with a single  *)
(* atomic Put.  Between these steps of the worker everything interleaves.  *)
(* The repository's Update is a transaction that fails, changing nothing,  *)
(* when its context is cancelled.                                          *)
(*                                                                         *)
(* Time is abstract: "later" holds the jobs whose NextAttemptAt is still   *)
(* ahead, "expired" the finished ones older than history_hours.            *)
(***************************************************************************)
EXTENDS ForwardSender, FiniteSets

CONSTANTS
    Ids,         \* job ids
    MessageOf,   \* the message and the mode of each job
    Routed,      \* the ids EnqueueRouted derives from message and target
    Policies,    \* configured [attempts, history] pairs
    Events,      \* the kinds of environment events of this instance
    MaxEvents,   \* bound on the number of environment events
    None

QueueAssumption ==
    /\ Routed \subseteq Ids /\ None \notin Ids
    /\ DOMAIN MessageOf = Ids /\ \A j \in Ids : IsMessage(MessageOf[j])
    /\ Policies \subseteq [attempts : Nat \ {0}, history : Nat \ {0}]
    /\ MaxEvents \in Nat

VARIABLES
    status,     \* ForwardJob.Status, "absent" when there is no record
    attempts,   \* ForwardJob.Attempts
    later,      \* records whose NextAttemptAt has not come
    created,    \* the records by CreatedAt
    finished,   \* the terminal records by FinishedAt
    expired,    \* terminal records past the retention time
    wpc,        \* where the worker is in Serve
    cur,        \* the job runJob works on
    mine,       \* Attempts of runJob's own copy of the job
    runErr,     \* what Forward returned
    activeID,   \* Queue.activeID
    jobDone,    \* the context of the running job is cancelled
    serveDone,  \* the context of Serve is cancelled
    wake,       \* the buffered wake signal
    policy,     \* Queue.policy()
    events,     \* number of environment events so far
    failed,     \* a storage operation of the worker has failed
    claimed,    \* history: records an attempt was started for
    sent,       \* history: records whose own attempt delivered the message
    ever,       \* history: ids whose message was delivered at all
    again,      \* history: ids whose message was delivered twice
    excuse,     \* history: why an id may be delivered again
    fails       \* history: failed attempts recorded since the last (re)queueing

records == <<status, attempts, later, created, finished, expired>>
worker  == <<wpc, cur, mine, runErr, activeID, jobDone>>
history == <<claimed, sent, ever, again, excuse, fails>>
vars == <<records, worker, serveDone, wake, policy, events, failed, history>>

Statuses == {"absent", "queued", "running", "paused", "retrying", "done", "error"}
WorkerStates == {"down", "recover", "pick", "activate", "claim", "send", "result", "wait"}
Terminal == {"done", "error"}

Elems(s) == {s[i] : i \in DOMAIN s}
Keep(s, S) == LET In(x) == x \in S IN SelectSeq(s, In)

TypeOK ==
    /\ status \in [Ids -> Statuses]
    /\ attempts \in [Ids -> Nat]
    /\ later \subseteq Ids /\ expired \subseteq Ids
    /\ created \in Seq(Ids) /\ finished \in Seq(Ids)
    /\ wpc \in WorkerStates /\ cur \in Ids \cup {None} /\ mine \in Nat
    /\ runErr \in {"nil", "canceled", "failed"}
    /\ activeID \in Ids \cup {None}
    /\ {jobDone, serveDone, wake, failed} \subseteq BOOLEAN
    /\ policy \in Policies /\ events \in 0..MaxEvents
    /\ claimed \subseteq Ids /\ sent \subseteq Ids
    /\ ever \subseteq Ids /\ again \subseteq Ids
    /\ excuse \in [Ids -> SUBSET {"unrecorded", "unanswered", "deleted", "pruned"}]
    /\ fails \in [Ids -> Nat]

Init ==
    /\ status = [j \in Ids |-> "absent"]
    /\ attempts = [j \in Ids |-> 0]
    /\ later = {} /\ created = <<>> /\ finished = <<>> /\ expired = {}
    /\ wpc = "down" /\ cur = None /\ mine = 0 /\ runErr = "nil"
    /\ activeID = None /\ jobDone = FALSE /\ serveDone = FALSE /\ wake = FALSE
    /\ policy \in Policies /\ events = 0 /\ failed = FALSE
    /\ claimed = {} /\ sent = {} /\ ever = {} /\ again = {}
    /\ excuse = [j \in Ids |-> {}]
    /\ fails = [j \in Ids |-> 0]

(* An event of the environment: a call, a fault, a crash.                  *)
Event(kind) ==
    /\ kind \in Events /\ events < MaxEvents
    /\ events' = events + 1

(* ForwardRepository.Update of one record to the status s.                 *)
Updated(j, s) == [status EXCEPT ![j] = s]

(* The effects of collection.Remove on the records of S.                   *)
RemoveRecords(S, why) ==
    /\ status' = [j \in Ids |-> IF j \in S THEN "absent" ELSE status[j]]
    /\ created' = Keep(created, Ids \ S)
    /\ finished' = Keep(finished, Ids \ S)
    /\ later' = later \ S /\ expired' = expired \ S
    /\ claimed' = claimed \ S /\ sent' = sent \ S
    /\ excuse' = [j \in Ids |-> excuse[j] \cup IF j \in S THEN {why} ELSE {}]
    /\ UNCHANGED <<attempts, ever, again, fails>>

-----------------------------------------------------------------------------
(* Producers and controls *)

(* ForwardRepository.Save of a new job in the state queued.                *)
Save(j) ==
    /\ status' = Updated(j, "queued")
    /\ attempts' = [attempts EXCEPT ![j] = 0]
    /\ fails' = [fails EXCEPT ![j] = 0]
    /\ created' = Append(Keep(created, Ids \ {j}), j)
    /\ finished' = Keep(finished, Ids \ {j})
    /\ later' = later \ {j} /\ expired' = expired \ {j}
    /\ UNCHANGED <<claimed, sent, ever, again, excuse>>

(* EnqueueLinks and enqueueMessage: nextID never repeats.                  *)
EnqueueOnce(j) ==
    /\ Event("enqueue")
    /\ j \notin Routed /\ status[j] = "absent" /\ excuse[j] = {}
    /\ Save(j)
    /\ wake' = TRUE
    /\ UNCHANGED <<worker, serveDone, policy, failed>>

RouteAlways(j) ==
    /\ Event("enqueue")
    /\ j \in Routed
    /\ Save(j) /\ wake' = TRUE
    /\ UNCHANGED <<worker, serveDone, policy, failed>>

(* EnqueueRouted: an existing record of the same identity is left alone.   *)
EnqueueRouted(j) ==
    /\ Event("enqueue")
    /\ j \in Routed
    /\ IF status[j] # "absent" THEN UNCHANGED <<records, history, wake>>
       ELSE Save(j) /\ wake' = TRUE
    /\ UNCHANGED <<worker, serveDone, policy, failed>>

(* Queue.update: only records in one of these states are changed, and they *)
(* are due at once.                                                        *)
Change(j, from, to) ==
    /\ Event("control")
    /\ status[j] \in from
    /\ status' = Updated(j, to)
    /\ later' = later \ {j}

PauseStatus == "paused"

Pause(j) ==
    /\ Change(j, {"queued", "retrying"}, PauseStatus)
    /\ UNCHANGED <<attempts, created, finished, expired, worker, serveDone, wake,
                   policy, failed, history>>

Resume(j) ==
    /\ Change(j, {"paused", "error", "retrying"}, "queued")
    /\ attempts' = [attempts EXCEPT ![j] = 0]
    /\ fails' = [fails EXCEPT ![j] = 0]
    /\ finished' = Keep(finished, Ids \ {j}) /\ expired' = expired \ {j}
    /\ wake' = TRUE
    /\ UNCHANGED <<created, worker, serveDone, policy, failed, claimed, sent, ever,
                   again, excuse>>

cancelIfActive(j) == jobDone' = (jobDone \/ activeID = j)

(* The attempt of a deleted job loses its context before dataMu is free.   *)
Delete(j) ==
    /\ Event("control")
    /\ status[j] # "absent"
    /\ RemoveRecords({j}, "deleted")
    /\ cancelIfActive(j)
    /\ UNCHANGED <<wpc, cur, mine, runErr, activeID, serveDone, wake, policy, failed>>

(* service.PrepareConfig's commit.                                         *)
Reconfigure ==
    /\ Event("reconfigure")
    /\ policy' \in Policies \ {policy}
    /\ wake' = TRUE
    /\ UNCHANGED <<records, worker, serveDone, failed, history>>

-----------------------------------------------------------------------------
(* The worker *)

Serve ==
    /\ wpc = "down"
    /\ wpc' = "recover" /\ serveDone' = FALSE
    /\ UNCHANGED <<records, cur, mine, runErr, activeID, jobDone, wake, policy, events,
                   failed, history>>

(* Serve returns; its deferred function forgets the active job.            *)
Leave ==
    /\ wpc' = "down" /\ cur' = None /\ activeID' = None /\ jobDone' = FALSE
    /\ UNCHANGED <<mine, runErr>>

(* A storage operation of the worker fails: one of the faults of the run.  *)
Fault == Event("fault") /\ failed' = TRUE
NoFault == UNCHANGED <<events, failed>>

RequeueNothing(S) == UNCHANGED status
Requeue(S) == status' = [j \in Ids |-> IF j \in S THEN "queued" ELSE status[j]]

(* recoverRunning: one transaction per job, errors ignored, so a cancelled *)
(* context or a fault leaves some of them running.                         *)
RecoverRunning ==
    LET running == {j \in Ids : status[j] = "running"}
    IN /\ wpc = "recover"
       /\ \/ /\ ~serveDone /\ Requeue(running) /\ NoFault
             /\ wpc' = "pick" /\ UNCHANGED <<cur, mine, runErr, activeID, jobDone>>
          \/ /\ serveDone /\ \E S \in SUBSET running : Requeue(S)
             /\ NoFault /\ Leave
          \/ /\ ~serveDone /\ Fault /\ \E S \in SUBSET running : Requeue(S)
             /\ wpc' = "pick" /\ UNCHANGED <<cur, mine, runErr, activeID, jobDone>>
       /\ UNCHANGED <<attempts, later, created, finished, expired, serveDone, wake,
                      policy, history>>

(* pruneTerminal: the terminal records over the cap, oldest first, and     *)
(* those that have expired.                                                *)
Pruned ==
    LET over == Len(finished) - policy.history
        OverCap(j) == \E i \in DOMAIN finished : finished[i] = j /\ i <= over
    IN {j \in Ids : status[j] \in Terminal /\ (j \in expired \/ OverCap(j))}

Eligible(j) == status[j] \in {"queued", "retrying"} /\ j \notin later

(* pickNext: prune, then the oldest eligible job.                          *)
PickNext ==
    /\ wpc = "pick" /\ ~serveDone
    /\ \/ /\ NoFault
          /\ RemoveRecords(Pruned, "pruned")
          /\ \/ /\ \E i \in DOMAIN created, j \in Ids :
                     /\ created[i] = j /\ Eligible(j)
                     /\ \A k \in 1..(i - 1) : ~Eligible(created[k])
                     /\ cur' = j
                /\ wpc' = "activate"
             \/ /\ \A j \in Ids : ~Eligible(j)
                /\ wpc' = "wait" /\ cur' = None
       \/ Fault /\ UNCHANGED <<records, history, cur>> /\ wpc' = "wait"
    /\ UNCHANGED <<mine, runErr, activeID, jobDone, serveDone, wake, policy>>

(* The loop sees the context of Serve cancelled.                           *)
ServeEnds ==
    /\ wpc \in {"pick", "wait"} /\ serveDone
    /\ Leave
    /\ UNCHANGED <<records, serveDone, wake, policy, events, failed, history>>

(* The select: the wake signal or the ticker.                              *)
Wait ==
    /\ wpc = "wait"
    /\ wpc' = "pick" /\ wake' \in {FALSE, wake}
    /\ UNCHANGED <<records, cur, mine, runErr, activeID, jobDone, serveDone, policy,
                   events, failed, history>>

SetActive ==
    /\ wpc = "activate"
    /\ wpc' = "claim" /\ activeID' = cur /\ jobDone' = FALSE
    /\ UNCHANGED <<records, cur, mine, runErr, serveDone, wake, policy, events, failed,
                   history>>

(* runJob returns to the loop: clearActive.                                *)
EndJob ==
    /\ wpc' = "pick" /\ cur' = None /\ activeID' = None /\ jobDone' = FALSE
    /\ UNCHANGED <<mine, runErr>>

ClaimAny(j) == status[j] \in {"queued", "retrying", "paused"}
Claimable(j) == status[j] \in {"queued", "retrying"}
AttemptsKept(j) == attempts[j]

(* The claim is a transaction under the job's context.                     *)
Claim ==
    /\ wpc = "claim"
    /\ \/ /\ ~jobDone /\ ~serveDone /\ Claimable(cur) /\ NoFault
          /\ status' = Updated(cur, "running")
          /\ attempts' = [attempts EXCEPT ![cur] = AttemptsKept(cur)]
          /\ mine' = AttemptsKept(cur)
          /\ claimed' = claimed \cup {cur}
          /\ wpc' = "send" /\ UNCHANGED <<cur, runErr, activeID, jobDone>>
       \/ /\ jobDone \/ serveDone \/ ~Claimable(cur)
          /\ NoFault /\ EndJob /\ UNCHANGED <<status, attempts, claimed>>
       \/ Fault /\ EndJob /\ UNCHANGED <<status, attempts, claimed>>
    /\ UNCHANGED <<later, created, finished, expired, serveDone, wake, policy, sent, ever,
                   again, excuse, fails>>

(* A progress report replaces the stored record by the worker's copy.      *)
Progress ==
    /\ wpc = "send" /\ ~jobDone /\ ~serveDone
    /\ status[cur] = "running"
    /\ attempts' = [attempts EXCEPT ![cur] = mine]
    /\ UNCHANGED <<status, later, created, finished, expired, worker, serveDone, wake,
                   policy, events, failed, history>>

(* What o left out of m could not travel by reference.                     *)
Complete(m, o) ==
    \E i \in DOMAIN o.posts : \A p \in Whole(m) \ o.posts[i] :
        p \in DOMAIN m.parts /\ (Clones(m, p) \/ ~m.parts[p].convertible)

(* What the running attempt posted; an attempt belongs to a record while   *)
(* that record is claimed.                                                 *)
Landed(o, unrecorded) ==
    LET posted == o.posts # <<>>
        twice == Len(o.posts) > 1
    IN /\ ever' = IF posted THEN ever \cup {cur} ELSE ever
       /\ again' = IF posted /\ (twice \/ cur \in ever) THEN again \cup {cur} ELSE again
       /\ sent' = IF cur \in claimed /\ Complete(MessageOf[cur], o) THEN sent \cup {cur}
                  ELSE sent
       /\ excuse' = [excuse EXCEPT ![cur] =
                         @ \cup (IF posted /\ unrecorded THEN {"unrecorded"} ELSE {})
                           \cup (IF twice THEN {"unanswered"} ELSE {})]

(* rt.Forward returns one of the outcomes of ForwardSender.  A             *)
(* cancellation that neither Delete nor shutdown caused comes from the     *)
(* transport.                                                              *)
Forward ==
    /\ wpc = "send"
    /\ \E o \in Attempt(MessageOf[cur]) :
         /\ IF o.err = "canceled" /\ ~jobDone /\ ~serveDone
            THEN Event("canceled") ELSE UNCHANGED events
         /\ runErr' = o.err
         /\ Landed(o, o.err # "nil")
    /\ wpc' = "result"
    /\ UNCHANGED <<records, cur, mine, activeID, jobDone, serveDone, wake, policy, failed,
                   claimed, fails>>

ResultOverAny(j) == status[j] # "absent"
ResultWanted(j) == status[j] = "running"
Exhausted(n) == n >= policy.attempts

(* The worker's verdict is stored over a record that is still running.     *)
Store(new, n) ==
    /\ status' = Updated(cur, new)
    /\ attempts' = [attempts EXCEPT ![cur] = n]
    /\ finished' = IF new \in Terminal THEN Append(Keep(finished, Ids \ {cur}), cur)
                   ELSE Keep(finished, Ids \ {cur})
    /\ expired' = expired \ {cur}
    /\ later' = IF new = "retrying" THEN later \cup {cur} ELSE later \ {cur}
    /\ fails' = [fails EXCEPT ![cur] = IF runErr = "failed" THEN @ + 1 ELSE @]
    /\ UNCHANGED <<created, sent, ever, again, excuse>>

(* The attempt's outcome does not reach the record.                        *)
Unrecorded ==
    /\ UNCHANGED <<records, sent, ever, again, fails>>
    /\ excuse' = IF runErr = "nil" THEN [excuse EXCEPT ![cur] = @ \cup {"unrecorded"}]
                 ELSE excuse

(* The end of runJob: shutdown leaves the job running for the next start,  *)
(* a deleted job is not brought back.                                      *)
Finish ==
    /\ wpc = "result"
    /\ EndJob
    /\ \/ serveDone /\ Unrecorded /\ NoFault
       \/ /\ ~serveDone /\ ~ResultWanted(cur)
          /\ UNCHANGED <<records, sent, ever, again, excuse, fails>> /\ NoFault
       \/ /\ ~serveDone /\ ResultWanted(cur) /\ NoFault
          /\ \/ runErr = "nil" /\ Store("done", mine)
             \/ runErr = "canceled" /\ Store("queued", mine)
             \/ /\ runErr = "failed"
                /\ Store(IF Exhausted(mine + 1) THEN "error" ELSE "retrying", mine + 1)
       \/ ~serveDone /\ Fault /\ Unrecorded
    /\ UNCHANGED <<serveDone, wake, policy, claimed>>

-----------------------------------------------------------------------------
(* Environment *)

(* The module is stopped: the context of Serve, and with it the job's, is  *)
(* cancelled.                                                              *)
Shutdown ==
    /\ Event("shutdown")
    /\ wpc # "down" /\ ~serveDone
    /\ serveDone' = TRUE
    /\ UNCHANGED <<records, worker, wake, policy, failed, history>>

(* The process dies; the records are what was committed.                   *)
Crash ==
    /\ Event("crash")
    /\ wpc # "down"
    /\ Leave
    /\ serveDone' = FALSE /\ wake' = FALSE
    /\ \/ wpc = "send" /\ \E o \in Attempt(MessageOf[cur]) : Landed(o, TRUE)
       \/ /\ wpc = "result" /\ runErr = "nil"
          /\ excuse' = [excuse EXCEPT ![cur] = @ \cup {"unrecorded"}]
          /\ UNCHANGED <<sent, ever, again>>
       \/ /\ wpc # "send" /\ ~(wpc = "result" /\ runErr = "nil")
          /\ UNCHANGED <<sent, ever, again, excuse>>
    /\ UNCHANGED <<records, policy, failed, claimed, fails>>

BackoffElapses(j) ==
    /\ j \in later
    /\ later' = later \ {j}
    /\ UNCHANGED <<status, attempts, created, finished, expired, worker, serveDone, wake,
                   policy, events, failed, history>>

(* A finished job outlives history_hours; the oldest does first.           *)
Expire(j) ==
    /\ Event("expire")
    /\ \E i \in DOMAIN finished :
         /\ finished[i] = j /\ j \notin expired
         /\ \A k \in 1..(i - 1) : finished[k] \in expired
    /\ expired' = expired \cup {j}
    /\ UNCHANGED <<status, attempts, later, created, finished, worker, serveDone, wake,
                   policy, failed, history>>

WorkerStep ==
    \/ RecoverRunning \/ PickNext \/ ServeEnds \/ Wait \/ SetActive \/ Claim
    \/ Forward \/ Finish

Next ==
    \/ Serve \/ WorkerStep \/ Progress
    \/ Reconfigure \/ Shutdown \/ Crash
    \/ \E j \in Ids : \/ EnqueueOnce(j) \/ EnqueueRouted(j)
                      \/ Pause(j) \/ Resume(j) \/ Delete(j)
                      \/ BackoffElapses(j) \/ Expire(j)

Spec == Init /\ [][Next]_vars

(* The worker goroutine runs, every Forward returns (its RPCs have         *)
(* deadlines), time passes, and the daemon serves the queue again after a  *)
(* stop.                                                                   *)
Fairness ==
    /\ WF_vars(Serve) /\ WF_vars(WorkerStep)
    /\ \A j \in Ids : WF_vars(BackoffElapses(j))

FairSpec == Spec /\ Fairness

-----------------------------------------------------------------------------
(* Properties *)

(* Single flight: once recovery has run, a record in the state running is  *)
(* the one the worker is sending or settling, so no job is stranded in     *)
(* running (queue.go:399, queue.go:526) unless storage itself failed.      *)
RunningHasRunner ==
    ~failed => \A j \in Ids : status[j] = "running" =>
        \/ wpc \in {"down", "recover"} \/ serveDone
        \/ cur = j /\ wpc \in {"send", "result"}

(* The attempt of a deleted job never writes to a record that was created  *)
(* again under the same routed identity (queue.go:528-531, 515, 568): what *)
(* a record shows of attempts is its own.  And a job recorded as done has  *)
(* posted its message with every part that travels by reference: only what *)
(* must be uploaded again, or cannot be converted, may be missing.         *)
NoForeignResult ==
    \A j \in Ids :
        /\ status[j] \in {"running", "retrying", "done", "error"} => j \in claimed
        /\ status[j] = "done" => j \in sent

(* A job that is paused while the worker has already picked it is not sent *)
(* after all: only a control moves a paused record.                        *)
PauseHolds ==
    [][\A j \in Ids : status[j] = "paused" /\ wpc' # wpc => status'[j] = "paused"]_vars

(* max_attempts bounds the failed attempts of a job across retries,        *)
(* restarts and progress reports, and no job is given up before.           *)
RetryBudget ==
    \A j \in Ids :
        /\ \E p \in Policies : fails[j] <= p.attempts
        /\ status[j] = "error" => \E p \in Policies : fails[j] >= p.attempts

(* A worker that sleeps with a queued job in store has been signalled, so  *)
(* a new or resumed job never waits for the poll interval.                 *)
PromptPickup ==
    wpc = "wait" /\ ~failed => wake \/ \A j \in Ids : status[j] # "queued"

(* Every accepted job ends as done, error, paused or deleted: it survives  *)
(* shutdowns and crashes between any two steps of its attempt.             *)
JobSettles ==
    \A j \in Ids : (status[j] \in {"queued", "running", "retrying"})
                      ~> (failed \/ status[j] \in {"done", "error", "paused", "absent"})

=============================================================================
