-------------------------- MODULE LocalDownloader --------------------------
(***************************************************************************)
(* The local downloader: application/downloader.local (worker.go,          *)
(* worker_writer.go, partial.go, controller.go) over the local repository  *)
(* of bsw/cdd/taskhub (local_repository.go, local_update.go).              *)
(*                                                                         *)
(* Records and files are durable, the worker's queue and its executions    *)
(* are not.  A repository Update is one transaction; everything between    *)
(* two of them, and every file operation, interleaves.  A record that is   *)
(* deleted and added again has a new CreatedAt (gen), a restarted one a    *)
(* new StartedAt (run, 0 for nil); a path that is deleted and created      *)
(* again is another file (ino), which an old handle does not write to.     *)
(***************************************************************************)
EXTENDS Integers, Sequences, FiniteSets

CONSTANTS
    Ids,        \* task ids
    Slots,      \* goroutines available to executions
    Total,      \* size of every file, in writes
    QueueSize,  \* localDownloadQueueSize
    Deleters,   \* callers of Controller.Delete: the panel, the bot
    Events,     \* kinds of environment events of this instance
    MaxEvents,  \* bound on the number of environment events
    None

ASSUME LocalAssumption ==
    /\ None \notin Ids /\ IsFiniteSet(Slots)
    /\ Total \in Nat \ {0} /\ QueueSize \in Nat \ {0} /\ MaxEvents \in Nat

VARIABLES
    rec,        \* LocalDownloadRecord of an id: status, gen, run, got; history:
                \* contested, made while a call for an earlier record was under way
    file,       \* the file at the record's path: ino, size
    downloaded, \* ids whose link is marked downloaded
    running,    \* Worker.running
    stopping,   \* the worker's context is cancelled
    toRecover,  \* ids Start has still to look at in Recover
    booted,     \* Start has run enqueuePending
    queue,      \* Worker.queue
    queued,     \* Worker.queued
    active,     \* Worker.active
    exec,       \* the executions
    removing,   \* Deletes in progress: what each has still to do
    stat,       \* List in progress: the id and the size it has read
    events      \* number of environment events so far

durable == <<rec, file, downloaded>>
workerVars == <<running, stopping, toRecover, booted, queue, queued, active>>
calls == <<removing, stat>>
vars == <<durable, workerVars, exec, calls, events>>

Live == {"queued", "active", "paused", "error"}
Statuses == Live \cup {"absent", "complete", "removed"}
Stages == {"idle", "load", "prepare", "acquire", "claim", "open", "check", "write",
           "finish", "mark"}
NoFile == -1
Idle == [pc |-> "idle", id |-> None, gen |-> 0, run |-> 0, got |-> 0, ino |-> 0]

TypeOK ==
    /\ rec \in [Ids -> [status : Statuses, gen : Nat, run : Nat, last : Nat, got : 0..Total,
                        contested : BOOLEAN]]
    /\ file \in [Ids -> [ino : Nat, size : NoFile..Total]]
    /\ downloaded \subseteq Ids
    /\ {running, stopping, booted} \subseteq BOOLEAN
    /\ toRecover \subseteq Ids /\ queued \subseteq Ids /\ active \subseteq Ids
    /\ queue \in Seq(Ids) /\ Len(queue) <= QueueSize
    /\ exec \in [Slots -> [pc : Stages, id : Ids \cup {None}, gen : Nat, run : Nat,
                           got : 0..Total, ino : Nat]]
    /\ removing \in [Deleters -> [id : Ids \cup {None}, todo : {"none", "file", "record"}]]
    /\ stat \in [id : Ids \cup {None}, size : NoFile..Total]
    /\ events \in 0..MaxEvents

NoRemoval == [id |-> None, todo |-> "none"]
NoStat == [id |-> None, size |-> NoFile]

Init ==
    /\ rec = [i \in Ids |-> [status |-> "absent", gen |-> 0, run |-> 0, last |-> 0, got |-> 0,
                             contested |-> FALSE]]
    /\ file = [i \in Ids |-> [ino |-> 0, size |-> NoFile]]
    /\ downloaded = {}
    /\ running = FALSE /\ stopping = FALSE /\ toRecover = {} /\ booted = FALSE
    /\ queue = <<>> /\ queued = {} /\ active = {}
    /\ exec = [s \in Slots |-> Idle]
    /\ removing = [d \in Deleters |-> NoRemoval] /\ stat = NoStat
    /\ events = 0

Event(kind) == kind \in Events /\ events < MaxEvents /\ events' = events + 1

Present(i) == rec[i].status # "absent"
shouldRunLocalDownload(status) == status \in {"queued", "error"}

(* DownloadTransition, which every Update of a present record must pass.   *)
DownloadTransition(from, to) ==
    \/ from = to
    \/ from \notin {"removed", "complete", "absent"}
    \/ from = "complete" /\ to = "removed"

(* LocalRepository.Update of i to the status and fields of new.            *)
Update(i, new) ==
    /\ Present(i)
    /\ rec' = IF DownloadTransition(rec[i].status, new.status) THEN [rec EXCEPT ![i] = new]
              ELSE rec

(* Collection.Remove.                                                      *)
Removed(i) == [rec[i] EXCEPT !.status = "absent", !.got = 0]

SameTask(i, x) == Present(i) /\ rec[i].gen = x.gen
SameRun(i, x) == Present(i) /\ rec[i].run = x.run
(* The record is the one execution x works for: neither recreated nor      *)
(* restarted since.                                                        *)
sameExecution(i, x) == Present(i) /\ rec[i].gen = x.gen /\ rec[i].run = x.run

-----------------------------------------------------------------------------
(* The worker *)

(* queueID: a full channel drops the id, the next scan finds it again.     *)
queueID(i) ==
    IF running /\ i \notin queued /\ i \notin active /\ Len(queue) < QueueSize
    THEN queue' = Append(queue, i) /\ queued' = queued \cup {i}
    ELSE UNCHANGED <<queue, queued>>

Start ==
    /\ ~running
    /\ running' = TRUE /\ stopping' = FALSE /\ booted' = FALSE
    /\ toRecover' = {i \in Ids : Present(i)}
    /\ queue' = <<>> /\ queued' = {} /\ active' = {}
    /\ UNCHANGED <<durable, exec, calls, events>>

RecoverNothing(i) == UNCHANGED rec
RecoverRecord(i) ==
    IF rec[i].status = "active" THEN Update(i, [rec[i] EXCEPT !.status = "queued"])
    ELSE UNCHANGED rec

(* Recover walks over the records while the loop already runs.             *)
Recover(i) ==
    /\ running /\ i \in toRecover
    /\ toRecover' = toRecover \ {i}
    /\ IF stopping THEN UNCHANGED rec ELSE RecoverRecord(i)
    /\ UNCHANGED <<file, downloaded, running, stopping, booted, queue, queued, active, exec,
                   calls, events>>

(* enqueuePending, one record at a time: by Start and by every scan.       *)
EnqueuePending(i) ==
    /\ running /\ ~stopping /\ toRecover = {}
    /\ shouldRunLocalDownload(rec[i].status)
    /\ i \notin queued /\ i \notin active
    /\ queueID(i)
    /\ UNCHANGED <<durable, running, stopping, toRecover, booted, active, exec, calls, events>>

StartReturns ==
    /\ running /\ toRecover = {} /\ ~booted
    /\ booted' = TRUE
    /\ UNCHANGED <<durable, running, stopping, toRecover, queue, queued, active, exec, calls,
                   events>>

markRunning(i) == i \notin active

(* The loop takes an id off the channel.                                   *)
Take ==
    /\ running /\ ~stopping /\ queue # <<>>
    /\ LET i == Head(queue)
       IN /\ queue' = Tail(queue) /\ queued' = queued \ {i}
          /\ \/ ~markRunning(i) /\ UNCHANGED <<active, exec>>
             \/ /\ markRunning(i)
                /\ \E s \in Slots : /\ exec[s].pc = "idle"
                                    /\ exec' = [exec EXCEPT ![s] = [Idle EXCEPT !.pc = "load", !.id = i]]
                /\ active' = active \cup {i}
    /\ UNCHANGED <<durable, running, stopping, toRecover, booted, calls, events>>

Stop ==
    /\ Event("stop")
    /\ running /\ ~stopping
    /\ stopping' = TRUE
    /\ UNCHANGED <<durable, running, toRecover, booted, queue, queued, active, exec, calls>>

(* The loop returns after wg.Wait.                                         *)
LoopEnds ==
    /\ running /\ stopping /\ \A s \in Slots : exec[s].pc = "idle"
    /\ toRecover = {}
    /\ running' = FALSE /\ booted' = FALSE
    /\ queue' = <<>> /\ queued' = {} /\ active' = {}
    /\ UNCHANGED <<durable, stopping, toRecover, exec, calls, events>>

(* The process dies.                                                       *)
Crash ==
    /\ Event("crash")
    /\ running' = FALSE /\ stopping' = FALSE /\ toRecover' = {} /\ booted' = FALSE
    /\ queue' = <<>> /\ queued' = {} /\ active' = {}
    /\ exec' = [s \in Slots |-> Idle]
    /\ removing' = [d \in Deleters |-> NoRemoval] /\ stat' = NoStat
    /\ UNCHANGED durable

-----------------------------------------------------------------------------
(* Worker.Execute *)

To(s, stage) == exec' = [exec EXCEPT ![s].pc = stage] /\ UNCHANGED active
(* Execute returns: markStopped.                                           *)
End(s) == exec' = [exec EXCEPT ![s] = Idle] /\ active' = active \ {exec[s].id}

quiet == <<running, stopping, toRecover, booted, queue, queued, calls>>

(* markError and markComplete change what is still this execution's.       *)
Mark(s, status, got) ==
    LET i == exec[s].id
    IN IF sameExecution(i, exec[s]) /\ (rec[i].status = "active" \/ shouldRunLocalDownload(rec[i].status))
       THEN Update(i, [rec[i] EXCEPT !.status = status, !.got = got])
       ELSE UNCHANGED rec

Load(s) ==
    LET i == exec[s].id
    IN /\ exec[s].pc = "load"
       /\ IF stopping \/ ~shouldRunLocalDownload(rec[i].status) THEN End(s)
          ELSE /\ exec' = [exec EXCEPT ![s].pc = "prepare", ![s].gen = rec[i].gen,
                                       ![s].run = rec[i].run]
               /\ UNCHANGED active
       /\ UNCHANGED <<durable, quiet, events>>

(* The source is missing, the directory cannot be made, the lease or the   *)
(* stream fails: markError.                                                *)
Fail(s) ==
    /\ exec[s].pc \in {"prepare", "acquire", "open", "check"}
    /\ Event("fail")
    /\ Mark(s, "error", rec[exec[s].id].got)
    /\ End(s)
    /\ UNCHANGED <<file, downloaded, quiet>>

(* prepareInternalPartialFile: what is on disk counts as downloaded.       *)
prepareInternalPartialFile(size) == IF size = NoFile THEN 0 ELSE size

Prepare(s) ==
    LET got == prepareInternalPartialFile(file[exec[s].id].size)
    IN /\ exec[s].pc = "prepare"
       /\ exec' = [exec EXCEPT ![s].pc = IF got = Total THEN "finish" ELSE "acquire",
                               ![s].got = got]
       /\ UNCHANGED <<durable, quiet, active, events>>

(* source.Acquire returns a lease, or the cancellation of the worker.      *)
Acquire(s) ==
    /\ exec[s].pc = "acquire"
    /\ IF stopping THEN End(s) ELSE To(s, "claim")
    /\ UNCHANGED <<durable, quiet, events>>

ClaimWanted(i, x) == sameExecution(i, x) /\ shouldRunLocalDownload(rec[i].status)

Claim(s) ==
    LET x == exec[s]
        i == x.id
        now == rec[i].last + 1
    IN /\ x.pc = "claim"
       /\ IF stopping \/ ~ClaimWanted(i, x) THEN End(s) /\ UNCHANGED rec
          ELSE /\ Update(i, [rec[i] EXCEPT !.status = "active", !.run = now, !.last = now,
                                           !.got = x.got])
               /\ exec' = [exec EXCEPT ![s].pc = "open", ![s].run = now]
               /\ UNCHANGED active
       /\ UNCHANGED <<file, downloaded, quiet, events>>

(* os.OpenFile with O_CREATE.                                              *)
Open(s) ==
    LET i == exec[s].id
        f == IF file[i].size = NoFile THEN [ino |-> file[i].ino + 1, size |-> 0] ELSE file[i]
    IN /\ exec[s].pc = "open"
       /\ file' = [file EXCEPT ![i] = f]
       /\ exec' = [exec EXCEPT ![s].pc = "check", ![s].ino = f.ino]
       /\ UNCHANGED <<rec, downloaded, quiet, active, events>>

(* checkStatus lets the next write through.                                *)
StatusAllows(i, x) == sameExecution(i, x) /\ rec[i].status \notin {"paused", "removed"}

Check(s) ==
    /\ exec[s].pc = "check"
    /\ IF stopping \/ ~StatusAllows(exec[s].id, exec[s]) THEN End(s) ELSE To(s, "write")
    /\ UNCHANGED <<durable, quiet, events>>

(* One write to the handle, then flush.                                    *)
Write(s) ==
    LET x == exec[s]
        i == x.id
        n == x.got + 1
    IN /\ x.pc = "write"
       /\ file' = IF file[i].ino = x.ino /\ file[i].size # NoFile
                  THEN [file EXCEPT ![i].size = n] ELSE file
       /\ IF rec[i].status = "active" /\ sameExecution(i, x)
          THEN Update(i, [rec[i] EXCEPT !.got = n]) ELSE UNCHANGED rec
       /\ exec' = [exec EXCEPT ![s].pc = IF n = Total THEN "finish" ELSE "check", ![s].got = n]
       /\ UNCHANGED <<downloaded, quiet, active, events>>

(* markComplete, not cancelled with the worker.                            *)
Finish(s) ==
    LET i == exec[s].id
    IN /\ exec[s].pc = "finish"
       /\ Mark(s, "complete", Total)
       /\ IF rec' = rec THEN End(s) ELSE To(s, "mark")
       /\ UNCHANGED <<file, downloaded, quiet, events>>

MarkDownloaded(s) ==
    /\ exec[s].pc = "mark"
    /\ downloaded' = downloaded \cup {exec[s].id}
    /\ End(s)
    /\ UNCHANGED <<rec, file, quiet, events>>

-----------------------------------------------------------------------------
(* Add and the controls *)

(* Some call that read or marked an earlier record of i is still at work.  *)
UnderWay(i) == stat.id = i \/ \E d \in Deleters : removing[d].id = i

(* LocalRepository.Create: an existing record is left alone.               *)
Create(i) ==
    rec' = IF Present(i) THEN rec
           ELSE [rec EXCEPT ![i] = [status |-> "queued", gen |-> rec[i].gen + 1, run |-> 0,
                                    last |-> rec[i].last, got |-> 0,
                                    contested |-> UnderWay(i)]]

Add(i) ==
    /\ Event("add")
    /\ Create(i)
    /\ queueID(i)
    /\ UNCHANGED <<file, downloaded, running, stopping, toRecover, booted, active, exec, calls>>

(* Controller.updateStatuses, of one id.                                   *)
updateStatuses(i, from, new) == Event("control") /\ rec[i].status \in from /\ Update(i, new)

(* Controller.Pause and, on the way down, PauseForShutdown.                *)
Pause(i) ==
    /\ updateStatuses(i, {"queued", "active", "error"}, [rec[i] EXCEPT !.status = "paused"])
    /\ UNCHANGED <<file, downloaded, workerVars, exec, calls>>

Restarted(i) == [rec[i] EXCEPT !.status = "queued", !.run = 0]

(* Controller.Start.                                                       *)
StartTask(i) ==
    /\ updateStatuses(i, Live, Restarted(i))
    /\ UNCHANGED <<file, downloaded, workerVars, exec, calls>>

(* Controller.Delete: mark, remove the partial file, remove the record, in *)
(* three steps that no lock holds together.                                *)
DeleteMark(d, i) ==
    /\ Event("delete")
    /\ Present(i) /\ removing[d] = NoRemoval
    /\ IF rec[i].status = "complete"
       THEN UNCHANGED rec /\ removing' = [removing EXCEPT ![d] = [id |-> i, todo |-> "record"]]
       ELSE /\ Update(i, [rec[i] EXCEPT !.status = "removed"])
            /\ removing' = [removing EXCEPT ![d] = [id |-> i, todo |-> "file"]]
    /\ UNCHANGED <<file, downloaded, workerVars, exec, stat>>

(* os.Remove of the path, whichever record it belongs to by now.           *)
DeleteFile(d) ==
    /\ removing[d].todo = "file"
    /\ file' = [file EXCEPT ![removing[d].id].size = NoFile]
    /\ removing' = [removing EXCEPT ![d].todo = "record"]
    /\ UNCHANGED <<rec, downloaded, workerVars, exec, stat, events>>

(* LocalRepository.Remove of the id, likewise.                             *)
DeleteRecord(d) ==
    /\ removing[d].todo = "record"
    /\ rec' = [rec EXCEPT ![removing[d].id] = Removed(removing[d].id)]
    /\ removing' = [removing EXCEPT ![d] = NoRemoval]
    /\ UNCHANGED <<file, downloaded, workerVars, exec, stat, events>>

(* Either of the two fails: the record stays as it is, removed or complete.*)
DeleteFails(d) ==
    /\ removing[d].todo # "none"
    /\ Event("fail")
    /\ removing' = [removing EXCEPT ![d] = NoRemoval]
    /\ UNCHANGED <<durable, workerVars, exec, stat>>

(* Controller.List: os.Stat of a record it has read at some time, then the *)
(* Update of refreshRecordFromDisk.                                        *)
Stat(i) ==
    /\ Event("list")
    /\ stat = NoStat /\ rec[i].gen > 0 /\ file[i].size # NoFile
    /\ stat' = [id |-> i, size |-> file[i].size]
    /\ UNCHANGED <<durable, workerVars, exec, removing>>

CompleteOnDisk(i, size) == size = Total /\ rec[i].status \in {"queued", "active", "error"}

refreshRecordFromDisk ==
    LET i == stat.id
    IN /\ stat # NoStat
       /\ stat' = NoStat
       /\ IF rec[i].status \in {"absent", "removed"} THEN UNCHANGED <<rec, downloaded>>
          ELSE /\ Update(i, [rec[i] EXCEPT !.got = stat.size,
                     !.status = IF CompleteOnDisk(i, stat.size) THEN "complete" ELSE @])
               /\ downloaded' = IF rec'[i].status = "complete" /\ rec' # rec
                                THEN downloaded \cup {i} ELSE downloaded
       /\ UNCHANGED <<file, workerVars, exec, removing, events>>

ExecuteStep(s) ==
    \/ Load(s) \/ Prepare(s) \/ Acquire(s) \/ Claim(s) \/ Open(s) \/ Check(s) \/ Write(s)
    \/ Finish(s) \/ MarkDownloaded(s)

WorkerStep == StartReturns \/ Take \/ LoopEnds \/ \E i \in Ids : Recover(i) \/ EnqueuePending(i)

Next ==
    \/ Start \/ WorkerStep \/ Stop \/ Crash
    \/ \E s \in Slots : ExecuteStep(s) \/ Fail(s)
    \/ \E i \in Ids : Add(i) \/ Pause(i) \/ StartTask(i) \/ Stat(i)
    \/ \E d \in Deleters, i \in Ids : DeleteMark(d, i)
    \/ \E d \in Deleters : DeleteFile(d) \/ DeleteRecord(d) \/ DeleteFails(d)
    \/ refreshRecordFromDisk

Spec == Init /\ [][Next]_vars

(* The worker is started again after a stop; its loop, its scans and its   *)
(* executions run on (a lease is granted, a stream makes progress).        *)
Fairness ==
    /\ WF_vars(Start) /\ WF_vars(StartReturns) /\ WF_vars(Take) /\ WF_vars(LoopEnds)
    /\ \A i \in Ids : WF_vars(Recover(i)) /\ SF_vars(EnqueuePending(i))
    /\ \A s \in Slots : WF_vars(ExecuteStep(s))

FairSpec == Spec /\ Fairness

-----------------------------------------------------------------------------
(* Properties *)

Writers(i) == {s \in Slots : exec[s].id = i /\ exec[s].pc \in {"open", "check", "write"}}

(* Two executions never write to one file at the same time, whatever mix   *)
(* of scans, resubmissions, restarts and deletions queued the id.          *)
OneWriter == \A i \in Ids : Cardinality(Writers(i)) <= 1

(* A complete record has its whole file on disk, whatever executions,      *)
(* listings and concurrent deletions of this record and of earlier ones    *)
(* did.  Left out is a record that was made while a deletion or a listing  *)
(* of its predecessor was still between two of its steps: the code does    *)
(* not protect it from the late os.Remove, or from the size that the       *)
(* listing read.                                                           *)
CompleteMeansWhole ==
    \A i \in Ids : rec[i].status = "complete" /\ ~rec[i].contested => file[i].size = Total

(* While the worker runs, a record in the state active has an execution    *)
(* that claimed it: none is left behind by a stop, a crash or a control.   *)
ActiveHasExecution ==
    running /\ booted /\ ~stopping =>
        \A i \in Ids : rec[i].status = "active" => \E s \in Writers(i) \cup
            {t \in Slots : exec[t].id = i /\ exec[t].pc = "finish"} : sameExecution(i, exec[s])

(* An execution never takes a record out of paused, and never touches one  *)
(* that was restarted after the execution was claimed.                     *)
StaleExecutionHarmless ==
    [][\A i \in Ids, s \in Slots :
         exec[s].id = i /\ exec'[s] # exec[s] /\ Present(i) /\ rec'[i] # rec[i]
            => /\ rec[i].status \notin {"paused", "removed", "complete"}
               /\ rec[i].gen = exec[s].gen /\ rec[i].run = exec[s].run]_vars

(* Every accepted task is finished, paused or removed in the end, although *)
(* the queue drops ids when it is full.                                    *)
TaskSettles ==
    \A i \in Ids : (rec[i].status \in {"queued", "active", "error"})
                      ~> (rec[i].status \in {"complete", "paused", "removed", "absent"})

(* A task has one execution at a time, and one that is shown as active has *)
(* it: queueing an id twice, a restart or a deletion never adds another or *)
(* leaves a record without.                                                *)
OneExecution == OneWriter /\ ActiveHasExecution

(* Controls win over executions that were claimed before them, and every   *)
(* accepted task comes to its end all the same.                            *)
ControlsHold == StaleExecutionHarmless /\ TaskSettles

=============================================================================
