----------------------- MODULE LocalDownloaderProofs -----------------------
(***************************************************************************)
(* Proofs about the local downloader, for any tasks, goroutines, file and  *)
(* queue sizes and any number of controls, failures, stops and crashes.    *)
(***************************************************************************)
EXTENDS LocalDownloader, FiniteSetTheorems, TLAPS

Records ==
    [status : Statuses, gen : Nat, run : Nat, last : Nat, got : 0..Total, contested : BOOLEAN]
Files == [ino : Nat, size : NoFile..Total]
Executions ==
    [pc : Stages, id : Ids \cup {None}, gen : Nat, run : Nat, got : 0..Total, ino : Nat]

Removals == [id : Ids \cup {None}, todo : {"none", "file", "record"}]

(* The types of what the properties speak of, with what keeps them: an     *)
(* execution has an id, a partial file is shorter than the whole, and a    *)
(* call in progress has the id it was made for.                            *)
Types ==
    /\ rec \in [Ids -> Records] /\ file \in [Ids -> Files]
    /\ queue \in Seq(Ids)
    /\ exec \in [Slots -> Executions]
    /\ \A s \in Slots : exec[s].pc # "idle" => exec[s].id \in Ids
    /\ \A s \in Slots :
          exec[s].pc \in {"acquire", "claim", "open", "check", "write"} => exec[s].got < Total
    /\ removing \in [Deleters -> Removals]
    /\ \A d \in Deleters : removing[d].todo # "none" => removing[d].id \in Ids
    /\ stat \in [id : Ids \cup {None}, size : NoFile..Total]
    /\ stat # NoStat => stat.id \in Ids /\ stat.size # NoFile

(* An update that is accepted or refused leaves a record of the type.      *)
LEMMA UpdateTyped ==
    ASSUME rec \in [Ids -> Records], NEW i \in Ids, NEW new \in Records, Update(i, new)
    PROVE  rec' \in [Ids -> Records]
BY DEF Update

(* What the updates of a record yield.                                     *)
LEMMA RecordFields ==
    ASSUME NEW r \in Records, NEW status \in Statuses, NEW run \in Nat, NEW last \in Nat,
           NEW got \in 0..Total
    PROVE  /\ [r EXCEPT !.status = status] \in Records
           /\ [r EXCEPT !.got = got] \in Records
           /\ [r EXCEPT !.status = status, !.got = got] \in Records
           /\ [r EXCEPT !.status = status, !.run = run] \in Records
           /\ [r EXCEPT !.status = status, !.run = run, !.last = last, !.got = got] \in Records
BY DEF Records

(* The types hold before anything is downloaded.                           *)
LEMMA TypesInit == Init => Types
<1> SUFFICES ASSUME Init PROVE Types
  OBVIOUS
<1>1. 0 \in 0..Total /\ NoFile \in NoFile..Total
  BY LocalAssumption DEF NoFile
<1> QED
  BY <1>1 DEF Init, Types, Records, Files, Executions, Statuses, Live, Stages, Idle,
     Removals, NoRemoval, NoStat

(* A step of an execution keeps the types.                                 *)
LEMMA ExecutionTyped ==
    ASSUME Types, NEW s \in Slots, ExecuteStep(s) \/ Fail(s)
    PROVE  Types'
<1> DEFINE x == exec[s]
           i == exec[s].id
<1>0. /\ x \in Executions /\ Idle \in Executions
      /\ 0 \in 0..Total /\ Total \in 0..Total /\ NoFile \in NoFile..Total /\ Total \in Nat
  BY LocalAssumption DEF Types, Idle, Executions, Stages, NoFile
<1>1. UNCHANGED <<queue, removing, stat>>
  BY DEF ExecuteStep, Load, Prepare, Acquire, Claim, Open, Check, Write, Finish,
     MarkDownloaded, Fail, quiet, calls
<1>2. ASSUME NEW y \in Executions, exec' = [exec EXCEPT ![s] = y],
             y.pc # "idle" => y.id \in Ids,
             y.pc \in {"acquire", "claim", "open", "check", "write"} => y.got < Total,
             rec' \in [Ids -> Records], file' \in [Ids -> Files]
      PROVE  Types'
  BY <1>1, <1>2 DEF Types
<1>3. ASSUME End(s), rec' \in [Ids -> Records], file' \in [Ids -> Files] PROVE Types'
  <2>1. exec' = [exec EXCEPT ![s] = Idle]
    BY <1>3 DEF End
  <2> QED
    BY <1>0, <1>2, <1>3, <2>1 DEF Idle
<1>4. ASSUME NEW stage \in Stages, To(s, stage), i \in Ids,
             stage \in {"acquire", "claim", "open", "check", "write"} => x.got < Total,
             rec' \in [Ids -> Records], file' \in [Ids -> Files] PROVE Types'
  <2>1. exec' = [exec EXCEPT ![s] = [x EXCEPT !.pc = stage]]
    BY <1>0, <1>4 DEF To, Types
  <2>2. [x EXCEPT !.pc = stage] \in Executions
    BY <1>0 DEF Executions
  <2> QED
    BY <1>0, <1>2, <1>4, <2>1, <2>2 DEF Executions
<1>5. ASSUME NEW status \in Statuses, NEW got \in 0..Total, Mark(s, status, got), i \in Ids
      PROVE  rec' \in [Ids -> Records]
  <2>1. [rec[i] EXCEPT !.status = status, !.got = got] \in Records
    <3>1. rec[i] \in Records
      BY <1>5 DEF Types
    <3> QED
      BY <1>5, <3>1, RecordFields
  <2> QED
    BY <1>5, <2>1, UpdateTyped DEF Mark, Types
<1>6. CASE Load(s)
  <2>1. CASE End(s)
    BY <1>3, <1>6, <2>1 DEF Load, durable, Types
  <2>2. CASE exec' = [exec EXCEPT ![s].pc = "prepare", ![s].gen = rec[i].gen,
                                  ![s].run = rec[i].run]
    <3>1. i \in Ids /\ rec[i] \in Records
      BY <1>6 DEF Load, Types
    <3> DEFINE y == [x EXCEPT !.pc = "prepare", !.gen = rec[i].gen, !.run = rec[i].run]
    <3>2. y \in Executions /\ y.id = i /\ y.pc = "prepare"
      BY <1>0, <3>1 DEF Executions, Records, Stages
    <3>3. exec' = [exec EXCEPT ![s] = y]
      BY <1>0, <2>2 DEF Types
    <3> QED
      BY <1>2, <1>6, <3>1, <3>2, <3>3 DEF Load, durable, Types
  <2> QED
    BY <1>6, <2>1, <2>2 DEF Load
<1>7. CASE Prepare(s)
  <2> DEFINE got == prepareInternalPartialFile(file[i].size)
             stage == IF got = Total THEN "finish" ELSE "acquire"
             y == [x EXCEPT !.pc = stage, !.got = got]
  <2>1. i \in Ids /\ got \in 0..Total
    BY <1>0, <1>7 DEF Prepare, prepareInternalPartialFile, Types, Files, NoFile
  <2>2. y \in Executions /\ y.id = i /\ (y.pc = "acquire" => y.got < Total)
        /\ y.pc \in {"acquire", "finish"}
    <3>1. /\ stage \in Stages /\ stage \in {"acquire", "finish"}
          /\ stage = "acquire" => got < Total
      BY <1>0, <2>1 DEF Stages
    <3> HIDE DEF stage, got
    <3> QED
      BY <1>0, <2>1, <3>1 DEF Executions
  <2>3. exec' = [exec EXCEPT ![s] = y]
    BY <1>0, <1>7 DEF Prepare, Types
  <2> QED
    <3>1. rec' \in [Ids -> Records] /\ file' \in [Ids -> Files]
      BY <1>7 DEF Prepare, durable, Types
    <3> HIDE DEF y
    <3> QED
      BY <1>2, <2>1, <2>2, <2>3, <3>1
<1>8. CASE Acquire(s)
  BY <1>3, <1>4, <1>8 DEF Acquire, durable, Types, Stages
<1>9. CASE Claim(s)
  <2>1. i \in Ids /\ rec[i] \in Records /\ x.got \in 0..Total
    BY <1>0, <1>9 DEF Claim, Types, Executions
  <2>2. CASE End(s) /\ UNCHANGED rec
    BY <1>3, <1>9, <2>2 DEF Claim, Types
  <2>3. CASE ~(End(s) /\ UNCHANGED rec)
    <3> DEFINE now == rec[i].last + 1
               y == [x EXCEPT !.pc = "open", !.run = now]
               new == [rec[i] EXCEPT !.status = "active", !.run = now, !.last = now,
                                     !.got = x.got]
    <3>1. Update(i, new) /\ exec' = [exec EXCEPT ![s].pc = "open", ![s].run = now]
      BY <1>9, <2>3 DEF Claim
    <3>0. now \in Nat
      BY <2>1 DEF Records
    <3> HIDE DEF now
    <3>2. new \in Records
      BY <2>1, <3>0, RecordFields DEF Statuses, Live
    <3>3. y \in Executions /\ y.id = i /\ y.pc = "open" /\ y.got = x.got
      BY <1>0, <3>0 DEF Executions, Stages
    <3>4. exec' = [exec EXCEPT ![s] = y]
      BY <1>0, <3>1 DEF Types
    <3>5. x.got < Total
      BY <1>9 DEF Claim, Types
    <3>6. rec' \in [Ids -> Records]
      BY <2>1, <3>1, <3>2, UpdateTyped DEF Types
    <3> QED
      BY <1>2, <1>9, <2>1, <3>3, <3>4, <3>5, <3>6 DEF Claim, Types
  <2> QED
    BY <2>2, <2>3
<1>10. CASE Open(s)
  <2> DEFINE f == IF file[i].size = NoFile THEN [ino |-> file[i].ino + 1, size |-> 0]
                  ELSE file[i]
             y == [x EXCEPT !.pc = "check", !.ino = f.ino]
  <2>1. i \in Ids /\ f \in Files /\ x.got < Total
    BY <1>0, <1>10 DEF Open, Types, Files, NoFile
  <2>2. y \in Executions /\ y.id = i /\ y.pc = "check" /\ y.got = x.got
    BY <1>0, <2>1 DEF Executions, Files, Stages
  <2>3. exec' = [exec EXCEPT ![s] = y]
    BY <1>0, <1>10 DEF Open, Types
  <2>4. file' \in [Ids -> Files] /\ rec' = rec
    BY <1>10, <2>1 DEF Open, Types
  <2> QED
    BY <1>2, <2>1, <2>2, <2>3, <2>4 DEF Types
<1>11. CASE Check(s)
  BY <1>3, <1>4, <1>11 DEF Check, durable, Types, Stages
<1>12. CASE Write(s)
  <2> DEFINE n == x.got + 1
             stage == IF n = Total THEN "finish" ELSE "check"
             y == [x EXCEPT !.pc = stage, !.got = n]
  <2>0. x.got \in 0..Total /\ x.got < Total /\ i \in Ids
    BY <1>0, <1>12 DEF Write, Types, Executions
  <2>1. i \in Ids /\ rec[i] \in Records /\ n \in 0..Total
    BY <1>0, <2>0 DEF Types
  <2>2. y \in Executions /\ y.id = i /\ (y.pc = "check" => y.got < Total)
        /\ y.pc \in {"check", "finish"}
    <3>1. /\ stage \in Stages /\ stage \in {"check", "finish"}
          /\ stage = "check" => n < Total
      BY <1>0, <2>1 DEF Stages
    <3> HIDE DEF stage, n
    <3> QED
      BY <1>0, <2>1, <3>1 DEF Executions
  <2>3. exec' = [exec EXCEPT ![s] = y]
    BY <1>0, <1>12 DEF Write, Types
  <2>4. file' \in [Ids -> Files]
    <3>1. n \in NoFile..Total
      BY <2>1 DEF NoFile
    <3> QED
      BY <1>12, <2>1, <3>1 DEF Write, Types, Files
  <2>5. rec' \in [Ids -> Records]
    <3>1. [rec[i] EXCEPT !.got = n] \in Records
      BY <2>1 DEF Records
    <3> QED
      BY <1>12, <2>1, <3>1, UpdateTyped DEF Write, Types
  <2> QED
    BY <1>2, <2>1, <2>2, <2>3, <2>4, <2>5
<1>13. CASE Finish(s)
  <2>1. i \in Ids /\ rec' \in [Ids -> Records]
    BY <1>0, <1>5, <1>13 DEF Finish, Types, Statuses
  <2> QED
    BY <1>3, <1>4, <1>13, <2>1 DEF Finish, Types, Stages
<1>14. CASE MarkDownloaded(s)
  BY <1>3, <1>14 DEF MarkDownloaded, Types
<1>15. CASE Fail(s)
  <2>1. i \in Ids /\ rec[i].got \in 0..Total
    BY <1>15 DEF Fail, Types, Records
  <2>2. rec' \in [Ids -> Records]
    BY <1>5, <1>15, <2>1 DEF Fail, Statuses, Live
  <2> QED
    BY <1>3, <1>15, <2>2 DEF Fail, Types
<1> QED
  BY <1>6, <1>7, <1>8, <1>9, <1>10, <1>11, <1>12, <1>13, <1>14, <1>15 DEF ExecuteStep

(* The types are inductive.                                                *)
LEMMA TypesStep ==
    ASSUME Types, [Next]_vars
    PROVE  Types'
<1>0. /\ Idle \in Executions /\ Total \in Nat /\ Idle.pc = "idle" /\ NoFile \in NoFile..Total
      /\ 0 \in 0..Total
  BY LocalAssumption DEF Idle, Executions, Stages, NoFile
<1>1. ASSUME NEW s \in Slots, ExecuteStep(s) \/ Fail(s) PROVE Types'
  BY <1>1, ExecutionTyped
<1>2. CASE Start \/ StartReturns \/ LoopEnds \/ Stop
  <2>1. UNCHANGED <<rec, file, exec, removing, stat>> /\ queue' \in {queue, <<>>}
    BY <1>2 DEF Start, StartReturns, LoopEnds, Stop, durable, calls
  <2>2. queue \in Seq(Ids) /\ <<>> \in Seq(Ids)
    BY DEF Types
  <2>3. queue' \in Seq(Ids)
    BY <2>1, <2>2
  <2> QED
    BY <2>1, <2>3 DEF Types
<1>3. CASE Take
  <2>1. queue' \in Seq(Ids) /\ Head(queue) \in Ids
    BY <1>3 DEF Take, Types
  <2>2. UNCHANGED <<rec, file, removing, stat>>
    BY <1>3 DEF Take, durable, calls
  <2>3. CASE UNCHANGED exec
    BY <2>1, <2>2, <2>3 DEF Types
  <2>4. ASSUME NEW s \in Slots,
               exec' = [exec EXCEPT ![s] = [Idle EXCEPT !.pc = "load", !.id = Head(queue)]]
        PROVE  Types'
    <3> DEFINE y == [Idle EXCEPT !.pc = "load", !.id = Head(queue)]
    <3>1. y \in Executions /\ y.pc = "load" /\ y.id = Head(queue)
      BY <1>0, <2>1 DEF Executions, Idle, Stages
    <3> HIDE DEF y
    <3>2. exec' = [exec EXCEPT ![s] = y]
      BY <2>4 DEF y
    <3> QED
      BY <2>1, <2>2, <3>1, <3>2 DEF Types
  <2> QED
    BY <1>3, <2>3, <2>4 DEF Take
<1>4. CASE Crash
  BY <1>0, <1>4 DEF Crash, durable, Removals, NoRemoval, NoStat, Types
<1>5. ASSUME NEW i \in Ids, Recover(i) \/ EnqueuePending(i) PROVE Types'
  <2>1. [rec[i] EXCEPT !.status = "queued"] \in Records
    <3>1. rec[i] \in Records
      BY DEF Types
    <3> QED
      BY <3>1 DEF Records, Statuses, Live
  <2>2. rec' \in [Ids -> Records]
    BY <1>5, <2>1, UpdateTyped DEF Recover, RecoverRecord, EnqueuePending, durable, Types
  <2>3. queue' \in Seq(Ids)
    BY <1>5 DEF Recover, EnqueuePending, queueID, Types
  <2> QED
    BY <1>5, <2>2, <2>3 DEF Recover, EnqueuePending, durable, calls, Types
<1>6. ASSUME NEW i \in Ids, Add(i) PROVE Types'
  <2>1. rec' \in [Ids -> Records]
    <3>1. rec[i] \in Records
      BY DEF Types
    <3>2. [status |-> "queued", gen |-> rec[i].gen + 1, run |-> 0, last |-> rec[i].last,
           got |-> 0, contested |-> UnderWay(i)] \in Records
      BY <1>0, <3>1 DEF Records, Statuses, Live, UnderWay
    <3> QED
      BY <1>6, <3>2 DEF Add, Create, Types
  <2>2. queue' \in Seq(Ids)
    <3>1. queue' = queue \/ queue' = Append(queue, i)
      BY <1>6 DEF Add, queueID
    <3>2. queue \in Seq(Ids)
      BY DEF Types
    <3>3. Append(queue, i) \in Seq(Ids)
      BY <3>2
    <3> QED
      BY <3>1, <3>2, <3>3
  <2> QED
    BY <1>6, <2>1, <2>2 DEF Add, calls, Types
<1>7. ASSUME NEW i \in Ids, Pause(i) \/ StartTask(i) PROVE Types'
  <2>1. /\ [rec[i] EXCEPT !.status = "paused"] \in Records
        /\ Restarted(i) \in Records
    <3>1. rec[i] \in Records
      BY DEF Types
    <3> QED
      BY <1>0, <3>1, RecordFields DEF Restarted, Statuses, Live
  <2>2. rec' \in [Ids -> Records]
    BY <1>7, <2>1, UpdateTyped DEF Pause, StartTask, updateStatuses, Types
  <2> QED
    BY <1>7, <2>2 DEF Pause, StartTask, workerVars, calls, Types
<1>8. ASSUME NEW d \in Deleters, NEW i \in Ids, DeleteMark(d, i) PROVE Types'
  <2>1. [rec[i] EXCEPT !.status = "removed"] \in Records
    <3>1. rec[i] \in Records
      BY DEF Types
    <3> QED
      BY <1>0, <3>1, RecordFields DEF Statuses
  <2>2. rec' \in [Ids -> Records]
    BY <1>8, <2>1, UpdateTyped DEF DeleteMark, Types
  <2>3. ASSUME NEW todo \in {"file", "record"},
               removing' = [removing EXCEPT ![d] = [id |-> i, todo |-> todo]]
        PROVE  Types'
    BY <1>8, <2>2, <2>3 DEF DeleteMark, workerVars, Types, Removals
  <2> QED
    BY <1>8, <2>3 DEF DeleteMark
<1>9. ASSUME NEW i \in Ids, Stat(i) PROVE Types'
  BY <1>9 DEF Stat, durable, workerVars, Types, Files
<1>10. ASSUME NEW d \in Deleters, DeleteFile(d) PROVE Types'
  <2>1. file' \in [Ids -> Files]
    BY <1>0, <1>10 DEF DeleteFile, Types, Files
  <2>2. /\ removing' \in [Deleters -> Removals]
        /\ \A e \in Deleters : removing'[e].todo # "none" => removing'[e].id \in Ids
    BY <1>10 DEF DeleteFile, Types, Removals
  <2> QED
    BY <1>10, <2>1, <2>2 DEF DeleteFile, workerVars, Types
<1>11. ASSUME NEW d \in Deleters, DeleteRecord(d) \/ DeleteFails(d) PROVE Types'
  <2>1. removing[d].id \in Ids /\ rec[removing[d].id] \in Records
    BY <1>11 DEF DeleteRecord, DeleteFails, Types
  <2>2. Removed(removing[d].id) \in Records
    BY <1>0, <2>1, RecordFields DEF Removed, Statuses
  <2>3. rec' \in [Ids -> Records]
    BY <1>11, <2>2 DEF DeleteRecord, DeleteFails, durable, Types
  <2>4. NoRemoval \in Removals /\ NoRemoval.todo = "none"
    BY DEF NoRemoval, Removals
  <2>5. /\ removing' \in [Deleters -> Removals]
        /\ \A e \in Deleters : removing'[e].todo # "none" => removing'[e].id \in Ids
    BY <1>11, <2>4 DEF DeleteRecord, DeleteFails, Types
  <2> QED
    BY <1>11, <2>3, <2>5 DEF DeleteRecord, DeleteFails, durable, workerVars, Types
<1>12. CASE refreshRecordFromDisk
  <2> DEFINE i == stat.id
  <2>1. i \in Ids /\ rec[i] \in Records
    BY <1>12 DEF refreshRecordFromDisk, Types
  <2>2. rec' \in [Ids -> Records]
    <3>1. CASE UNCHANGED rec
      BY <3>1 DEF Types
    <3>2. CASE ~UNCHANGED rec
      <4> DEFINE status == IF CompleteOnDisk(i, stat.size) THEN "complete" ELSE rec[i].status
      <4>1. /\ status \in Statuses
            /\ Update(i, [rec[i] EXCEPT !.got = stat.size, !.status = status])
        BY <1>12, <2>1, <3>2 DEF refreshRecordFromDisk, Records, Statuses
      <4>2. stat.size \in 0..Total
        BY <1>0, <1>12 DEF refreshRecordFromDisk, Types, NoFile
      <4> HIDE DEF status
      <4>3. [rec[i] EXCEPT !.got = stat.size, !.status = status] \in Records
        BY <2>1, <4>1, <4>2 DEF Records
      <4> QED
        BY <2>1, <4>1, <4>3, UpdateTyped DEF Types
    <3> QED
      BY <3>1, <3>2
  <2> QED
    BY <1>0, <1>12, <2>2 DEF refreshRecordFromDisk, NoStat, workerVars, Types
<1>13. CASE UNCHANGED vars
  BY <1>13 DEF vars, durable, workerVars, calls, Types
<1> QED
  BY <1>1, <1>2, <1>3, <1>4, <1>5, <1>6, <1>7, <1>8, <1>9, <1>10, <1>11, <1>12, <1>13
     DEF Next, WorkerStep

-----------------------------------------------------------------------------
(* One execution per task *)

Busy(s) == exec[s].pc # "idle"

(* The executions are those of the ids in Worker.active, one for each.     *)
ExecInv ==
    /\ \A s \in Slots : Busy(s) => exec[s].id \in active /\ running = TRUE
    /\ \A s, t \in Slots : s # t /\ Busy(s) /\ Busy(t) => exec[s].id # exec[t].id

(* What a step of execution s can change: its own slot, and the record and *)
(* the file of its own task.                                               *)
LEMMA ExecutionMoves ==
    ASSUME Types, NEW s \in Slots, ExecuteStep(s) \/ Fail(s)
    PROVE  /\ Busy(s) /\ exec[s].id \in Ids
           /\ \A t \in Slots : t # s => exec'[t] = exec[t]
           /\ \/ exec'[s].id = exec[s].id /\ active' = active
              \/ exec'[s] = Idle /\ active' = active \ {exec[s].id}
           /\ \A i \in Ids : i # exec[s].id => rec'[i] = rec[i] /\ file'[i] = file[i]
           /\ UNCHANGED <<running, stopping, toRecover, booted, removing, stat>>
<1> DEFINE i == exec[s].id
<1>0. exec[s] \in Executions /\ exec \in [Slots -> Executions]
  BY DEF Types
<1>1. Busy(s) /\ i \in Ids
  <2>1. Busy(s)
    BY DEF ExecuteStep, Load, Prepare, Acquire, Claim, Open, Check, Write, Finish,
       MarkDownloaded, Fail, Busy
  <2> QED
    BY <2>1 DEF Types, Busy
<1>2. UNCHANGED <<running, stopping, toRecover, booted, removing, stat>>
  BY DEF ExecuteStep, Load, Prepare, Acquire, Claim, Open, Check, Write, Finish,
     MarkDownloaded, Fail, quiet, calls
<1>3. \A j \in Ids : j # i => rec'[j] = rec[j]
  <2>1. UNCHANGED rec \/ \E new : Update(i, new)
    BY DEF ExecuteStep, Load, Prepare, Acquire, Claim, Open, Check, Write, Finish,
       MarkDownloaded, Fail, Mark, durable
  <2> QED
    BY <2>1 DEF Update, Types
<1>4. \A j \in Ids : j # i => file'[j] = file[j]
  <2>1. UNCHANGED file \/ Open(s) \/ Write(s)
    BY DEF ExecuteStep, Load, Prepare, Acquire, Claim, Check, Finish, MarkDownloaded, Fail,
       durable
  <2> QED
    BY <2>1 DEF Open, Write, Types
<1>5. CASE End(s)
  <2>1. exec' = [exec EXCEPT ![s] = Idle] /\ active' = active \ {i}
    BY <1>5 DEF End
  <2> QED
    BY <1>0, <1>1, <1>2, <1>3, <1>4, <2>1
<1>6. CASE ~End(s)
  <2>1. active' = active
    BY <1>6 DEF ExecuteStep, Load, Prepare, Acquire, Claim, Open, Check, Write, Finish,
       MarkDownloaded, Fail, To
  <2>2. (\A t \in Slots : t # s => exec'[t] = exec[t]) /\ exec'[s].id = i
    <3>1. CASE Load(s)
      BY <1>0, <1>6, <3>1 DEF Load, Executions
    <3>2. CASE Prepare(s)
      BY <1>0, <3>2 DEF Prepare, Executions
    <3>3. CASE Claim(s)
      BY <1>0, <1>6, <3>3 DEF Claim, Executions
    <3>4. CASE Open(s)
      BY <1>0, <3>4 DEF Open, Executions
    <3>5. CASE Write(s)
      BY <1>0, <3>5 DEF Write, Executions
    <3>6. CASE \E stage : To(s, stage)
      BY <1>0, <3>6 DEF To, Executions
    <3> QED
      BY <1>6, <3>1, <3>2, <3>3, <3>4, <3>5, <3>6
         DEF ExecuteStep, Acquire, Check, Finish, MarkDownloaded, Fail
  <2> QED
    BY <1>1, <1>2, <1>3, <1>4, <2>1, <2>2
<1> QED
  BY <1>5, <1>6

(* That executions and active ids correspond one to one is inductive.      *)
LEMMA ExecStep ==
    ASSUME Types, ExecInv, [Next]_vars
    PROVE  ExecInv'
<1> USE DEF ExecInv, Busy
<1>1. ASSUME NEW s \in Slots, ExecuteStep(s) \/ Fail(s) PROVE ExecInv'
  BY <1>1, ExecutionMoves DEF Idle
<1>2. CASE Take
  <2>1. CASE UNCHANGED <<exec, active>>
    BY <1>2, <2>1 DEF Take
  <2>2. ASSUME NEW s \in Slots, exec[s].pc = "idle", Head(queue) \notin active,
               exec' = [exec EXCEPT ![s] = [Idle EXCEPT !.pc = "load", !.id = Head(queue)]],
               active' = active \cup {Head(queue)}
        PROVE  ExecInv'
    <3>1. /\ exec'[s].id = Head(queue) /\ running' = TRUE
          /\ \A t \in Slots : t # s => exec'[t] = exec[t]
      BY <1>2, <2>2 DEF Take, Idle, Types
    <3> QED
      BY <2>2, <3>1
  <2> QED
    BY <1>2, <2>1, <2>2 DEF Take, markRunning
<1>3. CASE Crash
  BY <1>3 DEF Crash, Idle
<1>4. CASE Start
  BY <1>4 DEF Start
<1>5. CASE LoopEnds
  BY <1>5 DEF LoopEnds
<1>6. CASE StartReturns \/ Stop \/ refreshRecordFromDisk
  BY <1>6 DEF StartReturns, Stop, refreshRecordFromDisk, workerVars
<1>d. ASSUME NEW d \in Deleters,
             \/ DeleteFile(d) \/ DeleteRecord(d) \/ DeleteFails(d)
             \/ \E i \in Ids : DeleteMark(d, i)
      PROVE  ExecInv'
  BY <1>d DEF DeleteMark, DeleteFile, DeleteRecord, DeleteFails, workerVars
<1>7. ASSUME NEW i \in Ids, \/ Recover(i) \/ EnqueuePending(i) \/ Add(i) \/ Pause(i)
                            \/ StartTask(i) \/ Stat(i)
      PROVE  ExecInv'
  BY <1>7 DEF Recover, EnqueuePending, Add, Pause, StartTask, Stat, workerVars
<1>8. CASE UNCHANGED vars
  BY <1>8 DEF vars, workerVars
<1> QED
  BY <1>1, <1>2, <1>3, <1>4, <1>5, <1>6, <1>7, <1>8, <1>d DEF Next, WorkerStep

(* At most one execution writes to a file.                                 *)
LEMMA OneWriterHolds == Types /\ ExecInv => OneWriter
<1> SUFFICES ASSUME Types, ExecInv, NEW i \in Ids PROVE Cardinality(Writers(i)) <= 1
  BY DEF OneWriter
<1>1. \A s, t \in Writers(i) : s = t
  BY DEF Writers, ExecInv, Busy
<1>2. CASE Writers(i) = {}
  BY <1>2, FS_EmptySet
<1>3. ASSUME NEW s \in Writers(i) PROVE Cardinality(Writers(i)) <= 1
  <2>1. Writers(i) = {s}
    BY <1>1, <1>3
  <2> QED
    BY <2>1, FS_Singleton
<1> QED
  BY <1>2, <1>3

-----------------------------------------------------------------------------
(* An active record has its execution *)

Serves(s, i) ==
    exec[s].id = i /\ exec[s].pc \in {"open", "check", "write", "finish"}
        /\ sameExecution(i, exec[s])

(* Recovery has still to visit the active records that a stop or a crash   *)
(* left; every other one is served.                                        *)
ActiveInv ==
    /\ booted => toRecover = {}
    /\ running /\ ~stopping =>
         \A i \in Ids \ toRecover : rec[i].status = "active" => \E s \in Slots : Serves(s, i)

(* A step of an execution leaves its own record served or not active.      *)
LEMMA OwnRecordServed ==
    ASSUME Types, NEW s \in Slots, ExecuteStep(s) \/ Fail(s), ~stopping,
           NEW i \in Ids, i = exec[s].id,
           rec[i].status = "active" => Serves(s, i), rec'[i].status = "active"
    PROVE  Serves(s, i)'
<1> DEFINE x == exec[s]
<1>0. /\ x \in Executions /\ exec \in [Slots -> Executions] /\ i \in Ids
      /\ rec[i] \in Records /\ rec \in [Ids -> Records]
  BY ExecutionMoves DEF Types
<1>1. CASE Load(s) \/ Prepare(s) \/ Acquire(s) \/ MarkDownloaded(s)
  <2>1. rec' = rec /\ ~Serves(s, i)
    BY <1>1 DEF Load, Prepare, Acquire, MarkDownloaded, durable, Serves
  <2> QED
    BY <2>1
<1>2. CASE Claim(s)
  <2>1. rec[i].status # "active"
    BY <1>2 DEF Claim, Serves
  <2>2. rec' # rec
    BY <2>1
  <2> DEFINE now == rec[i].last + 1
             new == [rec[i] EXCEPT !.status = "active", !.run = now, !.last = now, !.got = x.got]
  <2>3. /\ Update(i, new) /\ sameExecution(i, x)
        /\ exec' = [exec EXCEPT ![s].pc = "open", ![s].run = now]
    BY <1>2, <2>2 DEF Claim, ClaimWanted
  <2>4. rec'[i] = new
    BY <1>0, <2>2, <2>3 DEF Update
  <2>5. new.gen = rec[i].gen /\ new.run = now /\ new.status = "active"
    BY <1>0 DEF Records
  <2>6. exec'[s].id = i /\ exec'[s].pc = "open" /\ exec'[s].run = now /\ exec'[s].gen = x.gen
    BY <1>0, <2>3 DEF Executions
  <2> QED
    BY <2>3, <2>4, <2>5, <2>6 DEF Serves, sameExecution, Present
<1>3. CASE Open(s)
  <2>1. rec' = rec /\ Serves(s, i)
    BY <1>3 DEF Open
  <2>2. exec'[s].id = i /\ exec'[s].pc = "check" /\ exec'[s].run = x.run /\ exec'[s].gen = x.gen
    BY <1>0, <1>3 DEF Open, Executions
  <2> QED
    BY <2>1, <2>2 DEF Serves, sameExecution, Present
<1>4. CASE Check(s)
  <2>1. rec' = rec /\ Serves(s, i)
    BY <1>4 DEF Check, durable
  <2>2. To(s, "write")
    BY <1>4, <2>1 DEF Check, StatusAllows, Serves
  <2>3. exec'[s].id = i /\ exec'[s].pc = "write" /\ exec'[s].run = x.run /\ exec'[s].gen = x.gen
    BY <1>0, <2>2 DEF To, Executions
  <2> QED
    BY <2>1, <2>3 DEF Serves, sameExecution, Present
<1>5. CASE Write(s)
  <2>1. rec'[i].status = rec[i].status /\ rec'[i].gen = rec[i].gen /\ rec'[i].run = rec[i].run
    BY <1>0, <1>5 DEF Write, Update, Records
  <2>2. Serves(s, i)
    BY <2>1
  <2>3. /\ exec'[s].id = i /\ exec'[s].run = x.run /\ exec'[s].gen = x.gen
        /\ exec'[s].pc \in {"check", "finish"}
    BY <1>0, <1>5 DEF Write, Executions
  <2> QED
    BY <2>1, <2>2, <2>3 DEF Serves, sameExecution, Present
<1>6. ASSUME NEW status \in {"error", "complete"}, NEW got, Mark(s, status, got) PROVE FALSE
  <2>1. CASE rec[i].status = "active"
    <3>1. Update(i, [rec[i] EXCEPT !.status = status, !.got = got])
      BY <1>6, <2>1 DEF Mark, Serves
    <3>2. rec'[i] = [rec[i] EXCEPT !.status = status, !.got = got]
      BY <1>0, <2>1, <3>1 DEF Update, DownloadTransition
    <3> QED
      BY <1>0, <3>2 DEF Records
  <2>2. CASE rec[i].status # "active"
    <3>1. rec'[i] = rec[i] \/ rec'[i] = [rec[i] EXCEPT !.status = status, !.got = got]
      BY <1>0, <1>6 DEF Mark, Update
    <3> QED
      BY <1>0, <2>2, <3>1 DEF Records
  <2> QED
    BY <2>1, <2>2
<1> QED
  BY <1>1, <1>2, <1>3, <1>4, <1>5, <1>6 DEF ExecuteStep, Finish, Fail

(* That every active record outside recovery is served is inductive.       *)
LEMMA ActiveStep ==
    ASSUME Types, ExecInv, ActiveInv, [Next]_vars
    PROVE  ActiveInv'
<1>1. ASSUME NEW s \in Slots, ExecuteStep(s) \/ Fail(s) PROVE ActiveInv'
  <2>1. UNCHANGED <<running, stopping, toRecover, booted>>
    BY <1>1, ExecutionMoves
  <2>2. ASSUME running, ~stopping, NEW i \in Ids \ toRecover, rec'[i].status = "active"
        PROVE  \E t \in Slots : Serves(t, i)'
    <3>1. CASE i = exec[s].id
      <4>1. ASSUME rec[i].status = "active" PROVE Serves(s, i)
        <5>1. PICK t \in Slots : Serves(t, i)
          BY <2>2, <4>1 DEF ActiveInv
        <5>2. t = s
          BY <1>1, <3>1, <5>1, ExecutionMoves DEF ExecInv, Serves, Busy
        <5> QED
          BY <5>1, <5>2
      <4>2. Serves(s, i)'
        BY <1>1, <2>2, <3>1, <4>1, OwnRecordServed
      <4> QED
        BY <4>2
    <3>2. CASE i # exec[s].id
      <4>1. rec'[i] = rec[i]
        BY <1>1, <3>2, ExecutionMoves
      <4>2. PICK t \in Slots : Serves(t, i)
        BY <2>2, <4>1 DEF ActiveInv
      <4>3. t # s
        BY <3>2, <4>2 DEF Serves
      <4>4. exec'[t] = exec[t]
        BY <1>1, <4>3, ExecutionMoves
      <4>5. Serves(t, i)'
        BY <4>1, <4>2, <4>4 DEF Serves, sameExecution, Present
      <4> QED
        BY <4>5
    <3> QED
      BY <3>1, <3>2
  <2> QED
    BY <2>1, <2>2 DEF ActiveInv
(* A step outside the executions that leaves the executions alone, and     *)
(* makes no record active and no served one another run.                   *)
<1>2. ASSUME \A s \in Slots : exec'[s] = exec[s],
             toRecover' = toRecover, booted' => booted \/ toRecover = {},
             running' /\ ~stopping' => running /\ ~stopping,
             \A i \in Ids : rec'[i].status = "active" =>
                /\ rec[i].status = "active"
                /\ rec'[i].gen = rec[i].gen /\ rec'[i].run = rec[i].run
      PROVE  ActiveInv'
  <2>1. ASSUME NEW i \in Ids, rec'[i].status = "active", NEW s \in Slots, Serves(s, i)
        PROVE  Serves(s, i)'
    BY <1>2, <2>1 DEF Serves, sameExecution, Present
  <2> QED
    BY <1>2, <2>1 DEF ActiveInv
<1>3. CASE Start
  BY <1>3 DEF Start, ActiveInv, Present, durable
<1>4. CASE StartReturns \/ Stop
  <2>1. UNCHANGED <<rec, exec, toRecover, running>>
    BY <1>4 DEF StartReturns, Stop, durable
  <2>2. (booted' => booted \/ toRecover = {}) /\ (~stopping' => ~stopping)
    BY <1>4 DEF StartReturns, Stop
  <2> QED
    BY <1>2, <2>1, <2>2
<1>d. ASSUME NEW d \in Deleters, DeleteFile(d) \/ DeleteFails(d) PROVE ActiveInv'
  <2>1. UNCHANGED <<rec, exec, toRecover, running, booted, stopping>>
    BY <1>d DEF DeleteFile, DeleteFails, durable, workerVars
  <2> QED
    BY <1>2, <2>1
<1>5. CASE LoopEnds \/ Crash
  BY <1>5 DEF LoopEnds, Crash, ActiveInv
<1>6. CASE Take
  <2>1. UNCHANGED <<rec, running, stopping, toRecover, booted>>
    BY <1>6 DEF Take, durable
  <2>2. \A s \in Slots : Busy(s) => exec'[s] = exec[s]
    BY <1>6 DEF Take, Busy, Types
  <2>3. ASSUME NEW i \in Ids, NEW s \in Slots, Serves(s, i) PROVE Serves(s, i)'
    BY <2>1, <2>2, <2>3 DEF Serves, sameExecution, Present, Busy
  <2> QED
    BY <2>1, <2>3 DEF ActiveInv
<1>7. ASSUME NEW i \in Ids, Recover(i) PROVE ActiveInv'
  <2>0. UNCHANGED <<exec, running, stopping, booted>> /\ toRecover' = toRecover \ {i}
        /\ i \in toRecover
    BY <1>7 DEF Recover, calls
  <2>1. CASE stopping
    BY <2>0, <2>1 DEF ActiveInv
  <2>2. CASE ~stopping
    <3>1. /\ \A j \in Ids : j # i => rec'[j] = rec[j]
          /\ rec'[i].status # "active"
      BY <1>7, <2>2 DEF Recover, RecoverRecord, Update, DownloadTransition, Present, Types, Records
    <3>2. ASSUME NEW j \in Ids, j # i, NEW s \in Slots, Serves(s, j) PROVE Serves(s, j)'
      BY <2>0, <3>1, <3>2 DEF Serves, sameExecution, Present
    <3> QED
      BY <2>0, <3>1, <3>2 DEF ActiveInv
  <2> QED
    BY <2>1, <2>2
<1>8. ASSUME NEW i \in Ids, EnqueuePending(i) \/ Add(i) \/ Pause(i) \/ StartTask(i)
                            \/ Stat(i) \/ \E d \in Deleters : DeleteMark(d, i)
      PROVE  ActiveInv'
  <2>1. UNCHANGED <<exec, toRecover, booted, running, stopping>>
    BY <1>8 DEF EnqueuePending, Add, Pause, StartTask, DeleteMark, Stat, workerVars
  <2>2. /\ \A j \in Ids : j # i => rec'[j] = rec[j]
        /\ rec'[i] = rec[i] \/ rec'[i].status # "active"
    <3>0. rec[i] \in Records
      BY DEF Types
    <3>1. CASE EnqueuePending(i) \/ Stat(i)
      BY <3>1 DEF EnqueuePending, Stat, durable
    <3>2. CASE Add(i)
      BY <3>2 DEF Add, Create, Types
    <3>3. CASE Pause(i) \/ StartTask(i)
      <4>1. \/ rec' = rec
            \/ rec' = [rec EXCEPT ![i] = [rec[i] EXCEPT !.status = "paused"]]
            \/ rec' = [rec EXCEPT ![i] = Restarted(i)]
        BY <3>3 DEF Pause, StartTask, updateStatuses, Update
      <4>2. /\ [rec[i] EXCEPT !.status = "paused"].status = "paused"
            /\ Restarted(i).status = "queued"
        BY <3>0 DEF Restarted, Records
      <4> QED
        BY <4>1, <4>2 DEF Types
    <3>4. CASE \E d \in Deleters : DeleteMark(d, i)
      <4>1. [rec[i] EXCEPT !.status = "removed"].status = "removed"
        BY <3>0 DEF Records
      <4>2. \/ rec' = rec
            \/ rec' = [rec EXCEPT ![i] = [rec[i] EXCEPT !.status = "removed"]]
        BY <3>4 DEF DeleteMark, Update
      <4> QED
        BY <4>1, <4>2 DEF Types
    <3> QED
      BY <1>8, <3>1, <3>2, <3>3, <3>4
  <2> QED
    BY <1>2, <2>1, <2>2
<1>9. ASSUME NEW d \in Deleters, DeleteRecord(d) PROVE ActiveInv'
  <2>1. UNCHANGED <<exec, toRecover, booted, running, stopping>>
    BY <1>9 DEF DeleteRecord, workerVars
  <2>2. /\ \A j \in Ids : j # removing[d].id => rec'[j] = rec[j]
        /\ removing[d].id \in Ids /\ rec'[removing[d].id].status # "active"
    BY <1>9 DEF DeleteRecord, Removed, Types, Records
  <2> QED
    BY <1>2, <2>1, <2>2
<1>10. CASE refreshRecordFromDisk
  <2>1. UNCHANGED <<exec, toRecover, booted, running, stopping>>
    BY <1>10 DEF refreshRecordFromDisk, workerVars
  <2> DEFINE i == stat.id
  <2>2. /\ \A j \in Ids : j # i => rec'[j] = rec[j]
        /\ i \in Ids
        /\ rec'[i].status = "active" => rec[i].status = "active" /\ rec'[i].gen = rec[i].gen
                                          /\ rec'[i].run = rec[i].run
    <3>1. i \in Ids /\ rec[i] \in Records /\ rec \in [Ids -> Records]
      BY <1>10 DEF refreshRecordFromDisk, Types
    <3> DEFINE status == IF CompleteOnDisk(i, stat.size) THEN "complete" ELSE rec[i].status
               new == [rec[i] EXCEPT !.got = stat.size, !.status = status]
    <3>2. rec' = rec \/ rec' = [rec EXCEPT ![i] = new]
      BY <1>10 DEF refreshRecordFromDisk, Update
    <3>3. new.gen = rec[i].gen /\ new.run = rec[i].run
          /\ (new.status = "active" => rec[i].status = "active")
      BY <3>1 DEF Records
    <3> HIDE DEF new
    <3> QED
      BY <3>1, <3>2, <3>3
  <2> QED
    BY <1>2, <2>1, <2>2
<1>11. CASE UNCHANGED vars
  BY <1>2, <1>11 DEF vars, durable, workerVars
<1> QED
  BY <1>1, <1>3, <1>4, <1>5, <1>6, <1>7, <1>8, <1>9, <1>10, <1>11, <1>d
     DEF Next, WorkerStep

-----------------------------------------------------------------------------
(* A complete record has its whole file *)

Gone == {"absent", "removed"}
(* The record of i is none that a late deletion or listing can harm: it is *)
(* there, and no such call was under way when it was made.                 *)
Own(i) == rec[i].status \notin Gone /\ ~rec[i].contested
LiveIn(i, g) == rec[i].gen = g /\ Own(i)
WholeOf(i) == rec[i].status = "complete" /\ ~rec[i].contested

(* What an execution has read of the file stays true as long as its task   *)
(* is neither deleted nor added again; once past checkStatus its handle    *)
(* continues the file, or the file is no longer there.  In no case is the  *)
(* file of its handle longer than what the execution has written.          *)
SlotInv(s) ==
    LET x == exec[s]
        f == file[exec[s].id]
    IN /\ x.pc \notin {"idle", "load"} => x.gen <= rec[x.id].gen
       /\ x.pc \in {"acquire", "claim", "open"} =>
             /\ prepareInternalPartialFile(f.size) <= x.got
             /\ LiveIn(x.id, x.gen) => prepareInternalPartialFile(f.size) = x.got
       /\ x.pc \in {"check", "write"} =>
             /\ f.ino = x.ino /\ f.size # NoFile => f.size <= x.got
             /\ LiveIn(x.id, x.gen) => f.ino = x.ino /\ f.size = x.got
       /\ x.pc = "finish" /\ LiveIn(x.id, x.gen) => f.size = Total

(* A file is deleted, and a size that was read of it is out of date, only  *)
(* for a record that is gone or was made while the call was under way.     *)
CallsInv ==
    /\ \A d \in Deleters : removing[d].todo = "file" => ~Own(removing[d].id)
    /\ stat # NoStat /\ stat.size = Total /\ Own(stat.id) => file[stat.id].size = Total

WholeInv == (\A s \in Slots : SlotInv(s)) /\ CallsInv /\ CompleteMeansWhole

(* The end of an execution and a listing are what completes a record.      *)
Completes(i) ==
    \/ \E s \in Slots : exec[s].pc = "finish" /\ exec[s].id = i /\ LiveIn(i, exec[s].gen)
    \/ stat # NoStat /\ stat.id = i /\ stat.size = Total /\ Own(i)

(* What a step may do to a record: its generation grows when it is added   *)
(* again and only then it comes back, contested if a call is under way;    *)
(* and it becomes complete in one of the two ways.                         *)
RecordStep(i) ==
    /\ rec'[i].gen >= rec[i].gen
    /\ rec'[i].gen # rec[i].gen => (UnderWay(i) => rec'[i].contested)
    /\ rec'[i].gen = rec[i].gen => (Own(i)' => Own(i))
    /\ WholeOf(i)' => WholeOf(i) \/ Completes(i)

(* A record that does not change respects RecordStep.                      *)
LEMMA RecordKept ==
    ASSUME Types, NEW i \in Ids, rec'[i] = rec[i]
    PROVE  RecordStep(i)
BY DEF RecordStep, Types, Records, WholeOf, Own

(* A change of the status of a record that is not gone, to one that is not *)
(* complete.                                                               *)
LEMMA RecordChanged ==
    ASSUME Types, NEW i \in Ids, rec'[i].gen = rec[i].gen,
           rec'[i].contested = rec[i].contested, rec[i].status \notin Gone,
           rec'[i].status # "complete"
    PROVE  RecordStep(i)
<1>1. rec[i].gen \in Nat
  BY DEF Types, Records
<1> QED
  BY <1>1 DEF RecordStep, WholeOf, Own

(* Every step respects RecordStep.                                         *)
LEMMA RecordsMove ==
    ASSUME Types, Next, NEW i \in Ids
    PROVE  RecordStep(i)
<1>0. rec[i] \in Records /\ rec \in [Ids -> Records]
  BY DEF Types
<1>1. ASSUME NEW s \in Slots, ExecuteStep(s) \/ Fail(s) PROVE RecordStep(i)
  <2>0. exec[s].id # i => rec'[i] = rec[i]
    BY <1>1, ExecutionMoves
  <2>1. CASE exec[s].id # i \/ rec' = rec
    BY <2>0, <2>1, RecordKept
  <2>2. CASE exec[s].id = i /\ rec' # rec
    <3>1. CASE Claim(s)
      <4> DEFINE now == rec[i].last + 1
                 new == [rec[i] EXCEPT !.status = "active", !.run = now, !.last = now,
                                       !.got = exec[s].got]
      <4>1. Update(i, new) /\ rec[i].status \in {"queued", "error"}
        BY <2>2, <3>1 DEF Claim, ClaimWanted, shouldRunLocalDownload
      <4>2. rec'[i] = new
        BY <1>0, <2>2, <4>1 DEF Update
      <4>3. new.gen = rec[i].gen /\ new.status = "active" /\ new.contested = rec[i].contested
        BY <1>0 DEF Records
      <4> QED
        BY <4>1, <4>2, <4>3, RecordChanged DEF Gone
    <3>2. CASE Write(s)
      <4>1. /\ rec'[i].gen = rec[i].gen /\ rec'[i].status = "active" /\ rec[i].status = "active"
            /\ rec'[i].contested = rec[i].contested
        BY <1>0, <2>2, <3>2 DEF Write, Update, Records
      <4> QED
        BY <4>1, RecordChanged DEF Gone
    <3>3. ASSUME NEW status \in {"error", "complete"}, NEW got, Mark(s, status, got)
          PROVE  /\ rec'[i] = [rec[i] EXCEPT !.status = status, !.got = got]
                 /\ sameExecution(i, exec[s]) /\ rec[i].status \in {"active", "queued", "error"}
      BY <1>0, <2>2, <3>3 DEF Mark, Update, shouldRunLocalDownload
    <3>4. CASE Fail(s)
      <4>1. /\ rec'[i].gen = rec[i].gen /\ rec'[i].status = "error" /\ rec[i].status \notin Gone
            /\ rec'[i].contested = rec[i].contested
        BY <1>0, <3>3, <3>4 DEF Fail, Records, Gone
      <4> QED
        BY <4>1, RecordChanged
    <3>5. CASE Finish(s)
      <4>1. /\ rec'[i].gen = rec[i].gen /\ rec[i].status \notin Gone
            /\ rec'[i].contested = rec[i].contested /\ rec[i].gen = exec[s].gen
        BY <1>0, <3>3, <3>5 DEF Finish, Records, Gone, sameExecution
      <4>2. ~rec[i].contested => Completes(i)
        BY <2>2, <3>5, <4>1 DEF Completes, Finish, LiveIn, Own
      <4>3. rec[i].gen \in Nat
        BY <1>0 DEF Records
      <4> QED
        BY <4>1, <4>2, <4>3 DEF RecordStep, WholeOf, Own
    <3> QED
      BY <1>1, <2>2, <3>1, <3>2, <3>4, <3>5 DEF ExecuteStep, Load, Prepare, Acquire, Open,
         Check, MarkDownloaded, durable
  <2> QED
    BY <2>1, <2>2
<1>2. CASE UNCHANGED rec
  BY <1>2, RecordKept
<1>3. ASSUME NEW j \in Ids, \/ Recover(j) \/ Add(j) \/ Pause(j) \/ StartTask(j)
                            \/ \E d \in Deleters : DeleteMark(d, j)
      PROVE  RecordStep(i)
  <2>0. rec[j] \in Records
    BY DEF Types
  <2>1. ASSUME NEW new, rec' = rec \/ rec' = [rec EXCEPT ![j] = new],
               new.gen = rec[j].gen, new.contested = rec[j].contested,
               rec[j].status \notin Gone, new.status # "complete"
        PROVE  RecordStep(i)
    <3>1. CASE rec'[i] = rec[i]
      BY <3>1, RecordKept
    <3>2. CASE rec'[i] # rec[i]
      <4>1. i = j /\ rec'[i] = new
        BY <1>0, <2>1, <3>2
      <4> QED
        BY <2>1, <4>1, RecordChanged
    <3> QED
      BY <3>1, <3>2
  <2>2. CASE Recover(j)
    <3>1. CASE rec' = rec
      BY <3>1, RecordKept
    <3>2. CASE rec' # rec
      <4>1. /\ rec[j].status = "active"
            /\ rec' = [rec EXCEPT ![j] = [rec[j] EXCEPT !.status = "queued"]]
        BY <2>2, <3>2 DEF Recover, RecoverRecord, Update
      <4>2. /\ [rec[j] EXCEPT !.status = "queued"].gen = rec[j].gen
            /\ [rec[j] EXCEPT !.status = "queued"].contested = rec[j].contested
            /\ [rec[j] EXCEPT !.status = "queued"].status = "queued"
        BY <2>0 DEF Records
      <4> QED
        BY <2>1, <4>1, <4>2 DEF Gone
    <3> QED
      BY <3>1, <3>2
  <2>3. CASE Add(j)
    <3>1. CASE rec'[i] = rec[i]
      BY <3>1, RecordKept
    <3>2. CASE rec'[i] # rec[i]
      <4>1. /\ i = j /\ rec[i].status = "absent" /\ rec'[i].status = "queued"
            /\ rec'[i].gen = rec[i].gen + 1 /\ rec'[i].contested = UnderWay(i)
        BY <1>0, <2>3, <3>2 DEF Add, Create, Present
      <4>2. rec[i].gen \in Nat
        BY <1>0 DEF Records
      <4> QED
        BY <4>1, <4>2 DEF RecordStep, WholeOf
    <3> QED
      BY <3>1, <3>2
  <2>4. CASE Pause(j)
    <3>1. /\ [rec[j] EXCEPT !.status = "paused"].gen = rec[j].gen
          /\ [rec[j] EXCEPT !.status = "paused"].contested = rec[j].contested
          /\ [rec[j] EXCEPT !.status = "paused"].status = "paused"
      BY <2>0 DEF Records
    <3>2. /\ rec[j].status \notin Gone
          /\ rec' = rec \/ rec' = [rec EXCEPT ![j] = [rec[j] EXCEPT !.status = "paused"]]
      BY <2>4 DEF Pause, updateStatuses, Update, Gone
    <3> QED
      BY <2>1, <3>1, <3>2
  <2>5. CASE StartTask(j)
    <3>1. /\ Restarted(j).gen = rec[j].gen /\ Restarted(j).status = "queued"
          /\ Restarted(j).contested = rec[j].contested
      BY <2>0 DEF Restarted, Records
    <3>2. /\ rec[j].status \notin Gone
          /\ rec' = rec \/ rec' = [rec EXCEPT ![j] = Restarted(j)]
      BY <2>5 DEF StartTask, updateStatuses, Update, Gone, Live
    <3> QED
      BY <2>1, <3>1, <3>2
  <2>6. CASE \E d \in Deleters : DeleteMark(d, j)
    <3>1. /\ [rec[j] EXCEPT !.status = "removed"].gen = rec[j].gen
          /\ [rec[j] EXCEPT !.status = "removed"].contested = rec[j].contested
          /\ [rec[j] EXCEPT !.status = "removed"].status = "removed"
      BY <2>0 DEF Records
    <3>2. /\ rec[j].status # "absent"
          /\ rec' = rec \/ rec' = [rec EXCEPT ![j] = [rec[j] EXCEPT !.status = "removed"]]
      BY <2>6 DEF DeleteMark, Update, Present
    <3>3. CASE rec[j].status # "removed"
      BY <2>1, <3>1, <3>2, <3>3 DEF Gone
    <3>4. CASE rec[j].status = "removed"
      <4>1. rec'[i] = rec[i] \/ (i = j /\ rec'[i].gen = rec[i].gen /\ rec'[i].status = "removed")
        BY <1>0, <3>1, <3>2
      <4> QED
        BY <1>0, <4>1, RecordKept DEF RecordStep, WholeOf, Own, Gone, Records
    <3> QED
      BY <3>3, <3>4
  <2> QED
    BY <1>3, <2>2, <2>3, <2>4, <2>5, <2>6
<1>4. ASSUME NEW d \in Deleters, DeleteRecord(d) PROVE RecordStep(i)
  <2>1. CASE i # removing[d].id
    <3>1. rec'[i] = rec[i]
      BY <1>0, <1>4, <2>1 DEF DeleteRecord
    <3> QED
      BY <3>1, RecordKept
  <2>2. CASE i = removing[d].id
    <3>1. rec'[i].gen = rec[i].gen /\ rec'[i].status = "absent"
      BY <1>0, <1>4, <2>2 DEF DeleteRecord, Removed, Records
    <3>2. rec[i].gen \in Nat
      BY <1>0 DEF Records
    <3> QED
      BY <3>1, <3>2 DEF RecordStep, WholeOf, Own, Gone
  <2> QED
    BY <2>1, <2>2
<1>5. CASE refreshRecordFromDisk
  <2>1. CASE rec'[i] = rec[i]
    BY <2>1, RecordKept
  <2>2. CASE rec'[i] # rec[i]
    <3> DEFINE status == IF CompleteOnDisk(i, stat.size) THEN "complete" ELSE rec[i].status
               new == [rec[i] EXCEPT !.got = stat.size, !.status = status]
    <3>1. /\ stat # NoStat /\ stat.id = i /\ rec[i].status \notin Gone
          /\ rec' = [rec EXCEPT ![i] = new]
      BY <1>0, <1>5, <2>2 DEF refreshRecordFromDisk, Update, Gone
    <3>2. new.gen = rec[i].gen /\ new.status = status /\ new.contested = rec[i].contested
      BY <1>0 DEF Records
    <3>3. rec'[i] = new
      BY <1>0, <3>1
    <3>4. rec[i].gen \in Nat
      BY <1>0 DEF Records
    <3>5. ASSUME status = "complete", ~rec[i].contested PROVE WholeOf(i) \/ Completes(i)
      BY <3>1, <3>5 DEF WholeOf, Completes, Own, CompleteOnDisk
    <3> HIDE DEF new, status
    <3> QED
      BY <3>1, <3>2, <3>3, <3>4, <3>5 DEF RecordStep, WholeOf, Own
  <2> QED
    BY <2>1, <2>2
<1> QED
  BY <1>1, <1>2, <1>3, <1>4, <1>5 DEF Next, WorkerStep, Start, StartReturns, Take, LoopEnds,
     EnqueuePending, Stop, Crash, Stat, DeleteFile, DeleteFails, durable

(* A whole file stays whole as long as its record is its own: no handle    *)
(* that is still written to belongs to it.                                 *)
LEMMA WholeKept ==
    ASSUME Types, WholeInv, Next, NEW i \in Ids, file[i].size = Total, Own(i)
    PROVE  file'[i].size = Total
<1>0. /\ file[i] \in Files /\ file \in [Ids -> Files] /\ Total \in Nat \ {0}
      /\ Total # NoFile
  BY LocalAssumption DEF Types, NoFile
<1>1. ASSUME NEW s \in Slots, ExecuteStep(s) \/ Fail(s) PROVE file'[i].size = Total
  <2>1. exec[s].id # i => file'[i] = file[i]
    BY <1>1, ExecutionMoves
  <2>2. CASE Open(s) /\ exec[s].id = i
    BY <1>0, <2>2 DEF Open
  <2>3. CASE Write(s) /\ exec[s].id = i
    <3>1. exec[s].got < Total /\ exec[s].got \in 0..Total
      BY <2>3 DEF Write, Types, Executions
    <3>2. file[i].ino # exec[s].ino
      BY <1>0, <2>3, <3>1 DEF Write, WholeInv, SlotInv
    <3> QED
      BY <2>3, <3>2 DEF Write
  <2> QED
    BY <1>1, <2>1, <2>2, <2>3 DEF ExecuteStep, Load, Prepare, Acquire, Claim, Check, Finish,
       MarkDownloaded, Fail, durable
<1>2. ASSUME NEW d \in Deleters, DeleteFile(d) PROVE file'[i].size = Total
  <2>1. removing[d].id # i
    BY <1>2 DEF DeleteFile, WholeInv, CallsInv
  <2> QED
    BY <1>0, <1>2, <2>1 DEF DeleteFile
<1>3. CASE UNCHANGED file
  BY <1>3
<1> QED
  BY <1>1, <1>2, <1>3 DEF Next, WorkerStep, Start, StartReturns, Take, LoopEnds, Recover,
     EnqueuePending, Stop, Crash, Add, Pause, StartTask, DeleteMark, Stat, DeleteRecord,
     DeleteFails, refreshRecordFromDisk, durable

(* A task that is live after a step, in a generation it had reached        *)
(* before, was live before.                                                *)
LEMMA LiveBefore ==
    ASSUME Types, Types', Next, NEW i \in Ids, NEW g \in Nat, g <= rec[i].gen
    PROVE  /\ g <= rec'[i].gen
           /\ LiveIn(i, g)' => LiveIn(i, g)
<1>1. rec[i].gen \in Nat /\ rec'[i].gen \in Nat /\ RecordStep(i)
  BY RecordsMove DEF Types, Records
<1> QED
  BY <1>1 DEF RecordStep, LiveIn

(* A record that a call under way may harm stays so.                       *)
LEMMA HarmKept ==
    ASSUME Types, Types', Next, NEW i \in Ids, ~Own(i), UnderWay(i)
    PROVE  ~Own(i)'
BY RecordsMove DEF RecordStep, Own

(* What the calls in progress rely on, and that complete means whole, is   *)
(* kept by every step.                                                     *)
LEMMA CallsStep ==
    ASSUME Types, Types', WholeInv, Next
    PROVE  CallsInv' /\ CompleteMeansWhole'
<1>1. ASSUME NEW i \in Ids, WholeOf(i)' PROVE file'[i].size = Total
  <2>1. WholeOf(i) \/ Completes(i)
    BY <1>1, RecordsMove DEF RecordStep
  <2>2. file[i].size = Total /\ Own(i)
    BY <2>1 DEF WholeOf, Completes, WholeInv, CallsInv, CompleteMeansWhole, SlotInv, LiveIn, Own, Gone
  <2> QED
    BY <2>2, WholeKept
<1>2. ASSUME NEW d \in Deleters, removing'[d].todo = "file" PROVE ~Own(removing[d].id)'
  <2>1. CASE removing'[d] = removing[d]
    <3>1. removing[d].id \in Ids /\ ~Own(removing[d].id) /\ UnderWay(removing[d].id)
      BY <1>2, <2>1 DEF Types, WholeInv, CallsInv, UnderWay
    <3> QED
      BY <2>1, <3>1, HarmKept
  <2>2. ASSUME NEW i \in Ids, DeleteMark(d, i) PROVE ~Own(removing[d].id)'
    <3>1. /\ removing'[d] = [id |-> i, todo |-> "file"] /\ rec[i].status # "complete"
          /\ Update(i, [rec[i] EXCEPT !.status = "removed"])
      BY <1>2, <2>2 DEF DeleteMark, Types
    <3>2. rec[i] \in Records /\ [rec[i] EXCEPT !.status = "removed"].status = "removed"
      BY DEF Types, Records
    <3>3. rec' = [rec EXCEPT ![i] = [rec[i] EXCEPT !.status = "removed"]]
      BY <2>2, <3>1, <3>2 DEF DeleteMark, Update, DownloadTransition, Present
    <3> QED
      BY <3>1, <3>2, <3>3 DEF Types, Own, Gone
  <2>3. CASE Crash
    BY <1>2, <2>3 DEF Crash, NoRemoval
  <2>4. ASSUME NEW e \in Deleters, DeleteFile(e) \/ DeleteRecord(e) \/ DeleteFails(e)
        PROVE  removing'[d] = removing[d]
    BY <1>2, <2>4 DEF DeleteFile, DeleteRecord, DeleteFails, NoRemoval, Types, Removals
  <2>5. ASSUME NEW e \in Deleters, NEW i \in Ids, DeleteMark(e, i), e # d
        PROVE  removing'[d] = removing[d]
    BY <2>5 DEF DeleteMark, Types
  <2>6. \/ removing' = removing \/ Crash
        \/ \E e \in Deleters : \/ DeleteFile(e) \/ DeleteRecord(e) \/ DeleteFails(e)
                               \/ \E i \in Ids : DeleteMark(e, i)
    BY ExecutionMoves DEF Next, WorkerStep, Start, StartReturns, Take,
       LoopEnds, Recover, EnqueuePending, Stop, Add, Pause, StartTask, Stat,
       refreshRecordFromDisk, calls
  <2> QED
    BY <2>1, <2>2, <2>3, <2>4, <2>5, <2>6
<1>3. ASSUME stat' # NoStat, stat'.size = Total, Own(stat.id)'
      PROVE  file'[stat'.id].size = Total
  <2>1. CASE stat' = stat
    <3>1. stat.id \in Ids /\ UnderWay(stat.id)
      BY <1>3, <2>1 DEF Types, UnderWay
    <3>2. Own(stat.id)
      BY <1>3, <2>1, <3>1, HarmKept
    <3>3. file[stat.id].size = Total
      BY <1>3, <2>1, <3>2 DEF WholeInv, CallsInv
    <3> QED
      BY <2>1, <3>1, <3>2, <3>3, WholeKept
  <2>2. ASSUME NEW i \in Ids, Stat(i) PROVE file'[stat'.id].size = Total
    BY <1>3, <2>2 DEF Stat, durable
  <2> QED
    BY <1>3, <2>1, <2>2, ExecutionMoves DEF Next, WorkerStep, Start, StartReturns, Take,
       LoopEnds, Recover, EnqueuePending, Stop, Crash, Add, Pause, StartTask, DeleteMark,
       DeleteFile, DeleteRecord, DeleteFails, refreshRecordFromDisk, calls
<1> QED
  BY <1>1, <1>2, <1>3 DEF CallsInv, CompleteMeansWhole, WholeOf

(* An execution that does not move keeps what it knows.                    *)
LEMMA SlotKept ==
    ASSUME Types, Types', Next, NEW t \in Slots, SlotInv(t), exec'[t] = exec[t],
           Busy(t) => \/ file'[exec[t].id] = file[exec[t].id]
                      \/ ~Own(exec[t].id) /\ file'[exec[t].id].size = NoFile
    PROVE  SlotInv(t)'
<1> DEFINE x == exec[t]
           i == exec[t].id
<1>1. CASE x.pc \in {"idle", "load"}
  BY <1>1 DEF SlotInv
<1>2. CASE x.pc \notin {"idle", "load"}
  <2>1. i \in Ids /\ x.gen \in Nat /\ x.gen <= rec[i].gen
    BY <1>2 DEF Types, Executions, SlotInv
  <2>2. x.gen <= rec'[i].gen /\ (LiveIn(i, x.gen)' => LiveIn(i, x.gen))
    BY <2>1, LiveBefore
  <2>3. \/ file'[i] = file[i]
        \/ ~LiveIn(i, x.gen) /\ file'[i].size = NoFile
    BY <1>2 DEF Busy, LiveIn
  <2>4. LiveIn(exec[t].id, exec[t].gen)' => LiveIn(i, x.gen)
    BY <2>2 DEF LiveIn, Own
  <2>5. x.got \in Nat /\ file[i] \in Files
    BY <2>1, LocalAssumption DEF Types, Executions
  <2>6. CASE file'[i] = file[i]
    BY <2>2, <2>4, <2>6 DEF SlotInv
  <2>7. CASE ~LiveIn(i, x.gen) /\ file'[i].size = NoFile
    BY <2>2, <2>4, <2>5, <2>7 DEF SlotInv, prepareInternalPartialFile
  <2> QED
    BY <2>3, <2>6, <2>7
<1> QED
  BY <1>1, <1>2

(* A step of an execution keeps what it knows of its own file.             *)
LEMMA SlotMoved ==
    ASSUME Types, Types', WholeInv, Next, NEW s \in Slots, ExecuteStep(s) \/ Fail(s)
    PROVE  SlotInv(s)'
<1> DEFINE x == exec[s]
           i == exec[s].id
           live == LiveIn(i, x.gen)
<1>0. /\ x \in Executions /\ exec \in [Slots -> Executions] /\ i \in Ids
      /\ rec[i].gen \in Nat /\ rec'[i].gen \in Nat /\ file[i] \in Files
      /\ file \in [Ids -> Files] /\ Total \in Nat \ {0} /\ NoFile = -1
      /\ SlotInv(s) /\ x.gen \in Nat /\ x.got \in Nat
  <2>1. i \in Ids /\ Total \in Nat \ {0} /\ NoFile = -1 /\ SlotInv(s)
    BY ExecutionMoves, LocalAssumption DEF NoFile, WholeInv
  <2>2. x \in Executions /\ exec \in [Slots -> Executions] /\ file \in [Ids -> Files]
    BY DEF Types
  <2>3. x.gen \in Nat /\ x.got \in 0..Total
    BY <2>2 DEF Executions
  <2>4. rec[i].gen \in Nat /\ rec'[i].gen \in Nat
    BY <2>1 DEF Types, Records
  <2> QED
    BY <2>1, <2>2, <2>3, <2>4
<1>1. ASSUME x.pc # "load"
      PROVE  /\ x.gen <= rec'[i].gen
             /\ rec'[i].gen = x.gen /\ rec'[i].status \notin Gone /\ ~rec'[i].contested => live
  <2>1. x.gen <= rec[i].gen
    BY <1>0, <1>1, ExecutionMoves DEF SlotInv, Busy
  <2> QED
    BY <1>0, <2>1, LiveBefore DEF LiveIn, Own
<1>2. CASE exec'[s] = Idle
  BY <1>2 DEF SlotInv, Idle
<1>3. CASE Load(s) /\ exec'[s] # Idle
  <2>1. /\ exec' = [exec EXCEPT ![s].pc = "prepare", ![s].gen = rec[i].gen,
                                ![s].run = rec[i].run]
        /\ rec' = rec
    BY <1>0, <1>3 DEF Load, End, durable
  <2>2. exec'[s].pc = "prepare" /\ exec'[s].gen = rec[i].gen /\ exec'[s].id = i
    BY <1>0, <2>1 DEF Executions
  <2> QED
    BY <1>0, <2>1, <2>2 DEF SlotInv
<1>4. CASE Prepare(s)
  <2> DEFINE got == prepareInternalPartialFile(file[i].size)
  <2>1. /\ exec'[s].pc = (IF got = Total THEN "finish" ELSE "acquire") /\ exec'[s].got = got
        /\ exec'[s].id = i /\ exec'[s].gen = x.gen /\ rec' = rec /\ file' = file
    BY <1>0, <1>4 DEF Prepare, Executions, durable
  <2>2. got = Total => file[i].size = Total
    BY <1>0 DEF prepareInternalPartialFile
  <2>3. x.gen <= rec'[i].gen
    BY <1>1, <1>4 DEF Prepare
  <2>4. got \in Nat
    BY <1>0 DEF prepareInternalPartialFile, Files
  <2>5. got <= got
    BY <2>4
  <2> HIDE DEF got
  <2> QED
    BY <2>1, <2>2, <2>3, <2>5 DEF SlotInv, got
<1>5. CASE Acquire(s) /\ exec'[s] # Idle
  <2>1. /\ exec'[s].pc = "claim" /\ exec'[s].id = i /\ exec'[s].gen = x.gen
        /\ exec'[s].got = x.got /\ rec' = rec /\ file' = file /\ x.pc = "acquire"
    BY <1>0, <1>5 DEF Acquire, End, To, Executions, durable
  <2> QED
    BY <1>0, <2>1 DEF SlotInv, LiveIn, Own
<1>6. CASE Claim(s) /\ exec'[s] # Idle
  <2>1. /\ exec'[s].pc = "open" /\ exec'[s].id = i /\ exec'[s].gen = x.gen
        /\ exec'[s].got = x.got /\ file' = file /\ x.pc = "claim"
    BY <1>0, <1>6 DEF Claim, End, Executions
  <2> QED
    BY <1>0, <1>1, <2>1 DEF SlotInv, LiveIn, Own
<1>7. CASE Open(s)
  <2> DEFINE f == IF file[i].size = NoFile THEN [ino |-> file[i].ino + 1, size |-> 0]
                  ELSE file[i]
  <2>1. /\ exec'[s].pc = "check" /\ exec'[s].id = i /\ exec'[s].gen = x.gen
        /\ exec'[s].got = x.got /\ exec'[s].ino = f.ino /\ rec' = rec /\ x.pc = "open"
    BY <1>0, <1>7 DEF Open, Executions
  <2>2. file'[i] = f
    BY <1>0, <1>7 DEF Open
  <2>3. f.size <= x.got /\ (live => f.size = x.got)
    BY <1>0, <2>1 DEF SlotInv, prepareInternalPartialFile
  <2> HIDE DEF f
  <2> QED
    BY <1>0, <1>1, <2>1, <2>2, <2>3 DEF SlotInv, LiveIn, Own
<1>8. CASE Check(s) /\ exec'[s] # Idle
  <2>1. /\ exec'[s].pc = "write" /\ exec'[s].id = i /\ exec'[s].gen = x.gen
        /\ exec'[s].got = x.got /\ exec'[s].ino = x.ino /\ rec' = rec /\ file' = file
        /\ x.pc = "check"
    BY <1>0, <1>8 DEF Check, End, To, Executions, durable
  <2> QED
    BY <1>0, <1>1, <2>1 DEF SlotInv, LiveIn, Own
<1>9. CASE Write(s)
  <2> DEFINE n == x.got + 1
  <2>1. /\ exec'[s].pc = (IF n = Total THEN "finish" ELSE "check") /\ exec'[s].id = i
        /\ exec'[s].gen = x.gen /\ exec'[s].got = n /\ exec'[s].ino = x.ino /\ x.pc = "write"
    BY <1>0, <1>9 DEF Write, Executions
  <2>2. live => file[i].ino = x.ino /\ file[i].size = x.got /\ file[i].size # NoFile
    BY <1>0, <2>1 DEF SlotInv
  <2>3. IF file[i].ino = x.ino /\ file[i].size # NoFile
        THEN file'[i] = [file[i] EXCEPT !.size = n] ELSE file'[i] = file[i]
    BY <1>0, <1>9 DEF Write
  <2>4. /\ [file[i] EXCEPT !.size = n].size = n
        /\ [file[i] EXCEPT !.size = n].ino = file[i].ino
    BY <1>0 DEF Files
  <2>5. n <= n
    BY <1>0
  <2> HIDE DEF n
  <2> QED
    BY <1>0, <1>1, <2>1, <2>2, <2>3, <2>4, <2>5 DEF SlotInv, LiveIn, Own
<1>10. CASE Finish(s) /\ exec'[s] # Idle
  <2>1. exec'[s].pc = "mark" /\ exec'[s].id = i /\ exec'[s].gen = x.gen /\ x.pc = "finish"
    BY <1>0, <1>10 DEF Finish, End, To, Executions
  <2> QED
    BY <1>0, <1>1, <2>1 DEF SlotInv
<1> QED
  BY <1>0, <1>2, <1>3, <1>4, <1>5, <1>6, <1>7, <1>8, <1>9, <1>10
     DEF ExecuteStep, MarkDownloaded, Fail, End

(* What every execution knows of its file is kept by every step.           *)
LEMMA WholeStep ==
    ASSUME Types, Types', ExecInv, WholeInv, Next
    PROVE  WholeInv'
<1> SUFFICES ASSUME NEW t \in Slots PROVE SlotInv(t)'
  BY CallsStep DEF WholeInv
<1>0. SlotInv(t)
  BY DEF WholeInv
<1>1. ASSUME NEW s \in Slots, ExecuteStep(s) \/ Fail(s) PROVE SlotInv(t)'
  <2>1. CASE s = t
    BY <1>1, <2>1, SlotMoved
  <2>2. CASE s # t
    <3>1. exec'[t] = exec[t]
      BY <1>1, <2>2, ExecutionMoves
    <3>2. Busy(t) => exec[t].id \in Ids /\ exec[t].id # exec[s].id
      BY <1>1, <2>2, ExecutionMoves DEF ExecInv, Types, Busy
    <3>3. Busy(t) => file'[exec[t].id] = file[exec[t].id]
      BY <1>1, <3>2, ExecutionMoves
    <3> QED
      BY <1>0, <3>1, <3>3, SlotKept
  <2> QED
    BY <2>1, <2>2
<1>2. CASE Take
  <2>1. file' = file /\ (exec'[t] = exec[t] \/ exec'[t].pc = "load")
    <3>1. [Idle EXCEPT !.pc = "load", !.id = Head(queue)].pc = "load"
      BY DEF Idle
    <3>2. \/ exec' = exec
          \/ \E s \in Slots :
               exec' = [exec EXCEPT ![s] = [Idle EXCEPT !.pc = "load", !.id = Head(queue)]]
      BY <1>2 DEF Take
    <3> QED
      BY <1>2, <3>1, <3>2 DEF Take, durable, Types
  <2>2. CASE exec'[t] = exec[t]
    BY <1>0, <2>1, <2>2, SlotKept
  <2>3. CASE exec'[t].pc = "load"
    BY <2>3 DEF SlotInv
  <2> QED
    BY <2>1, <2>2, <2>3
<1>3. CASE Crash
  BY <1>3 DEF Crash, SlotInv, Idle
<1>4. ASSUME NEW d \in Deleters, DeleteFile(d) PROVE SlotInv(t)'
  <2>1. exec'[t] = exec[t]
    BY <1>4 DEF DeleteFile
  <2>2. removing[d].id \in Ids /\ ~Own(removing[d].id)
    BY <1>4 DEF DeleteFile, Types, WholeInv, CallsInv
  <2>3. ASSUME Busy(t), exec[t].id # removing[d].id
        PROVE  file'[exec[t].id] = file[exec[t].id]
    BY <1>4, <2>3 DEF DeleteFile, Types, Busy
  <2>4. file'[removing[d].id].size = NoFile
    BY <1>4, <2>2 DEF DeleteFile, Types, Files
  <2> QED
    BY <1>0, <2>1, <2>2, <2>3, <2>4, SlotKept
<1>5. CASE UNCHANGED <<exec, file>>
  BY <1>0, <1>5, SlotKept
<1> QED
  BY <1>1, <1>2, <1>3, <1>4, <1>5 DEF Next, WorkerStep, Start, StartReturns, LoopEnds,
     Recover, EnqueuePending, Stop, Add, Pause, StartTask, DeleteMark, Stat, DeleteRecord,
     DeleteFails, refreshRecordFromDisk, durable

-----------------------------------------------------------------------------
(* The theorems *)

(* The invariants hold before anything is downloaded.                      *)
LEMMA InitInv == Init => ExecInv /\ ActiveInv /\ WholeInv
<1> SUFFICES ASSUME Init PROVE ExecInv /\ ActiveInv /\ WholeInv
  OBVIOUS
<1>1. \A s \in Slots : exec[s].pc = "idle"
  BY DEF Init, Idle
<1>2. \A i \in Ids : rec[i].status = "absent"
  BY DEF Init
<1>3. ExecInv /\ ActiveInv
  BY <1>1, <1>2 DEF Init, ExecInv, ActiveInv, Busy
<1>4. (\A d \in Deleters : removing[d].todo = "none") /\ stat = NoStat
  BY DEF Init, NoRemoval
<1> QED
  BY <1>1, <1>2, <1>3, <1>4 DEF WholeInv, SlotInv, CallsInv, CompleteMeansWhole

(* Every reachable state of records, files, executions and calls has its   *)
(* type: no step follows a missing id, and a partial file never grows      *)
(* beyond its size, whichever executions write to it.                      *)
THEOREM DownloaderTyped == Spec => []Types
<1>1. Types /\ [Next]_vars => Types'
  BY TypesStep
<1> QED
  BY <1>1, TypesInit, PTL DEF Spec

(* A task has at most one writer, and a record shown as active has the     *)
(* execution that claimed it, for any number of tasks and goroutines       *)
(* (Worker.active, markRunning, Recover, Execute).                         *)
THEOREM DownloaderOneExecution == Spec => []OneExecution
<1>1. Types /\ ExecInv /\ ActiveInv /\ [Next]_vars => (ExecInv /\ ActiveInv)'
  BY ExecStep, ActiveStep
<1>2. Types /\ ExecInv /\ ActiveInv => OneExecution
  <2> SUFFICES ASSUME Types, ExecInv, ActiveInv PROVE ActiveHasExecution
    BY OneWriterHolds DEF OneExecution
  <2> QED
    BY DEF ActiveInv, ActiveHasExecution, Serves, Writers
<1> QED
  BY <1>1, <1>2, InitInv, DownloaderTyped, PTL DEF Spec

(* A complete record has its whole file, although executions, listings and *)
(* any number of concurrent deletions of it and of earlier records of the  *)
(* id interleave (Execute, Controller.Delete, refreshRecordFromDisk),      *)
(* unless a deletion or a listing was under way when the record was made.  *)
THEOREM DownloaderCompleteWhole == Spec => []CompleteMeansWhole
<1>1. Types /\ Types' /\ ExecInv /\ WholeInv /\ [Next]_vars => (ExecInv /\ WholeInv)'
  <2> SUFFICES ASSUME Types, Types', ExecInv, WholeInv, [Next]_vars
               PROVE  ExecInv' /\ WholeInv'
    OBVIOUS
  <2>1. CASE Next
    BY <2>1, ExecStep, WholeStep
  <2>2. CASE UNCHANGED vars
    BY <2>2, ExecStep DEF vars, durable, calls, WholeInv, SlotInv, CallsInv,
       CompleteMeansWhole, LiveIn, Own
  <2> QED
    BY <2>1, <2>2
<1>2. WholeInv => CompleteMeansWhole
  BY DEF WholeInv
<1> QED
  BY <1>1, <1>2, InitInv, DownloaderTyped, PTL DEF Spec

(* No step of an execution changes a record that a control has paused,     *)
(* removed or restarted since, or that is another task under the same id   *)
(* (the closures that Execute and markError pass to Update).               *)
THEOREM DownloaderStaleHarmless == Spec => StaleExecutionHarmless
<1>1. ASSUME Types, Next, NEW i \in Ids, NEW s \in Slots, exec[s].id = i,
             exec'[s] # exec[s], rec'[i] # rec[i]
      PROVE  /\ rec[i].status \notin {"paused", "removed", "complete"}
             /\ rec[i].gen = exec[s].gen /\ rec[i].run = exec[s].run
  <2>1. PICK t \in Slots : ExecuteStep(t) \/ Fail(t)
    BY <1>1 DEF Next, WorkerStep, Start, StartReturns, Take, LoopEnds, Recover,
       EnqueuePending, Stop, Crash, Add, Pause, StartTask, DeleteMark, Stat, DeleteFile,
       DeleteRecord, DeleteFails, refreshRecordFromDisk, durable
  <2>2. t = s
    BY <1>1, <2>1, ExecutionMoves
  <2>3. Claim(s) \/ Write(s) \/ Finish(s) \/ Fail(s)
    BY <1>1, <2>1, <2>2 DEF ExecuteStep, Load, Prepare, Acquire, Open, Check,
       MarkDownloaded, durable
  <2> QED
    BY <1>1, <2>3 DEF Claim, ClaimWanted, Write, Finish, Fail, Mark, sameExecution,
       shouldRunLocalDownload
<1>2. Types /\ [Next]_vars =>
        [\A i \in Ids, s \in Slots :
            exec[s].id = i /\ exec'[s] # exec[s] /\ Present(i) /\ rec'[i] # rec[i]
              => /\ rec[i].status \notin {"paused", "removed", "complete"}
                 /\ rec[i].gen = exec[s].gen /\ rec[i].run = exec[s].run]_vars
  BY <1>1
<1> QED
  BY <1>2, DownloaderTyped, PTL DEF Spec, StaleExecutionHarmless
=============================================================================
