------------------------- MODULE DownloadScheduler -------------------------
(***************************************************************************)
(* The download scheduler of bsw/ecual/comif (scheduler.go,                *)
(* file_limiter.go).  Scheduler.Acquire registers a download request with  *)
(* the state of its file; one token of the global file limiter covers all  *)
(* requests of a file.  TaskLease.AcquireChunk asks for one of the chunk   *)
(* lanes of the file's Telegram data centre (DC).                          *)
(*                                                                         *)
(* A taskState is a Go object: a file may be forgotten and registered      *)
(* again while an old lease still points to the old object.  Objects are   *)
(* named by the request that allocated them, so "the object r" is the      *)
(* &taskState{} of line 124 executed by request r.                         *)
(*                                                                         *)
(* The critical sections of Scheduler.mu are single steps, except the loop *)
(* of dispatchLocked, which every other critical section ends with: it is  *)
(* one step per granted lane, and "dispatching" (the DCs whose loop is     *)
(* still to run) is non-empty exactly while the mutex is held.             *)
(***************************************************************************)
EXTENDS Integers, Sequences, FiniteSets

CONSTANTS
    Reqs,          \* calls of Scheduler.Acquire, each made once
    Chunks,        \* calls of TaskLease.AcquireChunk, each made once
    Tasks,         \* download task ids
    DCs,           \* Telegram data centres
    TaskOf,        \* the task id a request asks for
    DCOf,          \* the DC a request names for it
    LeaseOf,       \* the request on whose lease a chunk is asked for
    Cancelable,    \* the requests and chunks whose context may be cancelled
    FileLimits,    \* configured values of maxFiles
    Capacities,    \* configured values of perDCCapacity
    MaxReconfigs,  \* bound: how often Reconfigure is called
    MaxCancels,    \* bound: how many contexts are cancelled
    None           \* the nil pointer

ASSUME SchedulerAssumption ==
    /\ IsFiniteSet(Reqs) /\ IsFiniteSet(Chunks)
    /\ TaskOf \in [Reqs -> Tasks]
    /\ DCOf \in [Reqs -> DCs]
    /\ LeaseOf \in [Chunks -> Reqs]
    /\ FileLimits \subseteq Int
    /\ Capacities \subseteq Int
    /\ MaxReconfigs \in Nat /\ MaxCancels \in Nat
    /\ None \notin Reqs

VARIABLES
    files,       \* Scheduler.files: the current object of a task id
    refs,        \* taskState.refs
    active,      \* the objects whose taskState.active is set
    activating,  \* taskState.activating: whose channel it is
    inFlight,    \* taskState.inFlight
    waiters,     \* taskState.waiters
    dcTasks,     \* dcState.tasks
    dcInFlight,  \* dcState.inFlight
    capacity,    \* Scheduler.capacity
    limit,       \* fileLimiter.limit
    used,        \* fileLimiter.used
    dispatching, \* DCs whose dispatchLocked loop is running (mutex held)
    pc,          \* where a request is in acquireTask and Release
    obj,         \* the object a request or its lease points to
    cpc,         \* where a chunk is in AcquireChunk and Release
    granted,     \* the chunks whose chunkWaiter.granted is set
    canceled,    \* the chunks whose chunkWaiter.canceled is set
    ctxDone,     \* contexts that are cancelled
    panicked,    \* an over-release panic has happened
    reconfigs    \* number of Reconfigure calls

stateVars == <<refs, active, activating, inFlight, waiters>>
dcVars    == <<dcTasks, dcInFlight>>
limiter   == <<limit, used>>
chunkVars == <<cpc, granted, canceled>>
envVars   == <<ctxDone, reconfigs>>
vars == <<files, stateVars, dcVars, capacity, limiter, dispatching, pc, obj,
          chunkVars, envVars, panicked>>

(* A request that waits on a channel (waitReady: state.activating,         *)
(* tokenWait: fileLimiter.changed) is moved on by the step that closes the *)
(* channel.                                                                *)
ReqStates == {"idle", "loop", "waitReady", "tokenTry", "tokenWait", "tokenOk",
              "tokenFail", "undo", "leased", "giveFile", "done"}
ChunkStates == {"idle", "waiting", "held", "done"}

Elems(s) == {s[i] : i \in DOMAIN s}

TypeOK ==
    /\ files \in [Tasks -> Reqs \cup {None}]
    /\ refs \in [Reqs -> Nat]
    /\ active \subseteq Reqs
    /\ activating \in [Reqs -> Reqs \cup {None}]
    /\ inFlight \in [Reqs -> Nat]
    /\ waiters \in [Reqs -> Seq(Chunks)]
    /\ dcTasks \in [DCs -> Seq(Reqs)]
    /\ dcInFlight \in [DCs -> Nat]
    /\ capacity \in Nat \ {0} /\ limit \in Nat \ {0} /\ used \in Nat
    /\ dispatching \subseteq DCs
    /\ pc \in [Reqs -> ReqStates]
    /\ obj \in [Reqs -> Reqs \cup {None}]
    /\ cpc \in [Chunks -> ChunkStates]
    /\ granted \subseteq Chunks /\ canceled \subseteq Chunks
    /\ ctxDone \subseteq Cancelable
    /\ panicked \in BOOLEAN
    /\ reconfigs \in 0..MaxReconfigs

NormalizeNothing(v) == v
normalizeLimit(v) == IF v < 1 THEN 1 ELSE v

(* NewScheduler and newFileLimiter.                                        *)
Init ==
    /\ files = [t \in Tasks |-> None]
    /\ refs = [o \in Reqs |-> 0]
    /\ active = {}
    /\ activating = [o \in Reqs |-> None]
    /\ inFlight = [o \in Reqs |-> 0]
    /\ waiters = [o \in Reqs |-> <<>>]
    /\ dcTasks = [d \in DCs |-> <<>>]
    /\ dcInFlight = [d \in DCs |-> 0]
    /\ \E k \in Capacities : capacity = normalizeLimit(k)
    /\ \E n \in FileLimits : limit = normalizeLimit(n)
    /\ used = 0
    /\ dispatching = {}
    /\ pc = [r \in Reqs |-> "idle"]
    /\ obj = [r \in Reqs |-> None]
    /\ cpc = [c \in Chunks |-> "idle"]
    /\ granted = {} /\ canceled = {}
    /\ ctxDone = {}
    /\ panicked = FALSE
    /\ reconfigs = 0

Unlocked == dispatching = {}

SignalLost(pcs) == pcs

(* fileLimiter.signal: every goroutine parked on "changed" looks again.    *)
Signal(pcs) == [r \in Reqs |-> IF pcs[r] = "tokenWait" THEN "tokenTry" ELSE pcs[r]]

(* fileLimiter.release; pcs is the program counter it leaves otherwise.    *)
ReleaseFile(pcs) ==
    IF used = 0
    THEN panicked' = TRUE /\ pc' = pcs /\ UNCHANGED used
    ELSE used' = used - 1 /\ pc' = Signal(pcs) /\ UNCHANGED panicked

Without(s, x) ==
    LET i == CHOOSE j \in DOMAIN s : s[j] = x
    IN IF x \in Elems(s) THEN SubSeq(s, 1, i - 1) \o SubSeq(s, i + 1, Len(s)) ELSE s

(* removeActiveTaskLocked, up to the dispatch it ends with.                *)
RemoveActiveTask(o) ==
    /\ dcTasks' = [dcTasks EXCEPT ![DCOf[o]] = Without(@, o)]
    /\ active' = active \ {o}
    /\ files' = [files EXCEPT ![TaskOf[o]] = None]
    /\ dispatching' = {DCOf[o]}

-----------------------------------------------------------------------------
(* Scheduler.Acquire *)

(* What releaseTask does with an object that lost its last reference.      *)
Removable(o) == o \in active /\ inFlight[o] = 0
Forgettable(o) == o \notin active /\ activating[o] = None
WaitersClosed(o) == canceled \cup Elems(waiters[o])

(* releaseTask by request r: the last reference cancels the waiters of the *)
(* object and, unless chunks are still in flight, forgets it.  The caller  *)
(* is left with the pointer ptr: a released lease still points somewhere.  *)
ReleaseTask(r, ptr) ==
    LET o     == obj[r]
        live  == files[TaskOf[o]] = o /\ refs[o] > 0
        last  == live /\ refs[o] = 1
        remove == last /\ Removable(o)
        forget == last /\ Forgettable(o)
    IN /\ Unlocked
       /\ refs' = IF live THEN [refs EXCEPT ![o] = @ - 1] ELSE refs
       /\ canceled' = IF last THEN WaitersClosed(o) ELSE canceled
       /\ waiters' = IF last THEN [waiters EXCEPT ![o] = <<>>] ELSE waiters
       /\ IF remove THEN RemoveActiveTask(o)
          ELSE /\ files' = IF forget THEN [files EXCEPT ![TaskOf[o]] = None] ELSE files
               /\ UNCHANGED <<dcTasks, active, dispatching>>
       /\ pc' = [pc EXCEPT ![r] = IF remove THEN "giveFile" ELSE "done"]
       /\ obj' = [obj EXCEPT ![r] = ptr]
       /\ UNCHANGED <<activating, inFlight, dcInFlight, capacity, limiter, cpc,
                      granted, envVars, panicked>>

(* acquireTask finds its context cancelled at the top of the loop.         *)
AcquireCanceled(r) ==
    /\ r \in ctxDone
    /\ \/ /\ pc[r] = "idle"
          /\ pc' = [pc EXCEPT ![r] = "done"]
          /\ UNCHANGED <<files, stateVars, dcVars, capacity, limiter, dispatching,
                         obj, chunkVars, envVars, panicked>>
       \/ pc[r] = "loop" /\ ReleaseTask(r, None)

(* The task id is registered with another DC.                              *)
AcquireWrongDC(r) ==
    LET o == files[TaskOf[r]]
    IN /\ pc[r] = "idle" /\ r \notin ctxDone
       /\ Unlocked
       /\ o # None /\ DCOf[o] # DCOf[r]
       /\ pc' = [pc EXCEPT ![r] = "done"]
       /\ UNCHANGED <<files, stateVars, dcVars, capacity, limiter, dispatching, obj,
                      chunkVars, envVars, panicked>>

(* One turn of the loop of acquireTask: register once, then return with an *)
(* active object, wait for its activator, or become its activator.         *)
AcquireTask(r) ==
    LET t == TaskOf[r]
        o == IF files[t] = None THEN r ELSE files[t]
    IN /\ pc[r] \in {"idle", "loop"} /\ r \notin ctxDone
       /\ Unlocked
       /\ DCOf[o] = DCOf[r]
       /\ files' = [files EXCEPT ![t] = o]
       /\ obj' = [obj EXCEPT ![r] = o]
       /\ refs' = [refs EXCEPT ![o] = IF pc[r] = "idle" THEN @ + 1 ELSE @]
       /\ \/ /\ o \in active
             /\ pc' = [pc EXCEPT ![r] = "leased"]
             /\ UNCHANGED activating
          \/ /\ o \notin active /\ activating[o] # None
             /\ pc' = [pc EXCEPT ![r] = "waitReady"]
             /\ UNCHANGED activating
          \/ /\ o \notin active /\ activating[o] = None
             /\ pc' = [pc EXCEPT ![r] = "tokenTry"]
             /\ activating' = [activating EXCEPT ![o] = r]
       /\ UNCHANGED <<active, inFlight, waiters, dcVars, capacity, limiter,
                      dispatching, chunkVars, envVars, panicked>>

(* The context of a request is cancelled while another one activates.      *)
WaitReadyCanceled(r) ==
    /\ pc[r] = "waitReady" /\ r \in ctxDone
    /\ ReleaseTask(r, None)

(* fileLimiter.acquire: a look at the budget under the limiter's mutex.    *)
TryFileToken(r) ==
    /\ pc[r] = "tokenTry"
    /\ \/ /\ r \in ctxDone
          /\ pc' = [pc EXCEPT ![r] = "tokenFail"]
          /\ UNCHANGED used
       \/ /\ r \notin ctxDone /\ used < limit
          /\ used' = used + 1
          /\ pc' = [pc EXCEPT ![r] = "tokenOk"]
       \/ /\ r \notin ctxDone /\ used >= limit
          /\ pc' = [pc EXCEPT ![r] = "tokenWait"]
          /\ UNCHANGED used
    /\ UNCHANGED <<files, stateVars, dcVars, capacity, limit, dispatching, obj,
                   chunkVars, envVars, panicked>>

TokenWaitCanceled(r) ==
    /\ pc[r] = "tokenWait" /\ r \in ctxDone
    /\ pc' = [pc EXCEPT ![r] = "tokenFail"]
    /\ UNCHANGED <<files, stateVars, dcVars, capacity, limiter, dispatching, obj,
                   chunkVars, envVars, panicked>>

(* completeActivation: closing the channel sends its waiters back to the   *)
(* loop.  A token won for an object that is no longer this activator's is  *)
(* handed back.                                                            *)
CompleteActivation(r) ==
    LET o  == obj[r]
        d  == DCOf[o]
        ok == pc[r] = "tokenOk"
        next == IF ok THEN "loop" ELSE "undo"
    IN /\ pc[r] \in {"tokenOk", "tokenFail"}
       /\ Unlocked
       /\ IF files[TaskOf[o]] # o \/ activating[o] # r
          THEN /\ IF ok THEN ReleaseFile([pc EXCEPT ![r] = next])
                  ELSE pc' = [pc EXCEPT ![r] = next] /\ UNCHANGED <<used, panicked>>
               /\ UNCHANGED <<active, activating, dcTasks, dispatching>>
          ELSE /\ activating' = [activating EXCEPT ![o] = None]
               /\ pc' = [q \in Reqs |->
                           IF q = r THEN next
                           ELSE IF pc[q] = "waitReady" /\ obj[q] = o THEN "loop"
                           ELSE pc[q]]
               /\ IF ok THEN /\ active' = active \cup {o}
                             /\ dcTasks' = [dcTasks EXCEPT ![d] = Append(@, o)]
                             /\ dispatching' = {d}
                  ELSE UNCHANGED <<active, dcTasks, dispatching>>
               /\ UNCHANGED <<used, panicked>>
       /\ UNCHANGED <<files, refs, inFlight, waiters, dcInFlight, capacity, limit,
                      obj, chunkVars, envVars>>

(* acquireTask drops its reference after a failed activation.              *)
UndoActivation(r) == pc[r] = "undo" /\ ReleaseTask(r, None)

(* TaskLease.Release, run once per lease.                                  *)
Release(r) == pc[r] = "leased" /\ ReleaseTask(r, obj[r])

(* The token is given back after Scheduler.mu is unlocked.                 *)
GiveFileBack(r) ==
    /\ pc[r] = "giveFile"
    /\ ReleaseFile([pc EXCEPT ![r] = "done"])
    /\ UNCHANGED <<files, stateVars, dcVars, capacity, limit, dispatching, obj,
                   chunkVars, envVars>>

-----------------------------------------------------------------------------
(* TaskLease.AcquireChunk and ChunkLease.Release *)

(* Acquire returned a lease to request r, perhaps released since.          *)
HasLease(r) == pc[r] \in {"leased", "giveFile", "done"} /\ obj[r] # None

StateOf(c) == obj[LeaseOf[c]]

AcquireChunk(c) ==
    LET o == StateOf(c)
    IN /\ cpc[c] = "idle" /\ HasLease(LeaseOf[c])
       /\ Unlocked
       /\ \/ /\ c \in ctxDone \/ o \notin active \/ refs[o] < 1
             /\ cpc' = [cpc EXCEPT ![c] = "done"]
             /\ UNCHANGED <<waiters, dispatching>>
          \/ /\ c \notin ctxDone /\ o \in active /\ refs[o] >= 1
             /\ cpc' = [cpc EXCEPT ![c] = "waiting"]
             /\ waiters' = [waiters EXCEPT ![o] = Append(@, c)]
             /\ dispatching' = {DCOf[o]}
       /\ UNCHANGED <<files, refs, active, activating, inFlight, dcVars, capacity,
                      limiter, pc, obj, granted, canceled, envVars, panicked>>

LastChunkOfFile(o) == inFlight[o] = 1
LastUse(o) == refs[o] = 0 /\ inFlight[o] = 1

(* releaseChunkLocked: the last chunk of an object that nobody references  *)
(* any more forgets it and gives its file token back.                      *)
ReleaseChunkLocked(c) ==
    LET o == StateOf(c)
        d == DCOf[o]
    IN /\ Unlocked
       /\ cpc' = [cpc EXCEPT ![c] = "done"]
       /\ IF inFlight[o] < 1 \/ dcInFlight[d] < 1
          THEN /\ panicked' = TRUE
               /\ UNCHANGED <<inFlight, dcInFlight, dcTasks, active, files,
                              dispatching, used, pc>>
          ELSE /\ inFlight' = [inFlight EXCEPT ![o] = @ - 1]
               /\ dcInFlight' = [dcInFlight EXCEPT ![d] = @ - 1]
               /\ IF LastUse(o) THEN RemoveActiveTask(o) /\ ReleaseFile(pc)
                  ELSE /\ dispatching' = {d}
                       /\ UNCHANGED <<dcTasks, active, files, used, pc, panicked>>
       /\ UNCHANGED <<refs, activating, waiters, capacity, limit, obj, granted,
                      canceled, envVars>>

(* The grant arrives and the context is still good.                        *)
ChunkAdmitted(c) ==
    /\ cpc[c] = "waiting" /\ c \in granted /\ c \notin ctxDone
    /\ Unlocked
    /\ cpc' = [cpc EXCEPT ![c] = "held"]
    /\ UNCHANGED <<files, stateVars, dcVars, capacity, limiter, dispatching, pc, obj,
                   granted, canceled, envVars, panicked>>

PermitDropped(c) ==
    /\ cpc[c] = "waiting" /\ c \in granted /\ c \in ctxDone
    /\ Unlocked
    /\ cpc' = [cpc EXCEPT ![c] = "done"]
    /\ UNCHANGED <<files, stateVars, dcVars, capacity, limiter, dispatching, pc, obj,
                   granted, canceled, envVars, panicked>>

(* The grant races the cancellation: the permit is returned, whichever     *)
(* case of the select is taken.                                            *)
ChunkGrantReturned(c) ==
    /\ cpc[c] = "waiting" /\ c \in granted /\ c \in ctxDone
    /\ ReleaseChunkLocked(c)

(* releaseTask closed the waiter without a grant.                          *)
ChunkRefused(c) ==
    /\ cpc[c] = "waiting" /\ c \notin granted /\ c \in canceled
    /\ Unlocked
    /\ cpc' = [cpc EXCEPT ![c] = "done"]
    /\ UNCHANGED <<files, stateVars, dcVars, capacity, limiter, dispatching, pc, obj,
                   granted, canceled, envVars, panicked>>

(* The context ends before a grant: the waiter stays in the queue, marked. *)
ChunkCanceled(c) ==
    /\ cpc[c] = "waiting" /\ c \notin granted /\ c \in ctxDone
    /\ Unlocked
    /\ canceled' = canceled \cup {c}
    /\ cpc' = [cpc EXCEPT ![c] = "done"]
    /\ dispatching' = {DCOf[StateOf(c)]}
    /\ UNCHANGED <<files, stateVars, dcVars, capacity, limiter, pc, obj, granted,
                   envVars, panicked>>

ReleaseChunk(c) == cpc[c] = "held" /\ ReleaseChunkLocked(c)

-----------------------------------------------------------------------------
(* dispatchLocked *)

(* pruneCanceledWaiters, popWaiter: position k of a queue is the first one *)
(* that is still wanted.                                                   *)
FirstWaiter(s, k) ==
    /\ k \in DOMAIN s /\ s[k] \notin canceled
    /\ \A j \in 1..(k - 1) : s[j] \in canceled

HasWaiter(o) == \E i \in DOMAIN waiters[o] : waiters[o][i] \notin canceled

AnyFile(d, i) == i \in DOMAIN dcTasks[d] /\ HasWaiter(dcTasks[d][i])

(* firstFileWaiter: position i of the DC's files is the first with a       *)
(* waiter; the queues before it hold cancelled waiters only.               *)
FirstFile(d, i) ==
    /\ i \in DOMAIN dcTasks[d] /\ HasWaiter(dcTasks[d][i])
    /\ \A j \in 1..(i - 1) : ~HasWaiter(dcTasks[d][j])

Full(d) == dcInFlight[d] >= capacity

(* One turn of the loop: the oldest waiter of the oldest file that has one *)
(* gets a lane.                                                            *)
Grant(d) ==
    /\ d \in dispatching
    /\ ~Full(d)
    /\ \E i \in DOMAIN dcTasks[d] : \E k \in DOMAIN waiters[dcTasks[d][i]] :
         LET o == dcTasks[d][i]
             passed == {dcTasks[d][j] : j \in 1..(i - 1)}
         IN /\ FirstFile(d, i) /\ FirstWaiter(waiters[o], k)
            /\ granted' = granted \cup {waiters[o][k]}
            /\ inFlight' = [inFlight EXCEPT ![o] = @ + 1]
            /\ dcInFlight' = [dcInFlight EXCEPT ![d] = @ + 1]
            /\ waiters' = [q \in Reqs |->
                             IF q = o THEN SubSeq(waiters[o], k + 1, Len(waiters[o]))
                             ELSE IF q \in passed THEN <<>> ELSE waiters[q]]
    /\ UNCHANGED <<files, refs, active, activating, dcTasks, capacity, limiter,
                   dispatching, pc, obj, cpc, canceled, envVars, panicked>>

(* The loop ends: no lane is free, or no waiter is left, and then every    *)
(* queue of the DC has been pruned to nothing.                             *)
DispatchEnd(d) ==
    /\ d \in dispatching
    /\ Full(d) \/ \A i \in DOMAIN dcTasks[d] : ~HasWaiter(dcTasks[d][i])
    /\ waiters' = [q \in Reqs |-> IF ~Full(d) /\ q \in Elems(dcTasks[d])
                                  THEN <<>> ELSE waiters[q]]
    /\ dispatching' = dispatching \ {d}
    /\ UNCHANGED <<files, refs, active, activating, inFlight, dcVars, capacity,
                   limiter, pc, obj, chunkVars, envVars, panicked>>

-----------------------------------------------------------------------------
(* Scheduler.Reconfigure: running transfers keep what they have; every DC  *)
(* is dispatched under the new capacity.                                   *)
Reconfigure ==
    /\ Unlocked
    /\ reconfigs < MaxReconfigs
    /\ reconfigs' = reconfigs + 1
    /\ \E k \in Capacities : capacity' = normalizeLimit(k)
    /\ \E n \in FileLimits : limit' = normalizeLimit(n)
    /\ pc' = Signal(pc)
    /\ dispatching' = DCs
    /\ UNCHANGED <<files, stateVars, dcVars, used, obj, chunkVars, ctxDone, panicked>>

(* Environment: the context of a request or of a chunk is cancelled.       *)
Cancel(x) ==
    /\ x \notin ctxDone /\ Cardinality(ctxDone) < MaxCancels
    /\ ctxDone' = ctxDone \cup {x}
    /\ UNCHANGED <<files, stateVars, dcVars, capacity, limiter, dispatching, pc, obj,
                   chunkVars, reconfigs, panicked>>

(* Scheduler.Snapshots, for one DC.                                        *)
PendingIn(c, o) == c \in Elems(waiters[o]) /\ c \notin canceled
Snapshot(d) ==
    LET F == Elems(dcTasks[d])
    IN [activeChunks   |-> dcInFlight[d],
        activeFiles    |-> Cardinality({o \in F : inFlight[o] > 0}),
        queuedFiles    |-> Cardinality({o \in F : inFlight[o] = 0 /\ HasWaiter(o)}),
        queuedRequests |-> Cardinality({c \in Chunks : \E o \in F : PendingIn(c, o)})]

RequestStep(r) ==
    \/ AcquireCanceled(r) \/ AcquireWrongDC(r) \/ AcquireTask(r)
    \/ WaitReadyCanceled(r) \/ TryFileToken(r) \/ TokenWaitCanceled(r)
    \/ CompleteActivation(r) \/ UndoActivation(r) \/ GiveFileBack(r)

ChunkStep(c) ==
    \/ AcquireChunk(c) \/ ChunkAdmitted(c) \/ ChunkGrantReturned(c)
    \/ ChunkRefused(c) \/ ChunkCanceled(c) \/ ReleaseChunk(c)

DispatchStep(d) == Grant(d) \/ DispatchEnd(d)

(* Every call has returned and every lease has been released.              *)
Finished ==
    /\ Unlocked
    /\ \A r \in Reqs : pc[r] = "done"
    /\ \A c \in Chunks : cpc[c] \in {"idle", "done"}

Terminated == Finished /\ UNCHANGED vars

Next ==
    \/ \E r \in Reqs : RequestStep(r) \/ Release(r)
    \/ \E c \in Chunks : ChunkStep(c)
    \/ \E d \in DCs : DispatchStep(d)
    \/ \E x \in Cancelable : Cancel(x)
    \/ Reconfigure
    \/ Terminated

Spec == Init /\ [][Next]_vars

-----------------------------------------------------------------------------
(* Properties *)

Holds(c) == cpc[c] = "held" \/ (cpc[c] = "waiting" /\ c \in granted)
Holders(o) == {c \in Chunks : Holds(c) /\ StateOf(c) = o}
LaneHolders(d) == {c \in Chunks : Holds(c) /\ StateOf(c) \in Reqs /\ DCOf[StateOf(c)] = d}
TokenHolders == {r \in Reqs : pc[r] \in {"tokenOk", "giveFile"}}

(* Neither the chunk nor the file over-release panic is reachable          *)
(* (scheduler.go:297, file_limiter.go:46), whatever order grants, cancels, *)
(* releases and a revival of a drained file happen in.                     *)
NoOverRelease == ~panicked

(* The file budget is never lost or invented: every used token belongs to  *)
(* one active file or is on its way into or out of one.                    *)
FileTokensConserved == used = Cardinality(active) + Cardinality(TokenHolders)

(* The lane counters of a file and of its DC agree with the chunks that    *)
(* were granted a lane and have not returned it, including a grant that    *)
(* raced a cancellation.                                                   *)
LanesConserved ==
    /\ \A o \in Reqs : inFlight[o] = Cardinality(Holders(o))
    /\ \A d \in DCs : dcInFlight[d] = Cardinality(LaneHolders(d))

(* "Multiple leases for the same task share one allocation": one object    *)
(* per task is active or activating, it is the registered one, and the DC  *)
(* lists exactly the active ones.                                          *)
OneAllocationPerTask ==
    /\ \A o \in Reqs : o \in active \/ activating[o] # None => files[TaskOf[o]] = o
    /\ \A d \in DCs : /\ Elems(dcTasks[d]) = {o \in active : DCOf[o] = d}
                      /\ Len(dcTasks[d]) = Cardinality(Elems(dcTasks[d]))

(* A lease that was returned and not yet released points to the registered *)
(* and active object of its task, so its AcquireChunk is never refused.    *)
LeaseStaysUsable ==
    \A r \in Reqs : pc[r] = "leased" =>
        /\ obj[r] \in Reqs /\ TaskOf[obj[r]] = TaskOf[r]
        /\ files[TaskOf[r]] = obj[r] /\ obj[r] \in active /\ refs[obj[r]] > 0

(* dispatchLocked is work-conserving: with the mutex free, a DC snapshot   *)
(* that shows a waiting request shows all lanes in use.                    *)
WorkConserving ==
    Unlocked => \A d \in DCs :
        LET snap == Snapshot(d)
        IN snap.queuedRequests > 0 => snap.activeChunks >= capacity

(* A waiter is never overtaken by a later request for the same file, nor   *)
(* by one for a file activated later in the same DC.                       *)
Ahead(c, e) ==
    LET o == StateOf(c)
        p == StateOf(e)
        Pos(s, x) == CHOOSE i \in DOMAIN s : s[i] = x
        F == dcTasks[DCOf[o]]
    IN IF o = p THEN Pos(waiters[o], c) < Pos(waiters[o], e)
       ELSE DCOf[o] = DCOf[p] /\ Pos(F, o) < Pos(F, p)
Queued(c) == cpc[c] = "waiting" /\ c \notin granted /\ c \notin canceled
NoOvertaking ==
    [][\A e \in granted' \ granted : \A c \in Chunks :
         Queued(c) /\ Queued(e) /\ Ahead(c, e)
            => c \in granted' \/ c \in canceled']_vars

(* Nobody is forgotten.  A parked activator waits only while the file      *)
(* budget is used up, so no change of the budget passed it by; a request   *)
(* behind an activator waits on one that is still at work; and a chunk     *)
(* that waits is in a queue that the dispatch of its DC looks at.          *)
NobodyForgotten ==
    /\ \A r \in Reqs : pc[r] = "tokenWait" => used >= limit
    /\ \A r \in Reqs : pc[r] = "waitReady" =>
          \E q \in Reqs : /\ activating[obj[r]] = q /\ obj[q] = obj[r]
                         /\ pc[q] \in {"tokenTry", "tokenWait", "tokenOk", "tokenFail"}
    /\ \A c \in Chunks : Queued(c) =>
          PendingIn(c, StateOf(c)) /\ StateOf(c) \in Elems(dcTasks[DCOf[StateOf(c)]])

(* The books of the scheduler: no release without its acquire, every lane  *)
(* and file token held by exactly one call that will return it, and one    *)
(* allocation per task, through cancellations, grants that race them,      *)
(* releases in two halves and changes of the limits.                       *)
Conserved ==
    NoOverRelease /\ LanesConserved /\ FileTokensConserved /\ OneAllocationPerTask

(* What a caller gets for its lease: it stays usable until it is released, *)
(* a chunk request waits only while all lanes of its DC are in use, and    *)
(* whoever waits is known to the one who will wake it.                     *)
LeasesServed == LeaseStaysUsable /\ WorkConserving /\ NobodyForgotten

=============================================================================
