# A TLA+ verification of tdl

tdl watches Telegram chats and turns messages into downloads and forwards. It is
one Go process made of components: a lifecycle core (`rte`), basic services
(`bsw`: Telegram access, the chunk scheduler, the task store), applications
(`application`: triggers, download and forward pipelines, the two download
backends, the range proxy, configuration, self update) and user interfaces (`app`:
watcher, web panel, bot console). Almost every component has goroutines of its own,
shares a persistent store with the others and is stopped and restarted while the
program runs.

This directory models the parts in which an order of events that no test has can
go wrong. Every module is checked by TLC on small instances. All safety properties of
the runs but one (`ControlsPrevail`) are also proved with TLAPS, for instances of every
size (section 5).

    tlc -workers 2 -config MCDownloadScheduler.cfg MCDownloadScheduler
    tlapm DownloadSchedulerProofs.tla

`PROJECT.json` lists the components, the runs, the lines each definition models
(`map`), the hazards and which property is about which, and a mutant for every
property: a plausible bug of the code that makes TLC report the property.

## 1. Inventory

| Component | Source | State | Operations | Module |
|---|---|---|---|---|
| Download scheduler | `bsw/ecual/comif` | file objects with reference counts and queues, lanes per DC, file tokens | `Acquire`, `AcquireChunk`, both `Release`, `Reconfigure`, dispatch | `DownloadScheduler` |
| Forward queue | `application/forwarder/queue.go`, `taskhub/forward_repository.go` | durable jobs; the worker's job, wake signal, policy | `Enqueue`, `EnqueueRouted`, `Pause`, `Resume`, `Delete`, `Serve` | `ForwardQueue` |
| Forward sender | `app/forward/queue.go`, `internal/core/forwarder` | none | one attempt: direct, copy, upload, text | `ForwardSender` |
| Forward router | `application/forwarder/message_router.go` | calls inside, target cache, claims with a TTL | `SubmitMessage`, `Interested`, `Stop` | `ForwardRouter` |
| Local downloader | `application/downloader.local`, `taskhub/local_*.go` | durable records and files; queue, active set, executions | `Add`, `Pause`, `Start`, `Delete`, `List`, worker start and stop, execution | `LocalDownloader` |
| aria2 control plane | `application/downloader.aria2` (controls, observation), `taskhub/aria2_*.go` | association of link and gid with revision, fence, owner, tombstone; the daemon | submit, user, bulk and automatic controls, retry, observe, expiry, retention | `Aria2Control` |
| aria2 manager and governors | `application/downloader.aria2/{manager,reconnect,regulator,speed_monitor,...}.go` | connection, error window, stall clocks, transfer limit, owners of pauses | connect, recover, regulate, cycle, limit, stop | `Aria2Governors` |
| aria2 event listener, notifications | `app/bot/aria2_events.go`, `application/notify.telegram` | websocket, handlers, progress loops, queued texts | handle a report, track progress, send, edit, stop | `Aria2Events` |
| Lifecycle reconciler | `rte/reconciler.go` | instances with the graph they were started on | `Reconcile` | `Reconciler`, `ResourceOwnership` |
| Component runtime, event bus, runnable groups | `rte/{rte,reconcile_components,reconfigure}.go`, `rte/{eventbus,schedule}` | instances, ports, work under way | `Start`, `Stop`, `ReconcileComponents`, `Reconfigure` and its batch, `Publish`, `Resolve` | `ComponentRuntime` |
| Account connections and logins | `bsw/cdd/tgauth`, `application/account.telegram` | the transport, its users, replacements; prompts; stored sessions | `Open`, `Run`, `Replace`, `BeginLogin`, `Stop`, both login flows, deletion, selection | `Account` |
| HTTP download service, range proxy, connection pool | `app/http`, `application/proxy.range`, the pool of `bsw` | links with a TTL, sources, streams, pool generations, delivery record | request, stream, retry, renew, report, expire, resize, stop | `Delivery` |
| Watcher, triggers, download control, naming and filter rules | `app/watch`, `application/trigger.*`, `application/download.control`, `application/{filter,naming}.rules` | updates, claims, intents, pending calls, batches | react, submit a link, dispatch, batch, route, drain | `Intake`, `Naming` |
| Application manager, process supervisor, configuration, self update | `app/runtime`, `rte/{process,directory}.go`, `application/configuration.manager`, `application/update.self`, `main.go` | the file, revisions, transitions, invocations, requests, executables | boot, save, toggle, reboot, update, reset, shut down, recover | `Daemon`, `Configuration` |

How they meet. The daemon boots the hosts and lets the reconciler start and stop what
the configuration asks for; a host is a component runtime. The watcher runs on the
account's transport and hands updates to the triggers, which publish intents. The
download control turns an intent into a link and offers it to aria2 or the local
downloader; both fetch bytes through the HTTP service and the scheduler. The router
feeds the forward queue, whose worker calls the sender. The queue, the local
downloader, aria2 and the links keep their records in `taskhub`, whose `Update` is a
transaction; all that happens between two transactions interleaves.

What makes each part correct, in short: nothing acquired is lost or given back twice;
nothing is started twice or used after it was stopped; a durable record says what
happened, whatever died between the deed and the record; a message is downloaded and
forwarded once unless the reason is known; what a user said last prevails over
automation and over older readings; every call returns and every stop ends.

## 2. Modules

| Module | Lines | Composition |
|---|---|---|
| `DownloadScheduler`, `DownloadSchedulerProofs` | 568, 2951 | |
| `ForwardSender`, `ForwardQueue` | 84, 478 | the queue EXTENDS the sender: an attempt has one of `Attempt(m)`'s outcomes |
| `ForwardRouter` | 393 | |
| `ForwardJobs`, `ForwardProofs` | 35, 2054 | proofs about the router and the queue |
| `LocalDownloader`, `LocalDownloaderProofs` | 461, 1427 | |
| `Aria2Control` | 501 | one control in detail |
| `Aria2Governors`, `Aria2Events` | 414, 280 | the listener EXTENDS the governors: their controls are the reports it receives |
| `Aria2Automation`, `Aria2Proofs` | 42, 3150 | proofs about the controls, the governors and the listener |
| `ResourceOwnership`, `Reconciler` | 50, 369 | the reconciler implements the abstract lifecycle |
| `ComponentRuntime` | 459 | runtime, bus and groups in one: they share goroutines and contexts |
| `Configuration`, `Daemon` | 82, 555 | the saves use the document operators |
| `RuntimeHost`, `DaemonProcess`, `RteProofs` | 33, 32, 5800 | proofs about the reconciler, the component runtime and the process |
| `Account`, `AccountProofs` | 592, 2377 | transport, users, logins and session store |
| `Delivery`, `DeliveryProofs` | 632, 4650 | link store, proxy, stream, pool and delivery record |
| `Naming`, `Intake`, `IntakeProofs` | 159, 534, 4999 | the batch uses the naming operators for its targets |

An `MC` module with a `.cfg` of the same name instantiates each of the twelve
compositions. A `...Proofs` module EXTENDS the modules it is about; its lines are
hierarchical proofs, of which a reader needs the definitions at the top of each part and
the theorems. Where one proof module is about several components, all but one of them are
reached through a small module that gives an instance constants and variables of its own
and states its properties under their names: `ForwardJobs` for `ForwardQueue`,
`Aria2Automation` for `Aria2Events`, `RuntimeHost` for `ComponentRuntime`, `DaemonProcess`
for `Daemon`. The runs of these components check the specification and the properties of
that small module, which are those of the instance.

Conventions. A critical section of a mutex, or one store transaction, is one action;
what the code does between two of them is several. Histories are variables marked
"history" that no guard reads (one exception: the id of a command job, random in the
code, is not drawn twice). Outside events (controls, faults, crashes, cancellations,
arrivals) are counted against `MaxEvents`. In the larger modules a behaviour draws one
of `Scenarios` at its start, a set of kinds of outside events, and meets only those:
every pair that can get in each other's way is in some scenario. Definitions introduced
as a slip, or in pairs such as `Removable` / `RemovableEarly`, are the mistakes used by
the mutants; no action uses them.

**DownloadScheduler.** A Go `*taskState` is named by the request that allocated it,
so an old lease and a new registration are told apart. `dispatching` is the set of
DCs whose `dispatchLocked` loop is under way; it is non-empty exactly while the mutex
is held, and each turn of the loop is one step. Every `select` on a context has a
cancellation action of its own.

**ForwardQueue, ForwardSender.** `wpc` walks through `Serve`: recover, pick (with
pruning), activate, claim, send, result, wait. Time is two sets: `later` (backoff not
over) and `expired` (past the retention). `Attempt(m)` is the set of outcomes of one
attempt at a message: the error, the posts that reached Telegram and what had to be left
out, computed along the code's fallbacks (direct, copy by reference, upload, text only),
where every request may post and lose its answer. `excuse` records the events after
which the code may send a second time.

**ForwardRouter.** A call is a process with the stages of `SubmitMessage` or
`Interested`. An automatic message goes by its rule, or is looked for in the listening
list, entry by entry (`Walk`), and has no destination when nobody listens to it; an
outgoing one has none either. `peerMu` is held across a lookup, which may fail or find the
channel without its discussion; both are cached. A claim has an owner and, once settled,
is accepted or gone; waiters are woken and look again.

**LocalDownloader.** A record carries `gen` for `CreatedAt` and `run` for
`StartedAt`, a file an `ino`, because the code tells a recreated task from a
restarted one by these times and an old handle writes to the unlinked file. A write
is one unit of `Total`. `Delete` takes no lock, so every deleter is a process of three
steps (mark, remove the file, remove the record), each of which may fail. `contested`
(history) marks a record made while a deletion or a listing that began on its predecessor
was between two steps.

**Aria2Control.** One link and a few gids. The fence is a Boolean: a control holds it
for at most 30 s of remote calls and 5 s of storing, less than its minute, so it expires
only after the control died or could not store its result. The daemon answers a pause or
a removal before it has carried it out, and reports the task as active until then.
Governors may act at any time here. A bulk operation is one control per listed task, with the record read before
the listing.

**Aria2Governors, Aria2Events.** One control is one step here; what it leaves behind
and may return is kept. Times are ages in ticks, capped where the code stops telling
them apart. `excused` holds the tasks for which a resume was refused by an error the
code does not retry. Every change of the daemon puts a report into the listener's
`inbox`; handlers of one task run at once and in any order.

**Reconciler.** `Begin` is the whole of the code before the first stop; then each stop
and start is a step, between which a resource may end and the context be cancelled. The
code sorts units by name within its depth-first search; the model takes every order the
dependencies allow. `met` (history) says that the present call was refused, was cancelled
or had something fail.

**ComponentRuntime.** `phase` is what the holder of `Runtime.mu` does. Objects have
incarnations; `objects` (history) has those whose factory ran and whose `Stop` did not
yet succeed. A runnable or handler records the incarnations it uses.

**Account.** The process runs account `cur`; `other` is any other namespace. A session is
the number of the login that stored it, and a transport carries the one it runs on. The
protocol client is external: it connects, fails, or writes its session at any time.

**Delivery.** A byte is its position in the file, so that order, gaps and repetitions
show in what a client received. Windows and alignment are small numbers with the code's
relation. HTTP requests stream with one fetcher, local downloads with several.

**Naming, Intake.** A name is a sequence of runes of one or three bytes; templates,
limits, shortening and numbering are operators on them; the search for a title that fits
and the search for a free number are the loops of the code. Executors are seen through
their port: a call is refused, accepted, or ends in an error that does not tell which.

**Configuration, Daemon.** A document has system settings and, per component, a switch
and values; reading completes, migrates and validates it. The saves of the panel are
steps as the locks of the directory and the configuration service divide them. A process
boots, snapshots, runs transitions, shuts down and decides what follows; the update
helper's renames are steps between which it may die.

## 3. Runs

| Run | States | Instance |
|---|---|---|
| `scheduler` | 1,729,215 | four requests for two files, one with a wrong DC; a chunk on each of three leases; capacity 0 (one lane) or 2; one reconfiguration, one cancellation |
| `forward_queue` | 461,596 | a routed album with a protected part, a protected command job; two policies; four events of eight kinds; deadlock is checked |
| `forward_router` | 325,256 | three calls in four mixtures of automatic, manual and outgoing messages and questions; two listened sources, one with a discussion; a rule with two targets; one fault, one expiry each of claim and cache |
| `local_downloads` | 376,522 | two tasks, a queue of one, two executions, two deleters at once, four events of seven kinds |
| `aria2_control` | 1,629,162 | scenarios: pausing (user, governor, lifecycle, observer, a daemon that lags in pausing), deleting (two users, lagging daemon, replaced link, retention), retrying what failed or fell short (two users, three gids, retention) |
| `lifecycle` | 97,070 | three resources, six plans, five events |
| `components` | 331,930 | provider, consumer, optional consumer; queues of one; three calls, two faults |
| `account` | 647,328 | watcher, probe, two transports, two prompts; six scenarios of three events |
| `delivery` | 220,684 | two requests for a file of two windows or an empty one; one lane; nine scenarios of two events |
| `intake` | 789,332 | an album, a single message, two link calls, queues of one; eight scenarios of three events |
| `daemon` | 530,488 | two panel calls, three initial files; eleven scenarios of four events |
| `governors` | 585,622 | two own tasks and a foreign one, two handlers, three loops; eleven scenarios of five events |

**Why the bounds are enough.** Races here are between two actors about one object, so
each run has two actors per role, or two where one is the "old" holder. A queue of one
place is always at its limit. Outside events are what is bounded; what the program does
by itself is not. The violation of every mutant is found within these bounds, and every
action of every module happens in its run. A stream has two windows because retries, cuts and the order
of parallel fetchers already differ with two. Three gids allow a retry of a retry. Three
progress loops allow one that is replaced twice.

With one lane two chunks wait at once, for one file or for two, which is what
`NoOvertaking` needs; two deleters are the panel and the bot.

Three properties speak of less than one might wish, because the code does: the user's
pause in `ControlsPrevail` is the one the record shows, which an observation of a task that
aria2 has not paused yet takes back; `RetriedOnce` counts replacements for as long as the
tombstone of the old task is kept; `CompleteMeansWhole` leaves out `contested` records.
All three behaviours are in the model and happen in the runs. See section 4.

**Deadlock** is checked in `forward_queue`, whose worker never stops, and in `scheduler`,
where the system may rest only when every request and chunk has returned
(`Terminated`). In the other runs
the system may really stop: all calls have returned, or the outside events are used up;
there the liveness properties say that it stops only in a settled state.

### Properties

Each property of a run is a conjunction of named parts, which carry the comments.

* `scheduler`: `TypeOK`; `Conserved` (no over-release panic, lanes and tokens equal what
  is held, one allocation per task); `LeasesServed` (a lease stays usable, no lane or file
  token idles beside a waiter, whoever waits is known to the one who will wake it);
  `NoOvertaking`.
* `forward_queue`: `WorkerTracksStore`; `RecordsTrue` (no foreign result, done means
  posted, retry budget); `DuplicatesExcused`; `ControlsHold` (pauses hold, jobs settle).
* `forward_router`: `DrainedOnce`, `QuietAfterStop`, `StoredExactly` (once per TTL, what
  was accepted and wanted is stored, what nobody wants is not), `CallsReturn`.
* `local_downloads`: `OneExecution`, `CompleteMeansWhole`, `ControlsHold`.
* `aria2_control`: `OneControl` (one control per gid at a time), `GoneStaysGone`,
  `ControlsPrevail` (the user's pause, no stale reading, one replacement per retry).
* `lifecycle`: `BooksAgree` (stopped in the graph it was started in, nil means reached, an
  error is the call's own), `OwnershipKept` (refinement of `ResourceOwnership`),
  `CallsRecover` (every call returns, with nil unless it met a failure itself).
* `components`: `PortsSound`, `WholePolicy`, `HostSettles`.
* `account`: `TransportOwned`, `SessionIsLatest`, `AnswersPrompt`, `OwnerSettles`.
* `delivery`: `BytesExact` (clients get a prefix of what they were promised, the record
  the union of whole responses), `NothingStranded`, `AllSettles`.
* `intake`: `SubmittedOnce` (one intent per reaction, one executor per item, nothing over
  a released connection), `AnswersRight` (local paths of a batch are sound and differ, a
  caller is told of its own link), `AllSettles`.
* `daemon`: `RequestsHonoured`, `ProcessSound`, `AllSettles`.
* `governors`: `AutomationOwned`, `Justified`, `AllSettles`.

### Fairness

Outside events are never fair: nobody is obliged to call, cancel, fail or crash.

* Delivery, intake, daemon, governors: weak fairness of the disjunction of
  all the program's own steps. It says only that the program goes on while it can, and
  is enough because the properties have the form "from some point on all is settled".
  Calls over the network end by their time-outs, and lease holders release in a `defer`.
* Queue: weak fairness of `Serve` (the supervisor restarts it), of the worker's steps
  and of time (`BackoffElapses`). `JobSettles` excludes a failed storage operation: a
  result that cannot be stored leaves the job running until the next `Serve`.
* Router: weak fairness of calls inside and of `StopReturns`.
* Local downloads: weak fairness of the worker and the executions; strong fairness of `EnqueuePending` for an id, since scans repeat over a map in random order
  while the loop drains the queue.
* Lifecycle: weak fairness of `Step`, the steps of a call that was made (stops are bounded
  by `moduleStopTimeout`). No code repeats a failed call, so none is assumed to.
* Components: weak fairness of the holder of `Runtime.mu`, of a repeated `Stop` once
  stopping has begun, and of the end of work that was begun (handlers obey their context).
* Account: weak fairness of each user, transport, login flow, owner, restart and
  dispatcher (`FairSpec`); a login that waits for a person is ended by the stop of the
  owner.
* Scheduler, aria2 control: none; their runs check safety only. That a waiter of the
  scheduler is not forgotten is a safety property (`NobodyForgotten`).

## 4. Observations

What modelling showed about the code that a maintainer may want to know. Where a
property meets one, its comment or the hazard's note names the exception.

*Forwarding.* After the history limit pruned the record of a routed job, a replayed update
is sent again. A direct forward whose answer is lost falls back to a copy in the same
attempt. A part of an album that cannot be copied is left out, and a single medium falls
back to its text; the job is reported done.

*Local downloads.* `refreshRecordFromDisk` takes the size before its transaction, which
compares neither `CreatedAt` nor `StartedAt`: a task deleted and submitted again in
between is marked complete without a file. `Delete` takes no lock either: of two deletions
of one task the slower may reach its `os.Remove` after the task was submitted again, and
remove the new file, also a complete one, then the new record.

*aria2.* `automatic_control.go` (12-14) says that a delayed recovery "cannot undo the user's
choice". That holds of the record: while the daemon still reports the paused task as
active, an observation overwrites the stored pause, and a governor that pauses the task
next owns it and may resume it. When a retried task's old result
could not be removed, it can be retried again after its tombstone expired. A lost answer to an
automatic pause leaves a pause without an owner, which recovery does not resume; a resume
refused by an error other than a connection error waits for the next start. The revision
of a record starts again after its link was removed. A submission whose record could not
be stored removes the gid and still counts as accepted. The listener's handlers run
concurrently: a progress loop may start after the end of its task, and an edit under way
may land after the final one. A stop that arrives while the manager starts its first
governors returns early, past the pause that the comment at the third describes.

*Delivery.* `task_store.go` says a queued or running download cannot have its link expire;
the clock is touched when the download is opened only. Renewal by a running stream stores
a link again that was removed meanwhile. A reference that Telegram always refuses is
renewed without a bound.

*Intake.* Intents on the bus are dropped when the connection ends, while the claims of
their reactions stay. An ambiguous error of `AddURI` is counted as skipped. When a
template renders nothing, "." or ".." for the file itself, `ResolveTargetPath` takes the
last directory of the rendered name as the file name; the limit in bytes was applied to
the dropped part, and the extension may be lost with it. `SoundTarget` leaves this case
out.

*Account.* The bot login asks for the credentials of the target namespace, which
`Credentials.Resolve` refuses for every account but the running one. `restartWatch` waits
without a time-out. The test for a replacement under way in `Replace` cannot succeed for a
login, which owns its account already.

*Daemon.* A reboot and an update requested at the same time may cancel each other out. A
shutdown that fails exits with 1 and drops the request. When the new executable cannot be
installed the helper puts the old one back and does not start it. After the panel saved
`debug`, `SelectNamespace` meets a conflict until the next start.

The bot's handlers are given 5 s and may outlive `Run` (`bot.go` 331-336); `CleanExit`
speaks of the panel's requests only.

*Lifecycle.* A shutdown whose stop fails logs "instances retained for retry" and returns;
nothing calls again. `Reconciler` never forgets an instance, so requirements of removed units
accumulate (`reconciler.go:116`); the production graph does not change.

## 5. Proofs

Eight modules prove theorems of the specifications that the runs check, for every value
of the constants. They rest on the assumptions named in the component modules
(`SchedulerAssumption`, `QueueAssumption`, ...), which TLC evaluates in every run: sets
are finite where they are counted, bounds and thresholds are natural numbers, policies
allow an attempt, the wiring of components is acyclic as `Build` demands, "none" is not the
name of a release, the files a process may find are documents, templates and media are
made of runes, and the printed numbers differ, contain neither a parenthesis nor a letter
and are more than an album has media. Each theorem has the shape `Init => Inv`,
`Inv /\ [Next]_vars => Inv'`, `Inv => Property`: there is a lemma per action that the
action keeps `Inv`, and frame lemmas for what an action leaves alone. Theorems marked with
the property's name in `PROJECT.json` state exactly what the run of that name checks;
where the run needs fairness (`FairSpec` of the component runtime, the account, the
queue), the theorem is about the specification without it and so holds with it.

**Scheduler** (`TypeCorrect`, `BooksConserved`, `LeasesAreServed`, `NobodyOvertakes`).
Types alone are not inductive: `ReleaseTask` follows `obj[r]`, which may be nil; `TInv`
adds that whoever dereferences a pointer has one. That lanes and tokens in use equal
those held, and that neither over-release panic is reachable, needs all of the books at
once: `refs` counts the requests that point to an object, and they point to the
registered one (`RefsInv`); an object has one activator, and leases point to active
objects (`ActivationInv`); the list of a DC has its active objects, once each (`DCInv`);
a queued chunk is queued once, at its own object, ungranted (`WaitersInv`); lanes are
held on active objects (`LanesInv`). `WorkInv` (a DC that nobody dispatches has no waiter
or no free lane) and `ParkInv` (a parked activator found the budget used up, and a
request behind an activator has one at work) give `LeasesServed`. One lemma shows that the branch of
`completeActivation` that hands a won token back cannot be reached: no other request can
have become the activator.

**Router** (`RouterDrains`, `RouterQuiet`, `RouterStoresExactly`, `RouterTyped`). `DInv`
says that `active` is the number of calls inside and that the channel is closed exactly
when a closed router is empty; neither can be shown without the other, because the last
call and `Stop` decide by the counter. `SInv` accounts for what is stored: the stage of a
call says which route it took, and that the entries it has walked past do not match unless
one could not be resolved (`RouteOf`); a call that saves owns the claim of its message
(`Owns`), a claim says whether its message is stored, and the number of stored jobs never
exceeds the claims that have expired by more than one (`ClaimBooks`).

**Forward queue** (`QueueTracksStore`, `QueueRecordsTrue`, `QueueDuplicatesExcused`,
`QueuePauseHolds`, `QueueTyped`). `WorkerTracksStore` needs that a job in its backoff is
not the one the worker has picked (`BackoffInv`). The
retry budget needs that the attempt the worker counts is the stored one while the record
is running and that a job that may still be picked has attempts left under some policy it
was judged by (`BudgetInv`); "sent twice" needs that a message sent without an excuse is
recorded, or about to be by the worker that sent it (`DupInv`).

**Local downloader** (`DownloaderOneExecution`, `DownloaderCompleteWhole`,
`DownloaderStaleHarmless`, `DownloaderTyped`). `ExecInv`: a busy execution is in the
active set, and no two are busy with one id. `WholeInv` follows what each execution knows
of its file: as long as the record it read is the live one, the file on disk is the one
it has open and as long as it believes. Any number of deletions at once, each in three
steps, and submitting again between them are what that has to survive: a deletion with the
file still to remove has a record that is gone or contested, and so has a listing whose
size is out of date (`CallsInv`).

**aria2 control plane** (`ControlsExcludeEachOther`, `GoneIsGone`). While the first link
stays, a lease is backed by the stored fence (`Fenced`) and a gid has one lease
(`Alone`); a stored tombstone is never an absent record (`Tombs`), so that neither a late
reading nor a late registration takes it for a new task. After the link is replaced,
records and revisions start again and exclusion is not claimed, as in the run.

**Account** (`AccountTransportOwned`, `AccountSessionLatest`, `AccountAnswersPrompt`).
Only the current connection has a transport (`ConnInv`), whoever is inside `Run` is on it
(`UserInv`), a login owns its account alone and stores its session only with the account
to itself (`OwnerInv`), a handler about to be called belongs to a `Run` that is still
inside or to an entry that is closed (`HandlerInv`), and what was typed belongs to the
open prompt (`WebInv`).

**Reconciler** (`ReconcilerImplementsOwnership`, `ReconcilerBooksAgree`,
`ProvidersProtected`, `ReconcilerProtectsProviders`). The refinement of
`ResourceOwnership` is proved step by step: initial states map to initial states, and
every step is an abstract step or a stutter. Its invariant says that an owner is recorded
with the graph it was started in (`Books`), that what restarts includes its consumers in
that graph (`StopInv`), and that what was passed in the start loop runs, is off, or waits
for a provider that was passed and does not run (`StartInv`). That a call returning nil
has reached the plan would be an induction along the graph; it is proved instead by
looking at a minimal unit that is not reached, which exists because the plan can be
ordered. That an error is the call's own follows from `MetInv`: a call with an error to report or a
cancelled context has met it, because `Begin` forgets what earlier calls met.
`ProvidersProtected` is a theorem about the abstract specification, and
`ReconcilerProtectsProviders` carries it over.

**Component runtime** (`HostPorts`, `HostPolicy`, `HostTyped`). `PortsSound` is about
objects and work, and needs to know where the holder of the mutex is. `HostOwned` ties
instances, objects, ports and tasks together: an initialized instance has one object, a
bound port is of the present incarnation, work uses objects that exist. `Current` says
that a running component holds the ports that are bound now. Both survive a call only
because of what its loop has done so far: the start loop goes along the wiring
(`Booting`), the drain has stopped whoever uses what it is about to stop (`Draining`), a
stop joins the groups before it releases objects (`Halting`). `Configured` gives
`WholePolicy`: who runs has the configuration let through last, but for those the commit
has not reached; `Bounded` keeps incarnations from being reused.

**Governors and listener** (`EventsOwned`, `EventsJustified`). `GovInv`: no governor runs
outside its phase of the manager (`Dormant`), foreign tasks have no owner (`Unowned`),
before the governors start again what automation left paused is resumed, about to be, or
excused (`Resuming`), and the stall clock of the monitor is never ahead of what it saw
(`Clocked`), which makes a cycle justified. `EvtInv`: a loop that runs is the entry of its
task (`Tracker`), and stops wait for handlers, loops and texts (`Ending`, `Silenced`).

**Daemon** (`DaemonHonoured`, `DaemonSound`). `FileInv` follows each call of the panel
between its reads and writes under the two locks: what it has read is what is stored as
long as that matters to what it will write; so the file is always what the acknowledged
changes make of it. `LifeInv`: a phase of the process says which invocations and
transitions may be left. `UpdateInv`: before each rename of the helper there is what it
renames, so that a whole executable exists at every moment, whichever rename fails or
whenever the helper dies. `RequestInv`: as long as no two requests wrote at once, the
flags are those of the last one, or of the one between its two writes.

**Intake** (`IntakeSubmittedOnce`, `IntakeAnswersRight`). `ReactInv`: updates on their way
tell the account's reaction in order, and between one without it and a later one with it
the reaction was added (`Told`); from this, intents published for a message never exceed
the times it was added, whatever is told again (`Owed`, `Claiming`, `Served`). `BatchInv`:
nobody took an item that is still open. `ConnInv` is the order in which a connection is
drained, `LinkInv` ties calls, links, intents and the dispatcher to the run of the
controller. `NameInv` is about the targets of a batch: while it is prepared, a planned
item has the target of its file; once made unique, targets are sound and differ. It rests
on lemmas about the operators of `Naming` for all names and limits: a truncated name has
no more bytes than allowed (`TruncateIs`, `LimitIs`) and keeps its extension
(`ExtOfSuffix`), the binary search finds only titles that fit (`SearchFinds`), every
medium has a sound target (`TargetIs`), two numbers never give names that are equal or
differ in case only (`NumbersDiffer`), hence among more numbers than names taken one is
free (`TryEnds`, an injection into the names taken), and what `Unique` returns is sound
and pairwise different (`UniqueIs`).

**Delivery** (`DeliveryStrandsNothing`, `DeliveryBytesExact`). For the first the source
counts the streams (`Counted`), a held refresh lock has a fetcher that renews (`Locked`),
fetchers run in a stream (`Inside`), a call of the open pool has a generation that is not
closed (`Kept`) and a retired generation has such a call (`Closable`). `Numbered` is what
makes it inductive: every pool and channel that somebody still remembers has a number up
to that of the holder, so a new one is never taken for an old one. The second has an
invariant of its own, `Exact`: what a request has sent is what its ranges promise up to
the position of its stream (`Served`), what a fetcher holds is the part of the file its
job is for (`Fetched`), and the record of the link is made of the whole responses
(`Accounted`).

**Induction over data.** The library's induction theorems cannot be used here, but sets
can: a set of naturals that is not empty has a least element (`LeastNat`, from the
well-foundedness of `<`), so a set with 0 and every successor has all numbers up to n
(`UpTo`), and a loop of n steps has a run (`LoopRuns`). This is how the loops written as
recursive functions are proved about: sorting and merging ranges and adding up their bytes
in `Delivery`, expanding a template, the binary search and placing targets in `Naming`.

**What proving changed in the models.** A disjunction in `Account` bound more tightly
than meant, so that a stopping transport could take a step of another branch; it was
corrected. In `Delivery` a call of an earlier pool counted as a lease of the same
generation number in a new pool, which the code's generations, objects of their pool, do
not allow; leases now belong to the pool of their call. One replacement per retry
(`RetriedOnce`) was stated as if it held in every scenario; it does not survive crashes
and refused writes, so it moved to `ControlsPrevail`, next to the bounds it needs. In
`Naming` the numbers tried for a name were one too few, so that no number was found for
two files with the same name that already ends in the number 2; numbers had one digit; and
the limit in bytes was stated for names that `ResolveTargetPath` takes from a directory
(section 4). The run now has an album of the first kind.

**Only model-checked.** All liveness: fairness and `ENABLED` are outside the prover, so
of both `ControlsHold` the action properties are proved and the rest is not.
`ControlsPrevail` has no theorem: its part `RetriedOnce` does not survive every
combination of crashes and refused writes, only those of the scenarios. What the operators of `Configuration` compute is taken as it
is defined: the proof about the file compares documents, whatever migration makes of them.

## 6. Not modelled

* Forwarding rules: pure matching of sources; `ForwardRouter` takes the result as data.
* Telegram client plumbing: wrappers around the library. Where a result matters it is a
  nondeterministic outcome of `Account`, `Delivery` and `ForwardSender`.
* Key-value store: transactions of its drivers are taken as atomic.
* Time synchronisation and logging: nobody the models speak of reads their results.
* Smaller simplifications: all requesters of an update share one downloaded file; the
  three governors are started together; `EmptyPreserves` of a form field that is not in
  the schema; one text at a time waits on the notification bus; the user's notification
  flags are a free choice of the handlers. The comments at `Download`, `Launch`, `Kept`,
  `Enqueue` and `HandlerTells` say what the code does instead.
* The panel's and the bot's views, sessions, log tables, command parsing and texts.
* The panel's operations on lists of tasks and links (`Catalog`, `LinkControl`): loops
  that call one backend after another; the calls themselves are modelled where they live.
* Choosing and unpacking a release, deleting the data directory: one step of `Daemon`.
* Task hub snapshots and the encoding of records: their transactions are the atomic steps
  of the modules that use them.

## 7. Plan

1. (done) core: scheduler, forward queue and router, local downloader, aria2 control
   plane, reconciler; first theorems.
2. (done) the rest of the system: component runtime, account, delivery, intake, daemon,
   governors and listener, forward sender.
3. (done) proofs of the safety properties of every run, with the inductive invariants of
   section 5, and of the reconciler's refinement.
4. Proofs still open: the pauses and readings of `ControlsPrevail` (`UserPauseKept`,
   `NoStaleObservation`) for any scenario.
