------------------------------ MODULE Delivery ------------------------------
(***************************************************************************)
(* The download of one link: the store of the link (app/http/task_store,   *)
(* taskhub collections), the range proxy that answers HTTP requests for it *)
(* (application/proxy.range), the stream of its bytes from Telegram with   *)
(* retries and renewal of the file reference (app/http/session,            *)
(* telegram_source), and the record of what was delivered.                 *)
(*                                                                         *)
(* A byte is its position in the file.  A local download worker streams    *)
(* through the same code with several fetchers (StreamParallel); an HTTP   *)
(* request uses one.  The slots of the scheduler are DownloadScheduler's.  *)
(***************************************************************************)
EXTENDS Integers, Sequences, FiniteSets, SequencesExt, FiniteSetsExt

CONSTANTS
    Requests,    \* HTTP requests and local downloads, numbered as they arrive
    Fetchers,    \* fetchers of one StreamParallel (the capacity of its lease)
    Lanes,       \* upload.getFile calls a DC takes at a time
    Sizes,       \* file sizes in bytes
    Window,      \* telegramGetFileFragmentWindowSize
    Align,       \* telegramGetFilePreciseAlignment
    Asks,        \* what a GET may ask: Range specs and the size its If-Range names
    LinkTTL,     \* link_ttl_hours, in ticks
    RefreshGap,  \* downloadTaskRefreshInterval(LinkTTL)
    MaxRetries,  \* telegramChunkMaxRetries
    MaxRefs,     \* bound on the file references Telegram gives out
    Scenarios,   \* sets of kinds of outside events; a behaviour meets those of one set
    MaxEvents    \* bound on outside events

VARIABLES
    now, ttl,    \* the clock and taskStore.ttl (0: links never expire)
    link,        \* the stored link, NoLink if there is none
    remote,      \* Telegram: the valid file reference and the size of the file
    file,        \* the size of the complete local download on disk, -1 if there is none
    pool,        \* poolHolder: pool (0: nil), changed (0: nil), gen
    conns,       \* the connections of the last pool: its resizable generations
    source,      \* the link's entry in sourceRegistry
    svc,         \* the HTTP server and its range handler
    req, fetch,  \* requests and their fetchers
    credits,     \* history: the bytes, with the file's size, of every reported response
    kinds, events

vars == <<now, ttl, link, remote, file, pool, conns, source, svc, req, fetch, credits, kinds, events>>
storeVars == <<now, ttl, link, credits>>
outside == <<remote, file>>
pools == <<pool, conns>>

ASSUME DeliveryAssumption ==
    /\ Requests \subseteq Nat /\ Fetchers \subseteq Nat /\ 1 \in Fetchers
    /\ Lanes \in Nat \ {0} /\ Sizes \subseteq Nat
    /\ Align \in Nat \ {0} /\ Window \in Nat \ {0} /\ Window % Align = 0
    /\ \A ask \in Asks : ask.specs \in Seq([first : Int, last : Int]) /\ ask.etag \in Int
    /\ {LinkTTL, RefreshGap, MaxRetries, MaxRefs, MaxEvents} \subseteq Nat
    /\ \A S \in Scenarios : S \subseteq {"get", "head", "worker", "expire", "pool", "fault", "leave", "stall", "stop", "tick",
                                         "ttl", "remove", "relink", "resize", "file", "idle", "capacity"}

NoLink == [size |-> -1]
NoSource == [live |-> FALSE, ref |-> 0, ver |-> 0, refs |-> 0, lock |-> <<>>]
NoReq == [at |-> "idle", kind |-> "get", ranges |-> <<>>, k |-> 1, size |-> 0, ref |-> 0, job |-> 1,
          next |-> 1, active |-> 0, ctx |-> "live", chg |-> 0, pool |-> 0, sent |-> <<>>, bad |-> FALSE, stuck |-> FALSE]
NoFetch == [at |-> "idle", job |-> 0, gen |-> 0, ref |-> 0, ver |-> 0, size |-> 0, tries |-> 0, data |-> <<>>]

(* newResizable: one generation, nothing retired, nothing being closed.    *)
NewPool(p) == [of |-> p, open |-> TRUE, cur |-> 1, retired |-> {}, closing |-> {}]

Init ==
    /\ now = 0 /\ ttl = LinkTTL
    /\ \E n \in Sizes :
          /\ link = [size |-> n, ref |-> 1, active |-> 0, dsize |-> 0, ranges |-> <<>>, done |-> FALSE]
          /\ remote = [ref |-> 1, size |-> n]
    /\ file = -1 /\ pool = [cur |-> 1, changed |-> 0, gen |-> 1] /\ conns = NewPool(1)
    /\ source = NoSource /\ svc = "up"
    /\ req = [r \in Requests |-> NoReq] /\ fetch = [r \in Requests |-> [f \in Fetchers |-> NoFetch]]
    /\ credits = {} /\ kinds \in Scenarios /\ events = 0

Event(k) == k \in kinds /\ events < MaxEvents /\ events' = events + 1 /\ UNCHANGED kinds
Quiet == UNCHANGED <<kinds, events>>

-----------------------------------------------------------------------------
(* Range headers (proxy.range/handler.go).  A spec is [first, last] with   *)
(* -1 for a part left out; last alone is a suffix.                         *)

(* One spec cut to the file: <<>> when it does not overlap, <<-1, -1>>     *)
(* when it is malformed.                                                   *)
ParseSpec(spec, size) ==
    CASE spec.first < 0 /\ spec.last <= 0 -> <<-1, -1>>
      [] spec.first < 0 /\ spec.last > 0 ->
             IF size = 0 THEN <<>> ELSE <<size - Min({spec.last, size}), size - 1>>
      [] spec.first >= size -> <<>>
      [] spec.first \in 0..(size - 1) /\ spec.last < 0 -> <<spec.first, size - 1>>
      [] spec.first \in 0..(size - 1) /\ spec.last \in 0..(spec.first - 1) -> <<-1, -1>>
      [] OTHER -> <<spec.first, Min({spec.last, size - 1})>>

(* parseDownloadRanges goes on to the next spec after one that does not    *)
(* overlap.                                                                *)
Overlapping(parsed) ==
    LET kept[i \in 0..Len(parsed)] ==
            IF i = 0 THEN <<>>
            ELSE IF parsed[i] = <<>> THEN kept[i - 1] ELSE Append(kept[i - 1], parsed[i]) IN
    kept[Len(parsed)]

Length(range) == IF range[2] < range[1] THEN 0 ELSE range[2] - range[1] + 1
Total(ranges) == FoldLeft(LAMBDA n, range : n + Length(range), 0, ranges)

(* The ranges of the response: those asked for, or the whole file when     *)
(* there are none, when If-Range names another representation, or when     *)
(* they add up to more than the file; 416 is <<>>.                         *)
ResponseRanges(ask, size) ==
    LET whole == <<<<0, size - 1>>>>
        parsed == [i \in 1..Len(ask.specs) |-> ParseSpec(ask.specs[i], size)]
        ranges == Overlapping(parsed) IN
    IF ask.specs = <<>> \/ (ask.etag # -1 /\ ask.etag # size) THEN whole
    ELSE IF \E i \in 1..Len(ask.specs) : parsed[i] = <<-1, -1>> THEN <<>>
    ELSE IF ranges = <<>> THEN IF size = 0 THEN whole ELSE <<>>
    ELSE IF Total(ranges) > size THEN whole ELSE ranges

(* buildDownloadChunkJobs: one request per 1 MiB window, aligned to 1 KiB. *)
AlignUp(n) == ((n + Align - 1) \div Align) * Align
Job(range, i) ==
    LET start == (range[1] \div Window + i - 1) * Window
        from == Max({range[1], start})
        to == Min({range[2], start + Window - 1})
        offset == from - (from % Align) IN
    [offset |-> offset, limit |-> Min({AlignUp(to + 1), start + Window}) - offset,
     skip |-> from - offset, take |-> to - from + 1]
Jobs(range) == range[2] \div Window - range[1] \div Window + 1

(* upload.getFile returns what the file has there; sliceTelegramChunk cuts *)
(* the bytes asked for out of it.                                          *)
Reply(job) == [i \in 1..Max({0, Min({job.limit, remote.size - job.offset})}) |-> job.offset + i - 1]
Slice(data, job) == SubSeq(data, job.skip + 1, job.skip + job.take)
Short(data, job) == job.skip + job.take > Len(data)

-----------------------------------------------------------------------------
(* The link store *)

Expired(l) == ttl > 0 /\ l.active + ttl <= now
Swept(l) == IF l # NoLink /\ Expired(l) THEN NoLink ELSE l

(* taskStore.Get: an expired link is deleted, a live one is touched.       *)
Touched(l) ==
    IF ttl > 0 /\ now - l.active >= RefreshGap THEN [l EXCEPT !.active = now] ELSE l
Got == IF Swept(link) = NoLink THEN NoLink ELSE Touched(link)

(* taskStore.Add: sweep, then merge the metadata into what is there; the   *)
(* fields of the delivery stay, and the activity clock only moves forward. *)
MergeForgetful(l, size, ref, active) ==
    [size |-> size, ref |-> ref, active |-> active, dsize |-> 0, ranges |-> <<>>, done |-> FALSE]
Merge(l, size, ref, active) ==
    IF l = NoLink
    THEN [size |-> size, ref |-> ref, active |-> active, dsize |-> 0, ranges |-> <<>>, done |-> FALSE]
    ELSE [l EXCEPT !.size = size, !.ref = ref, !.active = Max({@, active})]
Added(size, ref, active) == Merge(Swept(link), size, ref, active)

Stored(l) == link' = l /\ credits' = IF l = NoLink THEN {} ELSE credits

(* mergeHTTPDeliveryRanges: cut to the file, sorted, and joined with the   *)
(* one before where they overlap or touch.                                 *)
Before(a, b) == a[1] < b[1] \/ (a[1] = b[1] /\ a[2] < b[2])
InOrder(S) ==
    [i \in 1..Cardinality(S) |-> CHOOSE x \in S : Cardinality({y \in S : Before(y, x)}) = i - 1]
Normalized(ranges, size) ==
    {span \in {<<Max({0, range[1]}), Min({range[2], size - 1})>> : range \in ToSet(ranges)} :
        span[1] <= span[2] /\ span[1] < size}
Join(merged, next) ==
    LET n == Len(merged) IN
    IF n = 0 \/ next[1] > merged[n][2] + 1 THEN Append(merged, next)
    ELSE [merged EXCEPT ![n] = <<merged[n][1], Max({merged[n][2], next[2]})>>]
MergeRanges(ranges, size) ==
    LET spans == Normalized(ranges, size)
        sorted == InOrder(spans)
        merged[i \in 0..Cardinality(spans)] ==
            IF i = 0 THEN <<>> ELSE Join(merged[i - 1], sorted[i]) IN
    merged[Cardinality(spans)]

(* recordHTTPDelivery: what the record of a delivery under another size    *)
(* says is dropped, a completed one is kept.                               *)
Recorded(l, size, ranges) ==
    LET old == IF l.dsize # size THEN [l EXCEPT !.ranges = <<>>, !.done = FALSE] ELSE l
        merged == MergeRanges(old.ranges \o ranges, size)
        complete == size = 0 \/ merged = <<<<0, size - 1>>>> IN
    IF old.done THEN l
    ELSE [old EXCEPT !.dsize = size, !.done = complete, !.ranges = IF complete THEN <<>> ELSE merged]

-----------------------------------------------------------------------------
(* A request through Handler.serveHTTP *)

Ended(r) == [NoReq EXCEPT !.at = "ended"]
Gone(r) == req[r].ctx # "live"
Active == {r \in Requests : req[r].at \notin {"idle", "ended"} /\ req[r].kind # "worker"}
Leases == {r \in Requests : req[r].at \in {"stream", "chunks", "report"} /\ req[r].kind # "file"}

(* Handler.ServeHTTP lets it in unless the handler is closed; the local    *)
(* download of the link (one at a time) starts on its own.                 *)
Arrive(r, kind) ==
    /\ req[r].at = "idle" /\ \A q \in Requests : q < r => req[q].at # "idle"
    /\ kind \in kinds
    /\ IF kind = "worker" THEN \A q \in Requests \ {r} : req[q].kind # "worker" ELSE svc = "up"
    /\ req' = [req EXCEPT ![r].at = "open", ![r].kind = kind]
    /\ UNCHANGED <<storeVars, outside, pools, source, svc, fetch>> /\ Quiet

(* Source.Open, the checks of the request and its ranges.                  *)
Open(r, ask) ==
    LET l == Got
        kind == IF l # NoLink /\ req[r].kind = "get" /\ file = l.size THEN "file" ELSE req[r].kind
        ranges == IF kind = "worker" THEN <<<<0, l.size - 1>>>> ELSE ResponseRanges(ask, l.size) IN
    /\ req[r].at = "open" /\ ask \in Asks
    /\ Stored(l)
    /\ req' = [req EXCEPT ![r] =
          IF l = NoLink \/ kind = "head" \/ ranges = <<>> \/ (kind = "worker" /\ l.size = 0) THEN Ended(r)
          ELSE [@ EXCEPT !.at = IF l.size = 0 THEN "report" ELSE "ready", !.kind = kind,
                         !.size = l.size, !.ref = l.ref, !.active = l.active,
                         !.ranges = IF l.size = 0 THEN <<>> ELSE ranges]]
    /\ UNCHANGED <<now, ttl, outside, pools, source, svc, fetch>> /\ Quiet

(* rangeTransfer.Ready: poolHolder.Wait takes the pool or the channel that *)
(* will be closed when it changes, under one lock; then the scheduler's    *)
(* lease.  A local file needs neither.                                     *)
Ready(r) ==
    /\ req[r].at = "ready"
    /\ \/ /\ req[r].kind \in {"file", "worker"} \/ pool.cur # 0
          /\ req' = [req EXCEPT ![r] = IF Gone(r) THEN Ended(r) ELSE [@ EXCEPT !.at = "stream"]]
          /\ UNCHANGED pool
       \/ /\ req[r].kind = "get" /\ pool.cur = 0
          /\ pool' = [pool EXCEPT !.changed = IF @ = 0 THEN pool.gen ELSE @]
          /\ req' = [req EXCEPT ![r].at = "waiting", ![r].chg = pool'.changed]
    /\ UNCHANGED <<storeVars, outside, conns, source, svc, fetch>> /\ Quiet

Woken(r) ==
    /\ req[r].at = "waiting" /\ req[r].chg # pool.changed
    /\ req' = [req EXCEPT ![r].at = "ready", ![r].chg = 0]
    /\ UNCHANGED <<storeVars, outside, pools, source, svc, fetch>> /\ Quiet

(* client_wait_seconds pass (503), or the client leaves.                   *)
WaitEnds(r) ==
    /\ req[r].at = "waiting"
    /\ req' = [req EXCEPT ![r] = Ended(r)]
    /\ UNCHANGED <<storeVars, outside, pools, source, svc, fetch>> /\ Quiet

(* streamDownloadRanges: after a range the next one, after the last one    *)
(* the report; a local download has its own record.                        *)
NextRange(r) ==
    LET q == req[r] IN
    IF q.k < Len(q.ranges) THEN [q EXCEPT !.at = "stream", !.k = @ + 1]
    ELSE IF q.kind = "worker" THEN Ended(r)
    ELSE [q EXCEPT !.at = "report"]

(* A local file is copied straight to the client.                          *)
Bytes(range) == [i \in 1..Length(range) |-> range[1] + i - 1]
StreamFile(r) ==
    /\ req[r].at = "stream" /\ req[r].kind = "file" /\ ~req[r].stuck
    /\ req' = [req EXCEPT ![r] =
          IF Gone(r) THEN Ended(r)
          ELSE [NextRange(r) EXCEPT !.sent = req[r].sent \o Bytes(req[r].ranges[req[r].k])]]
    /\ UNCHANGED <<storeVars, outside, pools, source, svc, fetch>> /\ Quiet

(* sourceRegistry.Acquire: a shared entry keeps its media, which may be    *)
(* newer than that of the task the request loaded.                         *)
Acquired(r) ==
    IF source.live THEN [source EXCEPT !.refs = @ + 1]
    ELSE [live |-> TRUE, ref |-> req[r].ref, ver |-> 0, refs |-> 1, lock |-> <<>>]
Released == [source EXCEPT !.refs = @ - 1]

(* streamTaskWithMode: take the pool as it is now, share the source.       *)
StartStream(r) ==
    /\ req[r].at = "stream" /\ req[r].kind # "file"
    /\ IF pool.cur = 0
       THEN req' = [req EXCEPT ![r] = Ended(r)] /\ UNCHANGED source
       ELSE /\ req' = [req EXCEPT ![r].at = "chunks", ![r].pool = pool.cur, ![r].job = 1, ![r].next = 1]
            /\ source' = Acquired(r)
    /\ UNCHANGED <<storeVars, outside, pools, svc, fetch>> /\ Quiet

(* rangeTransfer.Report under a context the client cannot cancel; it fails *)
(* when the link is gone.                                                  *)
ReportFinished(r) ==
    /\ req[r].at = "report"
    /\ IF link = NoLink THEN UNCHANGED <<link, credits>>
       ELSE /\ link' = Recorded(link, req[r].size, req[r].ranges)
            /\ credits' = {c \in credits : c[1] = req[r].size}
                          \cup {<<req[r].size, b>> : b \in ToSet(req[r].sent)}
    /\ req' = [req EXCEPT ![r] = Ended(r)]
    /\ UNCHANGED <<now, ttl, outside, pools, source, svc, fetch>> /\ Quiet

-----------------------------------------------------------------------------
(* Fetchers: FetchChunk and fetchTelegramMediaChunk *)

Workers(r) == IF req[r].kind = "worker" THEN Fetchers ELSE {1}
InCall == {c \in Requests \X Fetchers : fetch[c[1]][c[2]].at = "call"}
JobOf(r, f) == Job(req[r].ranges[req[r].k], fetch[r][f].job)

(* The first error cancels the stream; the permit or the refresh lock of   *)
(* the fetcher is given back on the way out.                               *)
FetchFails(r, f) ==
    /\ fetch' = [fetch EXCEPT ![r][f] = NoFetch]
    /\ req' = [req EXCEPT ![r].bad = TRUE]
    /\ source' = IF source.lock = <<r, f>> THEN [source EXCEPT !.lock = <<>>] ELSE source

(* FetchChunk reads the shared media before every attempt after a renewal. *)
FromMedia(r, f, job, media) ==
    [NoFetch EXCEPT !.at = "permit", !.job = job, !.ref = media.ref, !.ver = media.ver]

TakeJob(r, f) ==
    /\ req[r].at = "chunks" /\ ~req[r].bad /\ f \in Workers(r) /\ fetch[r][f].at = "idle"
    /\ req[r].job <= Jobs(req[r].ranges[req[r].k])
    /\ fetch' = [fetch EXCEPT ![r][f] = FromMedia(r, f, req[r].job, source)]
    /\ req' = [req EXCEPT ![r].job = @ + 1]
    /\ UNCHANGED <<storeVars, outside, pools, source, svc>> /\ Quiet

(* TaskLease.AcquireChunk: one permit per upload.getFile; the call leases  *)
(* the current generation of its pool (0: the pool is closed).             *)
Alive(r) == conns.open /\ req[r].pool = conns.of
AcquireChunk(r, f) ==
    /\ fetch[r][f].at = "permit" /\ ~Gone(r) /\ ~req[r].bad /\ Cardinality(InCall) < Lanes
    /\ fetch' = [fetch EXCEPT ![r][f].at = "call", ![r][f].gen = IF Alive(r) THEN conns.cur ELSE 0]
    /\ UNCHANGED <<storeVars, outside, pools, source, svc, req>> /\ Quiet

(* The deferred function of Invoke: the last call of a retired generation  *)
(* closes it; the calls of an earlier pool have generations of their own.  *)
Leased(g, but) == \E c \in InCall \ {but} : Alive(c[1]) /\ fetch[c[1]][c[2]].gen = g
LeaseEnds(r, f) ==
    LET g == fetch[r][f].gen IN
    conns' = IF Alive(r) /\ g \in conns.retired /\ fetch[r][f].at = "call" /\ ~Leased(g, <<r, f>>)
             THEN [conns EXCEPT !.retired = @ \ {g}, !.closing = @ \cup {g}] ELSE conns

(* A cancelled context ends a fetcher wherever it waits.                   *)
Interrupted(r, f) ==
    /\ fetch[r][f].at \in {"permit", "call", "renew", "ask"} \/ (fetch[r][f].at = "data" /\ req[r].bad)
    /\ Gone(r) \/ req[r].bad
    /\ FetchFails(r, f)
    /\ LeaseEnds(r, f) /\ UNCHANGED <<storeVars, outside, pool, svc>> /\ Quiet

(* retryTransient *)
RetryTransient(r, f) ==
    IF fetch[r][f].tries < MaxRetries
    THEN /\ fetch' = [fetch EXCEPT ![r][f].at = "permit", ![r][f].gen = 0, ![r][f].tries = @ + 1]
         /\ UNCHANGED <<req, source>>
    ELSE FetchFails(r, f)

(* The answer of upload.getFile: a connection cut under the call, or the   *)
(* ErrClosed of a closed pool, which is not among the transient errors; a  *)
(* reference that has expired, an empty body, a short one, or the bytes.   *)
CallReturns(r, f) ==
    LET data == Reply(JobOf(r, f)) IN
    /\ fetch[r][f].at = "call" /\ ~Gone(r) /\ ~req[r].bad
    /\ IF ~Alive(r) THEN RetryTransient(r, f) \/ FetchFails(r, f)
       ELSE IF fetch[r][f].ref # remote.ref
       THEN fetch' = [fetch EXCEPT ![r][f].at = "renew", ![r][f].gen = 0] /\ UNCHANGED <<req, source>>
       ELSE IF data = <<>> THEN RetryTransient(r, f)
       ELSE IF Short(data, JobOf(r, f)) THEN FetchFails(r, f)
       ELSE /\ fetch' = [fetch EXCEPT ![r][f] = [@ EXCEPT !.at = "data", !.tries = 0, !.gen = 0,
                                                          !.data = Slice(data, JobOf(r, f))]]
            /\ UNCHANGED <<req, source>>
    /\ LeaseEnds(r, f) /\ UNCHANGED <<storeVars, outside, pool, svc>> /\ Quiet

(* FLOOD_WAIT is waited out and does not count; a time-out counts; any     *)
(* other error ends the stream.                                            *)
CallFails(r, f) ==
    /\ fetch[r][f].at = "call" /\ ~Gone(r) /\ ~req[r].bad
    /\ \/ fetch' = [fetch EXCEPT ![r][f].at = "permit", ![r][f].gen = 0] /\ UNCHANGED <<req, source>>
       \/ RetryTransient(r, f)
       \/ FetchFails(r, f)
    /\ LeaseEnds(r, f) /\ Event("fault") /\ UNCHANGED <<storeVars, outside, pool, svc>>

(* refreshMedia: one at a time, and not again for a reference that was     *)
(* renewed while this fetcher waited for the lock.                         *)
RenewLock(r, f) ==
    /\ fetch[r][f].at = "renew" /\ ~Gone(r) /\ ~req[r].bad /\ source.lock = <<>>
    /\ IF source.ver # fetch[r][f].ver
       THEN fetch' = [fetch EXCEPT ![r][f] = FromMedia(r, f, @.job, source)] /\ UNCHANGED source
       ELSE fetch' = [fetch EXCEPT ![r][f].at = "ask"] /\ source' = [source EXCEPT !.lock = <<r, f>>]
    /\ UNCHANGED <<storeVars, outside, pools, svc, req>> /\ Quiet

(* refreshTaskMedia: ask for the message, then save the task with the new  *)
(* media, then load it again.                                              *)
RenewAsk(r, f) ==
    /\ fetch[r][f].at = "ask" /\ ~Gone(r) /\ ~req[r].bad
    /\ IF pool.cur = 0 THEN FetchFails(r, f)
       ELSE /\ fetch' = [fetch EXCEPT ![r][f].at = "store", ![r][f].ref = remote.ref, ![r][f].size = remote.size]
            /\ UNCHANGED <<req, source>>
    /\ UNCHANGED <<storeVars, outside, pools, svc>> /\ Quiet

(* The message cannot be read, has no media any more, or another one.      *)
RenewFails(r, f) ==
    /\ fetch[r][f].at = "ask" /\ ~Gone(r) /\ ~req[r].bad /\ pool.cur # 0
    /\ FetchFails(r, f)
    /\ Event("fault") /\ UNCHANGED <<storeVars, outside, pools, svc>>

RenewStore(r, f) ==
    /\ fetch[r][f].at = "store"
    /\ link' = Added(fetch[r][f].size, fetch[r][f].ref, req[r].active)
    /\ credits' = IF Swept(link) = NoLink THEN {} ELSE credits
    /\ fetch' = [fetch EXCEPT ![r][f].at = "load"]
    /\ UNCHANGED <<now, ttl, outside, pools, source, svc, req>> /\ Quiet

RenewLoad(r, f) ==
    LET l == Got
        media == [ref |-> l.ref, ver |-> source.ver + 1] IN
    /\ fetch[r][f].at = "load"
    /\ Stored(l)
    /\ IF l = NoLink THEN FetchFails(r, f)
       ELSE /\ source' = [source EXCEPT !.ref = media.ref, !.ver = media.ver, !.lock = <<>>]
            /\ fetch' = [fetch EXCEPT ![r][f] = FromMedia(r, f, @.job, media)]
            /\ UNCHANGED req
    /\ UNCHANGED <<now, ttl, outside, pools, svc>> /\ Quiet

-----------------------------------------------------------------------------
(* The writer: chunks go out in the order of their jobs *)

Dead(r) == req[r].ctx = "left"
Turn(r, f) == fetch[r][f].at = "data" /\ fetch[r][f].job = req[r].next
Write(r, f) ==
    /\ req[r].at = "chunks" /\ ~req[r].bad /\ Turn(r, f) /\ (~req[r].stuck \/ Dead(r))
    /\ IF Dead(r) THEN FetchFails(r, f)
       ELSE /\ req' = [req EXCEPT ![r].sent = @ \o fetch[r][f].data, ![r].next = @ + 1]
            /\ fetch' = [fetch EXCEPT ![r][f] = NoFetch] /\ UNCHANGED source
    /\ UNCHANGED <<storeVars, outside, pools, svc>> /\ Quiet

(* The stream of a range returns when its fetchers have: the source is     *)
(* released, and the request ends on an error or goes on.                  *)
StreamReturns(r) ==
    /\ req[r].at = "chunks" /\ \A f \in Fetchers : fetch[r][f].at = "idle"
    /\ req[r].bad \/ req[r].next > Jobs(req[r].ranges[req[r].k])
    /\ source' = Released
    /\ req' = [req EXCEPT ![r] = IF req[r].bad THEN Ended(r) ELSE NextRange(r)]
    /\ UNCHANGED <<storeVars, outside, pools, svc, fetch>> /\ Quiet

-----------------------------------------------------------------------------
(* The server: downloadProxy.start, Handler.Stop, Controller *)

Cancelled(ctx) == [r \in Requests |-> IF r \in Active /\ req[r].ctx # "left"
                                      THEN [req[r] EXCEPT !.ctx = ctx] ELSE req[r]]

(* The context of the process ends: the listener closes and, through       *)
(* context.AfterFunc, every request of the handler is cancelled.           *)
StopServer ==
    /\ svc = "up" /\ svc' = "shutdown" /\ req' = Cancelled("cancelled")
    /\ Event("stop") /\ UNCHANGED <<storeVars, outside, pools, source, fetch>>

(* server.Shutdown waits for the requests; after 5 seconds server.Close    *)
(* breaks their connections.                                               *)
ShutdownGentle ==
    /\ svc = "shutdown" /\ Active = {} /\ svc' = "draining"
    /\ UNCHANGED <<storeVars, outside, pools, source, req, fetch>> /\ Quiet
Shutdown ==
    /\ svc = "shutdown" /\ svc' = "draining" /\ req' = Cancelled("left")
    /\ UNCHANGED <<storeVars, outside, pools, source, fetch>> /\ Quiet

(* host.Stop waits in Handler.Stop for the requests.                       *)
HandlerStops ==
    /\ svc = "draining" /\ Active = {} /\ svc' = "off"
    /\ UNCHANGED <<storeVars, outside, pools, source, req, fetch>> /\ Quiet

StartServer ==
    /\ svc = "off" /\ svc' = "up"
    /\ Event("stop") /\ UNCHANGED <<storeVars, outside, pools, source, req, fetch>>

-----------------------------------------------------------------------------
(* What happens around it *)

(* poolHolder.Set by the watcher: nil when it disconnects, a new pool when *)
(* it is back; waiters hold the channel it closes.                         *)
SetPoolQuiet(p) ==
    pool' = [cur |-> p, gen |-> pool.gen + 1,
             changed |-> IF pool.changed # 0 /\ p = 0 THEN pool.gen + 1 ELSE pool.changed]
SetPool(p) ==
    pool' = [cur |-> p, gen |-> pool.gen + 1,
             changed |-> IF pool.changed # 0 THEN pool.gen + 1 ELSE 0]
PoolChanges ==
    /\ \/ pool.cur # 0 /\ SetPool(0) /\ Event("pool") /\ UNCHANGED conns
       \/ /\ pool.cur = 0 /\ ~conns.open /\ conns.closing = {}
          /\ SetPool(pool.gen + 1) /\ conns' = NewPool(pool.gen + 1) /\ Quiet
    /\ UNCHANGED <<storeVars, outside, source, svc, req, fetch>>

(* resizablePool.Resize through poolHolder.SetSize: new calls use a new    *)
(* generation, the old one is closed now or by the last call that has it.  *)
Resize ==
    /\ pool.cur # 0 /\ conns.open
    /\ conns' = [conns EXCEPT !.cur = @ + 1,
                              !.retired = IF Leased(conns.cur, <<>>) THEN @ \cup {conns.cur} ELSE @,
                              !.closing = IF Leased(conns.cur, <<>>) THEN @ ELSE @ \cup {conns.cur}]
    /\ Event("capacity") /\ UNCHANGED <<storeVars, outside, pool, source, svc, req, fetch>>

(* A generation is closed outside the lock; the watcher closes the pool    *)
(* after it has withdrawn it, and waits for the closings under way.        *)
CloseGeneration ==
    /\ \E g \in conns.closing : conns' = [conns EXCEPT !.closing = @ \ {g}]
    /\ UNCHANGED <<storeVars, outside, pool, source, svc, req, fetch>> /\ Quiet
ClosePool ==
    /\ pool.cur = 0 /\ conns.open
    /\ conns' = [conns EXCEPT !.open = FALSE, !.retired = {}]
    /\ UNCHANGED <<storeVars, outside, pool, source, svc, req, fetch>> /\ Quiet

(* The client disconnects or stops reading; a local download is paused.    *)
Leaves(r) ==
    /\ req[r].at \notin {"idle", "ended"} /\ req[r].ctx = "live"
    /\ req' = [req EXCEPT ![r].ctx = IF req[r].kind = "worker" THEN "cancelled" ELSE "left"]
    /\ Event("leave") /\ UNCHANGED <<storeVars, outside, pools, source, svc, fetch>>
Stalls(r) ==
    /\ r \in Active /\ ~req[r].stuck
    /\ req' = [req EXCEPT ![r].stuck = TRUE]
    /\ Event("stall") /\ UNCHANGED <<storeVars, outside, pools, source, svc, fetch>>

ReferenceExpires ==
    /\ remote.ref < MaxRefs
    /\ remote' = [remote EXCEPT !.ref = @ + 1]
    /\ Event("expire") /\ UNCHANGED <<storeVars, file, pools, source, svc, req, fetch>>
FileChanges ==
    /\ \E n \in Sizes \ {remote.size} : remote' = [remote EXCEPT !.size = n]
    /\ Event("resize") /\ UNCHANGED <<storeVars, file, pools, source, svc, req, fetch>>
LocalFile ==
    /\ file' = IF file = -1 THEN remote.size ELSE -1
    /\ Event("file") /\ UNCHANGED <<storeVars, remote, pools, source, svc, req, fetch>>

(* Time passes; UpdateConfig changes the TTL; tasks.expire sweeps.         *)
Tick ==
    /\ now' = now + 1
    /\ Event("tick") /\ UNCHANGED <<ttl, link, credits, outside, pools, source, svc, req, fetch>>
UpdateConfig ==
    /\ ttl' = IF ttl = 0 THEN LinkTTL ELSE 0
    /\ Event("ttl") /\ UNCHANGED <<now, link, credits, outside, pools, source, svc, req, fetch>>
CleanupExpired ==
    /\ Swept(link) # link /\ Stored(NoLink)
    /\ UNCHANGED <<now, ttl, outside, pools, source, svc, req, fetch>> /\ Quiet

(* The panel removes the link; a trigger submits the message again.        *)
RemoveLink ==
    /\ link # NoLink /\ Stored(NoLink)
    /\ Event("remove") /\ UNCHANGED <<now, ttl, outside, pools, source, svc, req, fetch>>
NewTask ==
    /\ link' = Added(remote.size, remote.ref, now)
    /\ credits' = IF Swept(link) = NoLink THEN {} ELSE credits
    /\ Event("relink") /\ UNCHANGED <<now, ttl, outside, pools, source, svc, req, fetch>>

(* sources.expire drops the entry of a link nobody streams.                *)
CleanupIdle ==
    /\ "idle" \in kinds /\ source.live /\ source.refs = 0
    /\ source' = NoSource
    /\ UNCHANGED <<storeVars, outside, pools, svc, req, fetch>> /\ Quiet

-----------------------------------------------------------------------------
RequestStep(r) ==
    \/ \E ask \in Asks : Open(r, ask)
    \/ Ready(r) \/ Woken(r) \/ WaitEnds(r) \/ StreamFile(r) \/ StartStream(r)
    \/ ReportFinished(r) \/ StreamReturns(r)
FetchStep(r, f) ==
    \/ TakeJob(r, f) \/ AcquireChunk(r, f) \/ Interrupted(r, f) \/ CallReturns(r, f)
    \/ RenewLock(r, f) \/ RenewAsk(r, f) \/ RenewStore(r, f) \/ RenewLoad(r, f) \/ Write(r, f)
ServerStep == Shutdown \/ HandlerStops \/ CloseGeneration \/ ClosePool

Internal ==
    \/ \E r \in Requests : RequestStep(r) \/ \E f \in Fetchers : FetchStep(r, f)
    \/ ServerStep

Next ==
    \/ Internal
    \/ \E r \in Requests : \/ Leaves(r) \/ Stalls(r)
                           \/ \E kind \in {"get", "head", "worker"} : Arrive(r, kind)
                           \/ \E f \in Fetchers : CallFails(r, f) \/ RenewFails(r, f)
    \/ StopServer \/ StartServer
    \/ PoolChanges \/ Resize \/ ReferenceExpires \/ FileChanges \/ LocalFile
    \/ Tick \/ UpdateConfig \/ CleanupExpired \/ RemoveLink \/ NewTask \/ CleanupIdle

(* The program goes on while it can: a call to Telegram returns within     *)
(* telegramChunkAttemptTimeout.  What happens around it need not.          *)
Spec == Init /\ [][Next]_vars /\ WF_vars(Internal)

-----------------------------------------------------------------------------
(* The bytes of the first i ranges, one range after the other.             *)
Upto(ranges) ==
    LET upto[i \in 0..Len(ranges)] ==
            IF i = 0 THEN <<>> ELSE upto[i - 1] \o Bytes(ranges[i]) IN
    upto

Positions(ranges) == UNION {range[1]..range[2] : range \in ToSet(ranges)}

(* "DeliveredBytes counts the union of completed response ranges ...       *)
(* Completed is true only after that union covers the complete file": the  *)
(* record says what whole responses have sent of a file of this size,      *)
(* neither more (a response that broke off, bytes of another version) nor  *)
(* less (concurrent responses that overwrite one another, a renewal of the *)
(* media between them), and it is completed when nothing is missing.       *)
Delivered(size) == {c[2] : c \in {d \in credits : d[1] = size}}
DeliveryExact ==
    link # NoLink =>
        /\ Delivered(link.dsize) = IF link.done THEN 0..(link.dsize - 1) ELSE Positions(link.ranges)
        /\ link.dsize > 0 => (link.done <=> Delivered(link.dsize) = 0..(link.dsize - 1))

(* A client gets the bytes of the ranges it was promised, each once and in *)
(* their order, whatever was retried, renewed or fetched in parallel, and  *)
(* a response is reported as delivered only when all of them were written. *)
StreamExact ==
    \A r \in Requests :
        LET promised == Upto(req[r].ranges)[Len(req[r].ranges)] IN
        /\ IsPrefix(req[r].sent, promised)
        /\ req[r].at = "report" => req[r].sent = promised

(* Nothing outlives its request: the source counts the streams that use    *)
(* it, its refresh lock has a holder, and fetchers run in a stream.  "Each *)
(* in-flight RPC leases its old generation": no connection is closed under *)
(* a call, and "retired generations close only after their last RPC": a    *)
(* retired one still has a call that will close it.                        *)
NothingLeaks ==
    /\ source.refs = Cardinality({r \in Requests : req[r].at = "chunks"})
    /\ source.lock # <<>> => fetch[source.lock[1]][source.lock[2]].at \in {"ask", "store", "load"}
    /\ \A r \in Requests, f \in Fetchers :
          fetch[r][f].at # "idle" => req[r].at = "chunks" /\ source.live
    /\ \A c \in InCall : Alive(c[1]) => fetch[c[1]][c[2]].gen \in conns.retired \cup {conns.cur}
    /\ \A g \in conns.retired : Leased(g, <<>>)

(* "waiting for the watch connection to publish one": a request waits on   *)
(* the current channel only while there is no pool.                        *)
NoLostWakeup ==
    \A r \in Requests : req[r].at = "waiting" /\ req[r].chg = pool.changed => pool.cur = 0

(* Every request comes to its end while its client reads, and the service  *)
(* stops although clients do not: no permit, refresh lock, wake-up or      *)
(* connection is left that somebody waits for, and old generations of the  *)
(* pool are closed.                                                        *)
AllSettles ==
    <>[](/\ svc \in {"up", "off"}
         /\ conns.retired = {} /\ conns.closing = {}
         /\ \A r \in Requests : req[r].at \in {"idle", "ended"}
                                \/ (req[r].stuck /\ svc = "up" /\ ~Dead(r)))

(* A client gets what it was promised, and the record of what was          *)
(* delivered says exactly that.                                            *)
BytesExact == StreamExact /\ DeliveryExact

(* Leases, locks and wake-ups have an owner that will give them back.      *)
NothingStranded == NothingLeaks /\ NoLostWakeup

=============================================================================
